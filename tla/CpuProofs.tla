------------------------------ MODULE CpuProofs -----------------------------
(***************************************************************************)
(* The parts of the processor, each for every value of its constants.      *)
(***************************************************************************)
EXTENDS CpuParts, FiniteSets, SequenceTheorems, WellFoundedInduction, TLAPS

-----------------------------------------------------------------------------
(* Tasks: any number of them. *)
TasksSpec == Task!Init /\ [][Task!Next]_Task!taskVars

(* The segment that the guest begins with is one, and a link that is not    *)
(* set is none.                                                             *)
TasksAssumed == First \in Tasks /\ Nobody \notin Tasks /\ TaskWord \in Nat \ {0}

Count == 0 .. TaskWord - 1
Segment == [link : Tasks \cup {Nobody}, busy : BOOLEAN, regs : Count, sel : Count, ip : Count,
            nt : BOOLEAN]

TasksTyped ==
  /\ tr \in Tasks /\ nt \in BOOLEAN /\ ts \in BOOLEAN
  /\ regs \in Count /\ tip \in Count /\ segs \in [sel : Count, table : Tasks]
  /\ ldt \in Tasks /\ space \in Tasks
  /\ tss \in [Tasks -> Segment]
  /\ x87 \in [owner : Tasks, value : Count]
  /\ areas \in [Tasks -> Count] /\ work \in [Tasks -> Count] /\ fwork \in [Tasks -> Count]

(* What is saved of the tasks that do not run. *)
Saved ==
  /\ \A t \in Tasks \ {tr} : tss[t].regs = work[t] /\ tss[t].sel = work[t] /\ tss[t].ip = work[t]
  /\ \A t \in Tasks \ {x87.owner} : areas[t] = fwork[t]
  /\ x87.value = fwork[x87.owner]
  /\ ~ts => x87.owner = tr

(* Who is called is marked, and no two link to the same caller and none to  *)
(* the current task, except that several may link to the first task, which  *)
(* was not marked when it called.                                           *)
Links ==
  /\ \A t \in Tasks : Task!Nested(t) => tss[t].busy
  /\ \A t \in Tasks : Task!Nested(t) => tss[t].link \in Tasks
  /\ \A t \in Tasks : Task!Nested(t) /\ tss[t].link = tr => tr = First
  /\ \A t, u \in Tasks : Task!Nested(t) /\ Task!Nested(u) /\ tss[t].link = tss[u].link
                          /\ tss[t].link # First => t = u

TasksInv == TasksTyped /\ Saved /\ Links /\ Task!TasksKept

LEMMA TasksStart == TasksAssumed /\ Task!Init => TasksInv
<1> SUFFICES ASSUME TasksAssumed, Task!Init PROVE TasksInv  OBVIOUS
<1>0. TaskWord \in Nat /\ 0 \in Count  BY DEF TasksAssumed, Count
<1>1. TasksTyped  BY <1>0 DEF TasksAssumed, Task!Init, TasksTyped, Segment
<1>2. Saved /\ Task!Resumes /\ Task!X87IsMine
  BY DEF TasksAssumed, Task!Init, Saved, Task!Resumes, Task!X87IsMine
<1>3. Links  BY DEF TasksAssumed, Task!Init, Links, Task!Nested
<1>4. Task!BusyIsChain
  <2>1. {t \in Tasks : tss[t].busy} = {}  BY DEF TasksAssumed, Task!Init
  <2>2. Task!ClosedUnderLinks({First}) /\ {First} \in SUBSET (Tasks \cup {Nobody})
    BY DEF TasksAssumed, Task!Init, Task!ClosedUnderLinks, Task!Nested
  <2>3. Task!Chain = {First}
    BY <2>2 DEF TasksAssumed, Task!Init, Task!Chain, Task!ClosedUnderLinks
  <2> QED  BY <2>1, <2>3 DEF Task!BusyIsChain
<1> QED  BY <1>1, <1>2, <1>3, <1>4 DEF TasksInv, Task!TasksKept

(* A switch saves the task that is left and loads the one entered.          *)
Switched(t, how) ==
  /\ TasksTyped' /\ Saved' /\ Task!Resumes' /\ Task!X87IsMine'
  /\ tr' = t
  /\ nt' = (IF how = "CALL" THEN TRUE ELSE tss'[t].nt)
  /\ \A u \in Tasks :
       /\ tss'[u].busy = (IF u = t /\ how # "IRET" THEN TRUE
                          ELSE IF u = tr /\ how # "CALL" THEN FALSE ELSE tss[u].busy)
       /\ tss'[u].nt = (IF u = tr THEN (IF how = "IRET" THEN FALSE ELSE nt) ELSE tss[u].nt)
       /\ tss'[u].link = (IF u = t /\ how = "CALL" THEN tr ELSE tss[u].link)

LEMMA SwitchEffect ==
  ASSUME TasksInv, NEW t \in Tasks, NEW how \in {"JMP", "CALL", "IRET"},
         Task!task_switch(t, how), TasksAssumed
  PROVE  Switched(t, how)
<1> USE DEF TasksInv
<1>0. /\ tr \in Tasks /\ t \in Tasks
      /\ tss \in [Tasks -> Segment] /\ Task!Resumes
  BY DEF TasksTyped, Task!TasksKept
<1> DEFINE S == Task!Save(how)
           n == IF how = "IRET" THEN FALSE ELSE nt
           f == IF how = "CALL" THEN tss[tr].busy ELSE FALSE
<1>1. n \in BOOLEAN /\ f \in BOOLEAN /\ regs \in Count /\ segs.sel \in Count /\ tip \in Count
  BY <1>0 DEF TasksTyped, Segment
<1>2. /\ S \in Segment
      /\ S.regs = regs /\ S.sel = segs.sel /\ S.ip = tip /\ S.nt = n /\ S.busy = f
      /\ S.link = tss[tr].link
  <2>1. S = [tss[tr] EXCEPT !.regs = regs, !.sel = segs.sel, !.ip = tip, !.nt = n, !.busy = f]
    BY <1>0 DEF Task!Save, Segment
  <2> DEFINE e == tss[tr]
             sel == segs.sel
  <2>2. e \in Segment /\ sel \in Count  BY <1>0, <1>1
  <2>3. S = [e EXCEPT !.regs = regs, !.sel = sel, !.ip = tip, !.nt = n, !.busy = f]
    BY <2>1
  <2> HIDE DEF S, n, f, e, sel
  <2>4. /\ S \in Segment
        /\ S.regs = regs /\ S.sel = sel /\ S.ip = tip /\ S.nt = n /\ S.busy = f
        /\ S.link = e.link
    BY <1>1, <2>2, <2>3 DEF Segment
  <2> QED  BY <2>4 DEF e, sel
<1>3. tss' = [[tss EXCEPT ![tr] = S] EXCEPT
                ![t].busy = IF how = "IRET" THEN @ ELSE TRUE,
                ![t].link = IF how = "CALL" THEN tr ELSE @]
  <2>1. tss' = Task!Linked(t, how)  BY DEF Task!task_switch
  <2> HIDE DEF TasksInv, n, f
  <2> QED  BY <2>1, Zenon DEF Task!Linked
<1> DEFINE one == [tss EXCEPT ![tr] = S]
<1>4. one \in [Tasks -> Segment] /\ one[tr] = S /\ \A u \in Tasks \ {tr} : one[u] = tss[u]
  <2> HIDE DEF S
  <2> QED  BY <1>0, <1>2
<1>5. /\ tss' \in [Tasks -> Segment]
      /\ tss'[t].regs = one[t].regs /\ tss'[t].sel = one[t].sel /\ tss'[t].ip = one[t].ip
      /\ tss'[t].nt = one[t].nt
      /\ tss'[t].busy = (IF how = "IRET" THEN one[t].busy ELSE TRUE)
      /\ tss'[t].link = (IF how = "CALL" THEN tr ELSE one[t].link)
      /\ \A u \in Tasks \ {t} : tss'[u] = one[u]
  <2> DEFINE e == one[t]
             b == IF how = "IRET" THEN e.busy ELSE TRUE
             l == IF how = "CALL" THEN tr ELSE e.link
             d == [e EXCEPT !.busy = b, !.link = l]
  <2>1. tss' = [one EXCEPT ![t] = d]
    <3> HIDE DEF S
    <3> QED  BY <1>0, <1>3, <1>4
  <2> HIDE DEF one
  <2>2. e \in Segment  BY <1>4
  <2>3. b \in BOOLEAN /\ l \in Tasks \cup {Nobody}  BY <1>0, <2>2 DEF Segment
  <2> HIDE DEF b, l, e
  <2>4. /\ d \in Segment /\ d.busy = b /\ d.link = l
        /\ d.regs = e.regs /\ d.sel = e.sel /\ d.ip = e.ip /\ d.nt = e.nt
    BY <2>2, <2>3 DEF Segment
  <2> HIDE DEF d
  <2>5. tss' \in [Tasks -> Segment] /\ tss'[t] = d /\ \A u \in Tasks \ {t} : tss'[u] = one[u]
    BY <1>0, <1>4, <2>1, <2>4
  <2> QED  BY <2>4, <2>5 DEF b, l, e
<1> HIDE DEF S, one
<1>6. /\ tr' = t /\ ts' = TRUE /\ ldt' = t /\ space' = t
      /\ segs' = [sel |-> tss'[t].sel, table |-> t]
      /\ regs' = tss'[t].regs /\ tip' = tss'[t].ip
      /\ nt' = (IF how = "CALL" THEN TRUE ELSE tss'[t].nt)
      /\ UNCHANGED <<x87, areas, work, fwork>>
  BY DEF Task!task_switch, Task!SetTS, Task!Loaded
<1>7. tss'[t] \in Segment  BY <1>0, <1>5
<1>8. TasksTyped'
  <2>1. nt' \in BOOLEAN  BY <1>6, <1>7 DEF Segment
  <2> QED  BY <2>1, <1>5, <1>6, <1>7 DEF TasksTyped, Segment
<1>9. \A u \in Tasks : one[u].regs = work[u] /\ one[u].sel = work[u] /\ one[u].ip = work[u]
  <2>1. regs = work[tr] /\ segs.sel = work[tr] /\ tip = work[tr]
    BY <1>0 DEF Task!Resumes
  <2> QED  BY <2>1, <1>2, <1>4 DEF Saved
<1>10. \A u \in Tasks : tss'[u].regs = work[u] /\ tss'[u].sel = work[u] /\ tss'[u].ip = work[u]
  BY <1>5, <1>9
<1>11. Task!Resumes' /\ Task!X87IsMine'
  BY <1>0, <1>6, <1>10 DEF Task!Resumes, Task!X87IsMine
<1>12. Saved'
  BY <1>6, <1>10 DEF Saved
<1>13. ASSUME NEW u \in Tasks
       PROVE /\ tss'[u].busy = (IF u = t /\ how # "IRET" THEN TRUE
                                ELSE IF u = tr /\ how # "CALL" THEN FALSE ELSE tss[u].busy)
             /\ tss'[u].nt = (IF u = tr THEN (IF how = "IRET" THEN FALSE ELSE nt) ELSE tss[u].nt)
             /\ tss'[u].link = (IF u = t /\ how = "CALL" THEN tr ELSE tss[u].link)
  <2>1. one[u].busy = (IF u = tr THEN f ELSE tss[u].busy)  BY <1>2, <1>4
  <2>2. one[u].nt = (IF u = tr THEN n ELSE tss[u].nt)  BY <1>2, <1>4
  <2>3. one[u].link = tss[u].link  BY <1>2, <1>4
  <2>4. /\ tss'[u].busy = (IF u = t /\ how # "IRET" THEN TRUE ELSE one[u].busy)
        /\ tss'[u].nt = one[u].nt
        /\ tss'[u].link = (IF u = t /\ how = "CALL" THEN tr ELSE one[u].link)
    BY <1>5
  <2> QED  BY <2>1, <2>2, <2>3, <2>4
<1> QED  BY <1>6, <1>8, <1>11, <1>12, <1>13 DEF Switched

(* The tasks of the chain stay in it when the links are followed; those     *)
(* marked are in it, and those in it marked, up to the first.               *)
LEMMA ChainClosed ==
  ASSUME TasksInv, TasksAssumed
  PROVE  /\ tr \in Task!Chain /\ Task!Chain \subseteq Tasks
         /\ \A u \in Tasks : Task!Nested(u) => u \in Task!Chain
         /\ \A u \in Task!Chain : Task!Nested(u) => tss[u].link \in Task!Chain
<1>1. tr \in Task!Chain
  BY DEF TasksInv, TasksTyped, Task!Chain, Task!ClosedUnderLinks
<1>2. Task!Chain \subseteq Tasks
  BY DEF TasksAssumed, TasksInv, Task!TasksKept, Task!BusyIsChain
<1>3. \A u \in Tasks : Task!Nested(u) => u \in Task!Chain
  BY DEF TasksInv, Links, Task!TasksKept, Task!BusyIsChain
<1>4. ASSUME NEW u \in Task!Chain, Task!Nested(u) PROVE tss[u].link \in Task!Chain
  <2>1. u \in Tasks /\ tss[u].link \in Tasks  BY <1>2, <1>4 DEF TasksInv, Links
  <2>2. \A S \in SUBSET (Tasks \cup {Nobody}) : Task!ClosedUnderLinks(S) => tss[u].link \in S
    BY <2>1, <1>4 DEF Task!Chain, Task!ClosedUnderLinks
  <2> QED  BY <2>1, <2>2 DEF Task!Chain
<1> QED  BY <1>1, <1>2, <1>3, <1>4

(* A set is the chain when it is closed and any closed set has its members. *)
LEMMA ChainIs ==
  ASSUME NEW C, C \subseteq Tasks, Task!ClosedUnderLinks(C)',
         \A S \in SUBSET (Tasks \cup {Nobody}) : Task!ClosedUnderLinks(S)' => C \subseteq S
  PROVE  Task!Chain' = C
<1>1. Task!Chain' = {u \in Tasks \cup {Nobody} :
                       \A S \in SUBSET (Tasks \cup {Nobody}) : Task!ClosedUnderLinks(S)' => u \in S}
  BY DEF Task!Chain
<1> QED  BY <1>1

(* What a jump may leave is called by none, and is the whole chain.         *)
LEMMA JumpLinks ==
  ASSUME TasksInv, NEW t \in Tasks, Task!JmpTask(t), TasksAssumed
  PROVE  TasksInv'
<1>1. ~nt /\ ~tss[t].busy /\ Task!task_switch(t, "JMP")  BY DEF Task!JmpTask
<1>2. tr \in Tasks /\ Nobody \notin Tasks /\ nt \in BOOLEAN /\ tss \in [Tasks -> Segment]
  BY DEF TasksInv, TasksTyped, TasksAssumed
<1>3. {u \in Tasks : tss[u].busy} \subseteq {tr}
  <2>1. Task!ClosedUnderLinks({tr})  BY <1>1 DEF Task!ClosedUnderLinks, Task!Nested
  <2>2. Task!Chain = {tr}
    BY <2>1, <1>2 DEF Task!Chain, Task!ClosedUnderLinks
  <2> QED  BY <2>2 DEF TasksInv, Task!TasksKept, Task!BusyIsChain
<1>4. Switched(t, "JMP")  BY <1>1, SwitchEffect
<1>5. /\ TasksTyped' /\ Saved' /\ Task!Resumes' /\ Task!X87IsMine'
      /\ tr' = t /\ nt' = tss'[t].nt
      /\ \A u \in Tasks :
              /\ tss'[u].busy = (IF u = t THEN TRUE ELSE IF u = tr THEN FALSE ELSE tss[u].busy)
              /\ tss'[u].nt = (IF u = tr THEN nt ELSE tss[u].nt)
  BY <1>4 DEF Switched
<1>6. \A u \in Tasks : ~Task!Nested(u)
  BY <1>1, <1>3 DEF TasksInv, Links, Task!Nested
<1>7. \A u \in Tasks : ~tss'[u].nt
  BY <1>1, <1>5, <1>6 DEF Task!Nested
<1>8. \A u \in Tasks : ~Task!Nested(u)'
  BY <1>5, <1>7 DEF Task!Nested
<1>9. {u \in Tasks : tss'[u].busy} = {t}  BY <1>2, <1>3, <1>5
<1>10. Task!Chain' = {t}
  <2>1. Task!ClosedUnderLinks({t})'
    BY <1>5, <1>8 DEF Task!ClosedUnderLinks
  <2>2. \A S \in SUBSET (Tasks \cup {Nobody}) : Task!ClosedUnderLinks(S)' => {t} \subseteq S
    BY <1>5 DEF Task!ClosedUnderLinks
  <2> QED  BY <2>1, <2>2, ChainIs
<1>11. Links'  BY <1>8 DEF Links
<1>12. Task!BusyIsChain'  BY <1>9, <1>10 DEF Task!BusyIsChain
<1> QED  BY <1>5, <1>11, <1>12 DEF TasksInv, Task!TasksKept

(* A call puts the new task at the head of the chain, or brings the first   *)
(* task, unmarked at its end, back to the head.                             *)
LEMMA CallLinks ==
  ASSUME TasksInv, NEW t \in Tasks, Task!CallTask(t), TasksAssumed
  PROVE  TasksInv'
<1> PICK C : C = Task!Chain  OBVIOUS
<1>1. ~tss[t].busy /\ Task!task_switch(t, "CALL")  BY DEF Task!CallTask
<1>2. tr \in Tasks /\ Nobody \notin Tasks /\ nt \in BOOLEAN /\ tss \in [Tasks -> Segment]
  BY DEF TasksInv, TasksTyped, TasksAssumed
<1>3. /\ tr \in C /\ C \subseteq Tasks
      /\ \A u \in Tasks : Task!Nested(u) => u \in C
      /\ \A u \in C : Task!Nested(u) => tss[u].link \in C
  BY ChainClosed
<1>4. ~Task!Nested(t)  BY <1>1 DEF TasksInv, Links
<1>5. t \in C => t = First
  BY <1>1, <1>3 DEF TasksInv, Task!TasksKept, Task!BusyIsChain
<1>6. Switched(t, "CALL")  BY <1>1, SwitchEffect
<1>7. /\ TasksTyped' /\ Saved' /\ Task!Resumes' /\ Task!X87IsMine'
      /\ tr' = t /\ nt' = TRUE
      /\ \A u \in Tasks :
              /\ tss'[u].busy = (IF u = t THEN TRUE ELSE tss[u].busy)
              /\ tss'[u].nt = (IF u = tr THEN nt ELSE tss[u].nt)
              /\ tss'[u].link = (IF u = t THEN tr ELSE tss[u].link)
  BY <1>6 DEF Switched
<1>8. /\ \A u \in Tasks \ {t} : (Task!Nested(u)' <=> Task!Nested(u)) /\ tss'[u].link = tss[u].link
      /\ Task!Nested(t)' /\ tss'[t].link = tr
  BY <1>2, <1>7 DEF Task!Nested
<1>9. Task!Chain' = C \cup {t}
  <2>1. Task!ClosedUnderLinks(C \cup {t})'
    BY <1>3, <1>7, <1>8 DEF Task!ClosedUnderLinks
  <2>2. ASSUME NEW S \in SUBSET (Tasks \cup {Nobody}), Task!ClosedUnderLinks(S)'
        PROVE  C \cup {t} \subseteq S
    <3>1. t \in S /\ tr \in S  BY <2>2, <1>7, <1>8 DEF Task!ClosedUnderLinks
    <3>2. Task!ClosedUnderLinks(S \cap C)
      BY <2>2, <3>1, <1>3, <1>4, <1>8 DEF Task!ClosedUnderLinks
    <3>3. S \cap C \in SUBSET (Tasks \cup {Nobody})  BY <2>2
    <3>4. Task!Chain \subseteq S \cap C  BY <3>2, <3>3 DEF Task!Chain
    <3> QED  BY <3>1, <3>4
  <2> QED  BY <2>1, <2>2, <1>3, ChainIs
<1>10. Links'
  <2>1. \A u \in Tasks : Task!Nested(u)' => tss'[u].busy /\ tss'[u].link \in Tasks
    BY <1>2, <1>7, <1>8 DEF TasksInv, Links
  <2>2. \A u \in Tasks : Task!Nested(u)' /\ tss'[u].link = tr' => tr' = First
    BY <1>3, <1>5, <1>7, <1>8
  <2>3. ASSUME NEW u \in Tasks, NEW v \in Tasks, Task!Nested(u)', Task!Nested(v)',
               tss'[u].link = tss'[v].link, tss'[u].link # First
        PROVE  u = v
    BY <2>3, <1>8 DEF TasksInv, Links
  <2> QED  BY <2>1, <2>2, <2>3 DEF Links
<1>11. Task!BusyIsChain'
  <2>1. {u \in Tasks : tss'[u].busy} = {u \in Tasks : tss[u].busy} \cup {t}  BY <1>7
  <2> QED  BY <2>1, <1>9 DEF TasksInv, Task!TasksKept, Task!BusyIsChain
<1> QED  BY <1>7, <1>10, <1>11 DEF TasksInv, Task!TasksKept

(* A return takes the head away, unless it is the first task and waits at   *)
(* the end as well.                                                         *)
LEMMA ReturnLinks ==
  ASSUME TasksInv, Task!IretNested, TasksAssumed
  PROVE  TasksInv'
<1> PICK C : C = Task!Chain  OBVIOUS
<1>0. PICK t : t = tss[tr].link  OBVIOUS
<1> PICK from : from = tr  OBVIOUS
<1>1. nt /\ Task!task_switch(t, "IRET")  BY <1>0 DEF Task!IretNested
<1>2. tr \in Tasks /\ Nobody \notin Tasks /\ nt \in BOOLEAN /\ tss \in [Tasks -> Segment]
  BY DEF TasksInv, TasksTyped, TasksAssumed
<1>3. /\ tr \in C /\ C \subseteq Tasks
      /\ \A u \in Tasks : Task!Nested(u) => u \in C
      /\ \A u \in C : Task!Nested(u) => tss[u].link \in C
  BY ChainClosed
<1>4. Task!Nested(from) /\ t \in C /\ t \in Tasks
  <2>1. Task!Nested(tr)  BY <1>1 DEF Task!Nested
  <2> QED  BY <2>1, <1>0, <1>3
<1>5. Switched(t, "IRET")  BY <1>1, <1>4, SwitchEffect
<1>6. /\ TasksTyped' /\ Saved' /\ Task!Resumes' /\ Task!X87IsMine'
      /\ tr' = t /\ nt' = tss'[t].nt
      /\ \A u \in Tasks :
              /\ tss'[u].busy = (IF u = from THEN FALSE ELSE tss[u].busy)
              /\ tss'[u].nt = (IF u = from THEN FALSE ELSE tss[u].nt)
              /\ tss'[u].link = tss[u].link
  BY <1>5 DEF Switched
<1>7. /\ \A u \in Tasks \ {from} : (Task!Nested(u)' <=> Task!Nested(u)) /\ tss'[u].link = tss[u].link
      /\ ~Task!Nested(from)'
  BY <1>2, <1>4, <1>6 DEF Task!Nested
<1>8. Links'
  <2>1. \A u \in Tasks : Task!Nested(u)' => tss'[u].busy /\ tss'[u].link \in Tasks
    BY <1>6, <1>7 DEF TasksInv, Links
  <2>2. ASSUME NEW u \in Tasks, Task!Nested(u)', tss'[u].link = tr' PROVE tr' = First
    <3>1. u # from /\ Task!Nested(u) /\ tss[u].link = t  BY <2>2, <1>6, <1>7
    <3> QED  BY <3>1, <1>0, <1>2, <1>4, <1>6 DEF TasksInv, Links
  <2>3. ASSUME NEW u \in Tasks, NEW v \in Tasks, Task!Nested(u)', Task!Nested(v)',
               tss'[u].link = tss'[v].link, tss'[u].link # First
        PROVE  u = v
    BY <2>3, <1>7 DEF TasksInv, Links
  <2> QED  BY <2>1, <2>2, <2>3 DEF Links
<1>9. ASSUME NEW S \in SUBSET (Tasks \cup {Nobody}), Task!ClosedUnderLinks(S)'
      PROVE  t \in S /\ C \subseteq S \cup {from}
  <2>1. t \in S  BY <1>9, <1>6 DEF Task!ClosedUnderLinks
  <2>2. Task!ClosedUnderLinks(S \cup {from})
    BY <1>9, <2>1, <1>0, <1>2, <1>7 DEF Task!ClosedUnderLinks
  <2>3. S \cup {from} \in SUBSET (Tasks \cup {Nobody})  BY <1>9, <1>2
  <2> QED  BY <2>1, <2>2, <2>3 DEF Task!Chain
<1>10. {u \in Tasks : tss'[u].busy} = {u \in Tasks : tss[u].busy} \ {from}  BY <1>6
<1>11. CASE \E w \in Tasks : Task!Nested(w) /\ tss[w].link = from
  <2>1. PICK w \in Tasks : Task!Nested(w) /\ tss[w].link = from  BY <1>11
  <2>2. from = First  BY <2>1 DEF TasksInv, Links
  <2>3. Task!Chain' = C
    <3>1. Task!ClosedUnderLinks(C)'
      BY <1>3, <1>4, <1>6, <1>7 DEF Task!ClosedUnderLinks
    <3>2. ASSUME NEW S \in SUBSET (Tasks \cup {Nobody}), Task!ClosedUnderLinks(S)'
          PROVE  C \subseteq S
      <4>1. t \in S /\ C \subseteq S \cup {from}  BY <3>2, <1>9
      <4>2. CASE w = from  BY <4>1, <4>2, <2>1, <1>0
      <4>3. CASE w # from
        <5>1. w \in S /\ Task!Nested(w)' /\ tss'[w].link = from
          BY <4>1, <4>3, <2>1, <1>3, <1>7
        <5> QED  BY <5>1, <3>2, <4>1, <2>1 DEF Task!ClosedUnderLinks
      <4> QED  BY <4>2, <4>3
    <3> QED  BY <3>1, <3>2, <1>3, ChainIs
  <2>4. Task!BusyIsChain'
    BY <2>2, <2>3, <1>10 DEF TasksInv, Task!TasksKept, Task!BusyIsChain
  <2> QED  BY <2>4, <1>6, <1>8 DEF TasksInv, Task!TasksKept
<1>12. CASE ~ \E w \in Tasks : Task!Nested(w) /\ tss[w].link = from
  <2>1. t # from  BY <1>12, <1>0, <1>2, <1>4
  <2>2. Task!Chain' = C \ {from}
    <3>1. Task!ClosedUnderLinks(C \ {from})'
      BY <2>1, <1>3, <1>4, <1>6, <1>7, <1>12 DEF Task!ClosedUnderLinks
    <3>2. \A S \in SUBSET (Tasks \cup {Nobody}) :
            Task!ClosedUnderLinks(S)' => C \ {from} \subseteq S
      BY <1>9
    <3> QED  BY <3>1, <3>2, <1>3, ChainIs
  <2>3. Task!BusyIsChain'
    BY <2>2, <1>10 DEF TasksInv, Task!TasksKept, Task!BusyIsChain
  <2> QED  BY <2>3, <1>6, <1>8 DEF TasksInv, Task!TasksKept
<1> QED  BY <1>11, <1>12

(* A task's own work. *)
LEMMA OwnWork ==
  ASSUME TasksInv, Task!Work \/ Task!ESC \/ Task!NotAvailable, TasksAssumed
  PROVE  TasksInv'
<1>0. TaskWord \in Nat \ {0} /\ \A n \in Count : (n + 1) % TaskWord \in Count
  BY DEF TasksAssumed, Count
<1>1. UNCHANGED <<tss, tr, nt, ldt, space>>
  BY DEF Task!Work, Task!ESC, Task!NotAvailable
<1>2. Links' /\ Task!BusyIsChain'
  <2>1. \A u : Task!Nested(u)' <=> Task!Nested(u)  BY <1>1 DEF Task!Nested
  <2>2. \A S : Task!ClosedUnderLinks(S)' <=> Task!ClosedUnderLinks(S)
    BY <1>1 DEF Task!ClosedUnderLinks, Task!Nested
  <2>3. Task!Chain' = Task!Chain  BY <2>2 DEF Task!Chain
  <2>4. Links'  BY <1>1, <2>1 DEF TasksInv, Links
  <2> QED  BY <1>1, <2>3, <2>4 DEF TasksInv, Task!TasksKept, Task!BusyIsChain
<1>3. CASE Task!Work
  <2>1. TasksTyped'  BY <1>0, <1>3 DEF TasksInv, TasksTyped, Task!Work
  <2>2. Saved' /\ Task!Resumes' /\ Task!X87IsMine'
    BY <1>3 DEF TasksInv, TasksTyped, Task!TasksKept, Task!Work, Saved, Task!Resumes, Task!X87IsMine
  <2> QED  BY <1>2, <2>1, <2>2 DEF TasksInv, Task!TasksKept
<1>4. CASE Task!ESC
  <2>1. TasksTyped'  BY <1>0, <1>4 DEF TasksInv, TasksTyped, Task!ESC
  <2>2. Saved' /\ Task!Resumes' /\ Task!X87IsMine'
    BY <1>4 DEF TasksInv, TasksTyped, Task!TasksKept, Task!ESC, Saved, Task!Resumes, Task!X87IsMine
  <2> QED  BY <1>2, <2>1, <2>2 DEF TasksInv, Task!TasksKept
<1>5. CASE Task!NotAvailable
  <2>1. TasksTyped'  BY <1>0, <1>5 DEF TasksInv, TasksTyped, Task!NotAvailable
  <2>2. Saved' /\ Task!Resumes' /\ Task!X87IsMine'
    BY <1>5 DEF TasksInv, TasksTyped, Task!TasksKept, Task!NotAvailable, Saved, Task!Resumes, Task!X87IsMine
  <2> QED  BY <1>2, <2>1, <2>2 DEF TasksInv, Task!TasksKept
<1> QED  BY <1>3, <1>4, <1>5

LEMMA TasksStep == TasksAssumed /\ TasksInv /\ [Task!Next]_Task!taskVars => TasksInv'
<1> SUFFICES ASSUME TasksAssumed, TasksInv, [Task!Next]_Task!taskVars PROVE TasksInv'  OBVIOUS
<1>1. CASE \E t \in Tasks : Task!JmpTask(t) \/ Task!InterruptTask(t)
  BY <1>1, JumpLinks, CallLinks DEF Task!InterruptTask
<1>2. CASE Task!IretNested  BY <1>2, ReturnLinks
<1>3. CASE Task!Work \/ Task!ESC \/ Task!NotAvailable  BY <1>3, OwnWork
<1>4. CASE UNCHANGED Task!taskVars
  <2>1. \A S : Task!ClosedUnderLinks(S)' <=> Task!ClosedUnderLinks(S)
    BY <1>4 DEF Task!ClosedUnderLinks, Task!Nested, Task!taskVars
  <2>2. Task!Chain' = Task!Chain  BY <2>1 DEF Task!Chain
  <2> QED  BY <1>4, <2>2 DEF Task!taskVars, TasksInv, TasksTyped, Saved, Links, Task!TasksKept,
             Task!TasksKept, Task!BusyIsChain, Task!Resumes, Task!X87IsMine, Task!Nested
<1> QED  BY <1>1, <1>2, <1>3, <1>4 DEF Task!Next

(* For any number of tasks and any order of jumps, calls, interrupts and    *)
(* returns (task_switch): a task resumes with its own registers, x87        *)
(* registers, descriptor table and page directory, and the current task and *)
(* those that wait for it are marked busy, and no others; only the task     *)
(* that LTR made current may be among them without the mark.                *)
THEOREM TasksSwitched == TasksAssumed => (TasksSpec => []TasksKept)
<1> SUFFICES ASSUME TasksAssumed PROVE TasksSpec => []TasksKept  OBVIOUS
<1>1. Task!Init => TasksInv  BY TasksStart
<1>2. TasksInv /\ [Task!Next]_Task!taskVars => TasksInv'  BY TasksStep
<1>3. TasksInv => TasksKept  BY DEF TasksInv, TasksKept
<1> QED  BY <1>1, <1>2, <1>3, PTL DEF TasksSpec

-----------------------------------------------------------------------------
(* Interrupts: any lines, any guest and any number of instructions a step.  *)
InterruptsSpec == Irq!IrqInit /\ [][Irq!IrqNext]_Irq!irqVars

(* What is owed is a request of the controllers that the flag lets through; *)
(* while one more instruction is to go first, the step ends with it.        *)
WindowsInv ==
  /\ Irq!WindowsServed
  /\ left \in Nat /\ (phase = "run" => left # 0)
  /\ iflag \in BOOLEAN /\ intr \in BOOLEAN
  /\ owed \in {"none", "next", "now"}
  /\ owed # "none" => iflag /\ intr
  /\ owed = "next" => phase = "run" /\ left = 1

(* The controllers withdraw no request that they have made.                 *)
LEMMA StillAsked ==
  /\ \A irq, level : Irq!SetIrq(irq, level) /\ intr => intr'
  /\ \A k : Irq!GuestWrite(k) /\ intr => intr'
BY Zenon DEF Irq!SetIrq, Irq!GuestWrite, Irq!UpdateIrq, Irq!Store, Irq!WriteIcw1, Irq!WriteOcw3,
   Irq!WriteOcw2, Irq!WriteOcw1, Irq!WriteIcw2, Irq!WriteIcw3, Irq!WriteIcw4, Irq!vars

LEMMA IntrTyped ==
  /\ \A irq, level : Irq!SetIrq(irq, level) /\ intr \in BOOLEAN => intr' \in BOOLEAN
  /\ \A k : Irq!GuestWrite(k) /\ intr \in BOOLEAN => intr' \in BOOLEAN
  /\ Irq!ReadIrq => intr' \in BOOLEAN
<1>1. \A p : Irq!UpdateIrq(p) => intr' \in BOOLEAN  BY DEF Irq!UpdateIrq
<1>2. \A p : Irq!Store(p) => intr' = intr  BY DEF Irq!Store
<1>3. Irq!ReadIrq => intr' \in BOOLEAN  BY DEF Irq!ReadIrq, Irq!Wants
<1> QED
  BY <1>1, <1>2, <1>3, Zenon DEF Irq!SetIrq, Irq!GuestWrite, Irq!WriteIcw1, Irq!WriteOcw3, Irq!WriteOcw2,
     Irq!WriteOcw1, Irq!WriteIcw2, Irq!WriteIcw3, Irq!WriteIcw4, Irq!vars

LEMMA WindowsStep ==
  ASSUME Steps \in Nat, WindowsInv, [Irq!IrqNext]_Irq!irqVars
  PROVE  WindowsInv'
<1> USE DEF WindowsInv, Irq!WindowsServed, Irq!ShadowHeld, Irq!WindowServed
<1>1. CASE Irq!pc_step
  BY <1>1 DEF Irq!pc_step, Irq!cpui386_reset, Irq!vars
<1>2. CASE Irq!Device
  BY <1>2, StillAsked, IntrTyped DEF Irq!Device
<1>3. CASE Irq!TakeInterrupt
  BY <1>3, IntrTyped DEF Irq!TakeInterrupt, Irq!Goes
<1>4. CASE Irq!Sleep
  BY <1>4 DEF Irq!Sleep, Irq!vars
<1>5. CASE Irq!Start
  BY <1>5 DEF Irq!Start, Irq!vars, Irq!Goes
<1>6. CASE Irq!STI
  BY <1>6 DEF Irq!STI, Irq!vars, Irq!Goes, Irq!StiCount, Irq!Running
<1>7. CASE Irq!LoadSS
  BY <1>7 DEF Irq!LoadSS, Irq!vars, Irq!Goes, Irq!Running
<1>8. CASE Irq!CLI
  <2>1. /\ Irq!Running /\ shadow' = FALSE /\ iflag' = FALSE /\ owed' = "none"
        /\ Irq!Goes(left - 1) /\ intr' = intr
    BY <1>8 DEF Irq!CLI, Irq!vars
  <2>2. iflag' \in BOOLEAN /\ ~shadow'  BY <2>1
  <2>3. left' \in Nat /\ (phase' = "run" => left' # 0)
    BY <2>1 DEF Irq!Goes, Irq!Running
  <2> QED  BY <2>1, <2>2, <2>3
<1>9. CASE Irq!LoadFlags
  BY <1>9 DEF Irq!LoadFlags, Irq!vars, Irq!Goes, Irq!Running, Irq!Owed
<1>10. CASE Irq!HLT
  BY <1>10 DEF Irq!HLT, Irq!vars, Irq!Goes, Irq!Running
<1>11. CASE Irq!Fault
  BY <1>11 DEF Irq!Fault, Irq!vars, Irq!Goes, Irq!Running, Irq!Owed
<1>12. CASE Irq!Out
  <2>1. intr' \in BOOLEAN /\ (intr => intr')
    BY <1>12, StillAsked, IntrTyped DEF Irq!Out, Irq!vars
  <2>2. /\ Irq!Running /\ shadow' = FALSE /\ iflag' = iflag
        /\ owed' = (IF owed = "next" THEN "now" ELSE owed)
        /\ Irq!Goes(left - 1)
    BY <1>12 DEF Irq!Out
  <2> QED  BY <2>1, <2>2 DEF Irq!Goes, Irq!Running
<1>13. CASE UNCHANGED Irq!irqVars
  BY <1>13 DEF Irq!irqVars
<1> QED
  BY <1>1, <1>2, <1>3, <1>4, <1>5, <1>6, <1>7, <1>8, <1>9, <1>10, <1>11, <1>12, <1>13
     DEF Irq!IrqNext, Irq!Thread

(* For steps of any length, any devices and any guest: no interrupt is      *)
(* taken right after an STI or a load of SS, and what waits for the flag is *)
(* taken in the first window that opens it (cpu_exec1, cpui386_step).       *)
THEOREM Windows == Steps \in Nat => (InterruptsSpec => []WindowsServed)
<1> SUFFICES ASSUME Steps \in Nat PROVE InterruptsSpec => []WindowsServed  OBVIOUS
<1>1. ASSUME Irq!IrqInit PROVE WindowsInv
  <2>1. /\ intr = FALSE /\ phase = "top" /\ left = 0 /\ iflag = FALSE /\ shadow = FALSE
        /\ owed = "none"
    BY <1>1 DEF Irq!IrqInit, Irq!Init
  <2>2. iflag \in BOOLEAN /\ intr \in BOOLEAN /\ ~shadow  BY <2>1
  <2> QED
    BY <2>1, <2>2 DEF WindowsInv, Irq!WindowsServed, Irq!ShadowHeld, Irq!WindowServed
<1>2. WindowsInv /\ [Irq!IrqNext]_Irq!irqVars => WindowsInv'  BY WindowsStep
<1>3. WindowsInv => WindowsServed  BY DEF WindowsInv, WindowsServed
<1> QED  BY <1>1, <1>2, <1>3, PTL DEF InterruptsSpec

-----------------------------------------------------------------------------
(* Paging: any number of slots, any directories over the two tables, any    *)
(* entries the guest writes.                                                *)
PagingSpec == Page!Init /\ [][Page!Next]_Page!pageVars

(* The second table has a single entry, so that only the last page goes     *)
(* through it.                                                              *)
PdeSet == [p : BOOLEAN, rw : BOOLEAN, us : BOOLEAN, table : {1, 2}]
Directories == {d \in [{1, 2} -> [{0, 1} -> PdeSet]] : \A root \in {1, 2} : d[root][0].table = 1}

PagingAssumed ==
  /\ Slots \in Nat \ {0}
  /\ Dirs \subseteq Directories
  /\ \A e \in Ptes : e.p \in BOOLEAN /\ e.rw \in BOOLEAN /\ e.us \in BOOLEAN

Frames == {1, 2} \cup {e.frame : e \in Ptes}
PteSet == [p : BOOLEAN, us : BOOLEAN, rw : BOOLEAN, frame : Frames, d : BOOLEAN]
SlotSet == [lpgno : -1 .. 2, frame : Frames \cup {0}, lookup : BOOLEAN \X BOOLEAN \X BOOLEAN,
            ppte : Page!PteRef]
States == [tlb : [0 .. Slots - 1 -> SlotSet], tables : [Page!PteRef -> PteSet]]

Registers ==
  /\ cr0 \in [pg : BOOLEAN, wp : BOOLEAN] /\ cr3 \in {1, 2} /\ dirs \in Directories
  /\ ifetch.lpgno \in -1 .. 2
  /\ stale \subseteq 0 .. 2 /\ written \subseteq Page!PteRef

(* What a cached entry says of its page is what the tables say.             *)
Current(e) ==
  /\ Page!Mapped(e.lpgno)
  /\ e.frame = tables[Page!RefOf(e.lpgno)].frame
  /\ \A user, write \in BOOLEAN :
       Page!Refuses(e.lookup, user, write) <=> Page!Denied(e.lpgno, user, write)

(* A state of a translation: the tables as they are but for dirty bits, and *)
(* entries that are current unless their page is stale.                     *)
Good(st) ==
  /\ st \in States
  /\ \A r \in Page!PteRef : /\ st.tables[r].p = tables[r].p /\ st.tables[r].us = tables[r].us
                            /\ st.tables[r].rw = tables[r].rw
                            /\ st.tables[r].frame = tables[r].frame
  /\ \A s \in 0 .. Slots - 1 :
       st.tlb[s].lpgno # -1 =>
         /\ st.tlb[s].lpgno % Slots = s
         /\ st.tlb[s].ppte = Page!RefOf(st.tlb[s].lpgno)
         /\ st.tlb[s].lpgno \notin stale => Current(st.tlb[s])

FetchGood ==
  ifetch.lpgno # -1 /\ ifetch.lpgno \notin stale /\ cr0.pg =>
    /\ Page!Mapped(ifetch.lpgno)
    /\ ifetch.frame = tables[Page!RefOf(ifetch.lpgno)].frame

PagingInv ==
  /\ Registers
  /\ Good(Page!Now)
  /\ FetchGood
  /\ \A r \in written : tables[r].d

LEMMA RefTyped ==
  ASSUME Registers, NEW p \in 0 .. 2
  PROVE  Page!Pde(p) \in PdeSet /\ Page!RefOf(p) \in Page!PteRef
<1>1. p \div 2 \in {0, 1} /\ p % 2 \in {0, 1} /\ (p \div 2 = 1 => p % 2 = 0)  OBVIOUS
<1>2. Page!Pde(p) \in PdeSet  BY <1>1 DEF Registers, Directories, Page!Pde
<1>3. p \div 2 = 0 => Page!Pde(p).table = 1
  BY <1>1 DEF Registers, Directories, Page!Pde
<1>4. Page!Pde(p).table \in {1, 2}  BY <1>2 DEF PdeSet
<1> QED  BY <1>1, <1>2, <1>3, <1>4 DEF Page!RefOf, Page!PteRef

(* The table of the code refuses what the rules deny.                       *)
LEMMA LookupDenies ==
  ASSUME NEW wp \in BOOLEAN, NEW us \in BOOLEAN, NEW rw \in BOOLEAN,
         NEW user \in BOOLEAN, NEW write \in BOOLEAN
  PROVE  Page!Refuses(<<wp, us, rw>>, user, write)
         <=> ((user /\ ~us) \/ (write /\ ~rw /\ (user \/ wp)))
<1> DEFINE l == <<wp, us, rw>>
<1>1. l[1] = wp /\ l[2] = us /\ l[3] = rw  OBVIOUS
<1>2. CASE wp
  BY <1>1, <1>2 DEF Page!Refuses, Page!PteLookup, Page!Index, Page!Bits
<1>3. CASE ~wp
  BY <1>1, <1>3 DEF Page!Refuses, Page!PteLookup, Page!Index, Page!Bits
<1> QED  BY <1>2, <1>3

LEMMA FaultsDiffer == \A p \in 0 .. 2, b \in BOOLEAN : [page |-> p, present |-> b] # Page!NoFault
BY DEF Page!NoFault
LEMMA SlotInRange ==
  ASSUME PagingAssumed, NEW p \in 0 .. 2
  PROVE  p % Slots \in 0 .. Slots - 1
BY DEF PagingAssumed

LEMMA RefillGood ==
  ASSUME PagingAssumed, Registers, NEW st, Good(st), NEW p \in 0 .. 2, Page!Mapped(p)
  PROVE  /\ Good(Page!Refill(st, p))
         /\ Page!Refill(st, p).tables = st.tables
         /\ Page!Refill(st, p).tlb[p % Slots].lpgno = p
<1> DEFINE r == Page!RefOf(p)
           i == p % Slots
           te == st.tables[r]
           us == te.us /\ Page!Pde(p).us
           rw == te.rw /\ Page!Pde(p).rw
           l == <<cr0.wp, us, rw>>
           e == [lpgno |-> p, frame |-> te.frame, lookup |-> l, ppte |-> r]
           full == Page!Refill(st, p)
<1>1. r \in Page!PteRef /\ Page!Pde(p) \in PdeSet /\ i \in 0 .. Slots - 1  BY RefTyped, SlotInRange
<1>2. st \in States /\ te \in PteSet  BY <1>1 DEF Good, States
<1>3. us \in BOOLEAN /\ rw \in BOOLEAN /\ cr0.wp \in BOOLEAN  BY <1>1, <1>2 DEF PteSet, PdeSet, Registers
<1>4. l \in BOOLEAN \X BOOLEAN \X BOOLEAN
  <2> HIDE DEF us, rw
  <2> QED  BY <1>3
<1>5. e \in SlotSet
  <2> HIDE DEF l
  <2>1. te.frame \in Frames  BY <1>2 DEF PteSet
  <2>2. p \in -1 .. 2  OBVIOUS
  <2> QED  BY <1>1, <1>4, <2>1, <2>2 DEF SlotSet
<1>6. full = [st EXCEPT !.tlb = [@ EXCEPT ![i] = e]]
  BY DEF Page!Refill
<1>7. full \in States /\ full.tables = st.tables /\ full.tlb[i] = e
      /\ \A s \in 0 .. Slots - 1 : s # i => full.tlb[s] = st.tlb[s]
  <2> HIDE DEF e, i, full
  <2> QED  BY <1>1, <1>2, <1>5, <1>6 DEF States
<1>8. Current(e)
  <2>1. e.lpgno = p /\ e.frame = te.frame /\ e.lookup = l  OBVIOUS
  <2>2. te.frame = tables[r].frame /\ te.us = tables[r].us /\ te.rw = tables[r].rw
    BY <1>1 DEF Good
  <2>3. ASSUME NEW user \in BOOLEAN, NEW write \in BOOLEAN
        PROVE  Page!Refuses(l, user, write) <=> Page!Denied(p, user, write)
    <3>1. Page!Denied(p, user, write) <=> ((user /\ ~us) \/ (write /\ ~rw /\ (user \/ cr0.wp)))
      BY <1>1, <2>2 DEF Page!Denied
    <3>2. Page!Refuses(l, user, write) <=> ((user /\ ~us) \/ (write /\ ~rw /\ (user \/ cr0.wp)))
      <4> HIDE DEF us, rw
      <4> QED  BY <1>3, LookupDenies
    <3> QED  BY <3>1, <3>2
  <2> HIDE DEF l, te, e
  <2> QED  BY <2>1, <2>2, <2>3 DEF Current
<1>9. e.lpgno = p /\ e.ppte = r  OBVIOUS
<1>10. Good(full)
  <2> HIDE DEF e, full
  <2> QED  BY <1>1, <1>7, <1>8, <1>9 DEF Good
<1> HIDE DEF e, full
<1> QED  BY <1>7, <1>9, <1>10 DEF full

LEMMA DropGood ==
  ASSUME PagingAssumed, Registers, NEW st, Good(st), NEW p \in 0 .. 2
  PROVE  /\ Good(Page!Drop(st, p))
         /\ Page!Drop(st, p).tables = st.tables
         /\ Page!Drop(st, p).tlb[p % Slots].lpgno = -1
<1> DEFINE i == p % Slots
           e == [st.tlb[i] EXCEPT !.lpgno = -1]
           to == Page!Drop(st, p)
<1>1. i \in 0 .. Slots - 1 /\ st \in States  BY SlotInRange DEF Good
<1>2. e \in SlotSet /\ e.lpgno = -1
  <2>1. st.tlb[i] \in SlotSet  BY <1>1 DEF States
  <2> QED  BY <2>1 DEF SlotSet
<1>3. to = [st EXCEPT !.tlb = [@ EXCEPT ![i] = e]]  BY <1>1 DEF Page!Drop, States
<1>4. to \in States /\ to.tables = st.tables /\ to.tlb[i] = e
      /\ \A s \in 0 .. Slots - 1 : s # i => to.tlb[s] = st.tlb[s]
  <2> HIDE DEF e, i, to
  <2> QED  BY <1>1, <1>2, <1>3 DEF States
<1>5. Good(to)
  <2> HIDE DEF e, to
  <2> QED  BY <1>1, <1>2, <1>4 DEF Good
<1> HIDE DEF e, to
<1> QED  BY <1>2, <1>4, <1>5 DEF to

LEMMA DirtyGood ==
  ASSUME PagingAssumed, Registers, NEW st, Good(st), NEW p \in 0 .. 2,
         st.tlb[p % Slots].lpgno = p
  PROVE  /\ Good(Page!Dirty(st, p))
         /\ Page!Dirty(st, p).tlb = st.tlb
         /\ Page!Dirty(st, p).tables[Page!RefOf(p)].d
         /\ \A r \in Page!PteRef : st.tables[r].d => Page!Dirty(st, p).tables[r].d
<1> DEFINE i == p % Slots
           r == Page!RefOf(p)
           set == TRUE
           e == [st.tables[r] EXCEPT !.d = set]
           to == Page!Dirty(st, p)
<1>1. i \in 0 .. Slots - 1 /\ st \in States /\ r \in Page!PteRef  BY SlotInRange, RefTyped DEF Good
<1>2. st.tlb[i].ppte = r  BY <1>1 DEF Good
<1>3. /\ e \in PteSet /\ e.d = set
      /\ e.p = st.tables[r].p /\ e.us = st.tables[r].us /\ e.rw = st.tables[r].rw
      /\ e.frame = st.tables[r].frame
  <2>1. set \in BOOLEAN  OBVIOUS
  <2> HIDE DEF set
  <2> QED  BY <1>1, <2>1 DEF States, PteSet
<1>4. to = [st EXCEPT !.tables = [@ EXCEPT ![r] = e]]
  <2>1. to = [st EXCEPT !.tables[r].d = set]  BY <1>2 DEF Page!Dirty
  <2> HIDE DEF set, r, to
  <2> QED  BY <1>1, <2>1 DEF States
<1>5. to \in States /\ to.tlb = st.tlb /\ to.tables[r] = e
      /\ \A q \in Page!PteRef : q # r => to.tables[q] = st.tables[q]
  <2> HIDE DEF e, r, to
  <2> QED  BY <1>1, <1>3, <1>4 DEF States
<1>6. Good(to)
  <2> HIDE DEF e, to
  <2> QED  BY <1>1, <1>3, <1>5 DEF Good
<1>7. to.tables[r].d /\ \A q \in Page!PteRef : st.tables[q].d => to.tables[q].d
  <2>1. e.d  BY <1>3
  <2> HIDE DEF e, to
  <2> QED  BY <2>1, <1>5
<1> HIDE DEF e, to
<1> QED  BY <1>5, <1>6, <1>7 DEF to
LEMMA MappedFault ==
  ASSUME PagingAssumed, Registers, cr0.pg, NEW p \in 0 .. 2, NEW user \in BOOLEAN,
         NEW write \in BOOLEAN
  PROVE  /\ ~Page!Mapped(p) => Page!RefFault(p, user, write) = [page |-> p, present |-> FALSE]
         /\ Page!Mapped(p) /\ Page!Denied(p, user, write) =>
              Page!RefFault(p, user, write) = [page |-> p, present |-> TRUE]
         /\ Page!Mapped(p) /\ ~Page!Denied(p, user, write) =>
              Page!RefFault(p, user, write) = Page!NoFault
BY DEF Page!RefFault

(* A translation of a page that is not cached reads the tables.             *)
LEMMA TranslateMiss ==
  ASSUME PagingAssumed, Registers, cr0.pg, NEW st, Good(st), NEW p \in 0 .. 2,
         st.tlb[p % Slots].lpgno # p, NEW user \in BOOLEAN, NEW write \in BOOLEAN
  PROVE  Page!TranslateLpgno(st, p, user, write).fault = Page!RefFault(p, user, write)
<1> DEFINE full == Page!Refill(st, p)
           r == Page!RefOf(p)
<1>0. p % Slots \in 0 .. Slots - 1 /\ st \in States /\ r \in Page!PteRef
      /\ Page!Pde(p) \in PdeSet
  BY SlotInRange, RefTyped DEF Good
<1>1. CASE ~Page!Mapped(p)
  BY <1>1, MappedFault DEF Page!TranslateLpgno
<1>2. CASE Page!Mapped(p)
  <2>1. /\ Good(full) /\ full.tlb[p % Slots].lpgno = p
    BY <1>2, RefillGood
  <2>2. Page!Refuses(full.tlb[p % Slots].lookup, user, write) <=> Page!Denied(p, user, write)
    <3> DEFINE te == st.tables[r]
               us == te.us /\ Page!Pde(p).us
               rw == te.rw /\ Page!Pde(p).rw
    <3>1. te.us = tables[r].us /\ te.rw = tables[r].rw /\ te \in PteSet
      BY <1>0 DEF Good, States
    <3>2. full.tlb[p % Slots].lookup = <<cr0.wp, us, rw>>
      BY <1>0 DEF Page!Refill, States
    <3>3. us \in BOOLEAN /\ rw \in BOOLEAN /\ cr0.wp \in BOOLEAN
      BY <1>0, <3>1 DEF PteSet, PdeSet, Registers
    <3>4. Page!Denied(p, user, write) <=> ((user /\ ~us) \/ (write /\ ~rw /\ (user \/ cr0.wp)))
      BY <1>0, <3>1 DEF Page!Denied
    <3>5. Page!Refuses(<<cr0.wp, us, rw>>, user, write)
          <=> ((user /\ ~us) \/ (write /\ ~rw /\ (user \/ cr0.wp)))
      <4> HIDE DEF us, rw
      <4> QED  BY <3>3, LookupDenies
    <3> HIDE DEF us, rw, full
    <3> QED  BY <3>2, <3>4, <3>5
  <2> HIDE DEF full
  <2>3. CASE Page!Denied(p, user, write)
    BY <1>2, <2>2, <2>3, MappedFault DEF Page!TranslateLpgno, full
  <2>4. CASE ~Page!Denied(p, user, write)
    BY <1>2, <2>2, <2>4, MappedFault DEF Page!TranslateLpgno, full
  <2> QED  BY <2>3, <2>4
<1> QED  BY <1>1, <1>2

(* One page: what is not stale is translated as the tables say, what faults *)
(* is forgotten, and what is written is recorded.                           *)
TranslatedOne(st, p, user, write, t) ==
  /\ Good(t.st)
  /\ p \notin stale => t.fault = Page!RefFault(p, user, write)
  /\ p \notin stale /\ t.fault = Page!NoFault => t.frame = tables[Page!RefOf(p)].frame
  /\ t.fault = Page!NoFault /\ write => t.st.tables[Page!RefOf(p)].d
  /\ \A r \in Page!PteRef : st.tables[r].d => t.st.tables[r].d
  /\ t.fault # Page!NoFault =>
       Page!TranslateLpgno(t.st, p, user, write).fault = Page!RefFault(p, user, write)

LEMMA TranslateOne ==
  ASSUME PagingAssumed, Registers, cr0.pg, NEW st, Good(st), NEW p \in 0 .. 2,
         NEW user \in BOOLEAN, NEW write \in BOOLEAN
  PROVE  TranslatedOne(st, p, user, write, Page!TranslateLpgno(st, p, user, write))
<1> PICK t : t = Page!TranslateLpgno(st, p, user, write)  OBVIOUS
<1> SUFFICES TranslatedOne(st, p, user, write, t)  OBVIOUS
<1> USE DEF TranslatedOne
<1> DEFINE i == p % Slots
           hit == st.tlb[i].lpgno = p
           full == IF hit THEN st ELSE Page!Refill(st, p)
<1>1. CASE ~hit /\ ~Page!Mapped(p)
  <2>1. /\ t.st = st /\ t.fault = [page |-> p, present |-> FALSE]
    BY <1>1 DEF Page!TranslateLpgno
  <2>2. t.fault = Page!RefFault(p, user, write) /\ t.fault # Page!NoFault
    BY <1>1, <2>1, MappedFault, FaultsDiffer
  <2>3. Page!TranslateLpgno(st, p, user, write).fault = Page!RefFault(p, user, write)
    BY <1>1, TranslateMiss
  <2> QED  BY <2>1, <2>2, <2>3
<1>2. CASE hit \/ Page!Mapped(p)
  <2>1. Good(full) /\ full.tables = st.tables /\ full.tlb[i].lpgno = p
    <3>1. CASE hit  BY <3>1
    <3>2. CASE ~hit  BY <3>2, <1>2, RefillGood
    <3> QED  BY <3>1, <3>2
  <2> DEFINE e == full.tlb[i]
  <2>2. t = IF Page!Refuses(e.lookup, user, write)
            THEN [st |-> Page!Drop(full, p), fault |-> [page |-> p, present |-> TRUE], frame |-> 0]
            ELSE [st |-> IF write THEN Page!Dirty(full, p) ELSE full, fault |-> Page!NoFault,
                  frame |-> e.frame]
    BY <1>2 DEF Page!TranslateLpgno
  <2> HIDE DEF full
  <2>3. i \in 0 .. Slots - 1  BY SlotInRange
  <2>4. p \notin stale => Current(e)  BY <2>1, <2>3 DEF Good
  <2>5. CASE Page!Refuses(e.lookup, user, write)
    <3>1. t.st = Page!Drop(full, p) /\ t.fault = [page |-> p, present |-> TRUE]
      BY <2>2, <2>5
    <3>2. t.fault # Page!NoFault  BY <3>1, FaultsDiffer
    <3>3. Good(t.st) /\ t.st.tables = st.tables /\ t.st.tlb[i].lpgno = -1
      BY <2>1, <3>1, DropGood
    <3>4. p \notin stale => t.fault = Page!RefFault(p, user, write)
      BY <2>1, <2>4, <2>5, <3>1, MappedFault DEF Current
    <3>5. Page!TranslateLpgno(t.st, p, user, write).fault = Page!RefFault(p, user, write)
      BY <3>3, TranslateMiss
    <3> QED  BY <3>2, <3>3, <3>4, <3>5
  <2>6. CASE ~Page!Refuses(e.lookup, user, write)
    <3>1. /\ t.st = (IF write THEN Page!Dirty(full, p) ELSE full) /\ t.fault = Page!NoFault
          /\ t.frame = e.frame
      BY <2>2, <2>6
    <3>2. /\ Good(Page!Dirty(full, p))
          /\ Page!Dirty(full, p).tables[Page!RefOf(p)].d
          /\ \A r \in Page!PteRef : full.tables[r].d => Page!Dirty(full, p).tables[r].d
      BY <2>1, DirtyGood
    <3>3. /\ Good(t.st) /\ (write => t.st.tables[Page!RefOf(p)].d)
          /\ \A r \in Page!PteRef : st.tables[r].d => t.st.tables[r].d
      BY <2>1, <3>1, <3>2
    <3>4. p \notin stale => t.fault = Page!RefFault(p, user, write)
                            /\ t.frame = tables[Page!RefOf(p)].frame
      BY <2>1, <2>4, <2>6, <3>1, MappedFault DEF Current
    <3> QED  BY <3>1, <3>3, <3>4
  <2> QED  BY <2>5, <2>6
<1> QED  BY <1>1, <1>2
(* Bytes of one page, or across its end.                                    *)
Translated(st, p, across, user, write, t) ==
  /\ Good(t.st)
  /\ \A r \in Page!PteRef : st.tables[r].d => t.st.tables[r].d
  /\ t.fault = Page!NoFault /\ write /\ cr0.pg =>
       \A q \in {p} \cup (IF across THEN {p + 1} ELSE {}) : t.st.tables[Page!RefOf(q)].d
  /\ p \notin stale /\ (across => p + 1 \notin stale) =>
       t.fault = Page!RefFault(IF across /\ Page!RefFault(p, user, write) = Page!NoFault
                               THEN p + 1 ELSE p, user, write)
  /\ p \notin stale /\ ~across /\ t.fault = Page!NoFault /\ cr0.pg =>
       t.frame = tables[Page!RefOf(p)].frame
  /\ ~across /\ t.fault # Page!NoFault =>
       Page!Translate(t.st, p, FALSE, user, write).fault = Page!RefFault(p, user, write)

LEMMA TranslateRight ==
  ASSUME PagingAssumed, Registers, NEW st, Good(st), NEW p \in 0 .. 2, NEW across \in BOOLEAN,
         across => p + 1 \in 0 .. 2, NEW user \in BOOLEAN, NEW write \in BOOLEAN
  PROVE  Translated(st, p, across, user, write, Page!Translate(st, p, across, user, write))
<1> PICK t : t = Page!Translate(st, p, across, user, write)  OBVIOUS
<1> SUFFICES Translated(st, p, across, user, write, t)  OBVIOUS
<1> USE DEF Translated
<1>1. CASE ~cr0.pg
  BY <1>1 DEF Page!Translate, Page!RefFault
<1>2. CASE cr0.pg
  <2> PICK one : one = Page!TranslateLpgno(st, p, user, write)  OBVIOUS
  <2>1. TranslatedOne(st, p, user, write, one)
    BY <1>2, TranslateOne, Zenon
  <2>2. Page!Translate(one.st, p, FALSE, user, write)
        = Page!TranslateLpgno(one.st, p, user, write)
    BY <1>2 DEF Page!Translate
  <2>3. t = IF one.fault = Page!NoFault /\ across
            THEN Page!TranslateLpgno(one.st, p + 1, user, write) ELSE one
    BY <1>2 DEF Page!Translate
  <2> USE DEF TranslatedOne
  <2>4. CASE ~(one.fault = Page!NoFault /\ across)
    <3>1. t = one  BY <2>3, <2>4
    <3>2. t.fault = Page!NoFault => ~across  BY <2>4, <3>1
    <3>3. p \notin stale => ~(across /\ Page!RefFault(p, user, write) = Page!NoFault)
      BY <2>1, <2>4
    <3> QED  BY <2>1, <2>2, <3>1, <3>2, <3>3
  <2>5. CASE one.fault = Page!NoFault /\ across
    <3>1. t = Page!TranslateLpgno(one.st, p + 1, user, write) /\ p + 1 \in 0 .. 2
      BY <2>3, <2>5
    <3>2. TranslatedOne(one.st, p + 1, user, write, t)
      <4>1. Good(one.st)  BY <2>1
      <4> HIDE DEF TranslatedOne
      <4> QED  BY <1>2, <3>1, <4>1, TranslateOne, Zenon
    <3>3. Page!RefOf(p) \in Page!PteRef  BY RefTyped
    <3> QED  BY <2>1, <2>5, <3>2, <3>3
  <2> QED  BY <2>4, <2>5
<1> QED  BY <1>1, <1>2

LEMMA CachesServe == PagingAssumed /\ PagingInv => Page!CachesCurrent
<1> SUFFICES ASSUME PagingAssumed, PagingInv PROVE Page!CachesCurrent  OBVIOUS
<1>0. Registers /\ Good(Page!Now) /\ Page!Lpgno = 0 .. 2  BY DEF PagingInv, Page!Lpgno
<1>1. Page!TypeOK
  <2>1. /\ tlb \in [0 .. Slots - 1 -> SlotSet]
        /\ \A s \in 0 .. Slots - 1 : tlb[s].lpgno # -1 => tlb[s].lpgno % Slots = s
    BY <1>0 DEF Good, States, Page!Now
  <2> QED  BY <1>0, <2>1 DEF Page!TypeOK, Registers, SlotSet
<1>2. Page!AccessRight
  <2> SUFFICES ASSUME NEW p \in 0 .. 2, NEW across \in BOOLEAN, NEW user \in BOOLEAN,
                      NEW write \in BOOLEAN, across => p + 1 \in 0 .. 2,
                      p \notin stale, across => p + 1 \notin stale,
                      NEW t, t = Page!Translate(Page!Now, p, across, user, write)
               PROVE  /\ t.fault = Page!RefFault(
                                     IF across /\ Page!RefFault(p, user, write) = Page!NoFault
                                     THEN p + 1 ELSE p, user, write)
                      /\ ~across /\ t.fault = Page!NoFault /\ cr0.pg =>
                           t.frame = tables[Page!RefOf(p)].frame
    BY <1>0 DEF Page!AccessRight
  <2>1. Translated(Page!Now, p, across, user, write, t)
    BY <1>0, TranslateRight, Zenon
  <2> QED  BY <2>1 DEF Translated
<1>3. Page!FetchRight
  <2> SUFFICES ASSUME NEW p \in 0 .. 2 \ stale, NEW user \in BOOLEAN, Page!MayReturn(p, user),
                      NEW t, t = Page!FetchOf(p, user)
               PROVE  /\ t.fault = Page!RefFault(p, user, FALSE)
                      /\ t.fault = Page!NoFault /\ cr0.pg => t.frame = tables[Page!RefOf(p)].frame
    BY <1>0, ZenonT(30) DEF Page!FetchRight
  <2>1. CASE ifetch.lpgno = p
    <3>1. t.fault = Page!NoFault /\ t.frame = ifetch.frame
      BY <2>1 DEF Page!FetchOf
    <3>2. cr0.pg => Page!Mapped(p) /\ ifetch.frame = tables[Page!RefOf(p)].frame
      BY <2>1 DEF PagingInv, FetchGood
    <3>3. Page!RefFault(p, user, FALSE) = Page!NoFault
      <4>1. CASE user  BY <4>1, <2>1 DEF Page!MayReturn
      <4>2. CASE ~user  BY <4>2, <3>2 DEF Page!RefFault, Page!Denied
      <4> QED  BY <4>1, <4>2
    <3> QED  BY <3>1, <3>2, <3>3
  <2>2. CASE ifetch.lpgno # p
    <3>1. t = Page!Translate(Page!Now, p, FALSE, user, FALSE)  BY <2>2 DEF Page!FetchOf
    <3>2. Translated(Page!Now, p, FALSE, user, FALSE, t)  BY <1>0, <3>1, TranslateRight
    <3> QED  BY <3>2 DEF Translated
  <2> QED  BY <2>1, <2>2
<1>4. Page!FaultForgets
  <2> SUFFICES ASSUME NEW p \in 0 .. 2, NEW user \in BOOLEAN, NEW write \in BOOLEAN,
                      Page!Translate(Page!Now, p, FALSE, user, write).fault # Page!NoFault
               PROVE  Page!Translate(Page!Translate(Page!Now, p, FALSE, user, write).st,
                                     p, FALSE, user, write).fault
                        = Page!RefFault(p, user, write)
    BY <1>0, Zenon DEF Page!FaultForgets
  <2> PICK t : t = Page!Translate(Page!Now, p, FALSE, user, write)  OBVIOUS
  <2>1. Translated(Page!Now, p, FALSE, user, write, t)
    BY <1>0, TranslateRight
  <2> QED  BY <2>1 DEF Translated
<1>5. Page!DirtyRecorded  BY DEF PagingInv, Page!DirtyRecorded
<1> QED  BY <1>1, <1>2, <1>3, <1>4, <1>5 DEF Page!CachesCurrent
LEMMA PagingStart == PagingAssumed /\ Page!Init => PagingInv
<1> SUFFICES ASSUME PagingAssumed, Page!Init PROVE PagingInv  OBVIOUS
<1>1. Registers
  <2> DEFINE on == TRUE
  <2>1. cr0 = [pg |-> on, wp |-> on] /\ on \in BOOLEAN  BY DEF Page!Init
  <2>2. cr0 \in [pg : BOOLEAN, wp : BOOLEAN]
    <3> HIDE DEF on
    <3> QED  BY <2>1
  <2> QED  BY <2>2 DEF PagingAssumed, Page!Init, Registers, Page!NoFetch
<1>2. tables \in [Page!PteRef -> PteSet]
  <2> SUFFICES ASSUME NEW r \in Page!PteRef
               PROVE  [p |-> TRUE, us |-> TRUE, rw |-> r[2] = 0, frame |-> r[1], d |-> FALSE]
                        \in PteSet
    BY DEF Page!Init
  <2> DEFINE rw == r[2] = 0
             yes == TRUE
             no == FALSE
  <2>1. r[1] \in Frames  BY DEF Page!PteRef, Frames
  <2>2. rw \in BOOLEAN /\ yes \in BOOLEAN /\ no \in BOOLEAN  OBVIOUS
  <2> HIDE DEF rw, yes, no
  <2>3. [p |-> yes, us |-> yes, rw |-> rw, frame |-> r[1], d |-> no] \in PteSet
    BY <2>1, <2>2 DEF PteSet
  <2> QED  BY <2>3 DEF rw, yes, no
<1>3. tlb = Page!Cleared /\ ifetch = Page!NoFetch /\ written = {}  BY DEF Page!Init
<1>4. Page!NoEntry \in SlotSet /\ Page!NoEntry.lpgno = -1
  <2> DEFINE no == FALSE
             l == <<no, no, no>>
  <2>1. no \in BOOLEAN  OBVIOUS
  <2>2. l \in BOOLEAN \X BOOLEAN \X BOOLEAN
    <3> HIDE DEF no
    <3> QED  BY <2>1
  <2>3. Page!NoEntry = [lpgno |-> -1, frame |-> 0, lookup |-> l, ppte |-> <<1, 0>>]
    BY DEF Page!NoEntry
  <2> HIDE DEF l
  <2> QED  BY <2>2, <2>3 DEF SlotSet, Page!PteRef
<1>5. Page!Now \in States /\ \A s \in 0 .. Slots - 1 : Page!Now.tlb[s].lpgno = -1
  BY <1>2, <1>3, <1>4 DEF States, Page!Now, Page!Cleared
<1>6. Good(Page!Now)
  BY <1>5 DEF Good, Page!Now
<1> QED  BY <1>1, <1>3, <1>6 DEF PagingInv, FetchGood, Page!NoFetch

(* The rules depend on the registers and on the tables but for dirty bits.  *)
LEMMA RulesCarry ==
  ASSUME Registers, NEW st, Good(st), tables' = st.tables, UNCHANGED <<cr0, cr3, dirs>>,
         NEW p \in 0 .. 2
  PROVE  /\ Page!Mapped(p)' <=> Page!Mapped(p)
         /\ Page!RefOf(p)' = Page!RefOf(p)
         /\ tables[Page!RefOf(p)]'.frame = tables[Page!RefOf(p)].frame
         /\ \A user, write \in BOOLEAN :
              Page!Denied(p, user, write)' <=> Page!Denied(p, user, write)
<1>1. Page!Pde(p)' = Page!Pde(p) /\ Page!RefOf(p)' = Page!RefOf(p)
  BY DEF Page!Pde, Page!RefOf
<1>2. Page!RefOf(p) \in Page!PteRef  BY RefTyped
<1>3. LET r == Page!RefOf(p)
      IN /\ tables'[r].p = tables[r].p /\ tables'[r].us = tables[r].us
         /\ tables'[r].rw = tables[r].rw /\ tables'[r].frame = tables[r].frame
  BY <1>2 DEF Good
<1> QED  BY <1>1, <1>3 DEF Page!Mapped, Page!Denied

(* Translations leave the caches good.                                      *)
LEMMA CarryGood ==
  ASSUME PagingAssumed, Registers, NEW st, Good(st), tables' = st.tables, tlb' = st.tlb,
         UNCHANGED <<cr0, cr3, dirs, stale>>
  PROVE  Good(Page!Now)'
<1>1. Page!Now' \in States /\ Page!Now'.tlb = st.tlb /\ Page!Now'.tables = tables'
  BY DEF Page!Now, Good, States
<1>2. \A r \in Page!PteRef :
        /\ Page!Now'.tables[r].p = tables'[r].p /\ Page!Now'.tables[r].us = tables'[r].us
        /\ Page!Now'.tables[r].rw = tables'[r].rw
        /\ Page!Now'.tables[r].frame = tables'[r].frame
  BY <1>1
<1>3. ASSUME NEW s \in 0 .. Slots - 1, st.tlb[s].lpgno # -1
      PROVE  /\ st.tlb[s].lpgno % Slots = s
             /\ st.tlb[s].ppte = Page!RefOf(st.tlb[s].lpgno)'
             /\ st.tlb[s].lpgno \notin stale' => Current(st.tlb[s])'
  <2> PICK e : e = st.tlb[s]  OBVIOUS
  <2>1. e.lpgno \in 0 .. 2
    <3>1. e \in SlotSet  BY DEF Good, States
    <3> QED  BY <3>1, <1>3 DEF SlotSet
  <2>2. /\ e.lpgno % Slots = s /\ e.ppte = Page!RefOf(e.lpgno)
        /\ e.lpgno \notin stale => Current(e)
    BY <1>3 DEF Good
  <2>3. Current(e) => Current(e)'
    BY <2>1, RulesCarry DEF Current
  <2> QED  BY <1>3, <2>1, <2>2, <2>3, RulesCarry
<1> QED  BY <1>1, <1>2, <1>3 DEF Good
(* A buffer that was cleared is good whatever the tables say.               *)
LEMMA ClearedGood ==
  ASSUME PagingAssumed, PagingInv, Page!TlbClear, UNCHANGED <<dirs, tables>>
  PROVE  Good(Page!Now)' /\ FetchGood' /\ ifetch'.lpgno = -1 /\ stale' = {}
<1>1. Page!NoEntry \in SlotSet /\ Page!NoEntry.lpgno = -1
  <2> DEFINE no == FALSE
             l == <<no, no, no>>
  <2>1. no \in BOOLEAN  OBVIOUS
  <2>2. l \in BOOLEAN \X BOOLEAN \X BOOLEAN
    <3> HIDE DEF no
    <3> QED  BY <2>1
  <2>3. Page!NoEntry = [lpgno |-> -1, frame |-> 0, lookup |-> l, ppte |-> <<1, 0>>]
    BY DEF Page!NoEntry
  <2> HIDE DEF l
  <2> QED  BY <2>2, <2>3 DEF SlotSet, Page!PteRef
<1>2. tlb' = Page!Cleared /\ ifetch' = Page!NoFetch /\ stale' = {}  BY DEF Page!TlbClear
<1>3. tables' \in [Page!PteRef -> PteSet]  BY DEF PagingInv, Good, States, Page!Now
<1>4. tlb' \in [0 .. Slots - 1 -> SlotSet] /\ \A s \in 0 .. Slots - 1 : tlb'[s].lpgno = -1
  BY <1>1, <1>2 DEF Page!Cleared
<1> QED  BY <1>2, <1>3, <1>4 DEF Good, States, Page!Now, FetchGood, Page!NoFetch

LEMMA AccessStep ==
  ASSUME PagingAssumed, PagingInv, NEW p \in 0 .. 2, NEW across \in BOOLEAN,
         NEW user \in BOOLEAN, NEW write \in BOOLEAN, Page!Access(p, across, user, write)
  PROVE  PagingInv'
<1> PICK t : t = Page!Translate(Page!Now, p, across, user, write)  OBVIOUS
<1>0. Registers /\ Good(Page!Now) /\ (across => p + 1 \in 0 .. 2)
  BY DEF PagingInv, Page!Access, Page!Lpgno
<1>1. Translated(Page!Now, p, across, user, write, t)  BY <1>0, TranslateRight
<1>2. /\ tlb' = t.st.tlb /\ tables' = t.st.tables
      /\ written' = (IF write /\ cr0.pg /\ t.fault = Page!NoFault
                     THEN written \cup {Page!RefOf(q) : q \in {p} \cup (IF across THEN {p + 1} ELSE {})}
                     ELSE written)
      /\ UNCHANGED <<cr0, cr3, dirs, ifetch, stale>>
  BY DEF Page!Access
<1>3. Good(t.st)  BY <1>1 DEF Translated
<1>4. Good(Page!Now)'  BY <1>0, <1>2, <1>3, CarryGood
<1>5. \A q \in {p} \cup (IF across THEN {p + 1} ELSE {}) : Page!RefOf(q) \in Page!PteRef
  BY <1>0, RefTyped
<1>6. \A r \in written' : tables'[r].d
  <2>1. \A r \in Page!PteRef : tables[r].d => tables'[r].d
    BY <1>1, <1>2 DEF Translated, Page!Now
  <2>2. \A r \in written : r \in Page!PteRef /\ tables[r].d  BY DEF PagingInv, Registers
  <2> QED  BY <1>1, <1>2, <2>1, <2>2 DEF Translated
<1>7. Registers'
  <2>1. written' \subseteq Page!PteRef  BY <1>0, <1>2, <1>5 DEF Registers
  <2> QED  BY <1>0, <1>2, <2>1 DEF Registers
<1>8. FetchGood'
  BY <1>0, <1>2, <1>3, RulesCarry DEF PagingInv, Registers, FetchGood
<1> QED  BY <1>4, <1>6, <1>7, <1>8 DEF PagingInv

LEMMA FetchStep ==
  ASSUME PagingAssumed, PagingInv, NEW p \in 0 .. 2, NEW user \in BOOLEAN, Page!Fetch(p, user)
  PROVE  PagingInv'
<1> PICK t : t = Page!FetchOf(p, user)  OBVIOUS
<1>0. Registers /\ Good(Page!Now)  BY DEF PagingInv
<1>2. /\ tlb' = t.st.tlb /\ tables' = t.st.tables
      /\ ifetch' = (IF t.fault = Page!NoFault /\ t.frame \in Cacheable
                    THEN [lpgno |-> p, frame |-> t.frame] ELSE ifetch)
      /\ UNCHANGED <<cr0, cr3, dirs, stale, written>>
  BY DEF Page!Fetch
<1>3. /\ Good(t.st)
      /\ \A r \in Page!PteRef : tables[r].d => t.st.tables[r].d
      /\ t.fault = Page!NoFault /\ p \notin stale /\ cr0.pg =>
           Page!Mapped(p) /\ t.frame = tables[Page!RefOf(p)].frame
  <2>1. CASE ifetch.lpgno = p
    <3>1. t.st = Page!Now /\ t.frame = ifetch.frame  BY <2>1 DEF Page!FetchOf
    <3> QED  BY <1>0, <2>1, <3>1 DEF PagingInv, FetchGood, Page!Now
  <2>2. CASE ifetch.lpgno # p
    <3>1. t = Page!Translate(Page!Now, p, FALSE, user, FALSE)  BY <2>2 DEF Page!FetchOf
    <3>2. Translated(Page!Now, p, FALSE, user, FALSE, t)  BY <1>0, <3>1, TranslateRight
    <3>3. t.fault = Page!NoFault /\ p \notin stale /\ cr0.pg => Page!Mapped(p)
      <4>1. p \notin stale => t.fault = Page!RefFault(p, user, FALSE)  BY <3>2 DEF Translated
      <4>2. cr0.pg /\ ~Page!Mapped(p) =>
              Page!RefFault(p, user, FALSE) = [page |-> p, present |-> FALSE]
        BY <1>0, MappedFault
      <4>3. [page |-> p, present |-> FALSE] # Page!NoFault  BY FaultsDiffer
      <4> QED  BY <4>1, <4>2, <4>3, Zenon
    <3> QED  BY <3>2, <3>3 DEF Translated, Page!Now
  <2> QED  BY <2>1, <2>2
<1>4. Good(Page!Now)'  BY <1>0, <1>2, <1>3, CarryGood
<1>5. \A r \in written' : tables'[r].d
  BY <1>2, <1>3 DEF PagingInv, Registers
<1>6. \/ ifetch'.lpgno = p /\ ifetch'.frame = t.frame /\ t.fault = Page!NoFault
      \/ ifetch' = ifetch
  BY <1>2
<1>7. Registers'
  BY <1>0, <1>2, <1>6 DEF Registers
<1>8. FetchGood'
  <2>1. FetchGood /\ ifetch.lpgno \in -1 .. 2  BY <1>0 DEF PagingInv, Registers
  <2>2. CASE ifetch' = ifetch
    BY <1>0, <1>2, <1>3, <2>1, <2>2, RulesCarry DEF FetchGood
  <2>3. CASE ifetch'.lpgno = p /\ ifetch'.frame = t.frame /\ t.fault = Page!NoFault
    BY <1>0, <1>2, <1>3, <2>3, RulesCarry DEF FetchGood
  <2> QED  BY <1>6, <2>2, <2>3
<1> QED  BY <1>4, <1>5, <1>7, <1>8 DEF PagingInv

LEMMA GuestClears ==
  ASSUME PagingAssumed, PagingInv,
         \/ \E r \in {1, 2} : Page!LoadCr3(r)
         \/ \E pg, wp \in BOOLEAN : Page!LoadCr0(pg, wp)
         \/ Page!Invlpg
  PROVE  PagingInv'
<1>1. UNCHANGED <<dirs, tables, written>> /\ cr3' \in {1, 2}
  BY DEF Page!LoadCr3, Page!LoadCr0, Page!Invlpg, PagingInv, Registers
<1>2. cr0' \in [pg : BOOLEAN, wp : BOOLEAN]
  BY DEF Page!LoadCr3, Page!LoadCr0, Page!Invlpg, PagingInv, Registers
<1>3. Page!TlbClear \/ UNCHANGED <<cr0, cr3, tlb, ifetch, stale>>
  BY DEF Page!LoadCr3, Page!LoadCr0, Page!Invlpg
<1>4. CASE Page!TlbClear
  <2>1. Good(Page!Now)' /\ FetchGood' /\ ifetch'.lpgno = -1 /\ stale' = {}
    BY <1>1, <1>4, ClearedGood
  <2> QED  BY <1>1, <1>2, <2>1 DEF PagingInv, Registers
<1>5. CASE UNCHANGED <<cr0, cr3, tlb, ifetch, stale>>
  <2>1. Good(Page!Now)'
    BY <1>1, <1>5, CarryGood DEF PagingInv, Page!Now
  <2>2. FetchGood'
    BY <1>1, <1>5 DEF PagingInv, FetchGood, Page!Mapped, Page!RefOf, Page!Pde
  <2> QED  BY <1>1, <1>5, <2>1, <2>2 DEF PagingInv, Registers
<1> QED  BY <1>3, <1>4, <1>5
(* An entry of the tables changes: what was cached of its pages is stale,   *)
(* unless nothing of them can be cached.                                    *)
LEMMA TablesChange ==
  ASSUME PagingAssumed, PagingInv, NEW r \in Page!PteRef, NEW x \in PteSet,
         tables' = [tables EXCEPT ![r] = x], UNCHANGED <<cr0, cr3, dirs, tlb, ifetch>>,
         stale \subseteq stale', stale' \subseteq 0 .. 2, written' = written \ {r},
         \/ /\ x.p = tables[r].p /\ x.us = tables[r].us /\ x.rw = tables[r].rw
            /\ x.frame = tables[r].frame
         \/ tables[r].p => \A p \in 0 .. 2 : Page!RefOf(p) = r => p \in stale'
  PROVE  PagingInv'
<1>0. Registers /\ Good(Page!Now)  BY DEF PagingInv
<1>1. /\ tlb \in [0 .. Slots - 1 -> SlotSet] /\ tables \in [Page!PteRef -> PteSet]
  BY <1>0 DEF Good, States, Page!Now
<1>2. tables' \in [Page!PteRef -> PteSet] /\ tables'[r] = x
      /\ \A q \in Page!PteRef : q # r => tables'[q] = tables[q]
  BY <1>1
<1>3. Page!Now' \in States /\ Page!Now'.tlb = tlb /\ Page!Now'.tables = tables'
  BY <1>1, <1>2 DEF Page!Now, States
<1>4. ASSUME NEW p \in 0 .. 2
      PROVE  Page!Pde(p)' = Page!Pde(p) /\ Page!RefOf(p)' = Page!RefOf(p)
  BY DEF Page!Pde, Page!RefOf
<1>5. ASSUME NEW p \in 0 .. 2, p \notin stale', Page!Mapped(p)
      PROVE  LET q == Page!RefOf(p)
             IN /\ tables'[q].p = tables[q].p /\ tables'[q].us = tables[q].us
                /\ tables'[q].rw = tables[q].rw /\ tables'[q].frame = tables[q].frame
  <2>1. Page!RefOf(p) \in Page!PteRef  BY <1>0, RefTyped
  <2>2. CASE Page!RefOf(p) # r  BY <1>2, <2>1, <2>2
  <2>3. CASE Page!RefOf(p) = r
    BY <1>2, <1>5, <2>3 DEF Page!Mapped
  <2> QED  BY <2>2, <2>3
<1>6. ASSUME NEW p \in 0 .. 2, p \notin stale', Page!Mapped(p)
      PROVE  /\ Page!Mapped(p)'
             /\ tables[Page!RefOf(p)]'.frame = tables[Page!RefOf(p)].frame
             /\ \A user, write \in BOOLEAN :
                  Page!Denied(p, user, write)' <=> Page!Denied(p, user, write)
  BY <1>4, <1>5, <1>6 DEF Page!Mapped, Page!Denied
<1>7. ASSUME NEW s \in 0 .. Slots - 1, tlb[s].lpgno # -1
      PROVE  /\ tlb[s].lpgno % Slots = s
             /\ tlb[s].ppte = Page!RefOf(tlb[s].lpgno)'
             /\ tlb[s].lpgno \notin stale' => Current(tlb[s])'
  <2> PICK e : e = tlb[s]  OBVIOUS
  <2>1. e.lpgno \in 0 .. 2
    <3>1. e \in SlotSet  BY <1>1
    <3> QED  BY <3>1, <1>7 DEF SlotSet
  <2>2. /\ e.lpgno % Slots = s /\ e.ppte = Page!RefOf(e.lpgno)
        /\ e.lpgno \notin stale => Current(e)
    BY <1>0, <1>7 DEF Good, Page!Now
  <2>3. ASSUME e.lpgno \notin stale' PROVE Current(e)'
    <3>1. Current(e)  BY <2>2, <2>3
    <3>2. Page!Mapped(e.lpgno)  BY <3>1 DEF Current
    <3> QED  BY <2>1, <2>3, <3>1, <3>2, <1>4, <1>6 DEF Current
  <2> QED  BY <1>4, <2>1, <2>2, <2>3
<1>8. Good(Page!Now)'
  <2>1. \A q \in Page!PteRef :
          /\ Page!Now'.tables[q].p = tables'[q].p /\ Page!Now'.tables[q].us = tables'[q].us
          /\ Page!Now'.tables[q].rw = tables'[q].rw
          /\ Page!Now'.tables[q].frame = tables'[q].frame
    BY <1>3
  <2> QED  BY <1>3, <1>7, <2>1 DEF Good
<1>9. FetchGood'
  <2> SUFFICES ASSUME ifetch.lpgno # -1, ifetch.lpgno \notin stale', cr0.pg
               PROVE  /\ Page!Mapped(ifetch.lpgno)'
                      /\ ifetch.frame = tables[Page!RefOf(ifetch.lpgno)]'.frame
    BY DEF FetchGood
  <2>1. ifetch.lpgno \in 0 .. 2  BY <1>0 DEF Registers
  <2>2. /\ Page!Mapped(ifetch.lpgno) /\ ifetch.frame = tables[Page!RefOf(ifetch.lpgno)].frame
    BY DEF PagingInv, FetchGood
  <2> QED  BY <1>6, <2>1, <2>2
<1>10. \A q \in written' : tables'[q].d
  BY <1>0, <1>2 DEF PagingInv, Registers
<1> QED  BY <1>0, <1>8, <1>9, <1>10 DEF PagingInv, Registers

LEMMA EditStep ==
  ASSUME PagingAssumed, PagingInv, NEW r \in Page!PteRef, NEW e \in Ptes, Page!Edit(r, e)
  PROVE  PagingInv'
<1> DEFINE no == FALSE
           x == [p |-> e.p, us |-> e.us, rw |-> e.rw, frame |-> e.frame, d |-> no]
<1>1. x \in PteSet
  <2>1. no \in BOOLEAN  OBVIOUS
  <2>2. e.p \in BOOLEAN /\ e.us \in BOOLEAN /\ e.rw \in BOOLEAN /\ e.frame \in Frames
    BY DEF PagingAssumed, Frames
  <2> HIDE DEF no
  <2> QED  BY <2>1, <2>2 DEF PteSet
<1>2. /\ tables' = [tables EXCEPT ![r] = x] /\ UNCHANGED <<cr0, cr3, dirs, tlb, ifetch>>
      /\ written' = written \ {r}
      /\ stale' = (IF tables[r].p THEN stale \cup Page!PagesOf(r) ELSE stale)
  BY DEF Page!Edit
<1>3. /\ stale \subseteq stale' /\ stale' \subseteq 0 .. 2
      /\ tables[r].p => \A p \in 0 .. 2 : Page!RefOf(p) = r => p \in stale'
  BY <1>2 DEF PagingInv, Registers, Page!PagesOf, Page!Lpgno
<1> HIDE DEF x
<1> QED  BY <1>1, <1>2, <1>3, TablesChange

LEMMA ClearDirtyStep ==
  ASSUME PagingAssumed, PagingInv, NEW r \in Page!PteRef, Page!ClearDirty(r)
  PROVE  PagingInv'
<1> DEFINE no == FALSE
           x == [tables[r] EXCEPT !.d = no]
<1>1. tables \in [Page!PteRef -> PteSet]
  BY DEF PagingInv, Good, States, Page!Now
<1>2. x \in PteSet /\ x.p = tables[r].p /\ x.us = tables[r].us /\ x.rw = tables[r].rw
      /\ x.frame = tables[r].frame
  <2>1. no \in BOOLEAN  OBVIOUS
  <2> HIDE DEF no
  <2> QED  BY <1>1, <2>1 DEF PteSet
<1>3. /\ tables' = [tables EXCEPT ![r] = x] /\ UNCHANGED <<cr0, cr3, dirs, tlb, ifetch, stale>>
      /\ written' = written \ {r}
  BY <1>1 DEF Page!ClearDirty
<1>4. stale' \subseteq 0 .. 2  BY <1>3 DEF PagingInv, Registers
<1> HIDE DEF x
<1> QED  BY <1>2, <1>3, <1>4, TablesChange

LEMMA PagingStep ==
  ASSUME PagingAssumed, PagingInv, [Page!Next]_Page!pageVars
  PROVE  PagingInv'
<1>1. CASE \E p \in Page!Lpgno, across, user, write \in BOOLEAN : Page!Access(p, across, user, write)
  BY <1>1, AccessStep DEF Page!Lpgno
<1>2. CASE \E p \in Page!Lpgno, user \in BOOLEAN : Page!Fetch(p, user)
  BY <1>2, FetchStep DEF Page!Lpgno
<1>3. CASE \/ \E r \in {1, 2} : Page!LoadCr3(r)
           \/ \E pg, wp \in BOOLEAN : Page!LoadCr0(pg, wp)
           \/ Page!Invlpg
  BY <1>3, GuestClears
<1>4. CASE \E r \in Page!PteRef : Page!ClearDirty(r) \/ \E e \in Ptes : Page!Edit(r, e)
  BY <1>4, ClearDirtyStep, EditStep
<1>5. CASE UNCHANGED Page!pageVars
  <2>1. UNCHANGED <<cr0, cr3, dirs, tables, tlb, ifetch, stale, written>>
    BY <1>5 DEF Page!pageVars
  <2>2. Good(Page!Now)'
    BY <2>1, CarryGood DEF PagingInv, Page!Now
  <2>3. FetchGood'
    BY <2>1 DEF PagingInv, FetchGood, Page!Mapped, Page!RefOf, Page!Pde
  <2> QED  BY <2>1, <2>2, <2>3 DEF PagingInv, Registers
<1> QED  BY <1>1, <1>2, <1>3, <1>4, <1>5 DEF Page!Next

(* For a buffer of any size, any directories and any entries the guest      *)
(* writes: whatever order of accesses, fetches, edits and clears, what is   *)
(* cached serves as the tables would (translate_lpgno, tlb_refill).         *)
THEOREM Translations == PagingAssumed => (PagingSpec => []CachesCurrent)
<1> SUFFICES ASSUME PagingAssumed PROVE PagingSpec => []CachesCurrent  OBVIOUS
<1>1. Page!Init => PagingInv  BY PagingStart
<1>2. PagingInv /\ [Page!Next]_Page!pageVars => PagingInv'  BY PagingStep
<1>3. PagingInv => CachesCurrent  BY CachesServe DEF CachesCurrent
<1> QED  BY <1>1, <1>2, <1>3, PTL DEF PagingSpec

-----------------------------------------------------------------------------
(* Privilege levels, for stacks and depths of any size.  At any time the    *)
(* stack of level 0 is the frame of the last entry that has not been        *)
(* returned from, over the stack as that entry found it, and so on down to  *)
(* a program; and a program holds no segment of level 0.                    *)
RingSpec == Ring!Init /\ [][Ring!Next]_Ring!protectVars

IsSeq(s) == \E S : s \in Seq(S)

RegFields == {"pe", "vm", "cpl", "cs", "ip", "ss", "sp", "data", "if", "iopl"}
HasRegs(r) == r = [f \in RegFields |-> r[f]]
HasData(d) == d = [x \in Ring!DataRegs |-> d[x]]
IpNames == {"0", "1", "irq", "gp", "call", "private", "own", "conf", "gate", "sysenter"}
IsRegs(r) == /\ HasRegs(r) /\ HasData(r.data)
             /\ r.if \in BOOLEAN /\ r.iopl \in {0, 3} /\ r.ip \in IpNames

(* The four levels at which something runs, and what it can then hold.      *)
InReal(r) == /\ IsRegs(r) /\ r.pe = FALSE /\ r.vm = FALSE /\ r.cpl = 0 /\ r.ss = "rs" /\ r.sp = 0
InVirtual(r) == IsRegs(r) /\ r.pe = TRUE /\ r.vm = TRUE /\ r.cpl = 3 /\ r.sp \in 0 .. Sp - 1
InProgram(r) ==
  /\ IsRegs(r) /\ r.pe = TRUE /\ r.vm = FALSE /\ r.cpl = 3 /\ r.sp \in 0 .. Sp - 1
  /\ r.cs \in {Ring!Sel("U", 3), Ring!Sel("C", 3)} /\ r.ss = "UD"
  /\ \A x \in Ring!DataRegs : r.data[x] \in {"null", "UD"}
InKernel(r) ==
  /\ IsRegs(r) /\ r.pe = TRUE /\ r.vm = FALSE /\ r.cpl = 0 /\ r.sp = 0
  /\ r.cs \in {Ring!Sel("K", 0), Ring!Sel("C", 0)} /\ r.ss = "KD"
  /\ \A x \in Ring!DataRegs : r.data[x] \in {"null", "UD"} \/ (x = "DS" /\ r.data[x] = "KD")

(* At the same level, and then of the same kind. *)
AsIn(r, q) ==
  /\ InReal(q) => InReal(r)
  /\ InVirtual(q) => InVirtual(r)
  /\ InProgram(q) => InProgram(r)
  /\ InKernel(q) => InKernel(r)

(* The words of an interrupt frame of what was interrupted.                 *)
FlagsOf(r) == [if |-> r.if, iopl |-> r.iopl, vm |-> r.vm]
Words(r) ==
  IF r.vm THEN <<r.ip, r.cs, FlagsOf(r), r.sp, r.ss,
                 r.data["ES"], r.data["DS"], r.data["FS"], r.data["GS"]>>
  ELSE IF r.cpl = 3 THEN <<r.ip, r.cs, FlagsOf(r), r.sp, r.ss>>
  ELSE <<r.ip, r.cs, FlagsOf(r)>>

(* The stack k of a handler is the frame of the entry e over what was there. *)
Held(k, e) ==
  /\ e.kind = "int" => \/ k = Words(e.c) \o e.kst
                       \/ e.c.pe /\ k = <<"err">> \o (Words(e.c) \o e.kst)
  /\ e.kind = "far" => k = <<e.c.ip, e.c.cs>> \o e.kst
  /\ e.kind = "gate" => \E sp \in 0 .. Sp - 1 :
                          /\ k = <<e.c.ip, e.c.cs, "param", sp, e.c.ss>>
                          /\ e.c.sp = (sp + 1) % Sp
  /\ e.kind = "sys" => k = <<>> /\ e.c.cs = Ring!Sel("U", 3)

(* The registers r and the stack k are those of a handler of the entry e.   *)
Above(r, k, e) ==
  /\ IsSeq(e.kst) /\ Held(k, e)
  /\ \/ InReal(r) /\ InReal(e.c) /\ e.kind \in {"int", "far"}
     \/ InKernel(r) /\ InKernel(e.c) /\ e.kind \in {"int", "far"}
     \/ InKernel(r) /\ InProgram(e.c) /\ e.kst = <<>> /\ e.kind \in {"int", "gate", "sys"}
     \/ InKernel(r) /\ InVirtual(e.c) /\ e.kst = <<>> /\ e.kind = "int"

On(r, k, t, i) ==
  /\ IsSeq(k)
  /\ IF i = Len(t) THEN k = <<>> /\ (InReal(r) \/ InVirtual(r) \/ InProgram(r))
     ELSE Above(r, k, t[i + 1])

RingInv ==
  /\ IsSeq(todo) /\ On(prot, kst, todo, 0)
  /\ \A i \in 1 .. Len(todo) : On(todo[i].c, todo[i].kst, todo, i)

-----------------------------------------------------------------------------
(* Stacks. *)
IsOver(k, w, s) ==
  /\ IsSeq(k) /\ Len(w) \in Nat /\ Len(s) \in Nat /\ Len(k) = Len(w) + Len(s)
  /\ \A i \in 1 .. Len(w) : k[i] = w[i]
  /\ \A i \in 1 .. Len(s) : k[Len(w) + i] = s[i]

(* What was joined has the elements of both. *)
LEMMA Joined ==
  ASSUME NEW w, IsSeq(w), NEW s, IsSeq(s)
  PROVE  IsOver(w \o s, w, s)
<1> PICK k : k = w \o s  OBVIOUS
<1>1. PICK S : w \in Seq(S)  BY DEF IsSeq
<1>2. PICK T : s \in Seq(T)  BY DEF IsSeq
<1>3. w \in Seq(S \cup T) /\ s \in Seq(S \cup T)  BY <1>1, <1>2, SeqMonotonic
<1>4. Len(w) \in Nat /\ Len(s) \in Nat  BY <1>3, LenProperties
<1>5. /\ k \in Seq(S \cup T) /\ Len(k) = Len(w) + Len(s)
      /\ \A i \in 1 .. Len(w) + Len(s) : k[i] = IF i <= Len(w) THEN w[i] ELSE s[i - Len(w)]
  BY <1>3, ConcatProperties
<1>6. \A i \in 1 .. Len(w) : k[i] = w[i]  BY <1>4, <1>5
<1>7. ASSUME NEW i \in 1 .. Len(s) PROVE k[Len(w) + i] = s[i]
  <2>1. Len(w) + i \in 1 .. Len(w) + Len(s) /\ ~(Len(w) + i <= Len(w)) /\ (Len(w) + i) - Len(w) = i
    BY <1>4
  <2> QED  BY <1>5, <2>1
<1> QED  BY <1>4, <1>5, <1>6, <1>7 DEF IsSeq, IsOver

(* Sequences are the same if their elements are. *)
LEMMA Same ==
  ASSUME NEW s, IsSeq(s), NEW t, IsSeq(t), Len(s) = Len(t), \A i \in 1 .. Len(s) : s[i] = t[i]
  PROVE  s = t
<1>1. PICK S : s \in Seq(S)  BY DEF IsSeq
<1>2. PICK T : t \in Seq(T)  BY DEF IsSeq
<1>3. s \in Seq(S \cup T) /\ t \in Seq(S \cup T)  BY <1>1, <1>2, SeqMonotonic
<1> QED  BY <1>3, SeqEqual

(* What was pushed can be taken off, and leaves what was there. *)
LEMMA Rest ==
  ASSUME NEW w, IsSeq(w), NEW s, IsSeq(s), NEW n, n = Len(w)
  PROVE  SubSeq(w \o s, n + 1, Len(w \o s)) = s
<1> PICK k : k = w \o s  OBVIOUS
<1> DEFINE r == SubSeq(k, n + 1, Len(k))
<1>1. /\ IsSeq(k) /\ n \in Nat /\ Len(s) \in Nat /\ Len(k) = n + Len(s)
      /\ \A i \in 1 .. Len(s) : k[n + i] = s[i]
  <2>1. /\ IsSeq(k) /\ Len(w) \in Nat /\ Len(s) \in Nat /\ Len(k) = Len(w) + Len(s)
        /\ \A i \in 1 .. Len(s) : k[Len(w) + i] = s[i]
    <3>1. IsOver(k, w, s)  BY Joined
    <3> QED  BY <3>1 DEF IsOver
  <2> QED  BY <2>1
<1>2. PICK S : k \in Seq(S)  BY <1>1 DEF IsSeq
<1>3. \A i \in n + 1 .. Len(k) : k[i] \in S
  BY <1>1, <1>2, ElementOfSeq
<1>4. n + 1 \in Int /\ Len(k) \in Int  BY <1>1
<1>5. /\ r \in Seq(S) /\ Len(r) = (IF n + 1 <= Len(k) THEN Len(k) - (n + 1) + 1 ELSE 0)
      /\ \A i \in 1 .. Len(k) - (n + 1) + 1 : r[i] = k[n + 1 + i - 1]
  BY <1>3, <1>4, SubSeqProperties
<1> HIDE DEF r
<1>6. Len(r) = Len(s)  BY <1>1, <1>5
<1>7. \A i \in 1 .. Len(s) : r[i] = s[i]
  <2> TAKE i \in 1 .. Len(s)
  <2>1. i \in 1 .. Len(k) - (n + 1) + 1 /\ n + 1 + i - 1 = n + i  BY <1>1
  <2> QED  BY <1>1, <1>5, <2>1
<1>8. IsSeq(r)  BY <1>5 DEF IsSeq
<1> QED  BY <1>6, <1>7, <1>8, Same DEF r

(* Frames are sequences of a known length. *)
LEMMA Empty == IsSeq(<<>>) /\ Len(<<>>) = 0
<1> <<>> \in Seq({})  OBVIOUS
<1> QED  BY DEF IsSeq
(* A frame of each length that occurs is a sequence of that length. *)
LEMMA One == ASSUME NEW a PROVE IsSeq(<<a>>) /\ Len(<<a>>) = 1
<1> <<a>> \in Seq({a})  OBVIOUS
<1> QED  BY DEF IsSeq
LEMMA Two == ASSUME NEW a, NEW b PROVE IsSeq(<<a, b>>) /\ Len(<<a, b>>) = 2
<1> <<a, b>> \in Seq({a, b})  OBVIOUS
<1> QED  BY DEF IsSeq
LEMMA Three == ASSUME NEW a, NEW b, NEW c PROVE IsSeq(<<a, b, c>>) /\ Len(<<a, b, c>>) = 3
<1> <<a, b, c>> \in Seq({a, b, c})  OBVIOUS
<1> QED  BY DEF IsSeq
LEMMA Four ==
  ASSUME NEW a, NEW b, NEW c, NEW d
  PROVE  IsSeq(<<a, b, c, d>>) /\ Len(<<a, b, c, d>>) = 4
<1> <<a, b, c, d>> \in Seq({a, b, c, d})  OBVIOUS
<1> QED  BY DEF IsSeq
LEMMA Five ==
  ASSUME NEW a, NEW b, NEW c, NEW d, NEW e
  PROVE  IsSeq(<<a, b, c, d, e>>) /\ Len(<<a, b, c, d, e>>) = 5
<1> <<a, b, c, d, e>> \in Seq({a, b, c, d, e})  OBVIOUS
<1> QED  BY DEF IsSeq
LEMMA Nine ==
  ASSUME NEW a, NEW b, NEW c, NEW d, NEW e, NEW f, NEW g, NEW h, NEW i
  PROVE  IsSeq(<<a, b, c, d, e, f, g, h, i>>) /\ Len(<<a, b, c, d, e, f, g, h, i>>) = 9
<1> <<a, b, c, d, e, f, g, h, i>> \in Seq({a, b, c, d, e, f, g, h, i})  OBVIOUS
<1> QED  BY DEF IsSeq

(* A frame on an empty stack. *)
LEMMA NothingUnder == ASSUME NEW s, IsSeq(s) PROVE s \o <<>> = s
<1> PICK S : s \in Seq(S)  BY DEF IsSeq
<1> QED  BY ConcatEmptySeq

(* An error code on a frame on a stack. *)
LEMMA Grouped ==
  ASSUME NEW r, IsSeq(r), NEW s, IsSeq(s), NEW t, IsSeq(t)
  PROVE  (r \o s) \o t = r \o (s \o t)
<1>1. PICK R : r \in Seq(R)  BY DEF IsSeq
<1>2. PICK S : s \in Seq(S)  BY DEF IsSeq
<1>3. PICK T : t \in Seq(T)  BY DEF IsSeq
<1> DEFINE A == R \cup S \cup T
<1>4. r \in Seq(A) /\ s \in Seq(A) /\ t \in Seq(A)  BY <1>1, <1>2, <1>3, SeqMonotonic
<1> HIDE DEF A
<1> QED  BY <1>4, ConcatAssociative

(* Longer frames are shorter ones with more words under them. *)
LEMMA ThreeAndTwo ==
  ASSUME NEW a, NEW b, NEW c, NEW d, NEW e
  PROVE  <<a, b, c>> \o <<d, e>> = <<a, b, c, d, e>>
<1> PICK w : w = <<a, b, c>>  OBVIOUS
<1> PICK s : s = <<d, e>>  OBVIOUS
<1> PICK k : k = w \o s  OBVIOUS
<1> PICK t : t = <<a, b, c, d, e>>  OBVIOUS
<1>1. IsSeq(w) /\ IsSeq(s) /\ Len(w) = 3 /\ Len(s) = 2 /\ IsSeq(t) /\ Len(t) = 5
  BY Two, Three, Five
<1>2. /\ IsSeq(k) /\ Len(k) = Len(w) + Len(s) /\ \A i \in 1 .. Len(w) : k[i] = w[i]
      /\ \A i \in 1 .. Len(s) : k[Len(w) + i] = s[i]
  <2>1. IsOver(k, w, s)  BY <1>1, Joined
  <2> QED  BY <2>1 DEF IsOver
<1>3. Len(k) = 5 /\ k[1] = a /\ k[2] = b /\ k[3] = c  BY <1>1, <1>2
<1>4. k[3 + 1] = d /\ k[3 + 2] = e  BY <1>1, <1>2
<1>5. \A i \in 1 .. 5 : k[i] = t[i]  BY <1>3, <1>4
<1> QED  BY <1>1, <1>2, <1>3, <1>5, Same

(* The frame of a program in virtual-8086 mode is the ordinary one over four data registers. *)
LEMMA FiveAndFour ==
  ASSUME NEW a, NEW b, NEW c, NEW d, NEW e, NEW f, NEW g, NEW h, NEW i
  PROVE  <<a, b, c, d, e>> \o <<f, g, h, i>> = <<a, b, c, d, e, f, g, h, i>>
<1> PICK w : w = <<a, b, c, d, e>>  OBVIOUS
<1> PICK s : s = <<f, g, h, i>>  OBVIOUS
<1> PICK k : k = w \o s  OBVIOUS
<1> PICK t : t = <<a, b, c, d, e, f, g, h, i>>  OBVIOUS
<1>1. IsSeq(w) /\ IsSeq(s) /\ Len(w) = 5 /\ Len(s) = 4 /\ IsSeq(t) /\ Len(t) = 9
  BY Four, Five, Nine
<1>2. /\ IsSeq(k) /\ Len(k) = Len(w) + Len(s) /\ \A j \in 1 .. Len(w) : k[j] = w[j]
      /\ \A j \in 1 .. Len(s) : k[Len(w) + j] = s[j]
  <2>1. IsOver(k, w, s)  BY <1>1, Joined
  <2> QED  BY <2>1 DEF IsOver
<1>3. Len(k) = 9 /\ k[1] = a /\ k[2] = b /\ k[3] = c /\ k[4] = d /\ k[5] = e  BY <1>1, <1>2
<1>4. k[5 + 1] = f /\ k[5 + 2] = g /\ k[5 + 3] = h /\ k[5 + 4] = i  BY <1>1, <1>2
<1>5. \A j \in 1 .. 9 : k[j] = t[j]  BY <1>3, <1>4
<1> QED  BY <1>1, <1>2, <1>3, <1>5, Same

(* What can be taken off a stack word by word. *)
IsPushed(u, e, t) ==
  /\ IsSeq(u) /\ Len(t) \in Nat /\ Len(u) = Len(t) + 1 /\ u # <<>>
  /\ u[1] = e /\ Head(u) = e /\ Tail(u) = t /\ \A i \in 1 .. Len(t) : u[i + 1] = t[i]

(* An entry that is put before the others is the head, and the others follow in order. *)
LEMMA Pushed ==
  ASSUME NEW e, NEW t, IsSeq(t)
  PROVE  IsPushed(<<e>> \o t, e, t)
<1> PICK u : u = <<e>> \o t  OBVIOUS
<1> PICK w : w = <<e>>  OBVIOUS
<1>1. IsSeq(w) /\ Len(w) = 1 /\ w[1] = e  BY One
<1>2. /\ IsSeq(u) /\ Len(t) \in Nat /\ Len(u) = Len(w) + Len(t)
      /\ \A i \in 1 .. Len(w) : u[i] = w[i]
      /\ \A i \in 1 .. Len(t) : u[Len(w) + i] = t[i]
  <2>1. IsOver(u, w, t)  BY <1>1, Joined
  <2> QED  BY <2>1 DEF IsOver
<1>3. Len(u) = Len(t) + 1 /\ u[1] = e  BY <1>1, <1>2
<1>4. \A i \in 1 .. Len(t) : u[i + 1] = t[i]
  <2> TAKE i \in 1 .. Len(t)
  <2>1. 1 + i = i + 1  OBVIOUS
  <2> QED  BY <1>1, <1>2, <2>1
<1>5. u # <<>>  BY <1>2, <1>3, Empty
<1>6. Tail(u) = t
  <2>1. PICK S : u \in Seq(S)  BY <1>2 DEF IsSeq
  <2>2. Tail(u) = SubSeq(u, 2, Len(u))  BY <1>5, <2>1, TailIsSubSeq
  <2>4. SubSeq(u, 1 + 1, Len(u)) = t  BY <1>1, Rest
  <2> QED  BY <2>2, <2>4
<1>7. Head(u) = u[1]  OBVIOUS
<1> QED  BY <1>2, <1>3, <1>4, <1>5, <1>6, <1>7 DEF IsPushed

(* What is left of the entries after a return. *)
LEMMA Popped ==
  ASSUME NEW t, IsSeq(t), t # <<>>
  PROVE  /\ Len(t) \in Nat \ {0} /\ Head(t) = t[1] /\ IsSeq(Tail(t)) /\ Len(Tail(t)) = Len(t) - 1
         /\ \A i \in 1 .. Len(t) - 1 : Tail(t)[i] = t[i + 1]
<1> PICK S : t \in Seq(S)  BY DEF IsSeq
<1>1. Len(t) \in Nat \ {0}  BY EmptySeq
<1>2. /\ Tail(t) \in Seq(S) /\ Len(Tail(t)) = Len(t) - 1
      /\ \A i \in 1 .. Len(Tail(t)) : Tail(t)[i] = t[i + 1]
  BY HeadTailProperties
<1>3. Head(t) = t[1]  OBVIOUS
<1> QED  BY <1>1, <1>2, <1>3 DEF IsSeq

(* No entries. *)
LEMMA IsEmpty == ASSUME NEW t, IsSeq(t) PROVE Len(t) \in Nat /\ (Len(t) = 0 <=> t = <<>>)
<1> PICK S : t \in Seq(S)  BY DEF IsSeq
<1> QED  BY EmptySeq

-----------------------------------------------------------------------------
(* Entries. *)
LEMMA LevelsDiffer ==
  ASSUME NEW r
  PROVE  /\ ~(InReal(r) /\ InVirtual(r)) /\ ~(InReal(r) /\ InProgram(r))
         /\ ~(InReal(r) /\ InKernel(r))
         /\ ~(InVirtual(r) /\ InProgram(r)) /\ ~(InVirtual(r) /\ InKernel(r))
         /\ ~(InProgram(r) /\ InKernel(r))
BY DEF InReal, InVirtual, InProgram, InKernel

(* Registers may change as long as the level stays. *)
LEMMA StillOn ==
  ASSUME NEW q, NEW r, AsIn(r, q), NEW k, NEW t, NEW i, On(q, k, t, i)
  PROVE  On(r, k, t, i)
<1>1. CASE i = Len(t)
  BY <1>1 DEF On, AsIn
<1>2. CASE i # Len(t)
  <2>1. PICK e : e = t[i + 1]  OBVIOUS
  <2>2. Above(q, k, e) => Above(r, k, e)  BY LevelsDiffer DEF Above, AsIn
  <2> QED  BY <1>2, <2>1, <2>2 DEF On
<1> QED  BY <1>1, <1>2

(* Programs are at the bottom, the kernel never is.                         *)
LEMMA Where ==
  ASSUME RingInv
  PROVE  /\ InReal(prot) \/ InVirtual(prot) \/ InProgram(prot) \/ InKernel(prot)
         /\ IsSeq(todo) /\ IsSeq(kst)
         /\ InVirtual(prot) \/ InProgram(prot) => kst = <<>> /\ todo = <<>>
         /\ InKernel(prot) => todo # <<>>
         /\ todo # <<>> => Above(prot, kst, Head(todo)) /\ Head(todo) = todo[1]
<1>1. IsSeq(todo) /\ On(prot, kst, todo, 0)  BY DEF RingInv
<1>2. Len(todo) \in Nat /\ (Len(todo) = 0 <=> todo = <<>>)  BY <1>1, IsEmpty
<1>3. CASE todo = <<>>
  BY <1>1, <1>2, <1>3, LevelsDiffer DEF On
<1>4. CASE todo # <<>>
  <2>1. Head(todo) = todo[1] /\ 0 + 1 = 1  BY <1>1, <1>4, Popped
  <2>2. Above(prot, kst, Head(todo))  BY <1>1, <1>2, <1>4, <2>1 DEF On
  <2> QED  BY <1>1, <1>4, <2>1, <2>2, LevelsDiffer DEF On, Above
<1> QED  BY <1>3, <1>4

(* A step that stays at its level and keeps the stack. *)
LEMMA Stays ==
  ASSUME RingInv, AsIn(prot', prot), kst' = kst, todo' = todo
  PROVE  RingInv'
<1>1. On(prot', kst, todo, 0)  BY StillOn DEF RingInv
<1> QED  BY <1>1 DEF RingInv

(* A step that enters a handler, over any number of others. *)
LEMMA Pushes ==
  ASSUME RingInv, NEW e, On(e.c, e.kst, todo, 0), todo' = <<e>> \o todo,
         IsSeq(kst'), Above(prot', kst', e)
  PROVE  RingInv' /\ Len(todo') = Len(todo) + 1 /\ Len(todo) \in Nat
<1>1. PICK t : t = todo'  OBVIOUS
<1>2. IsSeq(todo)  BY DEF RingInv
<1>3. /\ IsSeq(t) /\ Len(todo) \in Nat /\ Len(t) = Len(todo) + 1
      /\ t[1] = e /\ \A i \in 1 .. Len(todo) : t[i + 1] = todo[i]
  <2>1. IsPushed(t, e, todo)  BY <1>1, <1>2, Pushed, Zenon
  <2> QED  BY <2>1 DEF IsPushed
<1>4. On(prot', kst', t, 0)
  <2>1. 0 # Len(t) /\ 0 + 1 = 1  BY <1>3
  <2> QED  BY <1>3, <2>1 DEF On
<1>5. ASSUME NEW r, NEW k, NEW i \in Nat, i <= Len(todo), On(r, k, todo, i)
      PROVE  On(r, k, t, i + 1)
  <2>1. CASE i = Len(todo)
    BY <1>3, <1>5, <2>1 DEF On
  <2>2. CASE i # Len(todo)
    <3>1. i + 1 \in 1 .. Len(todo) /\ i + 1 # Len(t)  BY <1>3, <1>5, <2>2
    <3>2. t[(i + 1) + 1] = todo[i + 1]  BY <1>3, <3>1
    <3> QED  BY <1>5, <2>2, <3>1, <3>2 DEF On
  <2> QED  BY <2>1, <2>2
<1>6. On(t[1].c, t[1].kst, t, 1)
  <2>1. On(e.c, e.kst, t, 0 + 1)  BY <1>3, <1>5
  <2> QED  BY <1>3, <2>1
<1>7. ASSUME NEW i \in 1 .. Len(todo) PROVE On(t[i + 1].c, t[i + 1].kst, t, i + 1)
  <2>1. On(todo[i].c, todo[i].kst, todo, i)  BY DEF RingInv
  <2>2. On(todo[i].c, todo[i].kst, t, i + 1)  BY <1>3, <1>5, <2>1
  <2> QED  BY <1>3, <2>2
<1>8. ASSUME NEW i \in 1 .. Len(t) PROVE On(t[i].c, t[i].kst, t, i)
  <2>1. CASE i = 1  BY <1>6, <2>1
  <2>2. CASE i # 1
    <3>1. PICK j \in 1 .. Len(todo) : i = j + 1
      <4>1. i - 1 \in 1 .. Len(todo) /\ i = (i - 1) + 1  BY <1>3, <2>2
      <4> QED  BY <4>1
    <3> QED  BY <1>7, <3>1
  <2> QED  BY <2>1, <2>2
<1> QED  BY <1>1, <1>3, <1>4, <1>8 DEF RingInv

(* A step that returns to what was entered last. *)
LEMMA Pops ==
  ASSUME RingInv, todo # <<>>, todo' = Tail(todo), kst' = Head(todo).kst,
         AsIn(prot', Head(todo).c)
  PROVE  RingInv'
<1>1. PICK t : t = todo'  OBVIOUS
<1>2. IsSeq(todo)  BY DEF RingInv
<1>3. PICK e : e = Head(todo)  OBVIOUS
<1>4. /\ Len(todo) \in Nat \ {0} /\ e = todo[1] /\ IsSeq(t) /\ Len(t) = Len(todo) - 1
      /\ \A i \in 1 .. Len(todo) - 1 : t[i] = todo[i + 1]
  BY <1>1, <1>2, <1>3, Popped
<1>5. ASSUME NEW r, NEW k, NEW i \in 1 .. Len(todo), On(r, k, todo, i)
      PROVE  On(r, k, t, i - 1)
  <2>1. CASE i = Len(todo)
    BY <1>4, <1>5, <2>1 DEF On
  <2>2. CASE i # Len(todo)
    <3>1. i \in 1 .. Len(todo) - 1 /\ (i - 1) + 1 = i /\ i - 1 # Len(t)  BY <1>4, <2>2
    <3>2. t[(i - 1) + 1] = todo[i + 1]  BY <1>4, <3>1
    <3> QED  BY <1>5, <2>2, <3>1, <3>2 DEF On
  <2> QED  BY <2>1, <2>2
<1>6. On(prot', kst', t, 0)
  <2>1. On(todo[1].c, todo[1].kst, todo, 1)  BY <1>4 DEF RingInv
  <2>2. On(e.c, e.kst, t, 1 - 1)  BY <1>4, <1>5, <2>1
  <2>3. On(prot', e.kst, t, 1 - 1)  BY <1>3, <2>2, StillOn
  <2> QED  BY <1>3, <2>3
<1>7. ASSUME NEW i \in 1 .. Len(t) PROVE On(t[i].c, t[i].kst, t, i)
  <2>1. i + 1 \in 1 .. Len(todo) /\ i \in 1 .. Len(todo) - 1 /\ (i + 1) - 1 = i  BY <1>4
  <2>2. On(todo[i + 1].c, todo[i + 1].kst, todo, i + 1)  BY <2>1 DEF RingInv
  <2>3. On(todo[i + 1].c, todo[i + 1].kst, t, (i + 1) - 1)  BY <1>5, <2>1, <2>2
  <2> QED  BY <1>4, <2>1, <2>3
<1> QED  BY <1>1, <1>4, <1>6, <1>7 DEF RingInv

-----------------------------------------------------------------------------
(* What the properties of a step need. *)
RingAssumed == Sp \in Nat \ {0}

(* A step keeps the invariant and does what the levels allow.               *)
Apart == RingInv' /\ Ring!EntryAtGate /\ Ring!ReturnExact /\ Ring!UserCannot

(* A step at one level. *)
LEMMA StaysApart ==
  ASSUME RingInv, AsIn(prot', prot), kst' = kst, todo' = todo, prot'.cpl = prot.cpl,
         prot.cpl = 3 => /\ prot'.iopl = prot.iopl /\ prot'.vm = prot.vm
                         /\ prot.iopl < 3 /\ prot'.ip # "conf" => prot'.if = prot.if
  PROVE  Apart
<1>1. RingInv'  BY Stays
<1>2. prot.cpl \in {0, 3}  BY Where DEF InReal, InVirtual, InProgram, InKernel
<1>3. ~(prot'.cpl < prot.cpl)  BY <1>2
<1>4. ~(Len(todo') < Len(todo))
  <2>1. Len(todo) \in Nat  BY Where, IsEmpty
  <2> QED  BY <2>1
<1> QED  BY <1>1, <1>3, <1>4
  DEF Apart, Ring!EntryAtGate, Ring!ReturnExact, Ring!UserCannot, Ring!User

(* Entries from level 0. *)
LEMMA PushesApart ==
  ASSUME RingInv, NEW e, On(e.c, e.kst, todo, 0), todo' = <<e>> \o todo,
         IsSeq(kst'), Above(prot', kst', e), prot.cpl = 0, prot'.cpl = 0
  PROVE  Apart
<1>1. RingInv' /\ Len(todo') = Len(todo) + 1 /\ Len(todo) \in Nat  BY Pushes
<1>2. ~(prot'.cpl < prot.cpl)  OBVIOUS
<1>3. ~(Len(todo') < Len(todo))  BY <1>1
<1> QED  BY <1>1, <1>2, <1>3
  DEF Apart, Ring!EntryAtGate, Ring!ReturnExact, Ring!UserCannot, Ring!User

(* Registers of which one has changed. *)
LEMMA Moved ==
  ASSUME NEW r, IsRegs(r), NEW ip \in IpNames, NEW q, q = [r EXCEPT !.ip = ip]
  PROVE  /\ IsRegs(q) /\ q.ip = ip /\ AsIn(q, r) /\ FlagsOf(q) = FlagsOf(r)
         /\ \A f \in RegFields \ {"ip"} : q[f] = r[f]
<1>1. HasRegs(q) /\ q.ip = ip /\ \A f \in RegFields \ {"ip"} : q[f] = r[f]
  BY DEF IsRegs, HasRegs, RegFields
<1>2. /\ q.pe = r.pe /\ q.vm = r.vm /\ q.cpl = r.cpl /\ q.cs = r.cs /\ q.ss = r.ss /\ q.sp = r.sp
      /\ q.data = r.data /\ q.if = r.if /\ q.iopl = r.iopl
  BY <1>1 DEF RegFields
<1>3. IsRegs(q)  BY <1>1, <1>2 DEF IsRegs
<1>4. AsIn(q, r)  BY <1>2, <1>3, Zenon DEF AsIn, InReal, InVirtual, InProgram, InKernel
<1> QED  BY <1>1, <1>2, <1>3, <1>4 DEF FlagsOf

-----------------------------------------------------------------------------
(* Entries through the descriptor table (call_isr). *)
Kernels == {"irq", "gp", "call"}

(* What each gate leads to. *)
LEMMA GatesAre ==
  /\ \A n \in Kernels : Ring!Gates[n].seg = "K"
  /\ Ring!Gates["irq"].trap = FALSE /\ Ring!Gates["gp"].trap = FALSE
  /\ Ring!Gates["call"].trap = TRUE
  /\ Ring!Gates["call"].dpl = 3 /\ Ring!Gates["private"].dpl = 0
  /\ Ring!Gates["own"] = [dpl |-> 3, seg |-> "U", trap |-> TRUE]
  /\ Ring!Gates["conf"] = [dpl |-> 3, seg |-> "C", trap |-> FALSE]
BY DEF Ring!Gates, Kernels

(* The privilege level of each segment, and which are conforming. *)
LEMMA Segments ==
  /\ Ring!Dpl("K") = 0 /\ Ring!Dpl("U") = 3 /\ Ring!Dpl("C") = 0
  /\ Ring!Dpl("KD") = 0 /\ Ring!Dpl("UD") = 3 /\ Ring!Dpl("null") = 0
  /\ Ring!Conforming("K") = FALSE /\ Ring!Conforming("U") = FALSE /\ Ring!Conforming("C") = TRUE
  /\ Ring!Conforming("KD") = FALSE /\ Ring!Conforming("UD") = FALSE
  /\ Ring!Conforming("null") = FALSE
BY DEF Ring!Dpl, Ring!Conforming

(* The kernel enters handlers at its own level. *)
LEMMA ClassInKernel ==
  ASSUME InKernel(prot), NEW n \in Kernels, NEW ext \in BOOLEAN
  PROVE  Ring!Class(n, ext) = 1
<1>1. PICK g : g = Ring!Gates[n]  OBVIOUS
<1>2. g.seg = "K" /\ (n = "call" => g.dpl = 3)  BY <1>1, GatesAre
<1>3. prot.cpl = 0 /\ prot.vm = FALSE  BY DEF InKernel
<1>4. g.dpl \in {0, 3}  BY <1>1 DEF Ring!Gates, Kernels
<1> QED  BY <1>1, <1>2, <1>3, <1>4, Segments DEF Ring!Class

(* Programs enter them in the kernel, if the vector is for them, or at their own level. *)
LEMMA ClassOfPrograms ==
  ASSUME InProgram(prot) \/ InVirtual(prot)
  PROVE  /\ \A n \in {"irq", "gp"} : Ring!Class(n, TRUE) = IF prot.vm THEN 3 ELSE 2
         /\ Ring!Class("call", FALSE) = IF prot.vm THEN 3 ELSE 2
         /\ Ring!Class("private", FALSE) = 0
         /\ Ring!Class("own", FALSE) = IF prot.vm THEN 0 ELSE 1
         /\ Ring!Class("conf", FALSE) = IF prot.vm THEN 0 ELSE 1
<1>1. prot.cpl = 3 /\ prot.vm \in BOOLEAN  BY DEF InProgram, InVirtual
<1>2. ASSUME NEW n \in {"irq", "gp"} PROVE Ring!Class(n, TRUE) = IF prot.vm THEN 3 ELSE 2
  <2>1. Ring!Gates[n].seg = "K"  BY GatesAre DEF Kernels
  <2> QED  BY <1>1, <2>1, Segments DEF Ring!Class
<1>3. Ring!Class("call", FALSE) = IF prot.vm THEN 3 ELSE 2
  <2>1. Ring!Gates["call"].seg = "K" /\ Ring!Gates["call"].dpl = 3  BY GatesAre DEF Kernels
  <2> QED  BY <1>1, <2>1, Segments DEF Ring!Class
<1>4. Ring!Class("private", FALSE) = 0
  <2>1. Ring!Gates["private"].dpl = 0  BY GatesAre
  <2> QED  BY <1>1, <2>1 DEF Ring!Class
<1>5. Ring!Class("own", FALSE) = IF prot.vm THEN 0 ELSE 1
  <2>1. Ring!Gates["own"].seg = "U" /\ Ring!Gates["own"].dpl = 3  BY GatesAre
  <2> QED  BY <1>1, <2>1, Segments DEF Ring!Class
<1>6. Ring!Class("conf", FALSE) = IF prot.vm THEN 0 ELSE 1
  <2>1. Ring!Gates["conf"].seg = "C" /\ Ring!Gates["conf"].dpl = 3  BY GatesAre
  <2> QED  BY <1>1, <2>1, Segments DEF Ring!Class
<1> QED  BY <1>2, <1>3, <1>4, <1>5, <1>6

(* The frames as they lie on the stack. *)
LEMMA FrameWords ==
  ASSUME NEW ip
  PROVE  /\ Ring!Frame(1, ip) = <<ip, prot.cs, FlagsOf(prot)>>
         /\ Ring!Frame(2, ip) = <<ip, prot.cs, FlagsOf(prot), prot.sp, prot.ss>>
         /\ Ring!Frame(3, ip) = <<ip, prot.cs, FlagsOf(prot), prot.sp, prot.ss, prot.data["ES"],
                                  prot.data["DS"], prot.data["FS"], prot.data["GS"]>>
<1> PICK w : w = <<ip, prot.cs, FlagsOf(prot)>>  OBVIOUS
<1>1. w = <<ip, prot.cs, Ring!Flags>>  BY DEF FlagsOf, Ring!Flags
<1>2. IsSeq(w) /\ w \o <<>> = w  BY Three, NothingUnder
<1> PICK v : v = <<ip, prot.cs, FlagsOf(prot), prot.sp, prot.ss>>  OBVIOUS
<1>3. w \o <<prot.sp, prot.ss>> = v  BY ThreeAndTwo
<1>4. IsSeq(v) /\ v \o <<>> = v  BY Five, NothingUnder
<1>5. Ring!Frame(1, ip) = (w \o <<>>) \o <<>>  BY <1>1 DEF Ring!Frame
<1>6. Ring!Frame(2, ip) = (w \o <<prot.sp, prot.ss>>) \o <<>>  BY <1>1 DEF Ring!Frame
<1>7. Ring!Frame(3, ip) = (w \o <<prot.sp, prot.ss>>)
        \o <<prot.data["ES"], prot.data["DS"], prot.data["FS"], prot.data["GS"]>>
  BY <1>1 DEF Ring!Frame
<1> QED  BY <1>2, <1>3, <1>4, <1>5, <1>6, <1>7, FiveAndFour

(* What an entry saves. *)
KeptRegs(ip) == [prot EXCEPT !.ip = ip]
EntryOf(kind, ip) == [kind |-> kind, c |-> KeptRegs(ip), kst |-> kst]

(* What is saved is at the level of what runs, on the stack as it was. *)
LEMMA KeptIsOn ==
  ASSUME RingInv, NEW ip \in IpNames, NEW kind, NEW e, e = EntryOf(kind, ip)
  PROVE  /\ IsRegs(prot) /\ e.kind = kind /\ e.c = KeptRegs(ip) /\ e.kst = kst /\ IsSeq(kst)
         /\ On(e.c, e.kst, todo, 0) /\ AsIn(e.c, prot)
         /\ e.c.ip = ip /\ e.c.cs = prot.cs /\ FlagsOf(e.c) = FlagsOf(prot) /\ e.c.sp = prot.sp
         /\ e.c.ss = prot.ss /\ e.c.data = prot.data /\ e.c.vm = prot.vm /\ e.c.cpl = prot.cpl
         /\ e.c.pe = prot.pe
         /\ Ring!Interrupted(kind, ip) = <<e>> \o todo
<1>1. IsRegs(prot)  BY Where DEF InReal, InVirtual, InProgram, InKernel
<1>2. PICK q : q = KeptRegs(ip)  OBVIOUS
<1>3. /\ IsRegs(q) /\ q.ip = ip /\ AsIn(q, prot) /\ FlagsOf(q) = FlagsOf(prot)
      /\ \A f \in RegFields \ {"ip"} : q[f] = prot[f]
  BY <1>1, <1>2, Moved DEF KeptRegs
<1>4. On(q, kst, todo, 0)  BY <1>3, StillOn DEF RingInv
<1>5. e.kind = kind /\ e.c = q /\ e.kst = kst  BY <1>2 DEF EntryOf
<1>6. Ring!Interrupted(kind, ip) = <<e>> \o todo  BY DEF Ring!Interrupted, EntryOf, KeptRegs
<1>7. IsSeq(kst)  BY Where
<1> QED  BY <1>1, <1>2, <1>3, <1>4, <1>5, <1>6, <1>7 DEF RegFields

-----------------------------------------------------------------------------
(* The registers after an assignment of those that an entry sets. *)
IsSet(q, r, cs, ip, cpl, ss, sp, data, vm, i) ==
  /\ HasRegs(q) /\ q.pe = r.pe /\ q.iopl = r.iopl /\ q.cs = cs /\ q.ip = ip /\ q.cpl = cpl
  /\ q.ss = ss /\ q.sp = sp /\ q.data = data /\ q.vm = vm /\ q.if = i

(* Registers that an entry assigns, and those that it leaves. *)
LEMMA Assigned ==
  ASSUME NEW r, HasRegs(r), NEW cs, NEW ip, NEW cpl, NEW ss, NEW sp, NEW data, NEW vm, NEW i
  PROVE  IsSet([r EXCEPT !.cs = cs, !.ip = ip, !.cpl = cpl, !.ss = ss, !.sp = sp, !.data = data,
                         !.vm = vm, !.if = i], r, cs, ip, cpl, ss, sp, data, vm, i)
BY DEF HasRegs, RegFields, IsSet

WordsOf(n, pusherr, ext, ip) ==
  (IF pusherr THEN <<"err">> ELSE <<>>) \o Ring!Frame(Ring!Class(n, ext), ip)

IsEntry(class, words, n, ip) ==
  LET g == Ring!Gates[n]
  IN /\ class = 1 /\ prot.cpl = 0 => kst' = words \o kst
     /\ class = 1 /\ prot.cpl = 3 => kst' = kst
     /\ class # 1 => kst' = words
     /\ todo' = IF class = 1 /\ prot.cpl = 3 THEN todo ELSE Ring!Interrupted("int", ip)
     /\ IsSet(prot', prot, Ring!Sel(g.seg, IF class = 1 THEN prot.cpl ELSE 0), n,
              IF class = 1 THEN prot.cpl ELSE 0, IF class = 1 THEN prot.ss ELSE "KD",
              IF class = 1 THEN (IF prot.cpl = 0 THEN 0 ELSE (prot.sp - Len(words)) % Sp) ELSE 0,
              IF class = 3 THEN Ring!NullData ELSE prot.data, FALSE, prot.if /\ g.trap)

(* An entry in protected or virtual-8086 mode, by its class. *)
LEMMA EntersProtected ==
  ASSUME HasRegs(prot), prot.pe = TRUE, NEW n, NEW pusherr, NEW ext, NEW ip,
         Ring!Entered(n, pusherr, ext, ip)
  PROVE  IsEntry(Ring!Class(n, ext), WordsOf(n, pusherr, ext, ip), n, ip)
<1> DEFINE class == Ring!Class(n, ext)
           g     == Ring!Gates[n]
           words == WordsOf(n, pusherr, ext, ip)
           cs    == Ring!Sel(g.seg, IF class = 1 THEN prot.cpl ELSE 0)
           cpl   == IF class = 1 THEN prot.cpl ELSE 0
           ss    == IF class = 1 THEN prot.ss ELSE "KD"
           sp    == IF class = 1 THEN (IF prot.cpl = 0 THEN 0 ELSE (prot.sp - Len(words)) % Sp)
                    ELSE 0
           data  == IF class = 3 THEN Ring!NullData ELSE prot.data
           no    == FALSE
           i     == prot.if /\ g.trap
<1>1. /\ kst' = CASE class = 1 /\ prot.cpl = 0 -> words \o kst
                        [] class = 1 /\ prot.cpl = 3 -> kst
                        [] OTHER -> words
      /\ todo' = IF class = 1 /\ prot.cpl = 3 THEN todo ELSE Ring!Interrupted("int", ip)
      /\ prot' = [prot EXCEPT !.cs = cs, !.ip = n, !.cpl = cpl, !.ss = ss, !.sp = sp, !.data = data,
                         !.vm = no, !.if = i]
  <2>1. ~(~prot.pe)  OBVIOUS
  <2> QED  BY <2>1, Zenon DEF Ring!Entered, WordsOf
<1>4. /\ class = 1 /\ prot.cpl = 0 => kst' = words \o kst
      /\ class = 1 /\ prot.cpl = 3 => kst' = kst
      /\ class # 1 => kst' = words
  <2> HIDE DEF class, words
  <2> QED  BY <1>1
<1> HIDE DEF cs, cpl, ss, sp, data, no, i
<1>2. IsSet([prot EXCEPT !.cs = cs, !.ip = n, !.cpl = cpl, !.ss = ss, !.sp = sp, !.data = data,
                         !.vm = no, !.if = i], prot, cs, n, cpl, ss, sp, data, no, i)
  BY Assigned
<1>3. IsSet(prot', prot, cs, n, cpl, ss, sp, data, no, i)  BY <1>1, <1>2, Zenon
<1> QED  BY <1>1, <1>3, <1>4, Zenon DEF IsEntry, cs, cpl, ss, sp, data, no, i

(* The entry of a class. *)
LEMMA SameLevelEntry ==
  ASSUME NEW words, NEW n, NEW ip, IsEntry(1, words, n, ip), prot.cpl \in {0, 3}
  PROVE  /\ prot.cpl = 0 => kst' = words \o kst /\ todo' = Ring!Interrupted("int", ip)
         /\ prot.cpl = 3 => kst' = kst /\ todo' = todo
         /\ IsSet(prot', prot, Ring!Sel(Ring!Gates[n].seg, prot.cpl), n, prot.cpl, prot.ss,
                  IF prot.cpl = 0 THEN 0 ELSE (prot.sp - Len(words)) % Sp, prot.data, FALSE,
                  prot.if /\ Ring!Gates[n].trap)
<1> PICK class : class = 1  OBVIOUS
<1>1. IsEntry(class, words, n, ip)  OBVIOUS
<1>2. /\ prot.cpl = 0 => kst' = words \o kst
      /\ prot.cpl = 3 => kst' = kst
  <2>1. class = 1 /\ prot.cpl = 0 => kst' = words \o kst  BY <1>1, Zenon DEF IsEntry
  <2>2. class = 1 /\ prot.cpl = 3 => kst' = kst  BY <1>1, Zenon DEF IsEntry
  <2> QED  BY <2>1, <2>2
<1>3. todo' = IF class = 1 /\ prot.cpl = 3 THEN todo ELSE Ring!Interrupted("int", ip)
  BY <1>1, Zenon DEF IsEntry
<1>4. /\ (IF class = 3 THEN Ring!NullData ELSE prot.data) = prot.data
      /\ (IF class = 1 THEN prot.cpl ELSE 0) = prot.cpl
      /\ (IF class = 1 THEN prot.ss ELSE "KD") = prot.ss
      /\ (IF class = 1 THEN (IF prot.cpl = 0 THEN 0 ELSE (prot.sp - Len(words)) % Sp) ELSE 0)
           = IF prot.cpl = 0 THEN 0 ELSE (prot.sp - Len(words)) % Sp
  OBVIOUS
<1>5. IsSet(prot', prot, Ring!Sel(Ring!Gates[n].seg, IF class = 1 THEN prot.cpl ELSE 0), n,
            IF class = 1 THEN prot.cpl ELSE 0, IF class = 1 THEN prot.ss ELSE "KD",
            IF class = 1 THEN (IF prot.cpl = 0 THEN 0 ELSE (prot.sp - Len(words)) % Sp) ELSE 0,
            IF class = 3 THEN Ring!NullData ELSE prot.data, FALSE,
            prot.if /\ Ring!Gates[n].trap)
  BY <1>1, Zenon DEF IsEntry
<1>6. IsSet(prot', prot, Ring!Sel(Ring!Gates[n].seg, prot.cpl), n, prot.cpl, prot.ss,
            IF prot.cpl = 0 THEN 0 ELSE (prot.sp - Len(words)) % Sp, prot.data, FALSE,
            prot.if /\ Ring!Gates[n].trap)
  BY <1>4, <1>5, Zenon
<1>7. prot.cpl = 3 => todo' = todo  BY <1>3
<1>8. prot.cpl = 0 => todo' = Ring!Interrupted("int", ip)  BY <1>3
<1> QED  BY <1>2, <1>6, <1>7, <1>8, Zenon

IsInner(class, words, n, ip) ==
  /\ kst' = words /\ todo' = Ring!Interrupted("int", ip)
  /\ IsSet(prot', prot, Ring!Sel(Ring!Gates[n].seg, 0), n, 0, "KD", 0,
           IF class = 3 THEN Ring!NullData ELSE prot.data, FALSE,
           prot.if /\ Ring!Gates[n].trap)

(* An entry through a gate to an inner level leaves the frame alone on the new stack. *)
LEMMA InnerEntry ==
  ASSUME NEW words, NEW n, NEW ip, NEW class, class # 1, IsEntry(class, words, n, ip)
  PROVE  IsInner(class, words, n, ip)
<1>1. kst' = words
  <2>1. class # 1 => kst' = words  BY Zenon DEF IsEntry
  <2> QED  BY <2>1
<1>2. todo' = IF class = 1 /\ prot.cpl = 3 THEN todo ELSE Ring!Interrupted("int", ip)
  BY Zenon DEF IsEntry
<1>3. /\ (IF class = 1 THEN prot.cpl ELSE 0) = 0
      /\ (IF class = 1 THEN prot.ss ELSE "KD") = "KD"
      /\ (IF class = 1 THEN (IF prot.cpl = 0 THEN 0 ELSE (prot.sp - Len(words)) % Sp) ELSE 0) = 0
  OBVIOUS
<1>4. IsSet(prot', prot, Ring!Sel(Ring!Gates[n].seg, IF class = 1 THEN prot.cpl ELSE 0), n,
            IF class = 1 THEN prot.cpl ELSE 0, IF class = 1 THEN prot.ss ELSE "KD",
            IF class = 1 THEN (IF prot.cpl = 0 THEN 0 ELSE (prot.sp - Len(words)) % Sp) ELSE 0,
            IF class = 3 THEN Ring!NullData ELSE prot.data, FALSE,
            prot.if /\ Ring!Gates[n].trap)
  BY Zenon DEF IsEntry
<1>5. IsSet(prot', prot, Ring!Sel(Ring!Gates[n].seg, 0), n, 0, "KD", 0,
            IF class = 3 THEN Ring!NullData ELSE prot.data, FALSE, prot.if /\ Ring!Gates[n].trap)
  BY <1>3, <1>4, Zenon
<1>6. todo' = Ring!Interrupted("int", ip)  BY <1>2
<1> QED  BY <1>1, <1>5, <1>6, Zenon DEF IsInner

(* The next instruction is no entry of a handler. *)
LEMMA NextIps == ASSUME NEW ip PROVE Ring!NextIp(ip) \in IpNames /\ Ring!NextIp(ip) # "conf"
BY DEF Ring!NextIp, IpNames

(* Real mode: the handler runs on the same stack. *)
LEMMA EntersReal ==
  ASSUME RingInv, InReal(prot), NEW n \in IpNames, NEW pusherr, NEW ext, NEW ip \in IpNames,
         Ring!Entered(n, pusherr, ext, ip)
  PROVE  Apart
<1> PICK no : no = FALSE  OBVIOUS
<1> PICK e : e = EntryOf("int", ip)  OBVIOUS
<1>1. /\ IsRegs(prot) /\ e.kind = "int" /\ e.kst = kst /\ IsSeq(kst) /\ On(e.c, e.kst, todo, 0)
      /\ AsIn(e.c, prot) /\ e.c.ip = ip /\ e.c.cs = prot.cs /\ FlagsOf(e.c) = FlagsOf(prot)
      /\ e.c.vm = prot.vm /\ e.c.cpl = prot.cpl /\ Ring!Interrupted("int", ip) = <<e>> \o todo
  BY KeptIsOn
<1>2. prot.pe = FALSE /\ prot.vm = FALSE /\ prot.cpl = 0 /\ HasRegs(prot)  BY DEF InReal, IsRegs
<1>3. /\ kst' = <<ip, prot.cs, Ring!Flags>> \o kst
      /\ prot' = [prot EXCEPT !.ip = n, !.if = no]
      /\ todo' = <<e>> \o todo
  BY <1>1, <1>2 DEF Ring!Entered
<1>4. Words(e.c) = <<ip, prot.cs, Ring!Flags>>
  BY <1>1, <1>2 DEF Words, FlagsOf, Ring!Flags
<1>5. IsSeq(kst')
  <2> PICK w : w = <<ip, prot.cs, Ring!Flags>>  OBVIOUS
  <2>1. IsOver(w \o kst, w, kst)  BY <1>1, Three, Joined
  <2> QED  BY <1>3, <2>1 DEF IsOver
<1>6. HasRegs(prot') /\ prot'.ip = n /\ prot'.if = no
      /\ \A f \in RegFields \ {"ip", "if"} : prot'[f] = prot[f]
  BY <1>2, <1>3 DEF HasRegs, RegFields
<1>7. InReal(prot') /\ prot'.cpl = 0
  BY <1>6 DEF InReal, IsRegs, RegFields
<1>8. Above(prot', kst', e)
  BY <1>1, <1>3, <1>4, <1>7 DEF Above, Held, AsIn
<1> QED  BY <1>1, <1>2, <1>3, <1>5, <1>7, <1>8, PushesApart

(* From the kernel, to the level it has. *)
LEMMA EntersKernel ==
  ASSUME RingInv, InKernel(prot), NEW n \in Kernels, NEW pusherr \in BOOLEAN, NEW ext \in BOOLEAN,
         NEW ip \in IpNames, Ring!Entered(n, pusherr, ext, ip)
  PROVE  Apart
<1> PICK w : w = <<ip, prot.cs, FlagsOf(prot)>>  OBVIOUS
<1> PICK words : words = WordsOf(n, pusherr, ext, ip)  OBVIOUS
<1> PICK e : e = EntryOf("int", ip)  OBVIOUS
<1>1. /\ IsRegs(prot) /\ e.kind = "int" /\ e.kst = kst /\ IsSeq(kst) /\ On(e.c, e.kst, todo, 0)
      /\ AsIn(e.c, prot) /\ e.c.ip = ip /\ e.c.cs = prot.cs /\ FlagsOf(e.c) = FlagsOf(prot)
      /\ e.c.vm = prot.vm /\ e.c.cpl = prot.cpl /\ e.c.pe = prot.pe
      /\ Ring!Interrupted("int", ip) = <<e>> \o todo
  BY KeptIsOn
<1>2. prot.pe = TRUE /\ prot.vm = FALSE /\ prot.cpl = 0 /\ HasRegs(prot)  BY DEF InKernel, IsRegs
<1>3. Ring!Class(n, ext) = 1 /\ Ring!Frame(1, ip) = w /\ Ring!Gates[n].seg = "K"
  BY ClassInKernel, FrameWords, GatesAre
<1>4. /\ kst' = words \o kst /\ todo' = <<e>> \o todo
      /\ IsSet(prot', prot, Ring!Sel("K", 0), n, 0, prot.ss, 0, prot.data, FALSE,
               prot.if /\ Ring!Gates[n].trap)
  <2>1. IsEntry(1, words, n, ip)  BY <1>2, <1>3, EntersProtected, Zenon
  <2>2. /\ kst' = words \o kst /\ todo' = Ring!Interrupted("int", ip)
        /\ IsSet(prot', prot, Ring!Sel(Ring!Gates[n].seg, prot.cpl), n, prot.cpl, prot.ss,
                 IF prot.cpl = 0 THEN 0 ELSE (prot.sp - Len(words)) % Sp, prot.data, FALSE,
                 prot.if /\ Ring!Gates[n].trap)
    BY <1>2, <2>1, SameLevelEntry
  <2>3. (IF prot.cpl = 0 THEN 0 ELSE (prot.sp - Len(words)) % Sp) = 0  BY <1>2
  <2> QED  BY <1>1, <1>2, <1>3, <2>2, <2>3, Zenon
<1>5. Words(e.c) = w
  BY <1>1, <1>2 DEF Words
<1>6. IsSeq(w) /\ IsSeq(w \o kst)
  <2>1. IsSeq(w)  BY Three
  <2>2. IsOver(w \o kst, w, kst)  BY <1>1, <2>1, Joined
  <2> QED  BY <2>1, <2>2 DEF IsOver
<1>7. IsSeq(kst') /\ kst' = (IF pusherr THEN <<"err">> \o (w \o kst) ELSE w \o kst)
  <2>1. CASE pusherr
    <3> PICK o : o = <<"err">>  OBVIOUS
    <3>1. IsSeq(o) /\ words = o \o w  BY <1>3, <2>1, One DEF WordsOf
    <3>2. (o \o w) \o kst = o \o (w \o kst)  BY <1>1, <1>6, <3>1, Grouped
    <3>3. IsOver(o \o (w \o kst), o, w \o kst)  BY <1>6, <3>1, Joined
    <3> QED  BY <1>4, <2>1, <3>1, <3>2, <3>3 DEF IsOver
  <2>2. CASE ~pusherr
    <3>1. <<>> \o w = w
      <4>1. PICK S : w \in Seq(S)  BY <1>6 DEF IsSeq
      <4> QED  BY <4>1, ConcatEmptySeq
    <3>2. words = w  BY <1>3, <2>2, <3>1 DEF WordsOf
    <3> QED  BY <1>4, <1>6, <2>2, <3>2
  <2> QED  BY <2>1, <2>2
<1>8. InKernel(prot') /\ prot'.cpl = 0
  <2>1. (prot.if /\ Ring!Gates[n].trap) \in BOOLEAN /\ n \in IpNames  BY DEF Kernels, IpNames
  <2> QED  BY <1>4, <2>1 DEF IsSet, InKernel, IsRegs
<1>9. Above(prot', kst', e)
  BY <1>1, <1>2, <1>5, <1>7, <1>8 DEF Above, Held, AsIn
<1> QED  BY <1>1, <1>2, <1>4, <1>7, <1>8, <1>9, PushesApart

(* From a program to the kernel. *)
LEMMA EntersFromProgram ==
  ASSUME RingInv, InProgram(prot) \/ InVirtual(prot), NEW n \in Kernels, NEW ip \in IpNames,
         NEW ext \in BOOLEAN, ext <=> n # "call", Ring!Entered(n, n = "gp", ext, ip)
  PROVE  Apart
<1> PICK w : w = Ring!Frame(IF prot.vm THEN 3 ELSE 2, ip)  OBVIOUS
<1> PICK words : words = WordsOf(n, n = "gp", ext, ip)  OBVIOUS
<1> PICK e : e = EntryOf("int", ip)  OBVIOUS
<1>1. /\ IsRegs(prot) /\ e.kind = "int" /\ e.kst = kst /\ IsSeq(kst) /\ On(e.c, e.kst, todo, 0)
      /\ AsIn(e.c, prot) /\ e.c.ip = ip /\ e.c.cs = prot.cs /\ FlagsOf(e.c) = FlagsOf(prot)
      /\ e.c.vm = prot.vm /\ e.c.cpl = prot.cpl /\ e.c.pe = prot.pe /\ e.c.sp = prot.sp
      /\ e.c.ss = prot.ss /\ e.c.data = prot.data
      /\ Ring!Interrupted("int", ip) = <<e>> \o todo
  BY KeptIsOn
<1>2. prot.pe = TRUE /\ prot.cpl = 3 /\ HasRegs(prot) /\ prot.vm \in BOOLEAN /\ kst = <<>>
  BY Where DEF InProgram, InVirtual, IsRegs
<1>3. Ring!Class(n, ext) = (IF prot.vm THEN 3 ELSE 2) /\ Ring!Gates[n].seg = "K"
      /\ (n # "call" => Ring!Gates[n].trap = FALSE)
  BY ClassOfPrograms, GatesAre DEF Kernels
<1>4. /\ kst' = words /\ todo' = <<e>> \o todo
      /\ IsSet(prot', prot, Ring!Sel("K", 0), n, 0, "KD", 0,
               IF prot.vm THEN Ring!NullData ELSE prot.data, FALSE,
               prot.if /\ Ring!Gates[n].trap)
  <2>1. IsEntry(IF prot.vm THEN 3 ELSE 2, words, n, ip)  BY <1>2, <1>3, EntersProtected, Zenon
  <2> PICK class : class = IF prot.vm THEN 3 ELSE 2  OBVIOUS
  <2>2. class # 1 /\ IsEntry(class, words, n, ip)  BY <2>1
  <2>3. IsInner(class, words, n, ip)  BY <2>2, InnerEntry
  <2>4. (IF class = 3 THEN Ring!NullData ELSE prot.data)
          = IF prot.vm THEN Ring!NullData ELSE prot.data
    OBVIOUS
  <2> QED  BY <1>1, <1>3, <2>3, <2>4, Zenon DEF IsInner
<1>5. Words(e.c) = w /\ IsSeq(w) /\ Len(w) = IF prot.vm THEN 9 ELSE 5
  <2>1. CASE prot.vm
    <3> PICK v : v = <<ip, prot.cs, FlagsOf(prot), prot.sp, prot.ss, prot.data["ES"],
                       prot.data["DS"], prot.data["FS"], prot.data["GS"]>>  OBVIOUS
    <3>1. IsSeq(v) /\ Len(v) = 9  BY Nine
    <3>2. w = v  BY <2>1, FrameWords
    <3>3. Words(e.c) = v  BY <1>1, <2>1 DEF Words
    <3> QED  BY <2>1, <3>1, <3>2, <3>3
  <2>2. CASE ~prot.vm
    <3> PICK v : v = <<ip, prot.cs, FlagsOf(prot), prot.sp, prot.ss>>  OBVIOUS
    <3>1. IsSeq(v) /\ Len(v) = 5  BY Five
    <3>2. w = v  BY <2>2, FrameWords
    <3>3. Words(e.c) = v  BY <1>1, <1>2, <2>2 DEF Words
    <3> QED  BY <2>2, <3>1, <3>2, <3>3
  <2> QED  BY <2>1, <2>2
<1>6. IsSeq(w \o e.kst) /\ w \o e.kst = w
  <2>1. e.kst = <<>>  BY <1>1, <1>2
  <2>2. w \o <<>> = w  BY <1>5, NothingUnder
  <2> QED  BY <1>5, <2>1, <2>2
<1>7. /\ IsSeq(kst') /\ kst' = (IF n = "gp" THEN <<"err">> \o w ELSE w)
      /\ Len(kst') = (IF prot.vm THEN 9 ELSE 5) + (IF n = "gp" THEN 1 ELSE 0)
  <2>1. CASE n = "gp"
    <3>1. words = <<"err">> \o w  BY <1>3, <2>1 DEF WordsOf
    <3>2. IsPushed(<<"err">> \o w, "err", w)  BY <1>5, Pushed
    <3> QED  BY <1>4, <1>5, <2>1, <3>1, <3>2 DEF IsPushed
  <2>2. CASE n # "gp"
    <3>1. <<>> \o w = w
      <4>1. PICK S : w \in Seq(S)  BY <1>5 DEF IsSeq
      <4> QED  BY <4>1, ConcatEmptySeq
    <3>2. words = w  BY <1>3, <2>2, <3>1 DEF WordsOf
    <3> QED  BY <1>4, <1>5, <2>2, <3>2
  <2> QED  BY <2>1, <2>2
<1>8. InKernel(prot') /\ prot'.cpl = 0 /\ prot'.cs = Ring!Sel("K", 0) /\ prot'.ss = "KD"
      /\ ~prot'.vm /\ prot'.ip = n /\ (n # "call" => ~prot'.if)
  <2>1. (prot.if /\ Ring!Gates[n].trap) \in BOOLEAN /\ n \in IpNames  BY DEF Kernels, IpNames
  <2>2. IsRegs(prot')
    BY <1>1, <1>4, <2>1 DEF IsSet, IsRegs, HasData, Ring!NullData
  <2>3. \A x \in Ring!DataRegs : prot'.data[x] \in {"null", "UD"}
    BY <1>4 DEF IsSet, InProgram, InVirtual, Ring!NullData
  <2>4. n # "call" => ~prot'.if
    BY <1>3, <1>4, Zenon DEF IsSet
  <2> QED  BY <1>2, <1>4, <2>2, <2>3, <2>4 DEF IsSet, InKernel
<1>9. Above(prot', kst', e)
  <2>1. Held(kst', e)  BY <1>1, <1>2, <1>5, <1>6, <1>7 DEF Held
  <2>2. InProgram(e.c) \/ InVirtual(e.c)  BY <1>1 DEF AsIn
  <2> QED  BY <1>1, <1>2, <1>8, <2>1, <2>2 DEF Above
<1>10. RingInv' /\ Len(todo') = Len(todo) + 1 /\ Len(todo) \in Nat
  BY <1>1, <1>4, <1>7, <1>9, Pushes
<1>11. Ring!EntryAtGate
  <2>1. n \in {"irq", "gp", "call"}  BY DEF Kernels
  <2> QED  BY <1>7, <1>8, <2>1 DEF Ring!EntryAtGate
<1>12. Ring!ReturnExact /\ Ring!UserCannot
  <2>1. ~(Len(todo') < Len(todo)) /\ prot'.cpl # 3  BY <1>8, <1>10
  <2> QED  BY <2>1 DEF Ring!ReturnExact, Ring!UserCannot
<1> QED  BY <1>10, <1>11, <1>12 DEF Apart

(* From a program to a handler of its own level. *)
LEMMA EntersOwnLevel ==
  ASSUME RingAssumed, RingInv, InProgram(prot), NEW n \in {"own", "conf"}, NEW ip,
         Ring!Entered(n, FALSE, FALSE, ip)
  PROVE  Apart
<1> PICK words : words = WordsOf(n, FALSE, FALSE, ip)  OBVIOUS
<1> PICK g : g = Ring!Gates[n]  OBVIOUS
<1>1. prot.pe = TRUE /\ prot.vm = FALSE /\ prot.cpl = 3 /\ IsRegs(prot) /\ prot.sp \in 0 .. Sp - 1
      /\ prot.ss = "UD" /\ \A x \in Ring!DataRegs : prot.data[x] \in {"null", "UD"}
  BY DEF InProgram
<1>2. Ring!Class(n, FALSE) = 1 /\ g.seg \in {"U", "C"} /\ (n = "own" => g.trap = TRUE)
  <2>1. Ring!Class("own", FALSE) = 1 /\ Ring!Class("conf", FALSE) = 1  BY <1>1, ClassOfPrograms
  <2>2. CASE n = "own"
    <3>1. g = [dpl |-> 3, seg |-> "U", trap |-> TRUE]  BY <2>2, GatesAre
    <3>2. g.seg \in {"U", "C"} /\ (n = "own" => g.trap = TRUE)  BY <2>2, <3>1
    <3> QED  BY <2>1, <2>2, <3>2, Zenon
  <2>3. CASE n = "conf"
    <3>1. g = [dpl |-> 3, seg |-> "C", trap |-> FALSE]  BY <2>3, GatesAre
    <3>2. g.seg \in {"U", "C"} /\ (n = "own" => g.trap = TRUE)  BY <2>3, <3>1
    <3> QED  BY <2>1, <2>3, <3>2, Zenon
  <2> QED  BY <2>2, <2>3
<1>3. Len(words) = 3
  <2> PICK w : w = <<ip, prot.cs, FlagsOf(prot)>>  OBVIOUS
  <2>1. IsSeq(w) /\ Len(w) = 3  BY Three
  <2>2. PICK S : w \in Seq(S)  BY <2>1 DEF IsSeq
  <2>3. <<>> \o w = w  BY <2>2, ConcatEmptySeq
  <2> QED  BY <1>2, <2>1, <2>3, FrameWords DEF WordsOf
<1>4. /\ kst' = kst /\ todo' = todo
      /\ IsSet(prot', prot, Ring!Sel(g.seg, 3), n, 3, prot.ss, (prot.sp - Len(words)) % Sp,
               prot.data, FALSE, prot.if /\ g.trap)
  <2>1. HasRegs(prot)  BY <1>1 DEF IsRegs
  <2>2. IsEntry(1, words, n, ip)  BY <1>1, <1>2, <2>1, EntersProtected, Zenon
  <2>3. /\ kst' = kst /\ todo' = todo
        /\ IsSet(prot', prot, Ring!Sel(Ring!Gates[n].seg, prot.cpl), n, prot.cpl, prot.ss,
                 IF prot.cpl = 0 THEN 0 ELSE (prot.sp - Len(words)) % Sp, prot.data, FALSE,
                 prot.if /\ Ring!Gates[n].trap)
    BY <1>1, <2>2, SameLevelEntry
  <2>4. (IF prot.cpl = 0 THEN 0 ELSE (prot.sp - Len(words)) % Sp) = (prot.sp - Len(words)) % Sp
    BY <1>1
  <2> QED  BY <1>1, <2>3, <2>4, Zenon
<1>5. InProgram(prot')
  <2>1. (prot.sp - Len(words)) % Sp \in 0 .. Sp - 1
    <3>1. PICK d : d = prot.sp - Len(words)  OBVIOUS
    <3>2. d \in Int  BY <1>1, <1>3, <3>1 DEF RingAssumed
    <3>3. PICK m \in Nat \ {0} : m = Sp  BY DEF RingAssumed
    <3>4. d % m \in 0 .. m - 1  BY <3>2
    <3> QED  BY <3>1, <3>3, <3>4
  <2>2. (prot.if /\ g.trap) \in BOOLEAN /\ n \in IpNames  BY DEF IpNames
  <2>3. Ring!Sel(g.seg, 3) \in {Ring!Sel("U", 3), Ring!Sel("C", 3)}  BY <1>2
  <2>4. IsRegs(prot')  BY <1>1, <1>4, <2>2 DEF IsSet, IsRegs
  <2> QED  BY <1>1, <1>4, <2>1, <2>3, <2>4 DEF IsSet, InProgram
<1>6. AsIn(prot', prot)  BY <1>5, LevelsDiffer DEF AsIn
<1>7. prot'.cpl = 3 /\ prot'.iopl = prot.iopl /\ prot'.vm = prot.vm
      /\ (prot'.ip # "conf" => prot'.if = prot.if)
  <2>1. prot.if \in BOOLEAN  BY <1>1 DEF IsRegs
  <2>2. prot'.ip = n /\ prot'.if = (prot.if /\ g.trap)  BY <1>4 DEF IsSet
  <2>3. n # "conf" => (prot.if /\ g.trap) = prot.if  BY <1>2, <2>1, Zenon
  <2> QED  BY <1>1, <1>4, <2>2, <2>3 DEF IsSet
<1> QED  BY <1>1, <1>4, <1>6, <1>7, StaysApart

(* A fault is an entry from wherever the instruction was. *)
LEMMA Faulted ==
  ASSUME RingAssumed, RingInv, prot.pe, Ring!GeneralProtection
  PROVE  Apart
<1>1. InKernel(prot) \/ InProgram(prot) \/ InVirtual(prot)  BY Where DEF InReal
<1>2. prot.ip \in IpNames  BY <1>1 DEF InKernel, InProgram, InVirtual, IsRegs
<1>3. Ring!Entered("gp", TRUE, TRUE, prot.ip) /\ "gp" \in Kernels
  BY DEF Ring!GeneralProtection, Kernels
<1>4. CASE InKernel(prot)  BY <1>2, <1>3, <1>4, EntersKernel
<1>5. CASE InProgram(prot) \/ InVirtual(prot)
  <2>1. Ring!Entered("gp", "gp" = "gp", TRUE, prot.ip)  BY <1>3
  <2> QED  BY <1>2, <1>3, <1>5, <2>1, EntersFromProgram
<1> QED  BY <1>1, <1>4, <1>5

-----------------------------------------------------------------------------
(* Returns (pmret). *)
LEMMA Whole == ASSUME NEW s, IsSeq(s) PROVE SubSeq(s, 1, Len(s)) = s
<1>1. PICK S : s \in Seq(S)  BY DEF IsSeq
<1>2. <<>> \o s = s /\ IsSeq(<<>>) /\ Len(<<>>) = 0  BY <1>1, ConcatEmptySeq, Empty
<1>3. SubSeq(<<>> \o s, 0 + 1, Len(<<>> \o s)) = s  BY <1>2, Rest
<1> QED  BY <1>2, <1>3

(* The frame of a call gate is a return address over the parameter and the outer stack. *)
LEMMA TwoAndThree ==
  ASSUME NEW a, NEW b, NEW c, NEW d, NEW e
  PROVE  <<a, b>> \o <<c, d, e>> = <<a, b, c, d, e>>
<1> PICK w : w = <<a, b>>  OBVIOUS
<1> PICK s : s = <<c, d, e>>  OBVIOUS
<1> PICK k : k = w \o s  OBVIOUS
<1> PICK t : t = <<a, b, c, d, e>>  OBVIOUS
<1>1. IsSeq(w) /\ IsSeq(s) /\ Len(w) = 2 /\ Len(s) = 3 /\ IsSeq(t) /\ Len(t) = 5
  BY Two, Three, Five
<1>2. /\ IsSeq(k) /\ Len(k) = Len(w) + Len(s) /\ \A i \in 1 .. Len(w) : k[i] = w[i]
      /\ \A i \in 1 .. Len(s) : k[Len(w) + i] = s[i]
  <2>1. IsOver(k, w, s)  BY <1>1, Joined
  <2> QED  BY <2>1 DEF IsOver
<1>3. Len(k) = 5 /\ k[1] = a /\ k[2] = b  BY <1>1, <1>2
<1>4. k[2 + 1] = c /\ k[2 + 2] = d /\ k[2 + 3] = e  BY <1>1, <1>2
<1>5. \A i \in 1 .. 5 : k[i] = t[i]  BY <1>3, <1>4
<1> QED  BY <1>1, <1>2, <1>3, <1>5, Same

ToSame(ip, cs, f, rest, off, n) ==
  /\ cs.rpl = prot.cpl /\ Ring!SameLevel(cs.seg)
  /\ HasRegs(prot') /\ prot'.pe = prot.pe /\ prot'.vm = prot.vm /\ prot'.cs = cs
  /\ prot'.ip = ip /\ prot'.cpl = cs.rpl /\ prot'.if = f.if /\ prot'.iopl = f.iopl
  /\ prot'.ss = prot.ss /\ prot'.data = prot.data
  /\ prot'.sp = IF prot.cpl = 0 THEN 0 ELSE (prot.sp + n + off) % Sp
  /\ prot.cpl = 0 => kst' = SubSeq(rest, off + 1, Len(rest)) /\ todo' = Tail(todo)
  /\ prot.cpl # 0 => kst' = kst /\ todo' = todo

ToOuter(ip, cs, f, rest, off) ==
  /\ cs.rpl # prot.cpl /\ ~(cs.rpl < prot.cpl) /\ Ring!OuterLevel(cs)
  /\ HasRegs(prot') /\ prot'.pe = prot.pe /\ prot'.vm = prot.vm /\ prot'.cs = cs
  /\ prot'.ip = ip /\ prot'.cpl = cs.rpl /\ prot'.if = f.if /\ prot'.iopl = f.iopl
  /\ prot'.ss = rest[off + 2] /\ prot'.data = Ring!Cleared(prot.data, cs.rpl)
  /\ prot'.sp = Ring!OuterSp(rest[off + 1], off)
  /\ kst' = <<>> /\ todo' = Tail(todo)

(* A return is refused, or goes to the same or to an outer level. *)
LEMMA Returns ==
  ASSUME HasRegs(prot), NEW ip, NEW cs, NEW f, NEW rest, NEW off, NEW n,
         Ring!Return(ip, cs, f, rest, off, n)
  PROVE  \/ Ring!GeneralProtection
         \/ ToSame(ip, cs, f, rest, off, n)
         \/ ToOuter(ip, cs, f, rest, off)
<1> DEFINE to == [prot EXCEPT !.cs = cs, !.ip = ip, !.cpl = cs.rpl, !.if = f.if, !.iopl = f.iopl]
           same == (to.sp + n + off) % Sp
           sp == IF prot.cpl = 0 THEN 0 ELSE same
           osp == Ring!OuterSp(rest[off + 1], off)
           oss == rest[off + 2]
           data == Ring!Cleared(to.data, cs.rpl)
<1>1. CASE cs.rpl < prot.cpl \/ (IF cs.rpl = prot.cpl THEN ~Ring!SameLevel(cs.seg)
                                 ELSE ~Ring!OuterLevel(cs))
  BY <1>1, Zenon DEF Ring!Return
<1>2. CASE ~(cs.rpl < prot.cpl \/ (IF cs.rpl = prot.cpl THEN ~Ring!SameLevel(cs.seg)
                                   ELSE ~Ring!OuterLevel(cs)))
  <2>1. IF cs.rpl = prot.cpl
        THEN /\ prot' = [to EXCEPT !.sp = sp]
             /\ kst' = IF prot.cpl = 0 THEN SubSeq(rest, off + 1, Len(rest)) ELSE kst
             /\ todo' = IF prot.cpl = 0 THEN Tail(todo) ELSE todo
        ELSE /\ prot' = [to EXCEPT !.sp = osp, !.ss = oss, !.data = data]
             /\ kst' = <<>> /\ todo' = Tail(todo)
    BY <1>2, Zenon DEF Ring!Return
  <2>2. /\ HasRegs(to) /\ to.cs = cs /\ to.ip = ip /\ to.cpl = cs.rpl /\ to.if = f.if
        /\ to.iopl = f.iopl /\ to.ss = prot.ss /\ to.sp = prot.sp /\ to.data = prot.data
        /\ to.pe = prot.pe /\ to.vm = prot.vm
    BY DEF HasRegs, RegFields
  <2>3. CASE cs.rpl = prot.cpl
    <3>1. sp = IF prot.cpl = 0 THEN 0 ELSE (prot.sp + n + off) % Sp  BY <2>2
    <3>2. prot' = [to EXCEPT !.sp = sp]  BY <2>1, <2>3, Zenon
    <3>3. /\ prot.cpl = 0 => kst' = SubSeq(rest, off + 1, Len(rest)) /\ todo' = Tail(todo)
          /\ prot.cpl # 0 => kst' = kst /\ todo' = todo
      BY <2>1, <2>3, Zenon
    <3> HIDE DEF to, sp
    <3>4. HasRegs(prot') /\ prot'.sp = sp /\ \A x \in RegFields \ {"sp"} : prot'[x] = to[x]
      BY <2>2, <3>2 DEF HasRegs, RegFields
    <3>5. ToSame(ip, cs, f, rest, off, n)
      BY <1>2, <2>2, <2>3, <3>1, <3>3, <3>4 DEF ToSame, RegFields
    <3> QED  BY <3>5
  <2>4. CASE cs.rpl # prot.cpl
    <3>1. data = Ring!Cleared(prot.data, cs.rpl)  BY <2>2
    <3>2. prot' = [to EXCEPT !.sp = osp, !.ss = oss, !.data = data]
          /\ kst' = <<>> /\ todo' = Tail(todo)
      BY <2>1, <2>4, Zenon
    <3> HIDE DEF to, osp, oss, data
    <3>3. HasRegs(prot') /\ prot'.sp = osp /\ prot'.ss = oss /\ prot'.data = data
          /\ \A x \in RegFields \ {"sp", "ss", "data"} : prot'[x] = to[x]
      BY <2>2, <3>2 DEF HasRegs, RegFields
    <3>4. ToOuter(ip, cs, f, rest, off)
      BY <1>2, <2>2, <2>4, <3>1, <3>2, <3>3 DEF ToOuter, RegFields, osp, oss
    <3> QED  BY <3>4
  <2> QED  BY <2>3, <2>4
<1> QED  BY <1>1, <1>2

(* A step to what was entered last, as it was left. *)
LEMMA LeavesApart ==
  ASSUME RingInv, todo # <<>>, NEW e, e = Head(todo), todo' = Tail(todo), kst' = e.kst,
         AsIn(prot', e.c), prot.cpl = 0, prot'.cpl \in {0, 3}, prot'.cpl = e.c.cpl,
         prot'.cs = e.c.cs, prot'.ip = e.c.ip, prot'.vm = e.c.vm, prot'.ss = e.c.ss,
         prot'.sp = e.c.sp,
         e.kind = "int" => prot'.if = e.c.if /\ prot'.iopl = e.c.iopl,
         e.c.vm => prot'.data = e.c.data
  PROVE  Apart
<1>1. RingInv'  BY Pops
<1>2. Ring!EntryAtGate  BY DEF Ring!EntryAtGate
<1>3. Ring!ReturnExact  BY DEF Ring!ReturnExact
<1>4. Ring!UserCannot  BY DEF Ring!UserCannot, Ring!User
<1> QED  BY <1>1, <1>2, <1>3, <1>4 DEF Apart

(* The frame that is returned through, with the flags f and the stack rest, *)
(* is the one of the entry e.                                               *)
Through(e, f, rest, off, n) ==
  /\ e = Head(todo) /\ (InKernel(e.c) \/ InProgram(e.c))
  /\ f.if \in BOOLEAN /\ f.iopl \in {0, 3}
  /\ e.kind = "int" => f.if = e.c.if /\ f.iopl = e.c.iopl
  /\ InKernel(e.c) => off = 0 /\ rest = e.kst /\ IsSeq(rest)
  /\ InProgram(e.c) => /\ e.kst = <<>> /\ rest[off + 2] = e.c.ss
                       /\ Ring!OuterSp(rest[off + 1], off) = e.c.sp
  /\ Ring!Return(e.c.ip, e.c.cs, f, rest, off, n)

(* The kernel returns through the frame that it was entered by. *)
LEMMA KernelReturns ==
  ASSUME RingAssumed, RingInv, InKernel(prot), todo # <<>>,
         NEW e, NEW f, NEW rest, NEW off, NEW n, Through(e, f, rest, off, n)
  PROVE  Apart
<1>0. /\ e = Head(todo) /\ (InKernel(e.c) \/ InProgram(e.c))
      /\ f.if \in BOOLEAN /\ f.iopl \in {0, 3}
      /\ e.kind = "int" => f.if = e.c.if /\ f.iopl = e.c.iopl
      /\ InKernel(e.c) => off = 0 /\ rest = e.kst /\ IsSeq(rest)
      /\ InProgram(e.c) => /\ e.kst = <<>> /\ rest[off + 2] = e.c.ss
                           /\ Ring!OuterSp(rest[off + 1], off) = e.c.sp
      /\ Ring!Return(e.c.ip, e.c.cs, f, rest, off, n)
  BY DEF Through
<1>1. prot.pe = TRUE /\ prot.vm = FALSE /\ prot.cpl = 0 /\ HasRegs(prot)
      /\ HasData(prot.data) /\ prot.ss = "KD"
  BY DEF InKernel, IsRegs
<1>2. CASE Ring!GeneralProtection
  BY <1>1, <1>2, Faulted
<1>3. CASE ToSame(e.c.ip, e.c.cs, f, rest, off, n)
  <2>1. e.c.cs.rpl = 0  BY <1>1, <1>3 DEF ToSame
  <2>2. InKernel(e.c)  BY <1>0, <2>1 DEF InProgram, Ring!Sel
  <2>3. off = 0 /\ rest = e.kst /\ SubSeq(rest, off + 1, Len(rest)) = rest  BY <1>0, <2>2, Whole
  <2>4. kst' = e.kst /\ todo' = Tail(todo)  BY <1>1, <1>3, <2>3 DEF ToSame
  <2>5. InKernel(prot')
    <3>1. /\ HasRegs(prot') /\ prot'.pe = TRUE /\ prot'.vm = FALSE /\ prot'.cs = e.c.cs
          /\ prot'.ip = e.c.ip /\ prot'.cpl = 0 /\ prot'.if = f.if /\ prot'.iopl = f.iopl
          /\ prot'.ss = "KD" /\ prot'.data = prot.data /\ prot'.sp = 0
      BY <1>1, <1>3, <2>1 DEF ToSame
    <3>2. e.c.ip \in IpNames /\ e.c.cs \in {Ring!Sel("K", 0), Ring!Sel("C", 0)}
      BY <2>2 DEF InKernel, IsRegs
    <3>3. IsRegs(prot')  BY <1>0, <1>1, <3>1, <3>2 DEF IsRegs
    <3>4. \A x \in Ring!DataRegs :
            prot.data[x] \in {"null", "UD"} \/ (x = "DS" /\ prot.data[x] = "KD")
      BY DEF InKernel
    <3> QED  BY <3>1, <3>2, <3>3, <3>4 DEF InKernel
  <2>6. AsIn(prot', e.c)  BY <2>2, <2>5, LevelsDiffer DEF AsIn
  <2>7. prot'.cpl = 0 /\ e.c.cpl = 0 /\ prot'.cs = e.c.cs /\ prot'.ip = e.c.ip
        /\ prot'.vm = FALSE /\ e.c.vm = FALSE /\ prot'.ss = e.c.ss /\ prot'.sp = e.c.sp
        /\ prot'.if = f.if /\ prot'.iopl = f.iopl
    BY <1>0, <1>1, <1>3, <2>1, <2>2 DEF ToSame, InKernel
  <2> QED  BY <1>0, <1>1, <2>4, <2>6, <2>7, LeavesApart
<1>4. CASE ToOuter(e.c.ip, e.c.cs, f, rest, off)
  <2>1. e.c.cs.rpl # 0  BY <1>1, <1>4 DEF ToOuter
  <2>2. InProgram(e.c)  BY <1>0, <2>1 DEF InKernel, Ring!Sel
  <2>3. e.c.cs.rpl = 3 /\ e.c.cpl = 3 /\ e.c.vm = FALSE /\ e.c.ip \in IpNames
    BY <2>2 DEF InProgram, IsRegs, Ring!Sel
  <2>4. kst' = e.kst /\ todo' = Tail(todo)  BY <1>0, <1>4, <2>2 DEF ToOuter
  <2>5. HasData(prot'.data) /\ \A x \in Ring!DataRegs : prot'.data[x] \in {"null", "UD"}
    <3>1. prot'.data = Ring!Cleared(prot.data, 3)  BY <1>4, <2>3 DEF ToOuter
    <3>2. \A x \in Ring!DataRegs : prot.data[x] \in {"null", "UD", "KD"}  BY DEF InKernel
    <3> QED  BY <3>1, <3>2, Segments DEF HasData, Ring!Cleared
  <2>6. prot'.ss = e.c.ss /\ prot'.sp = e.c.sp /\ prot'.cs = e.c.cs /\ prot'.ip = e.c.ip
        /\ prot'.cpl = 3 /\ prot'.vm = FALSE /\ prot'.pe = TRUE /\ prot'.if = f.if
        /\ prot'.iopl = f.iopl /\ HasRegs(prot')
    BY <1>0, <1>1, <1>4, <2>2, <2>3 DEF ToOuter
  <2>7. InProgram(prot')
    BY <1>0, <2>2, <2>3, <2>5, <2>6 DEF InProgram, IsRegs
  <2>8. AsIn(prot', e.c)  BY <2>2, <2>7, LevelsDiffer DEF AsIn
  <2> QED  BY <1>0, <1>1, <2>3, <2>4, <2>6, <2>8, LeavesApart
<1> QED  BY <1>0, <1>1, <1>2, <1>3, <1>4, Returns

-----------------------------------------------------------------------------
(* The ways out of the kernel, and of handlers in real mode. *)
LEMMA UnderKernel ==
  ASSUME RingInv, InKernel(prot) \/ InReal(prot), todo # <<>>
  PROVE  \E e : /\ e = Head(todo) /\ IsSeq(e.kst) /\ Held(kst, e) /\ IsSeq(kst)
                /\ InKernel(prot) =>
                     \/ InKernel(e.c) /\ e.kind \in {"int", "far"}
                     \/ InProgram(e.c) /\ e.kst = <<>> /\ e.kind \in {"int", "gate", "sys"}
                     \/ InVirtual(e.c) /\ e.kst = <<>> /\ e.kind = "int"
                /\ InReal(prot) => InReal(e.c) /\ e.kind \in {"int", "far"}
<1> PICK e : e = Head(todo)  OBVIOUS
<1>1. Above(prot, kst, e) /\ IsSeq(kst)  BY Where
<1> QED  BY <1>1, LevelsDiffer DEF Above

IsRest(k, n, s) == SubSeq(k, n + 1, Len(k)) = s
(* What is under words that were pushed is what was there before. *)
LEMMA RestOf ==
  ASSUME NEW w, IsSeq(w), NEW s, IsSeq(s) PROVE IsRest(w \o s, Len(w), s)
<1> PICK n : n = Len(w)  OBVIOUS
<1>1. SubSeq(w \o s, n + 1, Len(w \o s)) = s  BY Rest
<1> QED  BY <1>1 DEF IsRest

IsThree(k, a, b, f, s) ==
  k[1] = a /\ k[2] = b /\ k[3] = f /\ SubSeq(k, 4, Len(k)) = s /\ IsSeq(k) /\ k # <<>>

(* The frame of an interrupt, and that of a far call. *)
LEMMA ThreeWords ==
  ASSUME NEW a, NEW b, NEW f, NEW s, IsSeq(s)
  PROVE  IsThree(<<a, b, f>> \o s, a, b, f, s)
<1> PICK w : w = <<a, b, f>>  OBVIOUS
<1> PICK k : k = w \o s  OBVIOUS
<1>1. IsSeq(w) /\ Len(w) = 3  BY Three
<1>2. IsOver(k, w, s)  BY <1>1, Joined
<1>3. SubSeq(w \o s, 3 + 1, Len(w \o s)) = s  BY <1>1, Rest
<1>4. IsSeq(k) /\ Len(k) # 0 /\ \A i \in 1 .. 3 : k[i] = w[i]
  <2>1. IsSeq(k) /\ Len(k) = 3 + Len(s) /\ Len(s) \in Nat
    <3>1. IsSeq(k) /\ Len(k) = Len(w) + Len(s)  BY <1>2 DEF IsOver
    <3> QED  BY <1>1, <3>1
  <2>2. Len(k) # 0  BY <2>1
  <2>3. \A i \in 1 .. 3 : k[i] = w[i]
    <3>1. \A i \in 1 .. Len(w) : k[i] = w[i]  BY <1>2 DEF IsOver
    <3> QED  BY <1>1, <3>1
  <2> QED  BY <2>1, <2>2, <2>3
<1>5. k[1] = a /\ k[2] = b /\ k[3] = f  BY <1>4
<1> QED  BY <1>3, <1>4, <1>5, Empty DEF IsThree

IsTwo(k, a, b, s) ==
  k[1] = a /\ k[2] = b /\ SubSeq(k, 3, Len(k)) = s /\ IsSeq(k) /\ k # <<>>

(* The frame of a far call, over any stack. *)
LEMMA TwoWords ==
  ASSUME NEW a, NEW b, NEW s, IsSeq(s)
  PROVE  IsTwo(<<a, b>> \o s, a, b, s)
<1> PICK w : w = <<a, b>>  OBVIOUS
<1> PICK k : k = w \o s  OBVIOUS
<1>1. IsSeq(w) /\ Len(w) = 2  BY Two
<1>2. IsOver(k, w, s)  BY <1>1, Joined
<1>3. SubSeq(w \o s, 2 + 1, Len(w \o s)) = s  BY <1>1, Rest
<1>4. IsSeq(k) /\ Len(k) # 0 /\ \A i \in 1 .. 2 : k[i] = w[i]
  <2>1. IsSeq(k) /\ Len(k) = 2 + Len(s) /\ Len(s) \in Nat
    <3>1. IsSeq(k) /\ Len(k) = Len(w) + Len(s)  BY <1>2 DEF IsOver
    <3> QED  BY <1>1, <3>1
  <2>2. Len(k) # 0  BY <2>1
  <2>3. \A i \in 1 .. 2 : k[i] = w[i]
    <3>1. \A i \in 1 .. Len(w) : k[i] = w[i]  BY <1>2 DEF IsOver
    <3> QED  BY <1>1, <3>1
  <2> QED  BY <2>1, <2>2, <2>3
<1>5. k[1] = a /\ k[2] = b  BY <1>4
<1> QED  BY <1>3, <1>4, <1>5, Empty DEF IsTwo

(* The error code is on top of the frame. *)
LEMMA ErrorOnTop ==
  ASSUME NEW t, IsSeq(t), NEW k, k = <<"err">> \o t
  PROVE  Head(k) = "err" /\ k # <<>> /\ Tail(k) = t
<1>1. IsPushed(k, "err", t)  BY Pushed
<1> QED  BY <1>1 DEF IsPushed

(* The frame of an interrupt, once the error code is taken away. *)
LEMMA FrameOn ==
  ASSUME NEW k, NEW e, Held(k, e), IsSeq(e.kst), e.kind = "int", Head(k) # "err",
         InReal(e.c) \/ InKernel(e.c) \/ (InProgram(e.c) /\ e.kst = <<>>)
  PROVE  /\ k[1] = e.c.ip /\ k[2] = e.c.cs /\ k[3] = FlagsOf(e.c)
         /\ InReal(e.c) \/ InKernel(e.c) => SubSeq(k, 4, Len(k)) = e.kst
         /\ InProgram(e.c) => SubSeq(k, 4, Len(k)) = <<e.c.sp, e.c.ss>>
<1> PICK a : a = e.c.ip  OBVIOUS
<1> PICK b : b = e.c.cs  OBVIOUS
<1> PICK f : f = FlagsOf(e.c)  OBVIOUS
<1>1. CASE InReal(e.c) \/ InKernel(e.c)
  <2>1. Words(e.c) = <<a, b, f>>  BY <1>1 DEF Words, InReal, InKernel
  <2>2. IsSeq(<<a, b, f>> \o e.kst)
    <3>1. IsThree(<<a, b, f>> \o e.kst, a, b, f, e.kst)  BY ThreeWords
    <3> QED  BY <3>1 DEF IsThree
  <2>3. k = <<a, b, f>> \o e.kst
    BY <2>1, <2>2, ErrorOnTop DEF Held
  <2>4. IsThree(k, a, b, f, e.kst)  BY <2>3, ThreeWords
  <2> QED  BY <1>1, <2>4, LevelsDiffer DEF IsThree
<1>2. CASE InProgram(e.c) /\ e.kst = <<>>
  <2> PICK s : s = <<e.c.sp, e.c.ss>>  OBVIOUS
  <2> PICK w : w = <<a, b, f, e.c.sp, e.c.ss>>  OBVIOUS
  <2>1. Words(e.c) = w  BY <1>2 DEF Words, InProgram
  <2>2. IsSeq(w) /\ IsSeq(s) /\ w \o <<>> = w /\ <<a, b, f>> \o s = w
    BY Five, Two, NothingUnder, ThreeAndTwo
  <2>3. k = w
    BY <1>2, <2>1, <2>2, ErrorOnTop DEF Held
  <2>4. IsThree(<<a, b, f>> \o s, a, b, f, s)  BY <2>2, ThreeWords
  <2>5. IsThree(k, a, b, f, s)  BY <2>2, <2>3, <2>4
  <2> QED  BY <1>2, <2>5, LevelsDiffer DEF IsThree
<1> QED  BY <1>1, <1>2

(* The frame of virtual-8086 mode has the segment registers too. *)
LEMMA Virtuals ==
  ASSUME NEW k, NEW e, Held(k, e), e.kind = "int", Head(k) # "err", InVirtual(e.c), e.kst = <<>>
  PROVE  /\ k[1] = e.c.ip /\ k[2] = e.c.cs /\ k[3] = FlagsOf(e.c) /\ k[4] = e.c.sp /\ k[5] = e.c.ss
         /\ Ring!V86Segments(SubSeq(k, 6, 9)) = e.c.data
<1> PICK d : d = e.c.data  OBVIOUS
<1> PICK v : v = <<d["ES"], d["DS"], d["FS"], d["GS"]>>  OBVIOUS
<1> PICK u : u = <<e.c.ip, e.c.cs, FlagsOf(e.c), e.c.sp, e.c.ss>>  OBVIOUS
<1> PICK w : w = <<e.c.ip, e.c.cs, FlagsOf(e.c), e.c.sp, e.c.ss,
                   d["ES"], d["DS"], d["FS"], d["GS"]>>  OBVIOUS
<1>1. Words(e.c) = w  BY DEF Words, InVirtual
<1>2. IsSeq(w) /\ w \o <<>> = w /\ Len(w) = 9 /\ IsSeq(u) /\ Len(u) = 5 /\ IsSeq(v) /\ u \o v = w
  BY Nine, Five, Four, NothingUnder, FiveAndFour
<1>3. k = w  BY <1>1, <1>2, ErrorOnTop DEF Held
<1>4. PICK n : n = Len(u)  OBVIOUS
<1>5. SubSeq(k, 6, 9) = v
  <2>0. IsSeq(u) /\ IsSeq(v)  BY <1>2
  <2>1. IsRest(u \o v, Len(u), v)  BY <2>0, RestOf
  <2>2. SubSeq(w, n + 1, Len(w)) = v  BY <1>2, <1>4, <2>1 DEF IsRest
  <2> QED  BY <1>2, <1>3, <1>4, <2>2
<1>6. Ring!V86Segments(v) = d
  BY DEF Ring!V86Segments, HasData, InVirtual, IsRegs, Ring!DataRegs
<1> QED  BY <1>3, <1>5, <1>6

(* The kernel may change all flags. *)
LEMMA FlagsReturn ==
  ASSUME InKernel(prot), NEW r, IsRegs(r), NEW g, g = FlagsOf(r)
  PROVE  Ring!IretFlags(g).if = r.if /\ Ring!IretFlags(g).iopl = r.iopl /\ g.vm = r.vm
BY DEF Ring!IretFlags, FlagsOf, InKernel, IsRegs

(* IRET, to all modes. *)
LEMMA IretStep ==
  ASSUME RingAssumed, RingInv, Ring!IRET
  PROVE  Apart
<1>1. InKernel(prot)
  BY Where DEF Ring!IRET, Ring!Kernel, Ring!Protected, InReal, InProgram, InVirtual
<1>2. todo # <<>>  BY <1>1, Where
<1>3. PICK e : /\ e = Head(todo) /\ IsSeq(e.kst) /\ Held(kst, e)
               /\ \/ InKernel(e.c)
                  \/ InProgram(e.c) /\ e.kst = <<>>
                  \/ InVirtual(e.c) /\ e.kst = <<>>
  BY <1>1, <1>2, UnderKernel
<1>4. e.kind = "int" /\ Head(kst) # "err"  BY <1>3 DEF Ring!IRET
<1>5. prot.pe = TRUE /\ prot.vm = FALSE /\ prot.cpl = 0 /\ HasRegs(prot)
  BY <1>1 DEF InKernel, IsRegs
<1>6. CASE InVirtual(e.c) /\ e.kst = <<>>
  <2>1. /\ kst[1] = e.c.ip /\ kst[2] = e.c.cs /\ kst[3] = FlagsOf(e.c) /\ kst[4] = e.c.sp
        /\ kst[5] = e.c.ss /\ Ring!V86Segments(SubSeq(kst, 6, 9)) = e.c.data
    BY <1>3, <1>4, <1>6, Virtuals
  <2>2. kst[3].vm = TRUE /\ kst[3].if = e.c.if /\ kst[3].iopl = e.c.iopl
    BY <1>6, <2>1 DEF FlagsOf, InVirtual
  <2>3. Ring!ReturnToV86(kst)  BY <2>2 DEF Ring!IRET
  <2> PICK a : a = e.c.ip  OBVIOUS
  <2> PICK b : b = e.c.cs  OBVIOUS
  <2> PICK i : i = e.c.if  OBVIOUS
  <2> PICK l : l = e.c.iopl  OBVIOUS
  <2> PICK p : p = e.c.sp  OBVIOUS
  <2> PICK s : s = e.c.ss  OBVIOUS
  <2> PICK d : d = e.c.data  OBVIOUS
  <2>4. /\ prot' = [prot EXCEPT !.ip = a, !.cs = b, !.if = i, !.iopl = l, !.vm = TRUE,
                         !.cpl = 3, !.sp = p, !.ss = s, !.data = d]
        /\ kst' = <<>> /\ todo' = Tail(todo)
    BY <2>1, <2>2, <2>3, Zenon DEF Ring!ReturnToV86
  <2>5. /\ HasRegs(prot') /\ prot'.ip = a /\ prot'.cs = b /\ prot'.if = i /\ prot'.iopl = l
        /\ prot'.vm = TRUE /\ prot'.cpl = 3 /\ prot'.sp = p /\ prot'.ss = s /\ prot'.data = d
        /\ prot'.pe = TRUE
    BY <1>5, <2>4 DEF HasRegs, RegFields
  <2>6. InVirtual(prot')  BY <1>6, <2>5 DEF InVirtual, IsRegs
  <2>7. AsIn(prot', e.c)  BY <1>6, <2>6, LevelsDiffer DEF AsIn
  <2>8. e.c.cpl = 3 /\ e.c.vm = TRUE  BY <1>6 DEF InVirtual
  <2>9. /\ todo' = Tail(todo) /\ kst' = e.kst /\ prot'.cpl \in {0, 3} /\ prot'.cpl = e.c.cpl
        /\ prot'.cs = e.c.cs /\ prot'.ip = e.c.ip /\ prot'.vm = e.c.vm /\ prot'.ss = e.c.ss
        /\ prot'.sp = e.c.sp /\ prot'.if = e.c.if /\ prot'.iopl = e.c.iopl
        /\ prot'.data = e.c.data
    BY <1>6, <2>4, <2>5, <2>8
  <2> QED  BY <1>2, <1>3, <1>5, <2>7, <2>9, LeavesApart
<1>7. CASE InKernel(e.c) \/ (InProgram(e.c) /\ e.kst = <<>>)
  <2>1. /\ kst[1] = e.c.ip /\ kst[2] = e.c.cs /\ kst[3] = FlagsOf(e.c)
        /\ InKernel(e.c) => SubSeq(kst, 4, Len(kst)) = e.kst
        /\ InProgram(e.c) => SubSeq(kst, 4, Len(kst)) = <<e.c.sp, e.c.ss>>
    BY <1>3, <1>4, <1>7, FrameOn
  <2>2. IsRegs(e.c) /\ e.c.vm = FALSE  BY <1>7 DEF InKernel, InProgram
  <2> PICK f : f = Ring!IretFlags(kst[3])  OBVIOUS
  <2> PICK rest : rest = SubSeq(kst, 4, Len(kst))  OBVIOUS
  <2>3. f.if = e.c.if /\ f.iopl = e.c.iopl /\ kst[3].vm = FALSE  BY <1>1, <2>1, <2>2, FlagsReturn
  <2>4. Ring!Return(e.c.ip, e.c.cs, f, rest, 0, 3)  BY <2>1, <2>3 DEF Ring!IRET
  <2>5. f.if \in BOOLEAN /\ f.iopl \in {0, 3}  BY <2>2, <2>3 DEF IsRegs
  <2>6. InProgram(e.c) => /\ e.kst = <<>> /\ rest[0 + 2] = e.c.ss
                          /\ Ring!OuterSp(rest[0 + 1], 0) = e.c.sp
    <3> SUFFICES ASSUME InProgram(e.c) PROVE e.kst = <<>> /\ rest[0 + 2] = e.c.ss
                                             /\ Ring!OuterSp(rest[0 + 1], 0) = e.c.sp
      OBVIOUS
    <3>1. rest = <<e.c.sp, e.c.ss>> /\ e.kst = <<>>  BY <1>7, <2>1, LevelsDiffer
    <3>2. rest[0 + 1] = e.c.sp /\ rest[0 + 2] = e.c.ss
      <4> PICK p : p = e.c.sp  OBVIOUS
      <4> PICK q : q = e.c.ss  OBVIOUS
      <4>1. <<p, q>>[1] = p /\ <<p, q>>[2] = q /\ 0 + 1 = 1 /\ 0 + 2 = 2  OBVIOUS
      <4>2. rest = <<p, q>>  BY <3>1
      <4> QED  BY <4>1, <4>2
    <3>3. (e.c.sp + 0) % Sp = e.c.sp
      <4>1. PICK m \in Nat \ {0} : m = Sp  BY DEF RingAssumed
      <4>2. PICK p \in 0 .. m - 1 : p = e.c.sp  BY <4>1 DEF InProgram
      <4>3. (p + 0) % m = p  OBVIOUS
      <4> QED  BY <4>1, <4>2, <4>3
    <3> QED  BY <3>1, <3>2, <3>3 DEF Ring!OuterSp
  <2>7. InKernel(e.c) => rest = e.kst /\ IsSeq(rest)  BY <1>3, <2>1
  <2>8. InKernel(e.c) \/ InProgram(e.c)  BY <1>7
  <2> PICK off : off = 0  OBVIOUS
  <2> PICK n : n = 3  OBVIOUS
  <2>9. /\ InKernel(e.c) => off = 0 /\ rest = e.kst /\ IsSeq(rest)
        /\ InProgram(e.c) => /\ e.kst = <<>> /\ rest[off + 2] = e.c.ss
                             /\ Ring!OuterSp(rest[off + 1], off) = e.c.sp
        /\ Ring!Return(e.c.ip, e.c.cs, f, rest, off, n)
    BY <2>4, <2>6, <2>7
  <2>10. e = Head(todo) /\ (e.kind = "int" => f.if = e.c.if /\ f.iopl = e.c.iopl)
    BY <1>3, <2>3
  <2>11. Through(e, f, rest, off, n)  BY <2>5, <2>8, <2>9, <2>10 DEF Through
  <2> QED  BY <1>1, <1>2, <2>11, KernelReturns
<1> QED  BY <1>3, <1>6, <1>7

-----------------------------------------------------------------------------
(* A frame begins with the instruction, never with an error code. *)
LEMMA WordsAre ==
  ASSUME NEW r
  PROVE  IsSeq(Words(r)) /\ Len(Words(r)) \in Nat \ {0} /\ Words(r)[1] = r.ip
<1> PICK w : w = Words(r)  OBVIOUS
<1>1. CASE r.vm
  <2>1. w = <<r.ip, r.cs, FlagsOf(r), r.sp, r.ss, r.data["ES"], r.data["DS"], r.data["FS"],
              r.data["GS"]>>
    BY <1>1 DEF Words
  <2>2. w[1] = r.ip  BY <2>1
  <2>3. IsSeq(w) /\ Len(w) = 9  BY <2>1, Nine
  <2> QED  BY <2>2, <2>3
<1>2. CASE ~r.vm /\ r.cpl = 3
  <2>1. w = <<r.ip, r.cs, FlagsOf(r), r.sp, r.ss>>  BY <1>2 DEF Words
  <2>2. w[1] = r.ip  BY <2>1
  <2>3. IsSeq(w) /\ Len(w) = 5  BY <2>1, Five
  <2> QED  BY <2>2, <2>3
<1>3. CASE ~r.vm /\ r.cpl # 3
  <2>1. w = <<r.ip, r.cs, FlagsOf(r)>>  BY <1>3 DEF Words
  <2>2. w[1] = r.ip  BY <2>1
  <2>3. IsSeq(w) /\ Len(w) = 3  BY <2>1, Three
  <2> QED  BY <2>2, <2>3
<1> QED  BY <1>1, <1>2, <1>3

(* An error code on top is that of an interrupt: no other frame begins with one. *)
LEMMA NoErrorOnTop ==
  ASSUME NEW k, NEW e, Held(k, e), IsSeq(e.kst), k # <<>>, Head(k) = "err",
         e.kind \in {"int", "far", "gate", "sys"}, InReal(e.c) \/ InKernel(e.c) \/ e.kst = <<>>,
         IsRegs(e.c)
  PROVE  e.kind = "int" /\ e.c.pe /\ k = <<"err">> \o (Words(e.c) \o e.kst)
<1>1. e.c.ip # "err"  BY DEF IsRegs, IpNames
<1> PICK a : a = e.c.ip  OBVIOUS
<1> PICK b : b = e.c.cs  OBVIOUS
<1>2. e.kind # "far"
  <2> SUFFICES ASSUME e.kind = "far" PROVE FALSE  OBVIOUS
  <2>1. k = <<a, b>> \o e.kst  BY DEF Held
  <2>2. IsTwo(k, a, b, e.kst)  BY <2>1, TwoWords
  <2>3. k[1] = a  BY <2>2 DEF IsTwo
  <2> QED  BY <1>1, <2>3
<1>3. e.kind # "gate"
  <2> SUFFICES ASSUME e.kind = "gate" PROVE FALSE  OBVIOUS
  <2>1. PICK sp : k = <<a, b, "param", sp, e.c.ss>>  BY DEF Held
  <2>2. k[1] = a  BY <2>1
  <2> QED  BY <1>1, <2>2
<1>4. e.kind # "sys"  BY DEF Held
<1>5. k # Words(e.c) \o e.kst
  <2>2. PICK w : IsSeq(w) /\ Len(w) \in Nat \ {0} /\ w[1] = a /\ Words(e.c) = w  BY WordsAre
  <2>3. IsOver(w \o e.kst, w, e.kst)  BY <2>2, Joined
  <2>4. (w \o e.kst)[1] = a
    <3> PICK u : u = w \o e.kst  OBVIOUS
    <3>1. IsOver(u, w, e.kst)  BY <2>3
    <3>2. 1 \in 1 .. Len(w)  BY <2>2
    <3> QED  BY <2>2, <3>1, <3>2 DEF IsOver
  <2> QED  BY <1>1, <2>2, <2>4
<1> QED  BY <1>2, <1>3, <1>4, <1>5 DEF Held

(* The handler takes the error code away. *)
LEMMA PopErrorStep ==
  ASSUME RingInv, Ring!PopError
  PROVE  Apart
<1>1. InKernel(prot)
  BY Where DEF Ring!PopError, Ring!Kernel, Ring!Protected, InReal, InProgram, InVirtual
<1>2. todo # <<>>  BY <1>1, Where
<1>3. PICK e : e = Head(todo)  OBVIOUS
<1>4. Above(prot, kst, e) /\ e = todo[1]  BY <1>2, <1>3, Where
<1>5. IsRegs(e.c) /\ IsSeq(e.kst) /\ (InReal(e.c) \/ InKernel(e.c) \/ e.kst = <<>>)
      /\ e.kind \in {"int", "far", "gate", "sys"} /\ Held(kst, e) /\ ~InReal(e.c)
  BY <1>1, <1>4, LevelsDiffer DEF Above, InReal, InKernel, InProgram, InVirtual
<1>6. e.kind = "int" /\ e.c.pe /\ kst = <<"err">> \o (Words(e.c) \o e.kst)
  BY <1>5, NoErrorOnTop DEF Ring!PopError
<1>7. IsSeq(Words(e.c) \o e.kst)
  <2> PICK w : w = Words(e.c)  OBVIOUS
  <2>1. IsSeq(w)  BY WordsAre
  <2>2. IsOver(w \o e.kst, w, e.kst)  BY <1>5, <2>1, Joined
  <2> QED  BY <2>2 DEF IsOver
<1>8. kst' = Words(e.c) \o e.kst /\ todo' = todo
  BY <1>6, <1>7, ErrorOnTop DEF Ring!PopError
<1>9. InKernel(prot')
  <2> PICK ip \in IpNames : ip = "0"  BY DEF IpNames
  <2>1. prot' = [prot EXCEPT !.ip = ip]  BY DEF Ring!PopError
  <2>2. AsIn(prot', prot)  BY <1>1, <2>1, Moved DEF InKernel
  <2> QED  BY <1>1, <2>2 DEF AsIn
<1>10. Held(kst', e)  BY <1>6, <1>8 DEF Held
<1>11. Above(prot', kst', e)
  BY <1>1, <1>4, <1>9, <1>10, LevelsDiffer DEF Above
<1>12. On(prot', kst', todo, 0)
  <2>1. Len(todo) # 0 /\ 0 + 1 = 1  BY <1>2, Where, IsEmpty
  <2> QED  BY <1>4, <1>7, <1>8, <1>11, <2>1 DEF On
<1>13. RingInv'  BY <1>8, <1>12 DEF RingInv
<1>14. prot.cpl = 0 /\ prot'.cpl = 0 /\ Len(todo) \in Nat
  BY <1>1, <1>9, Where, IsEmpty DEF InKernel
<1>15. ~(Len(todo') < Len(todo))  BY <1>8, <1>14
<1> QED  BY <1>13, <1>14, <1>15
  DEF Apart, Ring!EntryAtGate, Ring!ReturnExact, Ring!UserCannot, Ring!User

(* A far return of the kernel, from a call of its own or through a gate. *)
LEMMA RetfarStep ==
  ASSUME RingAssumed, RingInv, Ring!RETFAR
  PROVE  Apart
<1>1. InKernel(prot)
  BY Where DEF Ring!RETFAR, Ring!Kernel, Ring!Protected, InReal, InProgram, InVirtual
<1>2. todo # <<>>  BY <1>1, Where
<1>3. PICK e : /\ e = Head(todo) /\ IsSeq(e.kst) /\ Held(kst, e)
               /\ \/ InKernel(e.c) /\ e.kind \in {"int", "far"}
                  \/ InProgram(e.c) /\ e.kst = <<>> /\ e.kind \in {"int", "gate", "sys"}
                  \/ InVirtual(e.c) /\ e.kst = <<>> /\ e.kind = "int"
  BY <1>1, <1>2, UnderKernel
<1> PICK f : f = Ring!Flags  OBVIOUS
<1>4. f.if \in BOOLEAN /\ f.iopl \in {0, 3}
  BY <1>1 DEF InKernel, IsRegs, Ring!Flags
<1> PICK rest : rest = SubSeq(kst, 3, Len(kst))  OBVIOUS
<1> PICK a : a = e.c.ip  OBVIOUS
<1> PICK b : b = e.c.cs  OBVIOUS
<1> PICK n : n = 2  OBVIOUS
<1>5. CASE e.kind = "far"
  <2> PICK off : off = 0  OBVIOUS
  <2>1. InKernel(e.c)  BY <1>3, <1>5
  <2>2. kst = <<a, b>> \o e.kst  BY <1>3, <1>5 DEF Held
  <2>3. kst[1] = a /\ kst[2] = b /\ rest = e.kst
    <3>1. IsTwo(kst, a, b, e.kst)  BY <1>3, <2>2, TwoWords
    <3> QED  BY <3>1 DEF IsTwo
  <2>4. Ring!Return(e.c.ip, e.c.cs, f, rest, off, n)
    BY <1>3, <1>5, <2>3 DEF Ring!RETFAR
  <2>5. Through(e, f, rest, off, n)
    BY <1>3, <1>4, <1>5, <2>1, <2>3, <2>4, LevelsDiffer DEF Through
  <2> QED  BY <1>1, <1>2, <2>5, KernelReturns
<1>6. CASE e.kind = "gate"
  <2> PICK off : off = 1  OBVIOUS
  <2>1. InProgram(e.c) /\ e.kst = <<>>  BY <1>3, <1>6
  <2>2. PICK sp : kst = <<a, b, "param", sp, e.c.ss>> /\ e.c.sp = (sp + 1) % Sp
    BY <1>3, <1>6 DEF Held
  <2> PICK s : s = <<"param", sp, e.c.ss>>  OBVIOUS
  <2>3. IsSeq(s) /\ <<a, b>> \o s = kst  BY <2>2, Three, TwoAndThree
  <2>4. kst[1] = a /\ kst[2] = b /\ rest = s
    <3>1. IsTwo(<<a, b>> \o s, a, b, s)  BY <2>3, TwoWords
    <3> QED  BY <2>3, <3>1 DEF IsTwo
  <2>5. s[2] = sp /\ s[3] = e.c.ss /\ off + 1 = 2 /\ off + 2 = 3  OBVIOUS
  <2>6. rest[off + 2] = e.c.ss /\ Ring!OuterSp(rest[off + 1], off) = e.c.sp
    BY <2>2, <2>4, <2>5 DEF Ring!OuterSp
  <2>7. Ring!Return(e.c.ip, e.c.cs, f, rest, off, n)
    BY <1>3, <1>6, <2>4 DEF Ring!RETFAR
  <2>8. Through(e, f, rest, off, n)
    BY <1>3, <1>4, <1>6, <2>1, <2>6, <2>7, LevelsDiffer DEF Through
  <2> QED  BY <1>1, <1>2, <2>8, KernelReturns
<1> QED  BY <1>3, <1>5, <1>6 DEF Ring!RETFAR

(* Returns in real mode. *)
LEMMA RealReturns ==
  ASSUME RingAssumed, RingInv, Ring!IRETReal \/ Ring!RETFARReal
  PROVE  Apart
<1>1. InReal(prot) /\ todo # <<>>
  BY Where DEF Ring!IRETReal, Ring!RETFARReal, InKernel, InProgram, InVirtual
<1>2. PICK e : e = Head(todo) /\ IsSeq(e.kst) /\ Held(kst, e) /\ InReal(e.c)
  BY <1>1, UnderKernel
<1>3. prot.cpl = 0 /\ HasRegs(prot) /\ prot.pe = FALSE /\ prot.vm = FALSE /\ prot.ss = "rs"
      /\ prot.sp = 0 /\ HasData(prot.data)
  BY <1>1 DEF InReal, IsRegs
<1>4. e.c.vm = FALSE /\ e.c.cpl = 0 /\ e.c.ss = "rs" /\ e.c.sp = 0 /\ e.c.ip \in IpNames
      /\ e.c.if \in BOOLEAN /\ e.c.iopl \in {0, 3} /\ ~e.c.pe
  BY <1>2 DEF InReal, IsRegs
<1> PICK a : a = e.c.ip  OBVIOUS
<1> PICK b : b = e.c.cs  OBVIOUS
<1>5. CASE Ring!IRETReal
  <2> PICK i : i = e.c.if  OBVIOUS
  <2> PICK l : l = e.c.iopl  OBVIOUS
  <2> PICK f : f = FlagsOf(e.c)  OBVIOUS
  <2>1. e.kind = "int"  BY <1>2, <1>5 DEF Ring!IRETReal
  <2>2. Words(e.c) = <<a, b, f>>  BY <1>4 DEF Words
  <2>3. kst = <<a, b, f>> \o e.kst  BY <1>2, <1>4, <2>1, <2>2 DEF Held
  <2>4. IsThree(kst, a, b, f, e.kst)  BY <1>2, <2>3, ThreeWords
  <2>5. f.if = i /\ f.iopl = l  BY DEF FlagsOf
  <2>6. /\ kst[1] = a /\ kst[2] = b /\ kst[3].if = i /\ kst[3].iopl = l
        /\ SubSeq(kst, 4, Len(kst)) = e.kst
    BY <2>4, <2>5 DEF IsThree
  <2>7. prot' = [prot EXCEPT !.ip = a, !.cs = b, !.if = i, !.iopl = l]
    BY <1>5, <2>6, Zenon DEF Ring!IRETReal
  <2>8. todo' = Tail(todo) /\ kst' = e.kst  BY <1>5, <2>6 DEF Ring!IRETReal
  <2>9. HasRegs(prot') /\ prot'.ip = a /\ prot'.cs = b /\ prot'.if = i /\ prot'.iopl = l
        /\ \A x \in RegFields \ {"ip", "cs", "if", "iopl"} : prot'[x] = prot[x]
    BY <1>3, <2>7 DEF HasRegs, RegFields
  <2>10. InReal(prot')  BY <1>3, <1>4, <2>9 DEF InReal, IsRegs, RegFields
  <2>11. AsIn(prot', e.c)  BY <1>2, <2>10, LevelsDiffer DEF AsIn
  <2>12. /\ prot'.cpl = 0 /\ prot'.cs = e.c.cs /\ prot'.ip = e.c.ip /\ prot'.vm = e.c.vm
         /\ prot'.ss = e.c.ss /\ prot'.sp = e.c.sp /\ prot'.if = e.c.if /\ prot'.iopl = e.c.iopl
    BY <1>3, <1>4, <2>9 DEF RegFields
  <2> QED  BY <1>1, <1>2, <1>3, <1>4, <2>8, <2>11, <2>12, LeavesApart
<1>6. CASE Ring!RETFARReal
  <2>1. e.kind = "far"  BY <1>2, <1>6 DEF Ring!RETFARReal
  <2>2. kst = <<a, b>> \o e.kst  BY <1>2, <2>1 DEF Held
  <2>3. kst[1] = a /\ kst[2] = b /\ SubSeq(kst, 3, Len(kst)) = e.kst
    <3>1. IsTwo(kst, a, b, e.kst)  BY <1>2, <2>2, TwoWords
    <3> QED  BY <3>1 DEF IsTwo
  <2>4. prot' = [prot EXCEPT !.ip = a, !.cs = b]
    BY <1>6, <2>3, Zenon DEF Ring!RETFARReal
  <2>5. todo' = Tail(todo) /\ kst' = e.kst  BY <1>6, <2>3 DEF Ring!RETFARReal
  <2>6. HasRegs(prot') /\ prot'.ip = a /\ prot'.cs = b
        /\ \A x \in RegFields \ {"ip", "cs"} : prot'[x] = prot[x]
    BY <1>3, <2>4 DEF HasRegs, RegFields
  <2>7. prot.if \in BOOLEAN /\ prot.iopl \in {0, 3}  BY <1>1 DEF InReal, IsRegs
  <2>8. InReal(prot')  BY <1>3, <1>4, <2>6, <2>7 DEF InReal, IsRegs, RegFields
  <2>9. AsIn(prot', e.c)  BY <1>2, <2>8, LevelsDiffer DEF AsIn
  <2>10. /\ prot'.cpl = 0 /\ prot'.cs = e.c.cs /\ prot'.ip = e.c.ip /\ prot'.vm = e.c.vm
         /\ prot'.ss = e.c.ss /\ prot'.sp = e.c.sp
    BY <1>3, <1>4, <2>6 DEF RegFields
  <2> QED  BY <1>1, <1>2, <1>3, <1>4, <2>1, <2>5, <2>9, <2>10, LeavesApart
<1> QED  BY <1>5, <1>6

(* SYSEXIT returns to the program that SYSENTER left. *)
LEMMA SysexitStep ==
  ASSUME RingAssumed, RingInv, Ring!SYSEXIT
  PROVE  Apart
<1>1. InKernel(prot)
  BY Where DEF Ring!SYSEXIT, Ring!Kernel, Ring!Protected, InReal, InProgram, InVirtual
<1>2. todo # <<>>  BY <1>1, Where
<1>3. PICK e : /\ e = Head(todo) /\ IsSeq(e.kst) /\ Held(kst, e)
               /\ \/ InKernel(e.c) /\ e.kind \in {"int", "far"}
                  \/ InProgram(e.c) /\ e.kst = <<>> /\ e.kind \in {"int", "gate", "sys"}
                  \/ InVirtual(e.c) /\ e.kst = <<>> /\ e.kind = "int"
  BY <1>1, <1>2, UnderKernel
<1>4. e.kind = "sys"  BY <1>3 DEF Ring!SYSEXIT
<1>5. InProgram(e.c) /\ e.kst = <<>> /\ e.c.cs = Ring!Sel("U", 3)
  BY <1>3, <1>4 DEF Held
<1> PICK a : a = e.c.ip  OBVIOUS
<1> PICK p : p = e.c.sp  OBVIOUS
<1> PICK b : b = Ring!Sel("U", 3)  OBVIOUS
<1>6. prot' = [prot EXCEPT !.cs = b, !.cpl = 3, !.ss = "UD", !.ip = a, !.sp = p]
      /\ kst' = <<>> /\ todo' = Tail(todo) /\ prot.data["DS"] # "KD"
  BY <1>3 DEF Ring!SYSEXIT
<1>7. prot.cpl = 0 /\ HasRegs(prot) /\ prot.pe = TRUE /\ prot.vm = FALSE /\ IsRegs(prot)
      /\ \A x \in Ring!DataRegs :
           prot.data[x] \in {"null", "UD"} \/ (x = "DS" /\ prot.data[x] = "KD")
  BY <1>1 DEF InKernel, IsRegs
<1>8. /\ HasRegs(prot') /\ prot'.cs = b /\ prot'.cpl = 3 /\ prot'.ss = "UD" /\ prot'.ip = a
      /\ prot'.sp = p
      /\ \A x \in RegFields \ {"cs", "cpl", "ss", "ip", "sp"} : prot'[x] = prot[x]
  BY <1>6, <1>7 DEF HasRegs, RegFields
<1>9. /\ e.c.vm = FALSE /\ e.c.cpl = 3 /\ e.c.ss = "UD" /\ e.c.ip \in IpNames
      /\ e.c.sp \in 0 .. Sp - 1
  BY <1>5 DEF InProgram, IsRegs
<1>10. \A x \in Ring!DataRegs : prot.data[x] \in {"null", "UD"}  BY <1>6, <1>7
<1>11. InProgram(prot')
  <2>1. IsRegs(prot')  BY <1>7, <1>8, <1>9 DEF IsRegs, RegFields
  <2> QED  BY <1>7, <1>8, <1>9, <1>10, <2>1 DEF InProgram, RegFields
<1>12. AsIn(prot', e.c)  BY <1>5, <1>11, LevelsDiffer DEF AsIn
<1>13. /\ prot'.cpl = 3 /\ prot'.cs = e.c.cs /\ prot'.ip = e.c.ip /\ prot'.vm = e.c.vm
       /\ prot'.ss = e.c.ss /\ prot'.sp = e.c.sp
  <2>1. prot'.vm = prot.vm  BY <1>8 DEF RegFields
  <2>2. prot'.vm = e.c.vm  BY <1>7, <1>9, <2>1
  <2>3. prot'.cs = e.c.cs /\ prot'.ip = e.c.ip /\ prot'.sp = e.c.sp  BY <1>5, <1>8
  <2>4. prot'.cpl = 3 /\ prot'.ss = e.c.ss  BY <1>8, <1>9
  <2> QED  BY <2>2, <2>3, <2>4
<1> QED  BY <1>2, <1>3, <1>4, <1>5, <1>6, <1>7, <1>9, <1>12, <1>13, LeavesApart

-----------------------------------------------------------------------------
(* What stays at its level. *)
LEMMA InStack == ASSUME RingAssumed, NEW d \in Int PROVE d % Sp \in 0 .. Sp - 1
<1>1. PICK m \in Nat \ {0} : m = Sp  BY DEF RingAssumed
<1>2. d % m \in 0 .. m - 1  OBVIOUS
<1> QED  BY <1>1, <1>2

(* Where a program can be. *)
LEMMA UserAt ==
  ASSUME RingInv, prot.cpl = 3
  PROVE  /\ InVirtual(prot) \/ InProgram(prot)
         /\ IsRegs(prot) /\ HasRegs(prot) /\ prot.pe = TRUE /\ prot.sp \in 0 .. Sp - 1
         /\ prot.ip \in IpNames /\ prot.if \in BOOLEAN /\ prot.iopl \in {0, 3}
         /\ prot.vm => InVirtual(prot)
         /\ ~prot.vm => InProgram(prot)
<1>1. InVirtual(prot) \/ InProgram(prot)  BY Where DEF InReal, InKernel
<1>2. /\ IsRegs(prot) /\ prot.pe = TRUE /\ prot.sp \in 0 .. Sp - 1
      /\ (prot.vm => InVirtual(prot)) /\ (~prot.vm => InProgram(prot))
  BY <1>1 DEF InVirtual, InProgram
<1> QED  BY <1>1, <1>2 DEF IsRegs

UserMove ==
  /\ HasRegs(prot') /\ prot'.pe = prot.pe /\ prot'.vm = prot.vm /\ prot'.cpl = prot.cpl
  /\ prot'.ss = prot.ss /\ prot'.iopl = prot.iopl
  /\ HasData(prot'.data) /\ \A x \in Ring!DataRegs : prot'.data[x] \in {prot.data[x], "null", "UD"}
  /\ prot'.ip \in IpNames /\ prot'.sp \in 0 .. Sp - 1
  /\ prot'.if \in BOOLEAN /\ (prot.iopl < 3 => prot'.if = prot.if)
  /\ InProgram(prot) => prot'.cs \in {Ring!Sel("U", 3), Ring!Sel("C", 3)}
  /\ kst' = kst /\ todo' = todo

(* What a program can do without entering the kernel. *)
LEMMA UserMoves ==
  ASSUME RingInv, prot.cpl = 3, UserMove
  PROVE  Apart
<1>1. IsRegs(prot')  BY UserAt DEF UserMove, IsRegs
<1>2. InVirtual(prot) => InVirtual(prot')  BY <1>1 DEF UserMove, InVirtual
<1>3. InProgram(prot) => InProgram(prot')  BY <1>1 DEF UserMove, InProgram
<1>4. AsIn(prot', prot)  BY <1>2, <1>3, UserAt, LevelsDiffer DEF AsIn
<1> QED  BY <1>4, StaysApart DEF UserMove

(* A return through a frame that the program made itself. *)
LEMMA UserReturns ==
  ASSUME RingAssumed, RingInv, prot.cpl = 3, ~prot.vm,
         NEW ip \in Ring!Ips, NEW s, NEW rpl \in {0, 3},
         NEW f, f.if \in BOOLEAN, f.iopl = prot.iopl, prot.iopl < 3 => f.if = prot.if,
         NEW off \in {0, 1}, NEW n \in {2, 3}, Ring!Return(ip, Ring!Sel(s, rpl), f, <<>>, off, n)
  PROVE  Apart
<1> PICK cs : cs = Ring!Sel(s, rpl)  OBVIOUS
<1> PICK rest : rest = <<>>  OBVIOUS
<1>1. InProgram(prot) /\ HasRegs(prot) /\ prot.pe = TRUE /\ prot.sp \in 0 .. Sp - 1  BY UserAt
<1>2. cs.rpl = rpl /\ cs.seg = s  BY DEF Ring!Sel
<1>3. Ring!Return(ip, cs, f, rest, off, n)  OBVIOUS
<1>4. CASE Ring!GeneralProtection
  BY <1>1, <1>4, Faulted
<1>5. CASE ToSame(ip, cs, f, rest, off, n)
  <2>1. rpl = 3 /\ Ring!SameLevel(s)  BY <1>2, <1>5 DEF ToSame
  <2>2. s \in {"U", "C"}  BY <2>1, Segments DEF Ring!SameLevel, Ring!Code
  <2>3. cs \in {Ring!Sel("U", 3), Ring!Sel("C", 3)}  BY <2>1, <2>2
  <2>4. (prot.sp + n + off) % Sp \in 0 .. Sp - 1
    <3> PICK d : d = prot.sp + n + off  OBVIOUS
    <3>1. d \in Int  BY <1>1 DEF RingAssumed
    <3> QED  BY <3>1, InStack
  <2>5. HasData(prot.data)  BY <1>1 DEF InProgram, IsRegs
  <2>6. UserMove
    BY <1>2, <1>5, <2>1, <2>3, <2>4, <2>5 DEF ToSame, UserMove, Ring!Ips, IpNames
  <2> QED  BY <2>6, UserMoves
<1>6. ~ToOuter(ip, cs, f, rest, off)
  BY <1>2 DEF ToOuter
<1> QED  BY <1>1, <1>3, <1>4, <1>5, <1>6, Returns

(* A program returns by IRET or RETF with whatever it forged on its own stack. *)
LEMMA UserReturnSteps ==
  ASSUME RingAssumed, RingInv, Ring!UserIRET \/ Ring!UserRETFAR
  PROVE  Apart
<1>1. prot.cpl = 3 /\ ~prot.vm  BY DEF Ring!UserIRET, Ring!UserRETFAR, Ring!User
<1>2. prot.if \in BOOLEAN /\ prot.iopl \in {0, 3}  BY <1>1, UserAt
<1>3. CASE Ring!UserIRET
  <2>1. PICK ip \in Ring!Ips, s \in Ring!Segs, rpl \in {0, 3}, f \in Ring!Forged :
          Ring!Return(ip, Ring!Sel(s, rpl), Ring!IretFlags(f), <<>>, 0, 3)
    BY <1>3 DEF Ring!UserIRET
  <2> PICK g : g = Ring!IretFlags(f)  OBVIOUS
  <2>2. g.if \in BOOLEAN /\ g.iopl = prot.iopl /\ (prot.iopl < 3 => g.if = prot.if)
    BY <1>1, <1>2 DEF Ring!IretFlags, Ring!Forged
  <2> QED  BY <1>1, <2>1, <2>2, UserReturns
<1>4. CASE Ring!UserRETFAR
  <2>1. PICK ip \in Ring!Ips, s \in Ring!Segs, rpl \in {0, 3}, off \in {0, 1} :
          Ring!Return(ip, Ring!Sel(s, rpl), Ring!Flags, <<>>, off, 2)
    BY <1>4 DEF Ring!UserRETFAR
  <2> PICK g : g = Ring!Flags  OBVIOUS
  <2>2. g.if = prot.if /\ g.iopl = prot.iopl  BY DEF Ring!Flags
  <2> QED  BY <1>1, <1>2, <2>1, <2>2, UserReturns
<1> QED  BY <1>3, <1>4

(* IRET and far transfers of a program in virtual-8086 mode. *)
LEMMA V86Steps ==
  ASSUME RingAssumed, RingInv, Ring!V86IRET \/ Ring!V86Far
  PROVE  Apart
<1>1. prot.vm  BY DEF Ring!V86IRET, Ring!V86Far
<1>2. InVirtual(prot) /\ prot.cpl = 3 /\ prot.pe = TRUE /\ HasRegs(prot) /\ prot.sp \in 0 .. Sp - 1
      /\ IsRegs(prot) /\ prot.iopl \in {0, 3} /\ prot.if \in BOOLEAN /\ HasData(prot.data)
  BY <1>1, Where DEF InReal, InProgram, InKernel, InVirtual, IsRegs
<1>3. CASE Ring!GeneralProtection
  BY <1>2, <1>3, Faulted
<1>4. ASSUME NEW ip \in Ring!Ips, NEW f \in BOOLEAN, NEW k \in {-2, 0, 2, 3},
             prot.iopl < 3 => f = prot.if,
             prot' = [prot EXCEPT !.ip = ip, !.if = f, !.sp = (prot.sp + k) % Sp],
             UNCHANGED <<kst, todo>>
      PROVE  Apart
  <2> PICK sp : sp = (prot.sp + k) % Sp  OBVIOUS
  <2>1. sp \in 0 .. Sp - 1
    <3> PICK d : d = prot.sp + k  OBVIOUS
    <3>1. d \in Int  BY <1>2 DEF RingAssumed
    <3> QED  BY <3>1, InStack
  <2>2. prot' = [prot EXCEPT !.ip = ip, !.if = f, !.sp = sp]  BY <1>4
  <2>3. HasRegs(prot') /\ prot'.ip = ip /\ prot'.if = f /\ prot'.sp = sp
        /\ \A x \in RegFields \ {"ip", "if", "sp"} : prot'[x] = prot[x]
    BY <1>2, <2>2 DEF HasRegs, RegFields
  <2>4. UserMove
    BY <1>2, <1>4, <2>1, <2>3, LevelsDiffer DEF UserMove, RegFields, Ring!Ips, IpNames
  <2> QED  BY <1>2, <2>4, UserMoves
<1>5. CASE Ring!V86IRET /\ ~Ring!GeneralProtection
  <2>1. ~(prot.iopl < 3)  BY <1>5 DEF Ring!V86IRET
  <2>2. PICK ip \in Ring!Ips, f \in BOOLEAN :
          prot' = [prot EXCEPT !.ip = ip, !.if = f, !.sp = (prot.sp + 3) % Sp]
    BY <1>5, <2>1 DEF Ring!V86IRET
  <2>3. UNCHANGED <<kst, todo>>  BY <1>5, <2>1 DEF Ring!V86IRET
  <2> QED  BY <1>4, <2>1, <2>2, <2>3
<1>6. CASE Ring!V86Far
  <2>1. PICK ip \in Ring!Ips, k \in {-2, 0, 2} :
          prot' = [prot EXCEPT !.ip = ip, !.sp = (prot.sp + k) % Sp]
    BY <1>6 DEF Ring!V86Far
  <2> PICK sp : sp = (prot.sp + k) % Sp  OBVIOUS
  <2>2. prot' = [prot EXCEPT !.ip = ip, !.sp = sp]  BY <2>1
  <2>3. [prot EXCEPT !.ip = ip, !.sp = sp] = [prot EXCEPT !.ip = ip, !.if = prot.if, !.sp = sp]
    BY <1>2 DEF HasRegs, RegFields
  <2>4. prot' = [prot EXCEPT !.ip = ip, !.if = prot.if, !.sp = (prot.sp + k) % Sp]
    BY <2>2, <2>3
  <2>5. UNCHANGED <<kst, todo>>  BY <1>6 DEF Ring!V86Far
  <2> QED  BY <1>2, <1>4, <2>4, <2>5
<1> QED  BY <1>3, <1>5, <1>6

-----------------------------------------------------------------------------
(* Entries that push no interrupt frame. *)
LEMMA SystemCall ==
  ASSUME RingInv, InProgram(prot), NEW e, On(e.c, e.kst, todo, 0), todo' = <<e>> \o todo,
         IsSeq(kst'), e.kst = <<>>, InProgram(e.c), Held(kst', e), e.kind \in {"gate", "sys"},
         InKernel(prot'), prot'.cs = Ring!Sel("K", 0), Ring!EntryAtGate
  PROVE  Apart
<1>1. Above(prot', kst', e)  BY Empty DEF Above
<1>2. RingInv' /\ Len(todo') = Len(todo) + 1 /\ Len(todo) \in Nat  BY <1>1, Pushes
<1>3. ~(Len(todo') < Len(todo)) /\ prot'.cpl # 3  BY <1>2 DEF InKernel
<1> QED  BY <1>2, <1>3 DEF Apart, Ring!ReturnExact, Ring!UserCannot

(* A program calls through the gate to level 0, which finds a frame of five words. *)
LEMMA CallGateStep ==
  ASSUME RingAssumed, RingInv, InProgram(prot), Ring!CallGate
  PROVE  Apart
<1> PICK ip : ip = Ring!NextIp(prot.ip)  OBVIOUS
<1> PICK cs : cs = Ring!Sel("K", 0)  OBVIOUS
<1> PICK up : up = (prot.sp + 1) % Sp  OBVIOUS
<1> PICK q : q = [prot EXCEPT !.ip = ip, !.sp = up]  OBVIOUS
<1> PICK e : e = [kind |-> "gate", kst |-> kst, c |-> q]  OBVIOUS
<1>1. /\ IsRegs(prot) /\ HasRegs(prot) /\ prot.pe = TRUE /\ prot.vm = FALSE /\ prot.cpl = 3
      /\ prot.sp \in 0 .. Sp - 1 /\ kst = <<>> /\ todo = <<>>
      /\ \A x \in Ring!DataRegs : prot.data[x] \in {"null", "UD"}
  BY Where DEF InProgram, IsRegs
<1>2. ip \in IpNames  BY NextIps
<1>3. up \in 0 .. Sp - 1
  <2> PICK d : d = prot.sp + 1  OBVIOUS
  <2>1. d \in Int  BY <1>1 DEF RingAssumed
  <2> QED  BY <2>1, InStack
<1>4. /\ HasRegs(q) /\ q.ip = ip /\ q.sp = up
      /\ \A x \in RegFields \ {"ip", "sp"} : q[x] = prot[x]
  BY <1>1 DEF HasRegs, RegFields
<1>5. InProgram(q)
  <2>1. IsRegs(q)  BY <1>1, <1>2, <1>4 DEF IsRegs, RegFields
  <2> QED  BY <1>3, <1>4, <2>1 DEF InProgram, RegFields
<1>6. e.kind = "gate" /\ e.kst = <<>> /\ e.c = q  BY <1>1
<1>7. kst' = <<ip, prot.cs, "param", prot.sp, prot.ss>>
      /\ prot' = [prot EXCEPT !.cs = cs, !.cpl = 0, !.ip = "gate", !.ss = "KD", !.sp = 0]
  BY DEF Ring!CallGate
<1>8. todo' = <<e>> \o todo
  BY DEF Ring!CallGate
<1>9. IsSeq(kst') /\ Len(kst') = 5  BY <1>7, Five
<1>10. /\ HasRegs(prot') /\ prot'.cs = cs /\ prot'.cpl = 0 /\ prot'.ip = "gate"
       /\ prot'.ss = "KD" /\ prot'.sp = 0
       /\ \A x \in RegFields \ {"cs", "cpl", "ip", "ss", "sp"} : prot'[x] = prot[x]
  BY <1>1, <1>7 DEF HasRegs, RegFields
<1>11. InKernel(prot')
  <2>1. IsRegs(prot')  BY <1>1, <1>10 DEF IsRegs, RegFields, IpNames
  <2> QED  BY <1>1, <1>10, <2>1 DEF InKernel, RegFields
<1>12. Held(kst', e)
  <2>1. e.c.ip = ip /\ e.c.cs = prot.cs /\ e.c.ss = prot.ss /\ e.c.sp = (prot.sp + 1) % Sp
    BY <1>4, <1>6 DEF RegFields
  <2>2. kst' = <<e.c.ip, e.c.cs, "param", prot.sp, e.c.ss>>  BY <1>7, <2>1
  <2> QED  BY <1>1, <1>6, <2>1, <2>2 DEF Held
<1>13. On(e.c, e.kst, todo, 0)
  <2>1. Len(todo) = 0 /\ IsSeq(e.kst)  BY <1>1, <1>6, Empty
  <2> QED  BY <1>5, <1>6, <2>1 DEF On
<1>14. Ring!EntryAtGate
  <2>1. prot'.vm = FALSE  BY <1>1, <1>10 DEF RegFields
  <2> QED  BY <1>9, <1>10, <2>1 DEF Ring!EntryAtGate
<1> QED  BY <1>5, <1>6, <1>8, <1>9, <1>10, <1>11, <1>12, <1>13, <1>14, SystemCall

(* SYSENTER pushes nothing: the program has its return address in registers. *)
LEMMA SysenterStep ==
  ASSUME RingAssumed, RingInv, Ring!SYSENTER
  PROVE  Apart
<1> PICK ip : ip = Ring!NextIp(prot.ip)  OBVIOUS
<1> PICK cs : cs = Ring!Sel("K", 0)  OBVIOUS
<1> PICK no : no = FALSE  OBVIOUS
<1> PICK e : e = EntryOf("sys", ip)  OBVIOUS
<1>1. prot.cpl = 3 /\ ~prot.vm /\ prot.cs.seg = "U"  BY DEF Ring!SYSENTER, Ring!User
<1>2. InProgram(prot)  BY <1>1, UserAt
<1>3. /\ IsRegs(prot) /\ HasRegs(prot) /\ prot.pe = TRUE /\ prot.vm = FALSE
      /\ kst = <<>> /\ todo = <<>> /\ prot.cs = Ring!Sel("U", 3)
      /\ \A x \in Ring!DataRegs : prot.data[x] \in {"null", "UD"}
  <2>1. kst = <<>> /\ todo = <<>>  BY <1>2, Where
  <2>2. /\ IsRegs(prot) /\ prot.pe = TRUE /\ prot.vm = FALSE
        /\ prot.cs \in {Ring!Sel("U", 3), Ring!Sel("C", 3)}
        /\ \A x \in Ring!DataRegs : prot.data[x] \in {"null", "UD"}
    BY <1>2 DEF InProgram
  <2>3. prot.cs = Ring!Sel("U", 3)  BY <1>1, <2>2 DEF Ring!Sel
  <2> QED  BY <2>1, <2>2, <2>3 DEF IsRegs
<1>4. ip \in IpNames  BY NextIps
<1>5. /\ e.kind = "sys" /\ e.kst = kst /\ On(e.c, e.kst, todo, 0) /\ AsIn(e.c, prot)
      /\ e.c.cs = prot.cs /\ Ring!Interrupted("sys", ip) = <<e>> \o todo
  BY <1>4, KeptIsOn
<1>6. /\ prot' = [prot EXCEPT !.if = no, !.cs = cs, !.cpl = 0, !.ss = "KD", !.sp = 0,
                              !.ip = "sysenter"]
      /\ kst' = <<>> /\ todo' = <<e>> \o todo
  BY <1>5 DEF Ring!SYSENTER
<1>7. /\ HasRegs(prot') /\ prot'.cs = cs /\ prot'.cpl = 0 /\ prot'.ip = "sysenter"
      /\ prot'.ss = "KD" /\ prot'.sp = 0 /\ prot'.if = FALSE
      /\ \A x \in RegFields \ {"cs", "cpl", "ip", "ss", "sp", "if"} : prot'[x] = prot[x]
  BY <1>3, <1>6 DEF HasRegs, RegFields
<1>8. InKernel(prot')
  <2>1. IsRegs(prot')  BY <1>3, <1>7 DEF IsRegs, RegFields, IpNames
  <2> QED  BY <1>3, <1>7, <2>1 DEF InKernel, RegFields
<1>9. IsSeq(kst') /\ Len(kst') = 0  BY <1>6, Empty
<1>10. Held(kst', e)  BY <1>3, <1>5, <1>6 DEF Held
<1>11. Ring!EntryAtGate
  <2>1. prot'.vm = FALSE  BY <1>3, <1>7 DEF RegFields
  <2> QED  BY <1>7, <1>9, <2>1 DEF Ring!EntryAtGate
<1>12. InProgram(e.c)  BY <1>2, <1>5 DEF AsIn
<1> QED  BY <1>2, <1>3, <1>5, <1>6, <1>7, <1>8, <1>9, <1>10, <1>11, <1>12, SystemCall

(* Far calls and jumps to any selector. *)
LEMMA UserFarStep ==
  ASSUME RingAssumed, RingInv, Ring!UserFar
  PROVE  Apart
<1>1. prot.cpl = 3 /\ ~prot.vm  BY DEF Ring!UserFar, Ring!User
<1>2. InProgram(prot) /\ HasRegs(prot) /\ prot.pe = TRUE /\ prot.sp \in 0 .. Sp - 1
      /\ prot.if \in BOOLEAN
  BY <1>1, UserAt
<1>3. HasData(prot.data)  BY <1>2 DEF InProgram, IsRegs
<1>4. PICK ip \in Ring!Ips, s \in Ring!Segs, rpl \in {0, 3}, isjmp \in BOOLEAN :
        IF s \in Ring!Gated
        THEN /\ ~isjmp
             /\ IF Ring!Dpl(s) < prot.cpl \/ Ring!Dpl(s) < rpl
                THEN Ring!Deep /\ Ring!GeneralProtection ELSE Ring!CallGate
        ELSE IF ~Ring!Admits(s, rpl) THEN Ring!Deep /\ Ring!GeneralProtection
        ELSE /\ prot' = [prot EXCEPT !.cs = Ring!Sel(s, prot.cpl), !.ip = ip,
                                    !.sp = IF isjmp THEN @ ELSE (@ - 2) % Sp]
             /\ UNCHANGED <<kst, todo>>
  BY Zenon DEF Ring!UserFar
<1>5. CASE Ring!GeneralProtection
  BY <1>2, <1>5, Faulted
<1>6. CASE Ring!CallGate
  BY <1>2, <1>6, CallGateStep
<1>7. CASE ~Ring!GeneralProtection /\ ~Ring!CallGate
  <2>0. /\ Ring!Admits(s, rpl)
        /\ prot' = [prot EXCEPT !.cs = Ring!Sel(s, prot.cpl), !.ip = ip,
                                !.sp = IF isjmp THEN @ ELSE (@ - 2) % Sp]
        /\ kst' = kst /\ todo' = todo
    <3>1. s \notin Ring!Gated  BY <1>4, <1>7, Zenon
    <3>2. Ring!Admits(s, rpl)  BY <1>4, <1>7, <3>1, Zenon
    <3> QED  BY <1>4, <3>1, <3>2
  <2> PICK cs : cs = Ring!Sel(s, 3)  OBVIOUS
  <2> PICK sp : sp = IF isjmp THEN prot.sp ELSE (prot.sp - 2) % Sp  OBVIOUS
  <2>1. s \in {"U", "C"}  BY <1>1, <2>0, Segments DEF Ring!Admits, Ring!Code
  <2>2. sp \in 0 .. Sp - 1
    <3> PICK d : d = prot.sp - 2  OBVIOUS
    <3>1. d \in Int  BY <1>2 DEF RingAssumed
    <3>2. d % Sp \in 0 .. Sp - 1  BY <3>1, InStack
    <3> QED  BY <1>2, <3>2
  <2>3. prot' = [prot EXCEPT !.cs = cs, !.ip = ip, !.sp = sp]  BY <1>1, <2>0
  <2>4. /\ HasRegs(prot') /\ prot'.cs = cs /\ prot'.ip = ip /\ prot'.sp = sp
        /\ \A x \in RegFields \ {"cs", "ip", "sp"} : prot'[x] = prot[x]
    BY <1>2, <2>3 DEF HasRegs, RegFields
  <2>5. UserMove
    BY <1>2, <1>3, <2>0, <2>1, <2>2, <2>4 DEF UserMove, RegFields, Ring!Ips, IpNames
  <2> QED  BY <1>1, <2>5, UserMoves
<1> QED  BY <1>5, <1>6, <1>7

(* A far call of the kernel or in real mode. *)
LEMMA CallFarStep ==
  ASSUME RingInv, Ring!CALLFAR
  PROVE  Apart
<1> PICK ip : ip = Ring!NextIp(prot.ip)  OBVIOUS
<1> PICK e : e = EntryOf("far", ip)  OBVIOUS
<1>1. ip \in IpNames  BY NextIps
<1>2. /\ IsRegs(prot) /\ e.kind = "far" /\ e.kst = kst /\ IsSeq(kst) /\ On(e.c, e.kst, todo, 0)
      /\ AsIn(e.c, prot) /\ e.c.ip = ip /\ e.c.cs = prot.cs
      /\ Ring!Interrupted("far", ip) = <<e>> \o todo
  BY <1>1, KeptIsOn
<1>3. prot.cpl = 0 /\ HasRegs(prot)  BY <1>2 DEF Ring!CALLFAR, IsRegs
<1>4. InReal(prot) \/ InKernel(prot)  BY <1>3, Where DEF InVirtual, InProgram
<1>5. PICK s \in IF prot.pe THEN {"K", "C"} ELSE {"r"} :
        /\ kst' = <<Ring!NextIp(prot.ip), prot.cs>> \o kst
        /\ prot' = [prot EXCEPT !.cs = Ring!Sel(s, 0), !.ip = "0"]
  BY DEF Ring!CALLFAR
<1>6. todo' = <<e>> \o todo  BY <1>2 DEF Ring!CALLFAR
<1> PICK a : a = prot.cs  OBVIOUS
<1>7. IsTwo(<<ip, a>> \o kst, ip, a, kst)  BY <1>2, TwoWords
<1>8. kst' = <<ip, a>> \o kst /\ IsSeq(kst')  BY <1>5, <1>7 DEF IsTwo
<1> PICK cs : cs = Ring!Sel(s, 0)  OBVIOUS
<1>9. /\ HasRegs(prot') /\ prot'.cs = cs /\ prot'.ip = "0"
      /\ \A x \in RegFields \ {"cs", "ip"} : prot'[x] = prot[x]
  BY <1>3, <1>5 DEF HasRegs, RegFields
<1>10. IsRegs(prot')  BY <1>2, <1>9 DEF IsRegs, RegFields, IpNames
<1>11. InReal(prot) => InReal(prot')  BY <1>9, <1>10 DEF InReal, RegFields
<1>12. InKernel(prot) => InKernel(prot')
  <2>1. InKernel(prot) => s \in {"K", "C"}  BY DEF InKernel
  <2> QED  BY <1>9, <1>10, <2>1 DEF InKernel, RegFields
<1>13. Above(prot', kst', e)
  <2>1. Held(kst', e)  BY <1>2, <1>8 DEF Held
  <2> QED  BY <1>2, <1>4, <1>11, <1>12, <2>1 DEF Above, AsIn
<1>14. prot'.cpl = 0  BY <1>3, <1>9 DEF RegFields
<1> QED  BY <1>2, <1>3, <1>6, <1>8, <1>13, <1>14, PushesApart

(* Flags. *)
LEMMA PopfStep ==
  ASSUME RingAssumed, RingInv, Ring!POPF
  PROVE  Apart
<1>1. prot.cpl = 3  BY DEF Ring!POPF, Ring!User
<1>2. /\ HasRegs(prot) /\ prot.pe = TRUE /\ prot.sp \in 0 .. Sp - 1 /\ prot.if \in BOOLEAN
      /\ prot.iopl \in {0, 3} /\ IsRegs(prot)
  BY <1>1, UserAt
<1>3. CASE Ring!GeneralProtection
  BY <1>2, <1>3, Faulted
<1>4. CASE ~Ring!GeneralProtection
  <2>1. PICK f \in Ring!Forged :
          prot' = [prot EXCEPT !.ip = Ring!NextIp(@), !.sp = (@ + 1) % Sp,
                               !.if = Ring!IretFlags(f).if, !.iopl = Ring!IretFlags(f).iopl]
    BY <1>4 DEF Ring!POPF
  <2>2. kst' = kst /\ todo' = todo  BY <1>4 DEF Ring!POPF
  <2> PICK g : g = Ring!IretFlags(f)  OBVIOUS
  <2>3. g.if \in BOOLEAN /\ g.iopl = prot.iopl /\ (prot.iopl < 3 => g.if = prot.if)
    BY <1>1, <1>2 DEF Ring!IretFlags, Ring!Forged
  <2> PICK i : i = g.if  OBVIOUS
  <2> PICK l : l = g.iopl  OBVIOUS
  <2> PICK ip \in IpNames : ip = Ring!NextIp(prot.ip)  BY NextIps
  <2> PICK sp : sp = (prot.sp + 1) % Sp  OBVIOUS
  <2>4. sp \in 0 .. Sp - 1
    <3> PICK d : d = prot.sp + 1  OBVIOUS
    <3>1. d \in Int  BY <1>2 DEF RingAssumed
    <3> QED  BY <3>1, InStack
  <2>5. prot' = [prot EXCEPT !.ip = ip, !.sp = sp, !.if = i, !.iopl = l]  BY <2>1
  <2>6. /\ HasRegs(prot') /\ prot'.ip = ip /\ prot'.sp = sp /\ prot'.if = i /\ prot'.iopl = l
        /\ \A x \in RegFields \ {"ip", "sp", "if", "iopl"} : prot'[x] = prot[x]
    BY <1>2, <2>5 DEF HasRegs, RegFields
  <2>7. InProgram(prot) => prot.cs \in {Ring!Sel("U", 3), Ring!Sel("C", 3)}  BY DEF InProgram
  <2>8. UserMove
    BY <1>2, <2>2, <2>3, <2>4, <2>6, <2>7 DEF UserMove, RegFields, IsRegs
  <2> QED  BY <1>1, <2>8, UserMoves
<1> QED  BY <1>3, <1>4

(* CLI and STI at each level, and the fault where IOPL does not allow them. *)
LEMMA SetInterruptsStep ==
  ASSUME RingAssumed, RingInv, Ring!SetInterrupts
  PROVE  Apart
<1>1. IsRegs(prot) /\ HasRegs(prot) /\ prot.iopl \in {0, 3} /\ prot.cpl \in {0, 3}
      /\ (prot.cpl = 3 => prot.pe = TRUE)
  <2>1. InReal(prot) \/ InKernel(prot) \/ InProgram(prot) \/ InVirtual(prot)  BY Where
  <2>2. IsRegs(prot) /\ prot.cpl \in {0, 3} /\ (prot.cpl = 3 => prot.pe = TRUE)
    BY <2>1 DEF InReal, InKernel, InVirtual, InProgram
  <2> QED  BY <2>2 DEF IsRegs
<1>2. CASE prot.iopl < prot.cpl
  BY <1>1, <1>2, Faulted DEF Ring!SetInterrupts
<1>3. CASE ~(prot.iopl < prot.cpl)
  <2>1. PICK f \in BOOLEAN : prot' = [prot EXCEPT !.if = f]
    BY <1>3 DEF Ring!SetInterrupts
  <2>2. kst' = kst /\ todo' = todo  BY <1>3 DEF Ring!SetInterrupts
  <2>3. HasRegs(prot') /\ prot'.if = f /\ \A x \in RegFields \ {"if"} : prot'[x] = prot[x]
    BY <1>1, <2>1 DEF HasRegs, RegFields
  <2>4. /\ prot'.pe = prot.pe /\ prot'.vm = prot.vm /\ prot'.cpl = prot.cpl /\ prot'.cs = prot.cs
        /\ prot'.ss = prot.ss /\ prot'.sp = prot.sp /\ prot'.data = prot.data
        /\ prot'.iopl = prot.iopl /\ prot'.ip = prot.ip
    BY <2>3 DEF RegFields
  <2>5. IsRegs(prot')  BY <1>1, <2>3, <2>4 DEF IsRegs
  <2>6. AsIn(prot', prot)  BY <2>4, <2>5, Zenon DEF AsIn, InReal, InVirtual, InProgram, InKernel
  <2>7. prot.cpl = 3 => ~(prot.iopl < 3)  BY <1>3
  <2> QED  BY <2>2, <2>4, <2>6, <2>7, StaysApart
<1> QED  BY <1>2, <1>3

(* A data segment register. *)
LEMMA LoadStep ==
  ASSUME RingAssumed, RingInv, Ring!LoadDS
  PROVE  Apart
<1>1. InKernel(prot) \/ InProgram(prot)
  BY Where DEF Ring!LoadDS, Ring!Protected, InReal, InVirtual
<1>2. prot.pe = TRUE /\ HasRegs(prot) /\ IsRegs(prot) /\ HasData(prot.data)
  BY <1>1 DEF InKernel, InProgram, IsRegs
<1>3. PICK s \in (IF prot.cpl = 0 THEN {"KD", "UD", "null"} ELSE {"UD", "null", "G"}) :
        \/ Ring!GeneralProtection
        \/ /\ s \notin Ring!Gated
           /\ prot' = [prot EXCEPT !.data["DS"] = s] /\ UNCHANGED <<kst, todo>>
  BY Zenon DEF Ring!LoadDS
<1>4. CASE Ring!GeneralProtection
  BY <1>2, <1>4, Faulted
<1>5. CASE /\ s \notin Ring!Gated
           /\ prot' = [prot EXCEPT !.data["DS"] = s] /\ UNCHANGED <<kst, todo>>
  <2> PICK d : d = [prot.data EXCEPT !["DS"] = s]  OBVIOUS
  <2>1. prot' = [prot EXCEPT !.data = d]  BY <1>5
  <2>2. HasRegs(prot') /\ prot'.data = d /\ \A x \in RegFields \ {"data"} : prot'[x] = prot[x]
    BY <1>2, <2>1 DEF HasRegs, RegFields
  <2>3. HasData(d) /\ \A x \in Ring!DataRegs : d[x] = IF x = "DS" THEN s ELSE prot.data[x]
    BY <1>2 DEF HasData, Ring!DataRegs
  <2>4. IsRegs(prot')  BY <1>2, <2>2, <2>3 DEF IsRegs, RegFields
  <2>5. InKernel(prot) => InKernel(prot')
    <3>1. InKernel(prot) => s \in {"KD", "UD", "null"}  BY DEF InKernel
    <3> QED  BY <2>2, <2>3, <2>4, <3>1 DEF InKernel, RegFields
  <2>6. InProgram(prot) => InProgram(prot')
    <3>1. InProgram(prot) => s \in {"UD", "null"}  BY <1>5 DEF InProgram, Ring!Gated
    <3> QED  BY <2>2, <2>3, <2>4, <3>1 DEF InProgram, RegFields
  <2>7. AsIn(prot', prot)  BY <1>1, <2>5, <2>6, LevelsDiffer DEF AsIn
  <2>8. prot'.cpl = prot.cpl /\ prot'.iopl = prot.iopl /\ prot'.vm = prot.vm /\ prot'.if = prot.if
    BY <2>2 DEF RegFields
  <2> QED  BY <1>5, <2>7, <2>8, StaysApart
<1> QED  BY <1>3, <1>4, <1>5

(* INT n, from each mode. *)
LEMMA IntStep ==
  ASSUME RingAssumed, RingInv, NEW n \in DOMAIN Ring!Gates \ {"irq", "gp"},
         Ring!Kernel => n = "call", Ring!INT(n)
  PROVE  Apart
<1>1. n \in {"call", "private", "own", "conf"}  BY DEF Ring!Gates
<1>2. n \in IpNames  BY <1>1 DEF IpNames
<1> PICK ip \in IpNames : ip = Ring!NextIp(prot.ip)  BY NextIps
<1>3. InReal(prot) \/ InKernel(prot) \/ InProgram(prot) \/ InVirtual(prot)  BY Where
<1>4. CASE prot.vm /\ prot.iopl < 3
  <2>1. prot.pe = TRUE  BY <1>3, <1>4 DEF InReal, InKernel, InProgram, InVirtual
  <2> QED  BY <1>4, <2>1, Faulted DEF Ring!INT
<1>5. CASE ~(prot.vm /\ prot.iopl < 3) /\ prot.pe /\ Ring!Class(n, FALSE) = 0
  BY <1>5, Faulted DEF Ring!INT
<1>6. CASE ~(prot.vm /\ prot.iopl < 3) /\ ~(prot.pe /\ Ring!Class(n, FALSE) = 0)
  <2>1. Ring!Entered(n, FALSE, FALSE, ip)
    BY <1>6, Zenon DEF Ring!INT
  <2>2. CASE InReal(prot)
    BY <1>2, <2>1, <2>2, EntersReal
  <2>3. CASE InKernel(prot)
    <3>1. n = "call"  BY <2>3 DEF InKernel, Ring!Kernel, Ring!Protected
    <3>2. n \in Kernels  BY <3>1 DEF Kernels
    <3> QED  BY <2>1, <2>3, <3>2, EntersKernel
  <2>4. CASE InProgram(prot) \/ InVirtual(prot)
    <3>1. prot.pe /\ Ring!Class(n, FALSE) # 0  BY <1>6, <2>4 DEF InProgram, InVirtual
    <3>2. CASE n = "call"
      <4> PICK ext \in BOOLEAN : ext = FALSE  OBVIOUS
      <4>1. n \in Kernels /\ (ext <=> n # "call") /\ (n = "gp") = FALSE  BY <3>2 DEF Kernels
      <4>2. Ring!Entered(n, n = "gp", ext, ip)  BY <2>1, <4>1, Zenon
      <4> QED  BY <2>4, <4>1, <4>2, EntersFromProgram
    <3>3. CASE n = "private"
      BY <2>4, <3>1, <3>3, ClassOfPrograms
    <3>4. CASE n \in {"own", "conf"}
      <4>1. ~prot.vm  BY <2>4, <3>1, <3>4, ClassOfPrograms DEF InProgram, InVirtual
      <4>2. InProgram(prot)  BY <2>4, <4>1 DEF InVirtual
      <4> QED  BY <2>1, <3>4, <4>2, EntersOwnLevel
    <3> QED  BY <1>1, <3>2, <3>3, <3>4
  <2> QED  BY <1>3, <2>2, <2>3, <2>4
<1> QED  BY <1>4, <1>5, <1>6

(* An interrupt between two instructions. *)
LEMMA ExternalStep ==
  ASSUME RingAssumed, RingInv, Ring!ExternalInterrupt
  PROVE  Apart
<1> PICK n \in Kernels : n = "irq"  BY DEF Kernels
<1> PICK ext \in BOOLEAN : ext = TRUE  OBVIOUS
<1> PICK no \in BOOLEAN : no = FALSE  OBVIOUS
<1>1. Ring!Entered(n, no, ext, prot.ip)  BY DEF Ring!ExternalInterrupt
<1>2. InReal(prot) \/ InKernel(prot) \/ InProgram(prot) \/ InVirtual(prot)  BY Where
<1>3. prot.ip \in IpNames /\ n \in IpNames
  BY <1>2 DEF InReal, InKernel, InProgram, InVirtual, IsRegs, IpNames
<1>4. CASE InReal(prot)  BY <1>1, <1>3, <1>4, EntersReal
<1>5. CASE InKernel(prot)  BY <1>1, <1>3, <1>5, EntersKernel
<1>6. CASE InProgram(prot) \/ InVirtual(prot)
  <2>1. (ext <=> n # "call") /\ (n = "gp") = no  OBVIOUS
  <2>2. Ring!Entered(n, n = "gp", ext, prot.ip)  BY <1>1, <2>1, Zenon
  <2> QED  BY <1>3, <1>6, <2>1, <2>2, EntersFromProgram
<1> QED  BY <1>2, <1>4, <1>5, <1>6

-----------------------------------------------------------------------------
(* The invariant holds at first, and implies the two invariants of states. *)
LEMMA RingStart ==
  ASSUME RingAssumed, Ring!Init
  PROVE  RingInv
<1>1. kst = <<>> /\ todo = <<>>  BY DEF Ring!Init
<1>2. Len(todo) = 0 /\ IsSeq(todo) /\ IsSeq(kst)  BY <1>1, Empty
<1>3. PICK i \in {0, 3} : prot \in Ring!Start(i)  BY DEF Ring!Init
<1>4. 0 \in 0 .. Sp - 1  BY DEF RingAssumed
<1>5. HasRegs(prot) /\ HasData(prot.data)
      /\ prot.if = TRUE /\ prot.iopl = i /\ prot.ip = "0" /\ prot.sp = 0
  BY <1>3 DEF Ring!Start, HasRegs, RegFields, HasData, Ring!NullData, Ring!V86Data, Ring!DataRegs
<1>6. IsRegs(prot)  BY <1>5 DEF IsRegs, IpNames
<1>7. InProgram(prot) \/ InVirtual(prot) \/ InReal(prot)
  BY <1>3, <1>4, <1>6
     DEF Ring!Start, InProgram, InVirtual, InReal, Ring!NullData, Ring!DataRegs
<1>8. On(prot, kst, todo, 0)  BY <1>1, <1>2, <1>7 DEF On
<1> QED  BY <1>2, <1>8 DEF RingInv

(* The invariant implies the types, and that no program holds a segment of level 0. *)
LEMMA RingSafe ==
  ASSUME RingAssumed, RingInv
  PROVE  Ring!TypeOK /\ Ring!NoInnerData
<1>1. 0 \in 0 .. Sp - 1  BY DEF RingAssumed
<1>2. InReal(prot) \/ InKernel(prot) \/ InProgram(prot) \/ InVirtual(prot)  BY Where
<1>3. Ring!TypeOK
  BY <1>1, <1>2
     DEF Ring!TypeOK, Ring!Protected, InReal, InKernel, InProgram, InVirtual, IsRegs, Ring!Sel
<1>4. Ring!NoInnerData
  BY <1>2
     DEF Ring!NoInnerData, Ring!Protected, Ring!User, InReal, InKernel, InProgram, InVirtual
<1> QED  BY <1>3, <1>4

(* Every action. *)
LEMMA RingStep ==
  ASSUME RingAssumed, RingInv, Ring!Next
  PROVE  Apart
<1>1. CASE Ring!ExternalInterrupt  BY <1>1, ExternalStep
<1>2. CASE \E n \in DOMAIN Ring!Gates \ {"irq", "gp"} : (Ring!Kernel => n = "call") /\ Ring!INT(n)
  BY <1>2, IntStep
<1>3. CASE Ring!Faults  BY <1>3, Faulted DEF Ring!Faults
<1>4. CASE Ring!IRET  BY <1>4, IretStep
<1>5. CASE Ring!PopError  BY <1>5, PopErrorStep
<1>6. CASE Ring!RETFAR  BY <1>6, RetfarStep
<1>7. CASE Ring!IRETReal \/ Ring!RETFARReal  BY <1>7, RealReturns
<1>8. CASE Ring!UserIRET \/ Ring!UserRETFAR  BY <1>8, UserReturnSteps
<1>9. CASE Ring!V86IRET \/ Ring!V86Far  BY <1>9, V86Steps
<1>10. CASE Ring!UserFar  BY <1>10, UserFarStep
<1>11. CASE Ring!CALLFAR  BY <1>11, CallFarStep
<1>12. CASE Ring!POPF  BY <1>12, PopfStep
<1>13. CASE Ring!SetInterrupts  BY <1>13, SetInterruptsStep
<1>14. CASE Ring!LoadDS  BY <1>14, LoadStep
<1>15. CASE Ring!SYSENTER  BY <1>15, SysenterStep
<1>16. CASE Ring!SYSEXIT  BY <1>16, SysexitStep
<1> QED
  BY <1>1, <1>2, <1>3, <1>4, <1>5, <1>6, <1>7, <1>8, <1>9, <1>10, <1>11, <1>12, <1>13, <1>14,
     <1>15, <1>16
  DEF Ring!Next

(* For stacks and depths of any size: every step enters and leaves the      *)
(* kernel as its gates and frames say, and hands a program nothing of it    *)
(* (call_isr, pmcall, pmret).                                               *)
THEOREM Rings == RingAssumed => (RingSpec => GatesHold)
<1> SUFFICES ASSUME RingAssumed PROVE RingSpec => GatesHold  OBVIOUS
<1>1. Ring!Init => RingInv  BY RingStart
<1>2. RingInv /\ [Ring!Next]_Ring!protectVars => RingInv'
  <2>1. RingInv /\ Ring!Next => RingInv'  BY RingStep DEF Apart
  <2>2. RingInv /\ UNCHANGED Ring!protectVars => RingInv'
    BY DEF RingInv, Ring!protectVars
  <2> QED  BY <2>1, <2>2
<1>3. RingInv => Ring!TypeOK /\ Ring!NoInnerData  BY RingSafe
<1>4. /\ RingInv /\ [Ring!Next]_Ring!protectVars
      /\ (Ring!TypeOK /\ Ring!NoInnerData)'
      => [world = "rings" => Ring!GatesHold]_Ring!protectVars
  BY RingStep DEF Apart, Ring!GatesHold
<1> QED  BY <1>1, <1>2, <1>3, <1>4, PTL DEF RingSpec, GatesHold

-----------------------------------------------------------------------------
(* String instructions: any count, and pages of any even size.  Memory      *)
(* after k elements is a function by recursion on k, so that what holds of  *)
(* it is shown from each number to the next.                                *)

(* Numbers: what holds of 0 and of each successor. *)
LEMMA Successors ==
  ASSUME NEW S, 0 \in S, \A k \in Nat : k \in S => k + 1 \in S
  PROVE  Nat \subseteq S
<1> DEFINE T == Nat \ S
           R == OpToRel(<, Nat)
<1>1. IsWellFoundedOn(R, Nat)  BY NatLessThanWellFounded, Zenon
<1>2. SUFFICES ASSUME T # {} PROVE FALSE
  BY Zenon DEF T
<1>3. \E x \in T : \A y \in T : ~(<<y, x>> \in R)
  <2>1. T \subseteq Nat  OBVIOUS
  <2> HIDE DEF T, R
  <2> QED  BY <1>1, <1>2, <2>1, WFMin, Zenon
<1>4. PICK x \in T : \A y \in T : ~(<<y, x>> \in R)  BY <1>3
<1>5. \A y \in T : ~(y < x)
  <2> SUFFICES ASSUME NEW y \in T, y < x PROVE FALSE
    OBVIOUS
  <2>1. <<y, x>> \in R  BY DEF OpToRel
  <2> QED  BY <1>4, <2>1
<1>6. x # 0 /\ x - 1 \in Nat /\ x - 1 < x /\ (x - 1) + 1 = x  OBVIOUS
<1>7. x - 1 \notin T  BY <1>5, <1>6
<1> QED  BY <1>6, <1>7

(* A function that is defined by what it is at 0 and from each number to    *)
(* the next.                                                                *)
Iterates(f, n, first, next) == f[0] = first /\ \A k \in 1 .. n : f[k] = next[k][f[k - 1]]

LEMMA Iterated ==
  ASSUME NEW n \in Nat, NEW M, NEW first \in M, NEW next \in [1 .. n -> [M -> M]]
  PROVE  \E f \in [0 .. n -> M] : Iterates(f, n, first, next)
<1> DEFINE Upto(j) ==
             \E f \in [0 .. j -> M] : f[0] = first /\ \A k \in 1 .. j : f[k] = next[k][f[k - 1]]
           S == {j \in Nat : j <= n => Upto(j)}
<1>1. 0 \in S
  <2> DEFINE f == [k \in 0 .. 0 |-> first]
  <2>1. f \in [0 .. 0 -> M] /\ f[0] = first  OBVIOUS
  <2>2. \A k \in 1 .. 0 : f[k] = next[k][f[k - 1]]  OBVIOUS
  <2> QED  BY <2>1, <2>2
<1>2. ASSUME NEW j \in Nat, j \in S PROVE j + 1 \in S
  <2> SUFFICES ASSUME j + 1 <= n PROVE Upto(j + 1)
    OBVIOUS
  <2>1. PICK f \in [0 .. j -> M] : f[0] = first /\ \A k \in 1 .. j : f[k] = next[k][f[k - 1]]
    BY <1>2
  <2> DEFINE g == [k \in 0 .. j + 1 |-> IF k = j + 1 THEN next[j + 1][f[j]] ELSE f[k]]
  <2>2. next[j + 1][f[j]] \in M  OBVIOUS
  <2>3. g \in [0 .. j + 1 -> M]  BY <2>2
  <2>4. g[0] = first  BY <2>1
  <2>5. \A k \in 1 .. j + 1 : g[k] = next[k][g[k - 1]]
    <3> SUFFICES ASSUME NEW k \in 1 .. j + 1 PROVE g[k] = next[k][g[k - 1]]
      OBVIOUS
    <3>1. CASE k = j + 1
      <4>1. k - 1 = j /\ j # j + 1 /\ j \in 0 .. j + 1 BY <3>1
      <4>2. g[k] = next[j + 1][f[j]]  BY <3>1
      <4>3. g[k - 1] = f[j]  BY <4>1
      <4> QED  BY <3>1, <4>2, <4>3
    <3>2. CASE k # j + 1
      <4>1. k \in 1 .. j /\ k - 1 \in 0 .. j + 1 /\ k - 1 # j + 1  BY <3>2
      <4>2. g[k] = f[k] /\ g[k - 1] = f[k - 1]  BY <3>2, <4>1
      <4> QED  BY <2>1, <4>1, <4>2
    <3> QED  BY <3>1, <3>2
  <2> QED  BY <2>3, <2>4, <2>5
<1> HIDE DEF S
<1>3. Nat \subseteq S  BY <1>1, <1>2, Successors
<1> QED  BY <1>3 DEF S, Iterates

-----------------------------------------------------------------------------
(* Remainders. *)
LEMMA Divided ==
  ASSUME NEW b \in Nat \ {0}, NEW n \in Int
  PROVE  n \div b \in Int /\ n % b \in 0 .. b - 1 /\ n = b * (n \div b) + (n % b)
OBVIOUS

LEMMA Parts ==
  ASSUME NEW b \in Nat \ {0}, NEW t \in Int, NEW j \in 0 .. b - 1
  PROVE  (b * t + j) \div b = t /\ (b * t + j) % b = j
<1> PICK n \in Int : n = b * t + j  OBVIOUS
<1> PICK d \in Int : d = n \div b  OBVIOUS
<1> PICK r \in 0 .. b - 1 : r = n % b  OBVIOUS
<1>1. n = b * d + r  BY Divided, Zenon
<1>2. b * t - b * d = r - j
  <2>1. PICK x \in Int, y \in Int : x = b * t /\ y = b * d  OBVIOUS
  <2>2. x + j = y + r  BY <1>1, <2>1, Zenon
  <2>3. x - y = r - j  BY ONLY <2>2, x \in Int, y \in Int, r \in Int, j \in Int
  <2> QED  BY <2>1, <2>3, Zenon
<1>3. b * (t - d) = r - j
  <2>1. b * (t - d) = b * t - b * d  OBVIOUS
  <2> QED  BY <1>2, <2>1
<1>4. PICK e \in Int : e = t - d  OBVIOUS
<1>5. ~(e >= 1)
  <2> SUFFICES ASSUME e >= 1 PROVE FALSE
    OBVIOUS
  <2>1. b * e >= b  OBVIOUS
  <2> QED  BY <1>3, <1>4, <2>1
<1>6. ~(e <= -1)
  <2> SUFFICES ASSUME e <= -1 PROVE FALSE
    OBVIOUS
  <2>1. b * e <= -b  OBVIOUS
  <2> QED  BY <1>3, <1>4, <2>1
<1>7. e = 0  BY <1>5, <1>6
<1>8. t = d /\ r = j  BY <1>1, <1>4, <1>7
<1> QED  BY <1>8

LEMMA RestOfSum ==
  ASSUME NEW b \in Nat \ {0}, NEW m \in Int, NEW n \in Int
  PROVE  ((m % b) + n) % b = (m + n) % b
<1> PICK t \in Int, r \in 0 .. b - 1 : t = m \div b /\ r = m % b  BY Divided
<1>1. m = b * t + r  BY Divided, Zenon
<1>5. r + n \in Int  BY ONLY r \in 0 .. b - 1, b \in Nat, n \in Int
<1> PICK k \in Int : k = r + n  BY <1>5, Zenon
<1> PICK d \in Int, j \in 0 .. b - 1 : d = k \div b /\ j = k % b  BY Divided
<1>2. k = b * d + j  BY Divided, Zenon
<1>3. m + n = b * (t + d) + j
  <2>1. b * (t + d) = b * t + b * d  OBVIOUS
  <2> QED  BY <1>1, <1>2, <2>1
<1>4. (b * (t + d) + j) % b = j
  <2>1. t + d \in Int  OBVIOUS
  <2> QED  BY <2>1, Parts
<1> QED  BY <1>3, <1>4

-----------------------------------------------------------------------------
StringsAssumed ==
  PageSize \in Nat \ {0} /\ PageSize % 2 = 0 /\ Pages \in Nat \ {0} /\ MaxCount \in Nat

(* An address, its page and its place in it, in linear and physical memory. *)
At(a, q, r) ==
  /\ q \in 0 .. Pages - 1 /\ r \in 0 .. PageSize - 1
  /\ a = PageSize * q + r
  /\ Str!Physical(a) = PageSize * ((Pages - 1) - q) + r

LEMMA InMemory ==
  ASSUME StringsAssumed, NEW q \in 0 .. Pages - 1, NEW r \in 0 .. PageSize - 1
  PROVE  PageSize * q + r \in Str!Addr
<1> PICK b \in Nat \ {0}, p \in Nat \ {0} : b = PageSize /\ p = Pages  BY DEF StringsAssumed
<1>1. b * q \in Nat /\ b * q <= b * (p - 1)
  <2>1. q \in Nat /\ (p - 1) - q \in Nat  OBVIOUS
  <2>2. b * q \in Nat /\ b * ((p - 1) - q) \in Nat  BY <2>1
  <2>3. b * ((p - 1) - q) = b * (p - 1) - b * q  OBVIOUS
  <2> QED  BY <2>2, <2>3
<1>2. b * (p - 1) = b * p - b  OBVIOUS
<1>3. PageSize * Pages = b * p /\ b * p \in Nat  OBVIOUS
<1>4. PICK x \in Nat, y \in Nat : x = b * q /\ y = b * p /\ x <= y - b
  <2>1. b * p \in Nat  OBVIOUS
  <2> QED  BY <1>1, <1>2, <2>1
<1>5. x + r \in 0 .. y - 1  BY <1>4
<1> QED  BY <1>3, <1>4, <1>5 DEF Str!Addr, Str!Length

LEMMA AddressAt ==
  ASSUME StringsAssumed, NEW q \in 0 .. Pages - 1, NEW r \in 0 .. PageSize - 1
  PROVE  At(PageSize * q + r, q, r)
<1> PICK b \in Nat \ {0} : b = PageSize  BY DEF StringsAssumed
<1>1. (b * q + r) \div b = q /\ (b * q + r) % b = r
  <2>1. q \in Int /\ r \in 0 .. b - 1  OBVIOUS
  <2> QED  BY <2>1, Parts
<1>2. Str!Physical(b * q + r) = ((Pages - 1) - q) * b + r
  BY <1>1 DEF Str!Physical, Str!Page
<1>3. ((Pages - 1) - q) * b = b * ((Pages - 1) - q)  BY DEF StringsAssumed
<1> QED  BY <1>2, <1>3 DEF At

LEMMA Somewhere ==
  ASSUME StringsAssumed, NEW a \in Str!Addr
  PROVE  \E q \in 0 .. Pages - 1, r \in 0 .. PageSize - 1 : At(a, q, r)
<1> PICK b \in Nat \ {0}, p \in Nat \ {0} : b = PageSize /\ p = Pages  BY DEF StringsAssumed
<1>1. b * p \in Nat  OBVIOUS
<1>2. a \in 0 .. b * p - 1  BY DEF Str!Addr, Str!Length
<1>3. a \in Nat /\ a < b * p  BY <1>1, <1>2
<1>9. a \in Int  BY <1>3
<1>4. PICK q \in Int, r \in 0 .. b - 1 : q = a \div b /\ r = a % b  BY <1>9, Divided, Zenon
<1>5. a = b * q + r  BY <1>9, <1>4, Divided, Zenon
<1>6. q >= 0
  <2> SUFFICES ASSUME q <= -1 PROVE FALSE
    OBVIOUS
  <2>1. b * q <= -b  BY ONLY b \in Nat \ {0}, q \in Int, q <= -1
  <2> QED  BY <1>3, <1>5, <2>1
<1>7. q <= p - 1
  <2> SUFFICES ASSUME q - p >= 0 PROVE FALSE
    OBVIOUS
  <2>1. PICK d \in Nat : d = q - p  OBVIOUS
  <2>2. b * q = b * p + b * d
    <3>1. q = p + d  BY <2>1
    <3>2. b * (p + d) = b * p + b * d  BY ONLY b \in Nat \ {0}, p \in Nat \ {0}, d \in Nat
    <3> QED  BY <3>1, <3>2
  <2>3. b * d \in Nat  BY ONLY b \in Nat \ {0}, d \in Nat
  <2> QED  BY <1>1, <1>3, <1>5, <2>2, <2>3
<1>8. q \in 0 .. Pages - 1 /\ r \in 0 .. PageSize - 1  BY <1>6, <1>7
<1> QED  BY <1>5, <1>8, AddressAt

(* A physical address is one of memory, at the same place in a page.        *)
LEMMA PhysicalAt ==
  ASSUME StringsAssumed, NEW a, NEW q, NEW r, At(a, q, r)
  PROVE  Str!Physical(a) \in Str!Addr /\ Str!Physical(a) % PageSize = r
<1>1. (Pages - 1) - q \in 0 .. Pages - 1 /\ (Pages - 1) - q \in Int /\ r \in 0 .. PageSize - 1
      /\ PageSize \in Nat \ {0}
  BY DEF StringsAssumed, At
<1>2. Str!Physical(a) = PageSize * ((Pages - 1) - q) + r  BY DEF At
<1> QED  BY <1>1, <1>2, InMemory, Parts

(* Further on in the same page. *)
Further(a, q, r, z) ==
  /\ At(a + z, q, r + z)
  /\ a + z \in Str!Addr /\ (a + z) % Str!Length = a + z
  /\ Str!Physical(a + z) = Str!Physical(a) + z

LEMMA InPage ==
  ASSUME StringsAssumed, NEW a, NEW q, NEW r, At(a, q, r), NEW z \in Int, r + z \in 0 .. PageSize - 1
  PROVE  Further(a, q, r, z)
<1> PICK s \in 0 .. PageSize - 1 : s = r + z  OBVIOUS
<1>1. q \in 0 .. Pages - 1 /\ r \in 0 .. PageSize - 1 /\ a = PageSize * q + r
      /\ Str!Physical(a) = PageSize * ((Pages - 1) - q) + r
  BY DEF At
<1>2. PageSize * q \in Int /\ PageSize * ((Pages - 1) - q) \in Int  BY <1>1 DEF StringsAssumed
<1>3. a + z = PageSize * q + s  BY <1>1, <1>2
<1>4. At(a + z, q, s)  BY <1>1, <1>3, AddressAt
<1>5. a + z \in Str!Addr  BY <1>1, <1>3, InMemory
<1>6. (a + z) % Str!Length = a + z
  <2>1. Str!Length \in Nat \ {0}  BY DEF Str!Length, StringsAssumed
  <2>2. a + z \in 0 .. Str!Length - 1  BY <1>5 DEF Str!Addr
  <2>3. \A n \in Nat \ {0} : \A x \in 0 .. n - 1 : x % n = x  OBVIOUS
  <2> QED  BY <2>1, <2>2, <2>3, Zenon
<1>7. Str!Physical(a + z) = PageSize * ((Pages - 1) - q) + s  BY <1>4 DEF At
<1>8. PageSize * ((Pages - 1) - q) + s = (PageSize * ((Pages - 1) - q) + r) + z  BY <1>1, <1>2
<1> QED  BY <1>1, <1>4, <1>5, <1>6, <1>7, <1>8 DEF Further

-----------------------------------------------------------------------------
(* The operators of the model for an instruction that is given.             *)
Instr ==
  [kind : Str!Kinds, rep : 0 .. 2, size : {1, 2}, dir : {1, -1}, si : Str!Addr, di : Str!Addr,
   cx : 0 .. MaxCount]
Contents == [Str!Addr -> Int]

AheadOf(i, a, k) == (a + k * i.dir * i.size) % Str!Length
ElementOf(i, m, a) == [j \in 1 .. i.size |-> m[Str!Physical((a + j - 1) % Str!Length)]]
PutOf(i, m, a, v) ==
  [p \in DOMAIN m |->
     IF \E j \in 1 .. i.size : p = Str!Physical((a + j - 1) % Str!Length)
     THEN v[CHOOSE j \in 1 .. i.size : p = Str!Physical((a + j - 1) % Str!Length)] ELSE m[p]]
RoomOf(i, a) ==
  LET p == Str!Physical(a) % PageSize
  IN IF i.dir > 0 THEN (PageSize - p) \div i.size ELSE 1 + (p \div i.size)
WalkOf(i, a, k) == Str!Physical(a) + k * i.dir * i.size
InChunkOf(i, m, p) == [j \in 1 .. i.size |-> IF p + j - 1 \in Str!Addr THEN m[p + j - 1] ELSE -1]
PutChunkOf(i, m, p, v) ==
  [q \in DOMAIN m |-> IF q \in p .. p + i.size - 1 THEN v[q - p + 1] ELSE m[q]]

(* The element k of a chunk lies in the page of the first.                  *)
InChunkAt(i, a, k) ==
  \E q, r : /\ At(a + k * i.dir * i.size, q, r)
            /\ r + (i.size - 1) <= PageSize - 1

LEMMA AlignedPlace ==
  ASSUME StringsAssumed, NEW s \in {1, 2}, NEW a, NEW q, NEW r, At(a, q, r), Str!Physical(a) % s = 0
  PROVE  r % s = 0
<1>1. r \in Nat  BY DEF At, StringsAssumed
<1>2. CASE s = 1  BY <1>1, <1>2
<1>3. CASE s = 2
  <2>1. PICK h \in Nat : PageSize = 2 * h
    <3>1. PageSize \in Nat /\ PageSize % 2 = 0  BY DEF StringsAssumed
    <3>2. \A n \in Nat : n % 2 = 0 => n = 2 * (n \div 2) /\ n \div 2 \in Nat  OBVIOUS
    <3> QED  BY <3>1, <3>2
  <2>2. PICK c \in Nat : c = (Pages - 1) - q  BY DEF At, StringsAssumed
  <2>3. Str!Physical(a) = PageSize * c + r  BY <2>2, Zenon DEF At
  <2>4. PICK y \in Nat : y = h * c  OBVIOUS
  <2>5. PageSize * c = 2 * y
    <3>1. (2 * h) * c = 2 * (h * c)  BY ONLY h \in Nat, c \in Nat
    <3> QED  BY <2>1, <2>4, <3>1, Zenon
  <2>6. (2 * y + r) % 2 = 0  BY <1>3, <2>3, <2>5, Zenon
  <2>7. r % 2 = 0  BY ONLY <1>1, <2>6, y \in Nat
  <2> QED  BY <1>3, <2>7
<1> QED  BY <1>2, <1>3

LEMMA ChunkPlace ==
  ASSUME StringsAssumed, NEW i \in Instr, NEW a \in Str!Addr, Str!Physical(a) % i.size = 0,
         NEW k \in Nat, k < RoomOf(i, a)
  PROVE  /\ InChunkAt(i, a, k) /\ AheadOf(i, a, k) = a + k * i.dir * i.size
         /\ AheadOf(i, a, k) \in Str!Addr
         /\ Str!Physical(a + k * i.dir * i.size) = WalkOf(i, a, k)
<1>1. PICK q \in 0 .. Pages - 1, r \in 0 .. PageSize - 1 : At(a, q, r)  BY Somewhere
<1>2. Str!Physical(a) % PageSize = r  BY <1>1, PhysicalAt
<1>3. i.size \in {1, 2} /\ i.dir \in {1, -1}  BY DEF Instr
<1>4. r % i.size = 0  BY <1>1, <1>3, AlignedPlace
<1>5. PICK P \in Nat \ {0} : P = PageSize  BY DEF StringsAssumed
<1>6. PICK s \in {1, 2}, d \in {1, -1} : s = i.size /\ d = i.dir  BY <1>3
<1>7. k < IF d > 0 THEN (P - r) \div s ELSE 1 + (r \div s)
  BY <1>2, <1>5, <1>6 DEF RoomOf
<1>8. PICK z \in Int : z = (k * d) * s
  <2>1. PICK x \in Int : x = k * d
    <3>1. CASE d = 1  BY <3>1
    <3>2. CASE d = -1  BY <3>2
    <3> QED  BY <3>1, <3>2
  <2>2. x * s \in Int  OBVIOUS
  <2> QED  BY <2>1, <2>2
<1>9. r + z \in 0 .. P - 1 /\ (r + z) + (s - 1) <= P - 1
  <2>1. r \in 0 .. P - 1 /\ r % s = 0  BY <1>4, <1>5, <1>6
  <2>2. CASE d = 1 /\ s = 1  BY <1>7, <1>8, <2>1, <2>2
  <2>3. CASE d = 1 /\ s = 2  BY <1>7, <1>8, <2>1, <2>3
  <2>4. CASE d = -1 /\ s = 1  BY <1>7, <1>8, <2>1, <2>4
  <2>5. CASE d = -1 /\ s = 2
    <3>1. P % 2 = 0  BY <1>5 DEF StringsAssumed
    <3>2. r <= P - 2  BY <2>1, <2>5, <3>1
    <3> QED  BY <1>7, <1>8, <2>1, <2>5, <3>2
  <2> QED  BY <2>2, <2>3, <2>4, <2>5
<1>10. /\ At(a + z, q, r + z)
       /\ a + z \in Str!Addr /\ (a + z) % Str!Length = a + z
       /\ Str!Physical(a + z) = Str!Physical(a) + z
  <2>1. r + z \in 0 .. PageSize - 1  BY <1>5, <1>9
  <2>2. Further(a, q, r, z)  BY <1>1, <2>1, InPage
  <2> QED  BY <2>2 DEF Further
<1>11. a + k * i.dir * i.size = a + z  BY <1>6, <1>8
<1>12. InChunkAt(i, a, k)
  <2>1. (r + z) + (i.size - 1) <= PageSize - 1  BY <1>5, <1>6, <1>9
  <2> QED  BY <1>10, <1>11, <2>1, Zenon DEF InChunkAt
<1>13. WalkOf(i, a, k) = Str!Physical(a) + z  BY <1>6, <1>8 DEF WalkOf
<1> QED  BY <1>10, <1>11, <1>12, <1>13, Zenon DEF AheadOf

(* The bytes of an element that lies in one page.                           *)
LEMMA ElementBytes ==
  ASSUME StringsAssumed, NEW i \in Instr, NEW b, NEW q, NEW r, At(b, q, r),
         r + (i.size - 1) <= PageSize - 1, NEW j \in 1 .. i.size
  PROVE  /\ Str!Physical((b + j - 1) % Str!Length) = Str!Physical(b) + (j - 1)
         /\ Str!Physical(b) + (j - 1) \in Str!Addr
<1>1. i.size \in {1, 2}  BY DEF Instr
<1>2. PICK s \in {1, 2} : s = i.size  BY <1>1
<1>3. PICK z \in 0 .. s - 1 : z = j - 1  BY <1>2
<1>4. r \in 0 .. PageSize - 1 /\ PageSize \in Nat  BY DEF At, StringsAssumed
<1>5. r + z \in 0 .. PageSize - 1  BY <1>2, <1>4
<1>6. Further(b, q, r, z)
  <2>1. z \in Int  OBVIOUS
  <2> QED  BY <1>5, <2>1, InPage
<1>7. Str!Physical(b + z) \in Str!Addr
  <2>1. At(b + z, q, r + z)  BY <1>6 DEF Further
  <2> QED  BY <2>1, PhysicalAt
<1>8. (b + j) - 1 = b + z
  <2>1. q \in Int /\ PageSize * q \in Int /\ b = PageSize * q + r
    <3>1. q \in Int  BY DEF At
    <3> QED  BY <1>4, <3>1 DEF At
  <2>2. b \in Int  BY <1>4, <2>1
  <2> QED  BY <1>3, <2>2
<1>9. (b + z) % Str!Length = b + z /\ Str!Physical(b + z) = Str!Physical(b) + z
  BY <1>6 DEF Further
<1> QED  BY <1>3, <1>7, <1>8, <1>9, Zenon

LEMMA ChunkElement ==
  ASSUME StringsAssumed, NEW i \in Instr, NEW b, NEW q, NEW r, At(b, q, r),
         r + (i.size - 1) <= PageSize - 1, NEW m \in Contents, NEW v
  PROVE  /\ ElementOf(i, m, b) = InChunkOf(i, m, Str!Physical(b))
         /\ PutOf(i, m, b, v) = PutChunkOf(i, m, Str!Physical(b), v)
<1> DEFINE B(j) == Str!Physical((b + j - 1) % Str!Length)
<1> PICK p : p = Str!Physical(b)  OBVIOUS
<1>1. p \in Int
  <2>1. p \in Str!Addr  BY PhysicalAt
  <2> QED  BY <2>1 DEF Str!Addr
<1>2. \A j \in 1 .. i.size : B(j) = p + (j - 1) /\ p + (j - 1) \in Str!Addr  BY ElementBytes
<1>3. PICK s \in {1, 2} : s = i.size  BY DEF Instr
<1>4. ElementOf(i, m, b) = InChunkOf(i, m, p)
  <2>1. ElementOf(i, m, b) = [j \in 1 .. i.size |-> m[B(j)]]  BY DEF ElementOf
  <2> HIDE DEF B
  <2>2. \A j \in 1 .. i.size : m[B(j)] = (IF p + j - 1 \in Str!Addr THEN m[p + j - 1] ELSE -1)
    <3> TAKE j \in 1 .. i.size
    <3>1. (p + j) - 1 = p + (j - 1)  BY <1>1, <1>3
    <3> QED  BY <1>2, <3>1, Zenon
  <2> QED  BY <2>1, <2>2, Zenon DEF InChunkOf
<1>5. PutOf(i, m, b, v) = PutChunkOf(i, m, p, v)
  <2>1. PutOf(i, m, b, v) =
          [x \in DOMAIN m |-> IF \E j \in 1 .. i.size : x = B(j)
                              THEN v[CHOOSE j \in 1 .. i.size : x = B(j)] ELSE m[x]]
    BY DEF PutOf
  <2> HIDE DEF B
  <2>2. ASSUME NEW x \in DOMAIN m
        PROVE  (IF \E j \in 1 .. i.size : x = B(j)
                THEN v[CHOOSE j \in 1 .. i.size : x = B(j)] ELSE m[x])
               = (IF x \in p .. p + i.size - 1 THEN v[x - p + 1] ELSE m[x])
    <3>1. x \in Int  BY DEF Contents, Str!Addr
    <3>2. CASE x \in p .. p + i.size - 1
      <4>1. PICK j \in 1 .. i.size : j = (x - p) + 1  BY <1>1, <1>3, <3>1, <3>2
      <4>2. x = p + (j - 1)  BY <1>1, <3>1, <4>1
      <4>3. x = B(j)  BY <1>2, <4>2, Zenon
      <4>4. \A c \in 1 .. i.size : x = B(c) => c = j
        <5> SUFFICES ASSUME NEW c \in 1 .. i.size, x = B(c) PROVE c = j
          OBVIOUS
        <5>1. x = p + (c - 1)  BY <1>2, Zenon
        <5> QED  BY <1>1, <3>1, <4>1, <5>1
      <4>5. (CHOOSE c \in 1 .. i.size : x = B(c)) = j  BY <4>3, <4>4
      <4> QED  BY <3>2, <4>1, <4>3, <4>5, Zenon
    <3>3. CASE x \notin p .. p + i.size - 1
      <4>1. \A j \in 1 .. i.size : p + (j - 1) \in p .. p + i.size - 1  BY <1>1, <1>3
      <4>2. ~ \E j \in 1 .. i.size : x = B(j)  BY <1>2, <3>3, <4>1, Zenon
      <4> QED  BY <3>3, <4>2, Zenon
    <3> QED  BY <3>2, <3>3
  <2> QED  BY <2>1, <2>2, Zenon DEF PutChunkOf
<1> QED  BY <1>4, <1>5

-----------------------------------------------------------------------------
(* Addresses further on, and what lies at them.                             *)
LEMMA LengthPositive ==
  ASSUME StringsAssumed
  PROVE  Str!Length \in Nat \ {0} /\ \A n \in Int : n % Str!Length \in Str!Addr
<1> PICK b \in Nat \ {0}, p \in Nat \ {0} : b = PageSize /\ p = Pages  BY DEF StringsAssumed
<1>1. b * p \in Nat \ {0}  OBVIOUS
<1>2. PICK l \in Nat \ {0} : l = Str!Length  BY <1>1 DEF Str!Length
<1>3. \A n \in Int : n % l \in 0 .. l - 1  OBVIOUS
<1> QED  BY <1>2, <1>3 DEF Str!Addr

LEMMA AheadIn ==
  ASSUME StringsAssumed, NEW i \in Instr, NEW a \in Str!Addr, NEW k \in Int
  PROVE  AheadOf(i, a, k) \in Str!Addr /\ AheadOf(i, a, 0) = a /\ a \in Int
<1>1. a \in Int  BY LengthPositive DEF Str!Addr
<1>2. PICK s \in {1, 2}, d \in {1, -1} : s = i.size /\ d = i.dir  BY DEF Instr
<1>3. (k * d) * s \in Int
  <2>1. CASE d = 1  BY <2>1
  <2>2. CASE d = -1  BY <2>2
  <2> QED  BY <2>1, <2>2
<1>4. PICK z \in Int : z = a + ((k * d) * s)  BY <1>1, <1>3
<1>5. AheadOf(i, a, k) \in Str!Addr
  <2>1. AheadOf(i, a, k) = z % Str!Length  BY <1>2, <1>4 DEF AheadOf
  <2> QED  BY <2>1, LengthPositive
<1>6. AheadOf(i, a, 0) = a
  <2>1. (0 * d) * s = 0  OBVIOUS
  <2>2. AheadOf(i, a, 0) = a % Str!Length  BY <1>1, <1>2, <2>1 DEF AheadOf
  <2>3. \A n \in Nat \ {0} : \A x \in 0 .. n - 1 : x % n = x  OBVIOUS
  <2> QED  BY <2>2, <2>3, LengthPositive DEF Str!Addr
<1> QED  BY <1>1, <1>5, <1>6

LEMMA AheadTwice ==
  ASSUME StringsAssumed, NEW i \in Instr, NEW a \in Str!Addr, NEW j \in Int, NEW k \in Int
  PROVE  AheadOf(i, AheadOf(i, a, j), k) = AheadOf(i, a, j + k)
<1>1. a \in Int  BY AheadIn
<1>2. PICK s \in {1, 2}, d \in {1, -1} : s = i.size /\ d = i.dir  BY DEF Instr
<1>3. PICK x \in Int, y \in Int : x = (j * d) * s /\ y = (k * d) * s
  <2>1. CASE d = 1  BY <2>1
  <2>2. CASE d = -1  BY <2>2
  <2> QED  BY <2>1, <2>2
<1>4. ((j + k) * d) * s = x + y
  <2>1. CASE d = 1  BY <1>3, <2>1
  <2>2. CASE d = -1  BY <1>3, <2>2
  <2> QED  BY <2>1, <2>2
<1>5. PICK L \in Nat \ {0} : L = Str!Length  BY LengthPositive
<1>6. AheadOf(i, a, j) = (a + x) % L  BY <1>2, <1>3, <1>5 DEF AheadOf
<1>7. AheadOf(i, AheadOf(i, a, j), k) = (((a + x) % L) + y) % L
  BY <1>2, <1>3, <1>5, <1>6 DEF AheadOf
<1>8. AheadOf(i, a, j + k) = (a + (x + y)) % L  BY <1>2, <1>4, <1>5 DEF AheadOf
<1>9. PICK m \in Int : m = a + x  BY <1>1
<1>10. ((m % L) + y) % L = (m + y) % L  BY RestOfSum
<1>11. m + y = a + (x + y)  BY <1>1, <1>9
<1> QED  BY <1>7, <1>8, <1>9, <1>10, <1>11

LEMMA ElementIn ==
  ASSUME StringsAssumed, NEW i \in Instr, NEW m \in Contents, NEW a \in Str!Addr
  PROVE  \A j \in 1 .. i.size : ElementOf(i, m, a)[j] \in Int
<1> TAKE j \in 1 .. i.size
<1>1. i.size \in {1, 2} /\ a \in Int  BY AheadIn DEF Instr
<1>2. PICK x \in Int : x = a + j - 1  BY <1>1
<1>3. x % Str!Length \in Str!Addr  BY LengthPositive
<1>4. Str!Physical(x % Str!Length) \in Str!Addr  BY <1>3, Somewhere, PhysicalAt
<1>5. m[Str!Physical(x % Str!Length)] \in Int  BY <1>4 DEF Contents
<1> QED  BY <1>2, <1>5 DEF ElementOf

LEMMA PutIn ==
  ASSUME StringsAssumed, NEW i \in Instr, NEW m \in Contents, NEW a,
         NEW v, \A j \in 1 .. i.size : v[j] \in Int
  PROVE  PutOf(i, m, a, v) \in Contents
<1> DEFINE B(j) == Str!Physical((a + j - 1) % Str!Length)
<1>1. PutOf(i, m, a, v) =
          [x \in DOMAIN m |-> IF \E j \in 1 .. i.size : x = B(j)
                              THEN v[CHOOSE j \in 1 .. i.size : x = B(j)] ELSE m[x]]
  BY DEF PutOf
<1> HIDE DEF B
<1>2. DOMAIN m = Str!Addr /\ \A x \in Str!Addr : m[x] \in Int  BY DEF Contents
<1>3. \A x : (\E j \in 1 .. i.size : x = B(j)) =>
             (CHOOSE j \in 1 .. i.size : x = B(j)) \in 1 .. i.size
  OBVIOUS
<1>4. \A x \in DOMAIN m :
        (IF \E j \in 1 .. i.size : x = B(j)
         THEN v[CHOOSE j \in 1 .. i.size : x = B(j)] ELSE m[x]) \in Int
  BY <1>2, <1>3, Zenon
<1> QED  BY <1>1, <1>2, <1>4, Zenon DEF Contents

-----------------------------------------------------------------------------
(* Memory after k elements, for an instruction that is given.               *)
MemStep(i, k, m) ==
  LET to == AheadOf(i, i.di, k - 1)
  IN CASE i.kind = "MOVS" -> PutOf(i, m, to, ElementOf(i, m, AheadOf(i, i.si, k - 1)))
       [] i.kind = "STOS" -> PutOf(i, m, to, Str!Accumulator)
       [] i.kind = "INS"  -> PutOf(i, m, to, Str!FromPort(k - 1))
       [] OTHER -> m
ReferenceOf(i) ==
  LET m[k \in 0 .. MaxCount] == IF k = 0 THEN Str!InitialMemory ELSE MemStep(i, k, m[k - 1])
  IN m

ChunkStep(i, c, d, a, p, k, m) ==
  LET to == WalkOf(i, d, k - 1)
  IN CASE i.kind = "MOVS" -> PutChunkOf(i, m, to, InChunkOf(i, m, WalkOf(i, c, k - 1)))
       [] i.kind = "STOS" -> PutChunkOf(i, m, to, a)
       [] i.kind = "INS"  -> PutChunkOf(i, m, to, Str!FromPort(p + k - 1))
       [] OTHER -> m
ChunkedOf(i, mem, c, d, a, p, n) ==
  LET m[k \in 0 .. n] == IF k = 0 THEN mem ELSE ChunkStep(i, c, d, a, p, k, m[k - 1])
  IN m[n]

LEMMA ReferenceIs == Str!Reference = ReferenceOf(ins)
BY DEF Str!Reference, ReferenceOf, MemStep, Str!Ahead, AheadOf, Str!PutElement, PutOf,
       Str!Element, ElementOf

LEMMA ChunkedIs ==
  ASSUME NEW n
  PROVE  Str!Chunked(n) = ChunkedOf(ins, smem, si, di, ax, port, n)
BY DEF Str!Chunked, ChunkedOf, ChunkStep, Str!Walk, WalkOf, Str!PutChunk, PutChunkOf,
       Str!InChunk, InChunkOf

LEMMA Values ==
  ASSUME StringsAssumed, NEW i \in Instr
  PROVE  /\ \A j \in 1 .. i.size : Str!Accumulator[j] \in Int
         /\ \A k \in Int : \A j \in 1 .. i.size : Str!FromPort(k)[j] \in Int
<1>1. Str!Length \in Int /\ i.size \in {1, 2}  BY LengthPositive DEF Instr
<1>2. \A j \in 1 .. i.size : Str!Accumulator[j] \in Int  BY <1>1 DEF Str!Accumulator
<1>3. \A k \in Int : \A j \in 1 .. i.size : Str!FromPort(k)[j] \in Int
  BY <1>1 DEF Str!FromPort
<1> QED  BY <1>2, <1>3

LEMMA InitialIn == ASSUME StringsAssumed PROVE Str!InitialMemory \in Contents
<1>1. \A p \in Str!Addr : p \in Int  BY DEF Str!Addr
<1> QED  BY <1>1 DEF Str!InitialMemory, Contents

LEMMA MemStepIn ==
  ASSUME StringsAssumed, NEW i \in Instr, NEW k \in Int, NEW m \in Contents
  PROVE  MemStep(i, k, m) \in Contents
<1> DEFINE to == AheadOf(i, i.di, k - 1)
           from == AheadOf(i, i.si, k - 1)
<1>1. k - 1 \in Int /\ i.di \in Str!Addr /\ i.si \in Str!Addr  BY DEF Instr
<1>2. from \in Str!Addr  BY <1>1, AheadIn
<1>3. PutOf(i, m, to, ElementOf(i, m, from)) \in Contents
  <2>1. \A j \in 1 .. i.size : ElementOf(i, m, from)[j] \in Int  BY <1>2, ElementIn
  <2> QED  BY <2>1, PutIn
<1>4. PutOf(i, m, to, Str!Accumulator) \in Contents  BY Values, PutIn
<1>5. PutOf(i, m, to, Str!FromPort(k - 1)) \in Contents
  <2>1. \A j \in 1 .. i.size : Str!FromPort(k - 1)[j] \in Int  BY <1>1, Values
  <2> QED  BY <2>1, PutIn
<1> HIDE DEF to, from
<1>6. MemStep(i, k, m) =
        CASE i.kind = "MOVS" -> PutOf(i, m, to, ElementOf(i, m, from))
          [] i.kind = "STOS" -> PutOf(i, m, to, Str!Accumulator)
          [] i.kind = "INS"  -> PutOf(i, m, to, Str!FromPort(k - 1))
          [] OTHER -> m
  BY DEF MemStep, to, from
<1> QED  BY <1>3, <1>4, <1>5, <1>6

(* The definition is what it says: the memory it begins with, and from each *)
(* element to the next.                                                     *)
LEMMA ReferenceSteps ==
  ASSUME StringsAssumed, NEW i \in Instr
  PROVE  /\ ReferenceOf(i)[0] = Str!InitialMemory
         /\ \A k \in 0 .. MaxCount : ReferenceOf(i)[k] \in Contents
         /\ \A k \in 1 .. MaxCount : ReferenceOf(i)[k] = MemStep(i, k, ReferenceOf(i)[k - 1])
<1> DEFINE R(m) == [k \in 0 .. MaxCount |->
                      IF k = 0 THEN Str!InitialMemory ELSE MemStep(i, k, m[k - 1])]
           g == ReferenceOf(i)
<1>1. g = CHOOSE m : m = R(m)  BY DEF ReferenceOf
<1>2. \E m : m = R(m)
  <2> DEFINE next == [k \in 1 .. MaxCount |-> [m \in Contents |-> MemStep(i, k, m)]]
  <2>1. next \in [1 .. MaxCount -> [Contents -> Contents]]
    <3>1. \A k \in 1 .. MaxCount : k \in Int  OBVIOUS
    <3>2. \A k \in 1 .. MaxCount : \A m \in Contents : MemStep(i, k, m) \in Contents
      BY <3>1, MemStepIn
    <3> QED  BY <3>2, Zenon
  <2>2. MaxCount \in Nat  BY DEF StringsAssumed
  <2>3. \A k \in 1 .. MaxCount : \A m \in Contents : next[k][m] = MemStep(i, k, m)  OBVIOUS
  <2>7. Str!InitialMemory \in Contents  BY InitialIn
  <2> HIDE DEF next
  <2>8. PICK f \in [0 .. MaxCount -> Contents] : Iterates(f, MaxCount, Str!InitialMemory, next)
    BY <2>1, <2>2, <2>7, Iterated
  <2>4. f[0] = Str!InitialMemory /\ \A k \in 1 .. MaxCount : f[k] = next[k][f[k - 1]]
    BY <2>8 DEF Iterates
  <2>5. \A k \in 0 .. MaxCount :
          f[k] = IF k = 0 THEN Str!InitialMemory ELSE MemStep(i, k, f[k - 1])
    <3> TAKE k \in 0 .. MaxCount
    <3>1. CASE k = 0  BY <2>4, <3>1
    <3>2. CASE k # 0
      <4>1. k \in 1 .. MaxCount /\ k - 1 \in 0 .. MaxCount  BY <2>2, <3>2
      <4> QED  BY <2>3, <2>4, <3>2, <4>1
    <3> QED  BY <3>1, <3>2
  <2>6. f = R(f)  BY <2>5
  <2> QED  BY <2>6
<1>3. g = R(g)
  <2> HIDE DEF g, R
  <2> QED  BY <1>1, <1>2
<1> HIDE DEF g
<1>4. g[0] = Str!InitialMemory /\ \A k \in 1 .. MaxCount : g[k] = MemStep(i, k, g[k - 1])
  <2>1. MaxCount \in Nat  BY DEF StringsAssumed
  <2>2. 0 \in 0 .. MaxCount /\ \A k \in 1 .. MaxCount : k \in 0 .. MaxCount /\ k # 0  BY <2>1
  <2>3. \A k \in 0 .. MaxCount : g[k] = IF k = 0 THEN Str!InitialMemory ELSE MemStep(i, k, g[k - 1])
    BY <1>3, Zenon
  <2> QED  BY <2>2, <2>3, Zenon
<1>5. \A k \in 0 .. MaxCount : g[k] \in Contents
  <2> DEFINE S == {k \in Nat : k <= MaxCount => g[k] \in Contents}
  <2>1. 0 \in S  BY <1>4, InitialIn
  <2>2. ASSUME NEW k \in Nat, k \in S PROVE k + 1 \in S
    <3> SUFFICES ASSUME k + 1 <= MaxCount PROVE g[k + 1] \in Contents
      OBVIOUS
    <3>1. k + 1 \in 1 .. MaxCount /\ (k + 1) - 1 = k /\ k <= MaxCount /\ k + 1 \in Int
      BY DEF StringsAssumed
    <3>2. g[k + 1] = MemStep(i, k + 1, g[k])  BY <1>4, <3>1
    <3>3. g[k] \in Contents  BY <2>2, <3>1
    <3> QED  BY <3>1, <3>2, <3>3, MemStepIn
  <2> HIDE DEF S
  <2>3. Nat \subseteq S  BY <2>1, <2>2, Successors
  <2> QED  BY <2>3 DEF S, StringsAssumed
<1> QED  BY <1>4, <1>5 DEF g

LEMMA RoomIn ==
  ASSUME StringsAssumed, NEW i \in Instr, NEW o \in Str!Addr, NEW D \in Int
  PROVE  RoomOf(i, AheadOf(i, o, D)) \in Nat
<1> PICK a \in Str!Addr : a = AheadOf(i, o, D)  BY AheadIn
<1> PICK q \in 0 .. Pages - 1, r \in 0 .. PageSize - 1 : At(a, q, r)  BY Somewhere
<1>1. Str!Physical(a) % PageSize = r  BY PhysicalAt
<1>2. PICK s \in {1, 2} : s = i.size  BY DEF Instr
<1>3. PICK P \in Nat \ {0} : P = PageSize  BY DEF StringsAssumed
<1>4. (P - r) \div s \in Nat /\ 1 + (r \div s) \in Nat
  <2>1. CASE s = 1  BY <1>3, <2>1
  <2>2. CASE s = 2  BY <1>3, <2>2
  <2> QED  BY <2>1, <2>2
<1>5. RoomOf(i, a) = IF i.dir > 0 THEN (P - r) \div s ELSE 1 + (r \div s)
  BY <1>1, <1>2, <1>3 DEF RoomOf
<1>6. i.dir > 0 \/ ~(i.dir > 0)  OBVIOUS
<1> QED  BY <1>4, <1>5

-----------------------------------------------------------------------------
(* An aligned chunk with room in its pages is its elements one by one.      *)
Begins(i, D, mem, c, d, a, p) ==
  /\ i \in Instr /\ D \in 0 .. MaxCount
  /\ mem = ReferenceOf(i)[D]
  /\ i.kind \in Str!Reads => c = AheadOf(i, i.si, D) /\ Str!Physical(c) % i.size = 0
  /\ i.kind \in Str!AtDi => d = AheadOf(i, i.di, D) /\ Str!Physical(d) % i.size = 0
  /\ i.kind # "LODS" => a = Str!Accumulator
  /\ i.kind = "INS" => p = D
HasRoom(i, c, d, n) ==
  /\ i.kind \in Str!Reads => n <= RoomOf(i, c)
  /\ i.kind \in Str!AtDi => n <= RoomOf(i, d)

(* The element k of a chunk is the element D + k of the instruction.        *)
LEMMA ElementOfChunk ==
  ASSUME StringsAssumed, NEW i \in Instr, NEW D \in Nat, NEW o \in Str!Addr, NEW c,
         c = AheadOf(i, o, D), Str!Physical(c) % i.size = 0,
         NEW k \in Nat, k < RoomOf(i, c), NEW m \in Contents
  PROVE  /\ ElementOf(i, m, AheadOf(i, o, D + k)) = InChunkOf(i, m, WalkOf(i, c, k))
         /\ \A v : PutOf(i, m, AheadOf(i, o, D + k), v) = PutChunkOf(i, m, WalkOf(i, c, k), v)
<1>1. D \in Int /\ k \in Int  OBVIOUS
<1>2. c \in Str!Addr  BY <1>1, AheadIn
<1>3. AheadOf(i, o, D + k) = AheadOf(i, c, k)  BY <1>1, AheadTwice
<1>4. /\ InChunkAt(i, c, k) /\ AheadOf(i, c, k) = c + k * i.dir * i.size
      /\ Str!Physical(c + k * i.dir * i.size) = WalkOf(i, c, k)
  BY <1>2, ChunkPlace
<1> DEFINE b == c + k * i.dir * i.size
<1>5. PICK q, r : At(b, q, r) /\ r + (i.size - 1) <= PageSize - 1
  BY <1>4 DEF InChunkAt
<1>6. /\ ElementOf(i, m, b) = InChunkOf(i, m, Str!Physical(b))
      /\ \A v : PutOf(i, m, b, v) = PutChunkOf(i, m, Str!Physical(b), v)
  <2> HIDE DEF b
  <2>1. \A v : /\ ElementOf(i, m, b) = InChunkOf(i, m, Str!Physical(b))
               /\ PutOf(i, m, b, v) = PutChunkOf(i, m, Str!Physical(b), v)
    BY <1>5, ChunkElement
  <2> QED  BY <2>1
<1> HIDE DEF b
<1>7. AheadOf(i, c, k) = b /\ Str!Physical(b) = WalkOf(i, c, k)  BY <1>4 DEF b
<1> QED  BY <1>3, <1>6, <1>7, Zenon

LEMMA StepOfChunk ==
  ASSUME StringsAssumed, NEW i, NEW D, NEW mem, NEW c, NEW d, NEW a, NEW p,
         Begins(i, D, mem, c, d, a, p), NEW k \in Nat \ {0}, HasRoom(i, c, d, k),
         NEW m \in Contents
  PROVE  ChunkStep(i, c, d, a, p, k, m) = MemStep(i, D + k, m)
<1>1. i \in Instr /\ D \in Nat /\ (D + k) - 1 = D + (k - 1) /\ k - 1 \in Nat
      /\ i.si \in Str!Addr /\ i.di \in Str!Addr
  BY DEF Begins, Instr
<1>2. CASE i.kind = "MOVS"
  <2>1. c = AheadOf(i, i.si, D) /\ Str!Physical(c) % i.size = 0 /\ k <= RoomOf(i, c)
    BY <1>2 DEF Begins, HasRoom, Str!Reads
  <2>2. d = AheadOf(i, i.di, D) /\ Str!Physical(d) % i.size = 0 /\ k <= RoomOf(i, d)
    BY <1>2 DEF Begins, HasRoom, Str!AtDi
  <2>3. k - 1 < RoomOf(i, c) /\ k - 1 < RoomOf(i, d)
    <3>1. RoomOf(i, c) \in Int /\ RoomOf(i, d) \in Int  BY <1>1, <2>1, <2>2, RoomIn
    <3> QED  BY <2>1, <2>2, <3>1
  <2> DEFINE v == InChunkOf(i, m, WalkOf(i, c, k - 1))
  <2>4. ElementOf(i, m, AheadOf(i, i.si, D + (k - 1))) = v
    BY <1>1, <2>1, <2>3, ElementOfChunk
  <2>5. PutOf(i, m, AheadOf(i, i.di, D + (k - 1)), v) = PutChunkOf(i, m, WalkOf(i, d, k - 1), v)
    BY <1>1, <2>2, <2>3, ElementOfChunk
  <2>6. MemStep(i, D + k, m) = PutOf(i, m, AheadOf(i, i.di, (D + k) - 1), ElementOf(i, m, AheadOf(i, i.si, (D + k) - 1)))
    BY <1>2 DEF MemStep
  <2>7. ChunkStep(i, c, d, a, p, k, m) = PutChunkOf(i, m, WalkOf(i, d, k - 1), v)
    BY <1>2 DEF ChunkStep
  <2> QED  BY <1>1, <2>4, <2>5, <2>6, <2>7, Zenon
<1>3. CASE i.kind \in {"STOS", "INS"}
  <2>1. d = AheadOf(i, i.di, D) /\ Str!Physical(d) % i.size = 0 /\ k <= RoomOf(i, d)
    BY <1>3 DEF Begins, HasRoom, Str!AtDi
  <2>2. k - 1 < RoomOf(i, d)
    <3>1. RoomOf(i, d) \in Int  BY <1>1, <2>1, RoomIn
    <3> QED  BY <2>1, <3>1
  <2>3. \A v : PutOf(i, m, AheadOf(i, i.di, D + (k - 1)), v) = PutChunkOf(i, m, WalkOf(i, d, k - 1), v)
    BY <1>1, <2>1, <2>2, ElementOfChunk
  <2>4. CASE i.kind = "STOS"
    <3>1. MemStep(i, D + k, m) = PutOf(i, m, AheadOf(i, i.di, (D + k) - 1), Str!Accumulator)
      BY <2>4 DEF MemStep
    <3>2. ChunkStep(i, c, d, a, p, k, m) = PutChunkOf(i, m, WalkOf(i, d, k - 1), a)
      BY <2>4 DEF ChunkStep
    <3>3. a = Str!Accumulator  BY <2>4 DEF Begins
    <3> QED  BY <1>1, <2>3, <3>1, <3>2, <3>3, Zenon
  <2>5. CASE i.kind = "INS"
    <3>1. MemStep(i, D + k, m) = PutOf(i, m, AheadOf(i, i.di, (D + k) - 1), Str!FromPort((D + k) - 1))
      BY <2>5 DEF MemStep
    <3>2. ChunkStep(i, c, d, a, p, k, m) = PutChunkOf(i, m, WalkOf(i, d, k - 1), Str!FromPort(p + k - 1))
      BY <2>5 DEF ChunkStep
    <3>3. p = D  BY <2>5 DEF Begins
    <3> QED  BY <1>1, <2>3, <3>1, <3>2, <3>3, Zenon
  <2> QED  BY <1>3, <2>4, <2>5
<1>4. CASE i.kind \notin {"MOVS", "STOS", "INS"}
  <2>1. MemStep(i, D + k, m) = m  BY <1>4 DEF MemStep
  <2>2. ChunkStep(i, c, d, a, p, k, m) = m  BY <1>4 DEF ChunkStep
  <2> QED  BY <2>1, <2>2
<1> QED  BY <1>2, <1>3, <1>4

LEMMA ChunkedRight ==
  ASSUME StringsAssumed, NEW i, NEW D, NEW mem, NEW c, NEW d, NEW a, NEW p,
         Begins(i, D, mem, c, d, a, p), NEW n \in Nat, D + n <= MaxCount, HasRoom(i, c, d, n)
  PROVE  ChunkedOf(i, mem, c, d, a, p, n) = ReferenceOf(i)[D + n]
<1> DEFINE R(m) == [k \in 0 .. n |-> IF k = 0 THEN mem ELSE ChunkStep(i, c, d, a, p, k, m[k - 1])]
           g == CHOOSE m : m = R(m)
           Ref == ReferenceOf(i)
<1>1. i \in Instr /\ D \in Nat /\ MaxCount \in Nat /\ mem = Ref[D]
  BY DEF Begins, StringsAssumed
<1>2. /\ \A k \in 0 .. MaxCount : Ref[k] \in Contents
      /\ \A k \in 1 .. MaxCount : Ref[k] = MemStep(i, k, Ref[k - 1])
  BY <1>1, ReferenceSteps
<1>3. ChunkedOf(i, mem, c, d, a, p, n) = g[n]  BY DEF ChunkedOf
<1> HIDE DEF Ref
<1>4. \A k \in 1 .. n : Ref[D + k] = ChunkStep(i, c, d, a, p, k, Ref[D + (k - 1)])
  <2> TAKE k \in 1 .. n
  <2>1. k \in Nat \ {0} /\ D + k \in 1 .. MaxCount /\ (D + k) - 1 = D + (k - 1)
        /\ D + (k - 1) \in 0 .. MaxCount
    BY <1>1
  <2>2. HasRoom(i, c, d, k)
    <3>1. ASSUME i.kind \in Str!Reads PROVE k <= RoomOf(i, c)
      <4>1. i.si \in Str!Addr /\ c = AheadOf(i, i.si, D) /\ D \in Int
        BY <1>1, <3>1 DEF Begins, Instr
      <4>2. RoomOf(i, c) \in Int  BY <1>1, <4>1, RoomIn
      <4> QED  BY <3>1, <4>2 DEF HasRoom
    <3>2. ASSUME i.kind \in Str!AtDi PROVE k <= RoomOf(i, d)
      <4>1. i.di \in Str!Addr /\ d = AheadOf(i, i.di, D) /\ D \in Int
        BY <1>1, <3>2 DEF Begins, Instr
      <4>2. RoomOf(i, d) \in Int  BY <1>1, <4>1, RoomIn
      <4> QED  BY <3>2, <4>2 DEF HasRoom
    <3> QED  BY <3>1, <3>2 DEF HasRoom
  <2>3. ChunkStep(i, c, d, a, p, k, Ref[D + (k - 1)]) = MemStep(i, D + k, Ref[D + (k - 1)])
    BY <1>2, <2>1, <2>2, StepOfChunk
  <2>4. Ref[D + k] = MemStep(i, D + k, Ref[(D + k) - 1])  BY <1>2, <2>1
  <2> QED  BY <2>1, <2>3, <2>4, Zenon
<1>5. \E m : m = R(m)
  <2> DEFINE f == [k \in 0 .. n |-> Ref[D + k]]
  <2>1. \A k \in 0 .. n : f[k] = IF k = 0 THEN mem ELSE ChunkStep(i, c, d, a, p, k, f[k - 1])
    <3> TAKE k \in 0 .. n
    <3>1. CASE k = 0  BY <1>1, <3>1
    <3>2. CASE k # 0
      <4>1. k \in 1 .. n /\ k - 1 \in 0 .. n  BY <3>2
      <4>2. f[k] = Ref[D + k] /\ f[k - 1] = Ref[D + (k - 1)]  BY <4>1
      <4> QED  BY <1>4, <3>2, <4>1, <4>2, Zenon
    <3> QED  BY <3>1, <3>2
  <2>2. f = [k \in 0 .. n |-> f[k]]  OBVIOUS
  <2> HIDE DEF f
  <2>3. f = R(f)  BY <2>1, <2>2
  <2> QED  BY <2>3
<1>6. g = R(g)
  <2> HIDE DEF R
  <2> QED  BY <1>5
<1> HIDE DEF g
<1>7. g[0] = mem /\ \A k \in 1 .. n : g[k] = ChunkStep(i, c, d, a, p, k, g[k - 1])
  <2>1. 0 \in 0 .. n /\ \A k \in 1 .. n : k \in 0 .. n /\ k # 0  OBVIOUS
  <2>2. \A k \in 0 .. n : g[k] = IF k = 0 THEN mem ELSE ChunkStep(i, c, d, a, p, k, g[k - 1])
    BY <1>6, Zenon
  <2> QED  BY <2>1, <2>2, Zenon
<1>8. g[n] = Ref[D + n]
  <2> DEFINE S == {k \in Nat : k <= n => g[k] = Ref[D + k]}
  <2>1. 0 \in S  BY <1>1, <1>7
  <2>2. ASSUME NEW k \in Nat, k \in S PROVE k + 1 \in S
    <3> SUFFICES ASSUME k + 1 <= n PROVE g[k + 1] = Ref[D + (k + 1)]
      OBVIOUS
    <3>1. k + 1 \in 1 .. n /\ (k + 1) - 1 = k /\ k <= n  OBVIOUS
    <3>2. g[k] = Ref[D + k]  BY <2>2, <3>1
    <3> QED  BY <1>4, <1>7, <3>1, <3>2, Zenon
  <2> HIDE DEF S
  <2>3. Nat \subseteq S  BY <2>1, <2>2, Successors
  <2> QED  BY <2>3 DEF S
<1> QED  BY <1>3, <1>8 DEF Ref

-----------------------------------------------------------------------------
(* Where an instruction stands after D elements.                            *)
Listed(i, D) == [k \in 1 .. D |-> ElementOf(i, Str!InitialMemory, AheadOf(i, i.si, k - 1))]
Loaded(i, D) ==
  IF i.kind = "LODS" /\ D > 0
  THEN ElementOf(i, Str!InitialMemory, AheadOf(i, i.si, D - 1)) ELSE Str!Accumulator
Stands(i, D, mem, c, d, a, p, o) ==
  /\ mem = ReferenceOf(i)[D]
  /\ c = (IF i.kind \in Str!Reads THEN AheadOf(i, i.si, D) ELSE i.si)
  /\ d = (IF i.kind \in Str!AtDi THEN AheadOf(i, i.di, D) ELSE i.di)
  /\ a = Loaded(i, D)
  /\ p = (IF i.kind = "INS" THEN D ELSE 0)
  /\ o = (IF i.kind = "OUTS" THEN Listed(i, D) ELSE <<>>)

(* What the port has been given and what follows it. *)
LEMMA Followed ==
  ASSUME NEW e, NEW n \in Nat, NEW m \in Nat, NEW t, t = [k \in 1 .. m |-> e[n + k]]
  PROVE  /\ [k \in 1 .. n |-> e[k]] \o t = [k \in 1 .. n + m |-> e[k]]
         /\ Append([k \in 1 .. n |-> e[k]], e[n + 1]) = [k \in 1 .. n + 1 |-> e[k]]
<1> DEFINE S == {e[k] : k \in 1 .. n + m + 1}
           s == [k \in 1 .. n |-> e[k]]
           u == [k \in 1 .. n + m |-> e[k]]
           w == [k \in 1 .. n + 1 |-> e[k]]
<1>1. \A k \in 1 .. n + m + 1 : e[k] \in S  OBVIOUS
<1> HIDE DEF S
<1>2. s \in Seq(S) /\ Len(s) = n
  <2>1. \A k \in 1 .. n : e[k] \in S  BY <1>1
  <2> QED  BY <2>1
<1>3. t \in Seq(S) /\ Len(t) = m /\ \A k \in 1 .. m : t[k] = e[n + k]
  <2>1. \A k \in 1 .. m : e[n + k] \in S  BY <1>1
  <2> QED  BY <2>1
<1>4. u \in Seq(S) /\ Len(u) = n + m /\ \A k \in 1 .. n + m : u[k] = e[k]
  <2>1. \A k \in 1 .. n + m : e[k] \in S  BY <1>1
  <2>2. n + m \in Nat  OBVIOUS
  <2> QED  BY <2>1, <2>2
<1>5. w \in Seq(S) /\ Len(w) = n + 1 /\ \A k \in 1 .. n + 1 : w[k] = e[k]
  <2>1. \A k \in 1 .. n + 1 : e[k] \in S  BY <1>1
  <2>2. n + 1 \in Nat  OBVIOUS
  <2> QED  BY <2>1, <2>2
<1>6. \A k \in 1 .. n : s[k] = e[k]  OBVIOUS
<1>7. e[n + 1] \in S  BY <1>1
<1> HIDE DEF s, u, w
<1>8. /\ s \o t \in Seq(S) /\ Len(s \o t) = n + m
      /\ \A i \in 1 .. n + m : (s \o t)[i] = IF i <= n THEN s[i] ELSE t[i - n]
  <2>0. s \in Seq(S) /\ t \in Seq(S)  BY <1>2, <1>3
  <2>1. /\ s \o t \in Seq(S) /\ Len(s \o t) = Len(s) + Len(t)
        /\ \A i \in 1 .. Len(s) + Len(t) : (s \o t)[i] = IF i <= Len(s) THEN s[i] ELSE t[i - Len(s)]
    BY <2>0, ConcatProperties
  <2> QED  BY <1>2, <1>3, <2>1
<1>9. \A i \in 1 .. n + m : (s \o t)[i] = u[i]
  <2> TAKE i \in 1 .. n + m
  <2>1. CASE i <= n  BY <1>4, <1>6, <1>8, <2>1
  <2>2. CASE ~(i <= n)
    <3>1. i - n \in 1 .. m /\ n + (i - n) = i  BY <2>2
    <3>2. t[i - n] = e[i]  BY <1>3, <3>1
    <3> QED  BY <1>4, <1>8, <2>2, <3>2
  <2> QED  BY <2>1, <2>2
<1>10. s \o t = u
  <2>1. Len(s \o t) = Len(u) /\ \A i \in 1 .. Len(s \o t) : (s \o t)[i] = u[i]
    BY <1>4, <1>8, <1>9
  <2> QED  BY <1>4, <1>8, <2>1, SeqEqual
<1>11. /\ Append(s, e[n + 1]) \in Seq(S) /\ Len(Append(s, e[n + 1])) = n + 1
       /\ \A i \in 1 .. n : Append(s, e[n + 1])[i] = s[i]
       /\ Append(s, e[n + 1])[n + 1] = e[n + 1]
  <2>1. /\ Append(s, e[n + 1]) \in Seq(S) /\ Len(Append(s, e[n + 1])) = Len(s) + 1
        /\ \A i \in 1 .. Len(s) : Append(s, e[n + 1])[i] = s[i]
        /\ Append(s, e[n + 1])[Len(s) + 1] = e[n + 1]
    BY <1>2, <1>7, AppendProperties
  <2> QED  BY <1>2, <2>1
<1>12. \A i \in 1 .. n + 1 : Append(s, e[n + 1])[i] = w[i]
  <2> TAKE i \in 1 .. n + 1
  <2>1. CASE i <= n  BY <1>5, <1>6, <1>11, <2>1
  <2>2. CASE i = n + 1  BY <1>5, <1>11, <2>2
  <2>3. i <= n \/ i = n + 1  OBVIOUS
  <2> QED  BY <2>1, <2>2, <2>3, Zenon
<1>13. Append(s, e[n + 1]) = w
  <2>1. Len(Append(s, e[n + 1])) = Len(w)
        /\ \A i \in 1 .. Len(Append(s, e[n + 1])) : Append(s, e[n + 1])[i] = w[i]
    BY <1>5, <1>11, <1>12
  <2> QED  BY <1>5, <1>11, <2>1, SeqEqual
<1> QED  BY <1>10, <1>13 DEF s, u, w

LEMMA ListedOn ==
  ASSUME NEW i, NEW n \in Nat, NEW m \in Nat
  PROVE  /\ Listed(i, n) \o [k \in 1 .. m |->
                ElementOf(i, Str!InitialMemory, AheadOf(i, i.si, (n + k) - 1))] = Listed(i, n + m)
         /\ Append(Listed(i, n), ElementOf(i, Str!InitialMemory, AheadOf(i, i.si, n)))
              = Listed(i, n + 1)
         /\ Listed(i, 0) = <<>>
<1> DEFINE x(k) == ElementOf(i, Str!InitialMemory, AheadOf(i, i.si, k - 1))
           e == [k \in Nat |-> x(k)]
<1> PICK t : t = [k \in 1 .. m |-> e[n + k]]  OBVIOUS
<1>1. [k \in 1 .. m |-> x(n + k)] = t
  <2>1. \A k \in 1 .. m : n + k \in Nat  OBVIOUS
  <2> HIDE DEF x
  <2> QED  BY <2>1
<1>2. Listed(i, n) = [k \in 1 .. n |-> e[k]]
  <2>1. Listed(i, n) = [k \in 1 .. n |-> x(k)]  BY DEF Listed
  <2>2. \A k \in 1 .. n : k \in Nat  OBVIOUS
  <2> HIDE DEF x
  <2> QED  BY <2>1, <2>2
<1>3. Listed(i, n + m) = [k \in 1 .. n + m |-> e[k]]
  <2>1. Listed(i, n + m) = [k \in 1 .. n + m |-> x(k)]  BY DEF Listed
  <2>2. \A k \in 1 .. n + m : k \in Nat  OBVIOUS
  <2> HIDE DEF x
  <2> QED  BY <2>1, <2>2
<1>4. Listed(i, n + 1) = [k \in 1 .. n + 1 |-> e[k]]
  <2>1. Listed(i, n + 1) = [k \in 1 .. n + 1 |-> x(k)]  BY DEF Listed
  <2>2. \A k \in 1 .. n + 1 : k \in Nat  OBVIOUS
  <2> HIDE DEF x
  <2> QED  BY <2>1, <2>2
<1>5. e[n + 1] = ElementOf(i, Str!InitialMemory, AheadOf(i, i.si, n))
  <2>1. n + 1 \in Nat /\ (n + 1) - 1 = n  OBVIOUS
  <2>2. e[n + 1] = x(n + 1)  BY <2>1
  <2> QED  BY <2>1, <2>2
<1>6. Listed(i, 0) = <<>>
  <2>1. Listed(i, 0) = [k \in 1 .. 0 |-> x(k)]  BY DEF Listed
  <2> HIDE DEF x
  <2> QED  BY <2>1
<1> HIDE DEF e
<1>7. /\ [k \in 1 .. n |-> e[k]] \o t = [k \in 1 .. n + m |-> e[k]]
      /\ Append([k \in 1 .. n |-> e[k]], e[n + 1]) = [k \in 1 .. n + 1 |-> e[k]]
  BY Followed
<1> QED  BY <1>1, <1>2, <1>3, <1>4, <1>5, <1>6, <1>7

(* Only moves change memory.                                                *)
LEMMA StillInitial ==
  ASSUME StringsAssumed, NEW i \in Instr, i.kind \notin {"MOVS", "STOS", "INS"},
         NEW D \in 0 .. MaxCount
  PROVE  ReferenceOf(i)[D] = Str!InitialMemory
<1> DEFINE g == ReferenceOf(i)
           S == {k \in Nat : k <= MaxCount => g[k] = Str!InitialMemory}
<1>1. /\ g[0] = Str!InitialMemory
      /\ \A k \in 1 .. MaxCount : g[k] = MemStep(i, k, g[k - 1])
  BY ReferenceSteps
<1>2. \A k, m : MemStep(i, k, m) = m  BY DEF MemStep
<1> HIDE DEF g
<1>3. 0 \in S  BY <1>1
<1>4. ASSUME NEW k \in Nat, k \in S PROVE k + 1 \in S
  <2> SUFFICES ASSUME k + 1 <= MaxCount PROVE g[k + 1] = Str!InitialMemory
    OBVIOUS
  <2>1. k + 1 \in 1 .. MaxCount /\ (k + 1) - 1 = k /\ k <= MaxCount  BY DEF StringsAssumed
  <2>2. g[k + 1] = MemStep(i, k + 1, g[k])  BY <1>1, <2>1
  <2> QED  BY <1>2, <1>4, <2>1, <2>2
<1> HIDE DEF S
<1>5. Nat \subseteq S  BY <1>3, <1>4, Successors
<1>6. D \in Nat /\ D <= MaxCount  BY DEF StringsAssumed
<1> QED  BY <1>5, <1>6 DEF S, g

LEMMA StandsAtFirst ==
  ASSUME StringsAssumed, NEW i \in Instr
  PROVE  Stands(i, 0, Str!InitialMemory, i.si, i.di, Str!Accumulator, 0, <<>>)
<1>1. i.si \in Str!Addr /\ i.di \in Str!Addr /\ 0 \in Int  BY DEF Instr
<1>2. AheadOf(i, i.si, 0) = i.si /\ AheadOf(i, i.di, 0) = i.di  BY <1>1, AheadIn
<1>3. ReferenceOf(i)[0] = Str!InitialMemory  BY ReferenceSteps
<1>4. Listed(i, 0) = <<>>
  <2>1. 0 \in Nat  OBVIOUS
  <2> QED  BY <2>1, ListedOn
<1>5. Loaded(i, 0) = Str!Accumulator  BY DEF Loaded
<1> QED  BY <1>2, <1>3, <1>4, <1>5, Zenon DEF Stands

(* The element that comes next. *)
LEMMA NextElement ==
  ASSUME StringsAssumed, NEW i \in Instr, NEW D \in Nat, D + 1 <= MaxCount,
         NEW mem, NEW c, NEW d, NEW a, NEW p, NEW o, Stands(i, D, mem, c, d, a, p, o)
  PROVE  Stands(i, D + 1,
           CASE i.kind = "MOVS" -> PutOf(i, mem, d, ElementOf(i, mem, c))
             [] i.kind = "STOS" -> PutOf(i, mem, d, a)
             [] i.kind = "INS" -> PutOf(i, mem, d, Str!FromPort(p))
             [] OTHER -> mem,
           IF i.kind \in Str!Reads THEN AheadOf(i, c, 1) ELSE c,
           IF i.kind \in Str!AtDi THEN AheadOf(i, d, 1) ELSE d,
           IF i.kind = "LODS" THEN ElementOf(i, mem, c) ELSE a,
           IF i.kind = "INS" THEN p + 1 ELSE p,
           IF i.kind = "OUTS" THEN Append(o, ElementOf(i, mem, c)) ELSE o)
<1> DEFINE mem2 == CASE i.kind = "MOVS" -> PutOf(i, mem, d, ElementOf(i, mem, c))
             [] i.kind = "STOS" -> PutOf(i, mem, d, a)
             [] i.kind = "INS" -> PutOf(i, mem, d, Str!FromPort(p))
             [] OTHER -> mem
           c2 == IF i.kind \in Str!Reads THEN AheadOf(i, c, 1) ELSE c
           d2 == IF i.kind \in Str!AtDi THEN AheadOf(i, d, 1) ELSE d
           a2 == IF i.kind = "LODS" THEN ElementOf(i, mem, c) ELSE a
           p2 == IF i.kind = "INS" THEN p + 1 ELSE p
           o2 == IF i.kind = "OUTS" THEN Append(o, ElementOf(i, mem, c)) ELSE o
<1>1. /\ i.si \in Str!Addr /\ i.di \in Str!Addr /\ D \in 0 .. MaxCount /\ MaxCount \in Nat
      /\ D + 1 \in 1 .. MaxCount /\ D + 1 \in Nat /\ (D + 1) - 1 = D
  BY DEF Instr, StringsAssumed
<1>2. /\ mem = ReferenceOf(i)[D]
      /\ c = (IF i.kind \in Str!Reads THEN AheadOf(i, i.si, D) ELSE i.si)
      /\ d = (IF i.kind \in Str!AtDi THEN AheadOf(i, i.di, D) ELSE i.di)
      /\ a = Loaded(i, D)
      /\ p = (IF i.kind = "INS" THEN D ELSE 0)
      /\ o = (IF i.kind = "OUTS" THEN Listed(i, D) ELSE <<>>)
  BY DEF Stands
<1>3. mem2 = ReferenceOf(i)[D + 1]
  <2>1. ReferenceOf(i)[D + 1] = MemStep(i, D + 1, mem)  BY <1>1, <1>2, ReferenceSteps
  <2>2. CASE i.kind = "MOVS"
    <3>1. c = AheadOf(i, i.si, D) /\ d = AheadOf(i, i.di, D)
      BY <1>2, <2>2 DEF Str!Reads, Str!AtDi
    <3>2. MemStep(i, D + 1, mem) = PutOf(i, mem, AheadOf(i, i.di, (D + 1) - 1),
                                     ElementOf(i, mem, AheadOf(i, i.si, (D + 1) - 1)))
      BY <2>2 DEF MemStep
    <3>3. mem2 = PutOf(i, mem, d, ElementOf(i, mem, c))  BY <2>2
    <3> QED  BY <1>1, <2>1, <3>1, <3>2, <3>3, Zenon
  <2>3. CASE i.kind = "STOS"
    <3>1. d = AheadOf(i, i.di, D) /\ a = Str!Accumulator
      BY <1>2, <2>3 DEF Str!AtDi, Loaded
    <3>2. MemStep(i, D + 1, mem) = PutOf(i, mem, AheadOf(i, i.di, (D + 1) - 1), Str!Accumulator)
      BY <2>3 DEF MemStep
    <3>3. mem2 = PutOf(i, mem, d, a)  BY <2>3
    <3> QED  BY <1>1, <2>1, <3>1, <3>2, <3>3, Zenon
  <2>4. CASE i.kind = "INS"
    <3>1. d = AheadOf(i, i.di, D) /\ p = D
      BY <1>2, <2>4 DEF Str!AtDi
    <3>2. MemStep(i, D + 1, mem) = PutOf(i, mem, AheadOf(i, i.di, (D + 1) - 1), Str!FromPort((D + 1) - 1))
      BY <2>4 DEF MemStep
    <3>3. mem2 = PutOf(i, mem, d, Str!FromPort(p))  BY <2>4
    <3> QED  BY <1>1, <2>1, <3>1, <3>2, <3>3, Zenon
  <2>5. CASE i.kind \notin {"MOVS", "STOS", "INS"}
    <3>1. MemStep(i, D + 1, mem) = mem  BY <2>5 DEF MemStep
    <3>2. mem2 = mem  BY <2>5
    <3> QED  BY <2>1, <3>1, <3>2
  <2> QED  BY <2>2, <2>3, <2>4, <2>5
<1>4. c2 = (IF i.kind \in Str!Reads THEN AheadOf(i, i.si, D + 1) ELSE i.si)
  <2>1. D \in Int /\ 1 \in Int  BY <1>1
  <2>2. AheadOf(i, AheadOf(i, i.si, D), 1) = AheadOf(i, i.si, D + 1)  BY <1>1, <2>1, AheadTwice
  <2> QED  BY <1>2, <2>2
<1>5. d2 = (IF i.kind \in Str!AtDi THEN AheadOf(i, i.di, D + 1) ELSE i.di)
  <2>1. D \in Int /\ 1 \in Int  BY <1>1
  <2>2. AheadOf(i, AheadOf(i, i.di, D), 1) = AheadOf(i, i.di, D + 1)  BY <1>1, <2>1, AheadTwice
  <2> QED  BY <1>2, <2>2
<1>6. i.kind \in {"LODS", "OUTS"} => mem = Str!InitialMemory /\ c = AheadOf(i, i.si, D)
  BY <1>1, <1>2, StillInitial DEF Str!Reads
<1>7. a2 = Loaded(i, D + 1)
  <2>1. CASE i.kind = "LODS"
    <3>1. Loaded(i, D + 1) = ElementOf(i, Str!InitialMemory, AheadOf(i, i.si, (D + 1) - 1))
      BY <1>1, <2>1 DEF Loaded
    <3> QED  BY <1>1, <1>6, <2>1, <3>1
  <2>2. CASE i.kind # "LODS"
    BY <1>2, <2>2 DEF Loaded
  <2> QED  BY <2>1, <2>2
<1>8. p2 = (IF i.kind = "INS" THEN D + 1 ELSE 0)  BY <1>2
<1>9. o2 = (IF i.kind = "OUTS" THEN Listed(i, D + 1) ELSE <<>>)
  <2>1. Append(Listed(i, D), ElementOf(i, Str!InitialMemory, AheadOf(i, i.si, D))) = Listed(i, D + 1)
    BY ListedOn
  <2>2. CASE i.kind = "OUTS"  BY <1>2, <1>6, <2>1, <2>2
  <2>3. CASE i.kind # "OUTS"  BY <1>2, <2>3
  <2> QED  BY <2>2, <2>3
<1> HIDE DEF mem2, c2, d2, a2, p2, o2
<1>10. Stands(i, D + 1, mem2, c2, d2, a2, p2, o2)
  BY <1>3, <1>4, <1>5, <1>7, <1>8, <1>9, Zenon DEF Stands
<1> QED  BY <1>10 DEF mem2, c2, d2, a2, p2, o2

(* A chunk of elements, aligned and with room in its pages.                 *)
LEMMA NextChunk ==
  ASSUME StringsAssumed, NEW i \in Instr, i.kind # "LODS", NEW D \in Nat, NEW n \in Nat,
         D + n <= MaxCount,
         NEW mem, NEW c, NEW d, NEW a, NEW p, NEW o, Stands(i, D, mem, c, d, a, p, o),
         HasRoom(i, c, d, n),
         i.kind \in Str!Reads => Str!Physical(c) % i.size = 0,
         i.kind \in Str!AtDi => Str!Physical(d) % i.size = 0
  PROVE  Stands(i, D + n,
           ChunkedOf(i, mem, c, d, a, p, n),
           IF i.kind \in Str!Reads THEN AheadOf(i, c, n) ELSE c,
           IF i.kind \in Str!AtDi THEN AheadOf(i, d, n) ELSE d,
           a,
           IF i.kind = "INS" THEN p + n ELSE p,
           IF i.kind = "OUTS"
           THEN o \o [k \in 1 .. n |-> InChunkOf(i, mem, WalkOf(i, c, k - 1))] ELSE o)
<1> DEFINE mem2 == ChunkedOf(i, mem, c, d, a, p, n)
           c2 == IF i.kind \in Str!Reads THEN AheadOf(i, c, n) ELSE c
           d2 == IF i.kind \in Str!AtDi THEN AheadOf(i, d, n) ELSE d
           p2 == IF i.kind = "INS" THEN p + n ELSE p
           sent == [k \in 1 .. n |-> InChunkOf(i, mem, WalkOf(i, c, k - 1))]
           o2 == IF i.kind = "OUTS" THEN o \o sent ELSE o
<1>1. /\ i.si \in Str!Addr /\ i.di \in Str!Addr /\ D \in 0 .. MaxCount /\ MaxCount \in Nat
      /\ D \in Int /\ n \in Int
  BY DEF Instr, StringsAssumed
<1>2. /\ mem = ReferenceOf(i)[D]
      /\ c = (IF i.kind \in Str!Reads THEN AheadOf(i, i.si, D) ELSE i.si)
      /\ d = (IF i.kind \in Str!AtDi THEN AheadOf(i, i.di, D) ELSE i.di)
      /\ a = Loaded(i, D)
      /\ p = (IF i.kind = "INS" THEN D ELSE 0)
      /\ o = (IF i.kind = "OUTS" THEN Listed(i, D) ELSE <<>>)
  BY DEF Stands
<1>3. a = Str!Accumulator  BY <1>2 DEF Loaded
<1>4. mem2 = ReferenceOf(i)[D + n]
  <2>1. Begins(i, D, mem, c, d, a, p)  BY <1>1, <1>2, <1>3 DEF Begins
  <2> QED  BY <2>1, ChunkedRight
<1>5. c2 = (IF i.kind \in Str!Reads THEN AheadOf(i, i.si, D + n) ELSE i.si)
  <2>1. AheadOf(i, AheadOf(i, i.si, D), n) = AheadOf(i, i.si, D + n)  BY <1>1, AheadTwice
  <2> QED  BY <1>2, <2>1
<1>6. d2 = (IF i.kind \in Str!AtDi THEN AheadOf(i, i.di, D + n) ELSE i.di)
  <2>1. AheadOf(i, AheadOf(i, i.di, D), n) = AheadOf(i, i.di, D + n)  BY <1>1, AheadTwice
  <2> QED  BY <1>2, <2>1
<1>7. a = Loaded(i, D + n)  BY <1>3 DEF Loaded
<1>8. p2 = (IF i.kind = "INS" THEN D + n ELSE 0)  BY <1>2
<1>9. o2 = (IF i.kind = "OUTS" THEN Listed(i, D + n) ELSE <<>>)
  <2>1. CASE i.kind = "OUTS"
    <3>1. c = AheadOf(i, i.si, D) /\ Str!Physical(c) % i.size = 0 /\ n <= RoomOf(i, c)
          /\ mem = Str!InitialMemory /\ mem \in Contents /\ o = Listed(i, D)
      <4>1. mem = Str!InitialMemory  BY <1>1, <1>2, <2>1, StillInitial
      <4> QED  BY <1>2, <2>1, <4>1, InitialIn DEF Str!Reads, HasRoom
    <3>2. \A k \in 1 .. n : InChunkOf(i, mem, WalkOf(i, c, k - 1))
                             = ElementOf(i, Str!InitialMemory, AheadOf(i, i.si, (D + k) - 1))
      <4> TAKE k \in 1 .. n
      <4>1. k - 1 \in Nat /\ D + (k - 1) = (D + k) - 1  BY <1>1
      <4>2. k - 1 < RoomOf(i, c)
        <5>1. RoomOf(i, c) \in Nat  BY <1>1, <3>1, RoomIn
        <5> QED  BY <3>1, <5>1
      <4>3. ElementOf(i, mem, AheadOf(i, i.si, D + (k - 1))) = InChunkOf(i, mem, WalkOf(i, c, k - 1))
        BY <1>1, <3>1, <4>1, <4>2, ElementOfChunk
      <4> QED  BY <3>1, <4>1, <4>3, Zenon
    <3>3. sent = [k \in 1 .. n |-> ElementOf(i, Str!InitialMemory, AheadOf(i, i.si, (D + k) - 1))]
      BY <3>2, Zenon
    <3>4. Listed(i, D) \o [k \in 1 .. n |-> ElementOf(i, Str!InitialMemory, AheadOf(i, i.si, (D + k) - 1))]
            = Listed(i, D + n)
      BY ListedOn
    <3> HIDE DEF sent
    <3> QED  BY <2>1, <3>1, <3>3, <3>4
  <2>2. CASE i.kind # "OUTS"  BY <1>2, <2>2
  <2> QED  BY <2>1, <2>2
<1> HIDE DEF mem2, c2, d2, p2, o2
<1>10. Stands(i, D + n, mem2, c2, d2, a, p2, o2)
  BY <1>4, <1>5, <1>6, <1>7, <1>8, <1>9, Zenon DEF Stands
<1> QED  BY <1>10 DEF mem2, c2, d2, p2, o2

-----------------------------------------------------------------------------
(* The least of a set of numbers. *)
LEMMA LeastOf ==
  ASSUME NEW T, T \subseteq Nat, T # {}
  PROVE  Str!MinOf(T) \in T /\ \A y \in T : Str!MinOf(T) <= y
<1> DEFINE R == OpToRel(<, Nat)
<1>1. IsWellFoundedOn(R, Nat)  BY NatLessThanWellFounded, Zenon
<1>2. \E x \in T : \A y \in T : ~(<<y, x>> \in R)
  <2> HIDE DEF R
  <2> QED  BY <1>1, WFMin, Zenon
<1>3. PICK x \in T : \A y \in T : ~(<<y, x>> \in R)  BY <1>2
<1>4. \A y \in T : x <= y
  <2> SUFFICES ASSUME NEW y \in T, y < x PROVE FALSE
    OBVIOUS
  <2>1. <<y, x>> \in R  BY DEF OpToRel
  <2> QED  BY <1>3, <2>1
<1> QED  BY <1>4 DEF Str!MinOf

-----------------------------------------------------------------------------
StringsSpec == Str!Init /\ [][Str!Next]_Str!strVars

(* Elements done, and whether a comparison stops at the element k.          *)
DoneOf(i, st, n) == IF i.rep # 0 THEN i.cx - n ELSE IF st = "done" THEN 1 ELSE 0
DiffersOf(i, m, k) ==
  (i.rep = 2) = IF i.kind = "CMPS"
                THEN ElementOf(i, m, AheadOf(i, i.si, k - 1)) = ElementOf(i, m, AheadOf(i, i.di, k - 1))
                ELSE ElementOf(i, m, AheadOf(i, i.di, k - 1)) = SubSeq(Str!Accumulator, 1, i.size)
Compared(i, D, m, st, n) ==
  i.kind \in Str!Compares /\ i.rep # 0 =>
    /\ \A k \in 1 .. D - 1 : ~DiffersOf(i, m, k)
    /\ D > 0 /\ st # "done" => ~DiffersOf(i, m, D)
    /\ st = "done" => n = 0 \/ DiffersOf(i, m, D)

(* Whatever the pieces, an instruction stands where its count says.         *)
Typed(i, st, n) ==
  /\ i \in Instr /\ n \in 0 .. i.cx /\ (i.rep = 0 => i.cx = 1 /\ n = 1)
  /\ st \in {"fast", "slow", "fault", "done"}
  /\ st = "fast" => i.rep # 0 /\ i.kind \notin Str!Compares \cup {"LODS"}
StringsInv ==
  /\ Typed(ins, stage, cx)
  /\ Stands(ins, DoneOf(ins, stage, cx), smem, si, di, ax, port, out)
  /\ Compared(ins, DoneOf(ins, stage, cx), smem, stage, cx)

LEMMA DoneIn ==
  ASSUME StringsAssumed, NEW i, NEW st, NEW n, Typed(i, st, n)
  PROVE  DoneOf(i, st, n) \in 0 .. MaxCount
<1>1. i.cx \in 0 .. MaxCount /\ MaxCount \in Nat  BY DEF Typed, Instr, StringsAssumed
<1>2. CASE i.rep = 0  BY <1>1, <1>2 DEF Typed, DoneOf
<1>3. CASE i.rep # 0  BY <1>1, <1>3 DEF Typed, DoneOf
<1> QED  BY <1>2, <1>3

LEMMA StringsExact == StringsInv => Str!MovesExact
<1> SUFFICES ASSUME StringsInv PROVE Str!InStep /\ Str!StopsAtFirst
  BY DEF Str!MovesExact
<1>1. Str!Done = DoneOf(ins, stage, cx)  BY DEF Str!Done, DoneOf
<1>2. Str!InStep
  <2>1. Stands(ins, Str!Done, smem, si, di, ax, port, out)  BY <1>1 DEF StringsInv
  <2> QED  BY <2>1, ReferenceIs
           DEF Stands, Str!InStep, Str!Ahead, AheadOf, Str!Element, ElementOf, Listed, Loaded
<1>3. Str!StopsAtFirst
  <2>1. Compared(ins, Str!Done, smem, stage, cx)  BY <1>1 DEF StringsInv
  <2> QED  BY <2>1
           DEF Compared, DiffersOf, Str!StopsAtFirst, Str!Ahead, AheadOf, Str!Element, ElementOf
<1> QED  BY <1>2, <1>3

LEMMA StringsStart == ASSUME StringsAssumed, Str!Init PROVE StringsInv
<1>1. PICK kind \in Str!Kinds, rep \in 0 .. 2, size \in {1, 2}, dir \in {1, -1},
           s \in Str!Addr, d \in Str!Addr, n \in 0 .. MaxCount :
        /\ kind \in {"INS", "OUTS"} => rep # 2
        /\ kind \notin Str!Compares => rep # 2
        /\ kind \notin Str!Reads => s = 0
        /\ kind \notin Str!AtDi => d = 0
        /\ rep = 0 => n = 1
        /\ ~Str!Straddles(s, size, dir, n) /\ ~Str!Straddles(d, size, dir, n)
        /\ ins = [kind |-> kind, rep |-> rep, size |-> size, dir |-> dir,
                  si |-> s, di |-> d, cx |-> n]
        /\ si = s /\ di = d /\ cx = n
  BY Zenon DEF Str!Init
<1>2. /\ smem = Str!InitialMemory /\ ax = Str!Accumulator /\ port = 0 /\ out = <<>>
      /\ stage = IF ins.rep = 0 \/ ins.kind \in Str!Compares \cup {"LODS"} THEN "slow" ELSE "fast"
  BY DEF Str!Init
<1>3. ins \in Instr /\ ins.cx = cx /\ ins.si = si /\ ins.di = di /\ ins.rep = rep /\ cx \in Nat
  BY <1>1 DEF Instr, StringsAssumed
<1>4. Typed(ins, stage, cx)  BY <1>1, <1>2, <1>3 DEF Typed
<1>5. DoneOf(ins, stage, cx) = 0  BY <1>2, <1>3 DEF DoneOf
<1>6. Stands(ins, 0, smem, si, di, ax, port, out)  BY <1>2, <1>3, StandsAtFirst
<1>7. Compared(ins, 0, smem, stage, cx)
  <2>1. stage # "done"  BY <1>2
  <2> QED  BY <2>1 DEF Compared
<1> QED  BY <1>4, <1>5, <1>6, <1>7 DEF StringsInv

(* Steps after which as much is done as before. *)
LEMMA SameStand ==
  ASSUME StringsAssumed, StringsInv,
         UNCHANGED <<ins, cx, si, di, ax, smem, port, out>>,
         Typed(ins, stage', cx), DoneOf(ins, stage', cx) = DoneOf(ins, stage, cx),
         stage = "done" => stage' = "done",
         stage # "done" /\ stage' = "done" => cx = 0
  PROVE  StringsInv'
<1> PICK D : D = DoneOf(ins, stage, cx)  OBVIOUS
<1>1. Typed(ins', stage', cx') /\ DoneOf(ins', stage', cx') = D  OBVIOUS
<1>2. Stands(ins', D, smem', si', di', ax', port', out')
  <2>1. Stands(ins, D, smem, si, di, ax, port, out)  BY DEF StringsInv
  <2> QED  BY <2>1
<1>3. Compared(ins', D, smem', stage', cx')
  <2>1. Compared(ins, D, smem, stage, cx)  BY DEF StringsInv
  <2>2. Compared(ins, D, smem, stage', cx)
    <3>1. CASE stage' = stage  BY <2>1, <3>1
    <3>2. CASE stage' # "done" /\ stage # "done"  BY <2>1, <3>2 DEF Compared
    <3>3. CASE stage' = "done" /\ stage # "done"  BY <2>1, <3>3 DEF Compared
    <3> QED  BY <3>1, <3>2, <3>3
  <2> QED  BY <2>2
<1> QED  BY <1>1, <1>2, <1>3 DEF StringsInv

LEMMA Pauses ==
  ASSUME StringsAssumed, StringsInv, Str!SlowPath \/ Str!Finish \/ Str!Handler
                            \/ (stage \in {"fast", "slow"} /\ Str!Fault)
  PROVE  StringsInv'
<1>1. Typed(ins, stage, cx)  BY DEF StringsInv
<1>2. CASE Str!SlowPath
  <2>1. UNCHANGED <<ins, cx, si, di, ax, smem, port, out>> /\ stage = "fast" /\ stage' = "slow"
    BY <1>2 DEF Str!SlowPath
  <2>2. Typed(ins, stage', cx)  BY <1>1, <2>1 DEF Typed
  <2>3. DoneOf(ins, stage', cx) = DoneOf(ins, stage, cx)  BY <2>1 DEF DoneOf
  <2> QED  BY <2>1, <2>2, <2>3, SameStand
<1>3. CASE Str!Finish
  <2>1. /\ UNCHANGED <<ins, cx, si, di, ax, smem, port, out>>
        /\ stage # "done" /\ stage' = "done" /\ ins.rep # 0 /\ cx = 0
    BY <1>3 DEF Str!Finish
  <2>2. Typed(ins, stage', cx)  BY <1>1, <2>1 DEF Typed
  <2>3. DoneOf(ins, stage', cx) = DoneOf(ins, stage, cx)  BY <2>1 DEF DoneOf
  <2> QED  BY <2>1, <2>2, <2>3, SameStand
<1>4. CASE Str!Handler
  <2>1. /\ UNCHANGED <<ins, cx, si, di, ax, smem, port, out>> /\ stage = "fault"
        /\ stage' = IF ins.rep = 0 \/ ins.kind \in Str!Compares \cup {"LODS"} THEN "slow" ELSE "fast"
    BY <1>4 DEF Str!Handler
  <2>2. Typed(ins, stage', cx)  BY <1>1, <2>1 DEF Typed
  <2>3. DoneOf(ins, stage', cx) = DoneOf(ins, stage, cx)  BY <2>1 DEF DoneOf
  <2>4. stage # "done" /\ stage' # "done"  BY <2>1
  <2> QED  BY <2>1, <2>2, <2>3, <2>4, SameStand
<1>5. CASE stage \in {"fast", "slow"} /\ Str!Fault
  <2>1. /\ UNCHANGED <<ins, cx, si, di, ax, smem, port, out>>
        /\ stage # "done" /\ stage' = "fault"
    BY <1>5 DEF Str!Fault
  <2>2. Typed(ins, stage', cx)  BY <1>1, <2>1 DEF Typed
  <2>3. DoneOf(ins, stage', cx) = DoneOf(ins, stage, cx)  BY <2>1 DEF DoneOf
  <2> QED  BY <2>1, <2>2, <2>3, SameStand
<1> QED  BY <1>2, <1>3, <1>4, <1>5

LEMMA ChunkStepKeeps ==
  ASSUME StringsAssumed, StringsInv, Str!FastChunk
  PROVE  StringsInv'
<1> PICK D : D = DoneOf(ins, stage, cx)  OBVIOUS
<1>1. /\ Typed(ins, stage, cx) /\ Stands(ins, D, smem, si, di, ax, port, out)
      /\ stage = "fast" /\ cx # 0 /\ Str!Aligned
      /\ ins' = ins /\ stage' = stage /\ ax' = ax
  BY DEF StringsInv, Str!FastChunk
<1>2. /\ ins \in Instr /\ ins.rep # 0 /\ ins.kind \notin Str!Compares \cup {"LODS"}
      /\ ins.cx \in 0 .. MaxCount /\ cx \in 0 .. ins.cx /\ MaxCount \in Nat
      /\ D = ins.cx - cx /\ D \in Nat
  BY <1>1 DEF Typed, Instr, StringsAssumed, DoneOf
<1> DEFINE T == {cx} \cup (IF ins.kind \in Str!Reads THEN {Str!Room(si)} ELSE {})
                     \cup (IF ins.kind \in Str!AtDi THEN {Str!Room(di)} ELSE {})
<1>3. /\ ins.kind \in Str!Reads => Str!Room(si) = RoomOf(ins, si) /\ RoomOf(ins, si) \in Nat
      /\ ins.kind \in Str!AtDi => Str!Room(di) = RoomOf(ins, di) /\ RoomOf(ins, di) \in Nat
  <2>1. Str!Room(si) = RoomOf(ins, si) /\ Str!Room(di) = RoomOf(ins, di)
    BY DEF Str!Room, RoomOf
  <2>2. ins.si \in Str!Addr /\ ins.di \in Str!Addr /\ D \in Int  BY <1>2 DEF Instr
  <2>3. RoomOf(ins, AheadOf(ins, ins.si, D)) \in Nat /\ RoomOf(ins, AheadOf(ins, ins.di, D)) \in Nat
    BY <1>2, <2>2, RoomIn
  <2> QED  BY <1>1, <2>1, <2>3 DEF Stands
<1>4. Str!Chunk \in Nat /\ Str!Chunk <= cx /\ HasRoom(ins, si, di, Str!Chunk)
  <2>1. T \subseteq Nat /\ T # {} /\ cx \in T  BY <1>2, <1>3
  <2>2. /\ ins.kind \in Str!Reads => RoomOf(ins, si) \in T
        /\ ins.kind \in Str!AtDi => RoomOf(ins, di) \in T
    BY <1>3
  <2>3. Str!Chunk = Str!MinOf(T)  BY DEF Str!Chunk
  <2> HIDE DEF T
  <2>4. Str!MinOf(T) \in T /\ \A y \in T : Str!MinOf(T) <= y  BY <2>1, LeastOf
  <2> QED  BY <2>1, <2>2, <2>3, <2>4 DEF HasRoom
<1>5. PICK n \in Nat : n <= cx /\ HasRoom(ins, si, di, n) /\ Str!Move(n)
  <2>1. CASE Str!Move(Str!Chunk)  BY <1>4, <2>1
  <2>2. CASE \E n \in 1 .. Str!Chunk - 1 : Str!Move(n)
    <3>1. PICK n \in 1 .. Str!Chunk - 1 : Str!Move(n)  BY <2>2
    <3>2. n \in Nat /\ n <= cx /\ n <= Str!Chunk  BY <1>2, <1>4
    <3>3. HasRoom(ins, si, di, n)  BY <1>3, <1>4, <3>2 DEF HasRoom
    <3> QED  BY <3>1, <3>2, <3>3
  <2> QED  BY <2>1, <2>2 DEF Str!FastChunk
<1>6. /\ smem' = ChunkedOf(ins, smem, si, di, ax, port, n)
      /\ si' = (IF ins.kind \in Str!Reads THEN AheadOf(ins, si, n) ELSE si)
      /\ di' = (IF ins.kind \in Str!AtDi THEN AheadOf(ins, di, n) ELSE di)
      /\ cx' = cx - n
      /\ port' = (IF ins.kind = "INS" THEN port + n ELSE port)
      /\ out' = (IF ins.kind = "OUTS"
                 THEN out \o [k \in 1 .. n |-> InChunkOf(ins, smem, WalkOf(ins, si, k - 1))] ELSE out)
  BY <1>2, <1>5, ChunkedIs
     DEF Str!Move, Str!Advance, Str!Ahead, AheadOf, Str!InChunk, InChunkOf, Str!Walk, WalkOf
<1>7. D + n <= MaxCount  BY <1>2, <1>5
<1>8. Stands(ins, D + n, smem', si', di', ax, port', out')
  <2>1. ins.kind # "LODS"  BY <1>2
  <2>2. /\ ins.kind \in Str!Reads => Str!Physical(si) % ins.size = 0
        /\ ins.kind \in Str!AtDi => Str!Physical(di) % ins.size = 0
    BY <1>1 DEF Str!Aligned
  <2> QED  BY <1>1, <1>2, <1>5, <1>6, <1>7, <2>1, <2>2, NextChunk
<1>9. cx' \in 0 .. ins.cx /\ DoneOf(ins, stage, cx') = D + n
  <2>1. cx' = cx - n  BY <1>6
  <2>2. DoneOf(ins, stage, cx') = ins.cx - cx'  BY <1>2 DEF DoneOf
  <2>3. ins.cx \in Nat /\ cx \in 0 .. ins.cx /\ n \in 0 .. cx /\ D = ins.cx - cx
    BY <1>2, <1>5
  <2>4. cx' \in 0 .. ins.cx /\ ins.cx - cx' = D + n  BY ONLY <2>1, <2>3
  <2> QED  BY <2>2, <2>4
<1>10. Typed(ins, stage, cx')  BY <1>1, <1>2, <1>9 DEF Typed
<1>11. Compared(ins, D + n, smem', stage, cx')  BY <1>2 DEF Compared
<1> QED  BY <1>1, <1>8, <1>9, <1>10, <1>11 DEF StringsInv

(* Whether the element that comes next stops a comparison. *)
LEMMA StopsIs ==
  ASSUME StringsAssumed, NEW D \in Nat, ins \in Instr, ins.kind \in Str!Compares, ins.rep # 0,
         Stands(ins, D, smem, si, di, ax, port, out)
  PROVE  Str!Stops(Str!Equal) <=> DiffersOf(ins, smem, D + 1)
<1>1. ins.rep \in {1, 2}  BY DEF Instr
<1>2. di = AheadOf(ins, ins.di, D) /\ ins.kind # "LODS"  BY DEF Stands, Str!Compares, Str!AtDi
<1>3. ax = Str!Accumulator  BY <1>2 DEF Stands, Loaded
<1>4. (D + 1) - 1 = D  OBVIOUS
<1>5. ins.kind = "CMPS" => si = AheadOf(ins, ins.si, D)  BY DEF Stands, Str!Reads
<1> DEFINE e == IF ins.kind = "CMPS"
                THEN ElementOf(ins, smem, AheadOf(ins, ins.si, D)) = ElementOf(ins, smem, AheadOf(ins, ins.di, D))
                ELSE ElementOf(ins, smem, AheadOf(ins, ins.di, D)) = SubSeq(Str!Accumulator, 1, ins.size)
<1>6. Str!Equal <=> e
  BY <1>2, <1>3, <1>5, Zenon DEF Str!Equal, Str!Element, ElementOf
<1>7. DiffersOf(ins, smem, D + 1) <=> ((ins.rep = 2) = e)
  BY <1>4, Zenon DEF DiffersOf
<1>8. e \in BOOLEAN
  <2>1. CASE ins.kind = "CMPS"  BY <2>1
  <2>2. CASE ins.kind # "CMPS"  BY <2>2
  <2> QED  BY <2>1, <2>2
<1> HIDE DEF e
<1>9. Str!Stops(Str!Equal) <=> ((e /\ ins.rep = 2) \/ (~e /\ ins.rep = 1))
  BY <1>6, Zenon DEF Str!Stops
<1> QED  BY <1>1, <1>7, <1>8, <1>9

LEMMA ElementStepKeeps ==
  ASSUME StringsAssumed, StringsInv, Str!SlowElement
  PROVE  StringsInv'
<1> PICK D : D = DoneOf(ins, stage, cx)  OBVIOUS
<1>1. /\ Typed(ins, stage, cx) /\ Stands(ins, D, smem, si, di, ax, port, out)
      /\ Compared(ins, D, smem, stage, cx)
      /\ stage = "slow" /\ (ins.rep = 0 \/ cx # 0) /\ ins' = ins
      /\ stage' = (IF ins.rep = 0 \/ (ins.kind \in Str!Compares /\ Str!Stops(Str!Equal))
                   THEN "done" ELSE "slow")
  BY DEF StringsInv, Str!SlowElement
<1>2. /\ ins \in Instr /\ ins.rep \in {0, 1, 2} /\ ins.cx \in 0 .. MaxCount /\ cx \in 0 .. ins.cx
      /\ MaxCount \in Nat /\ (ins.rep = 0 => ins.cx = 1 /\ cx = 1) /\ D \in Nat
  <2>1. D \in 0 .. MaxCount  BY <1>1, DoneIn
  <2> QED  BY <1>1, <2>1 DEF Typed, Instr, StringsAssumed
<1>3. D + 1 <= MaxCount
  BY <1>1, <1>2 DEF DoneOf
<1>4. /\ smem' = (CASE ins.kind = "MOVS" -> PutOf(ins, smem, di, ElementOf(ins, smem, si))
                    [] ins.kind = "STOS" -> PutOf(ins, smem, di, ax)
                    [] ins.kind = "INS" -> PutOf(ins, smem, di, Str!FromPort(port))
                    [] OTHER -> smem)
      /\ si' = (IF ins.kind \in Str!Reads THEN AheadOf(ins, si, 1) ELSE si)
      /\ di' = (IF ins.kind \in Str!AtDi THEN AheadOf(ins, di, 1) ELSE di)
      /\ cx' = (IF ins.rep = 0 THEN cx ELSE cx - 1)
      /\ ax' = (IF ins.kind = "LODS" THEN ElementOf(ins, smem, si) ELSE ax)
      /\ port' = (IF ins.kind = "INS" THEN port + 1 ELSE port)
      /\ out' = (IF ins.kind = "OUTS" THEN Append(out, ElementOf(ins, smem, si)) ELSE out)
  BY Zenon DEF Str!SlowElement, Str!One, Str!Advance, Str!Ahead, AheadOf, Str!PutElement, PutOf,
         Str!Element, ElementOf
<1>5. Stands(ins, D + 1, smem', si', di', ax', port', out')
  BY <1>1, <1>2, <1>3, <1>4, NextElement
<1>6. Typed(ins, stage', cx') /\ DoneOf(ins, stage', cx') = D + 1
  <2>1. CASE ins.rep = 0
    <3>1. cx' = cx /\ stage' = "done"  BY <1>1, <1>4, <2>1
    <3>2. D = 0  BY <1>1, <2>1 DEF DoneOf
    <3> QED  BY <1>1, <2>1, <3>1, <3>2 DEF Typed, DoneOf
  <2>2. CASE ins.rep # 0
    <3>1. cx' = cx - 1 /\ stage' \in {"slow", "done"} /\ cx' \in 0 .. ins.cx
      BY <1>1, <1>2, <1>4, <2>2
    <3>2. D = ins.cx - cx  BY <2>2 DEF DoneOf
    <3>3. Typed(ins, stage', cx')  BY <1>1, <2>2, <3>1 DEF Typed
    <3>4. DoneOf(ins, stage', cx') = ins.cx - (cx - 1)  BY <2>2, <3>1 DEF DoneOf
    <3> QED  BY <1>2, <3>2, <3>3, <3>4
  <2> QED  BY <2>1, <2>2
<1>7. Compared(ins, D + 1, smem', stage', cx')
  <2> SUFFICES ASSUME ins.kind \in Str!Compares, ins.rep # 0
               PROVE  Compared(ins, D + 1, smem, stage', cx')
    <3>1. ins.kind \in Str!Compares => smem' = smem  BY <1>4 DEF Str!Compares
    <3>2. ~(ins.kind \in Str!Compares /\ ins.rep # 0) => Compared(ins, D + 1, smem', stage', cx')
      BY DEF Compared
    <3> QED  BY <3>1, <3>2
  <2>1. /\ \A k \in 1 .. D - 1 : ~DiffersOf(ins, smem, k)
        /\ D > 0 => ~DiffersOf(ins, smem, D)
    BY <1>1 DEF Compared
  <2>2. \A k \in 1 .. (D + 1) - 1 : ~DiffersOf(ins, smem, k)
    <3> TAKE k \in 1 .. (D + 1) - 1
    <3>1. CASE k = D
      <4>1. D > 0  BY <1>2, <3>1
      <4> QED  BY <2>1, <3>1, <4>1
    <3>2. CASE k # D
      <4>1. k \in 1 .. D - 1  BY <1>2, <3>2
      <4> QED  BY <2>1, <4>1
    <3> QED  BY <3>1, <3>2
  <2>3. Str!Stops(Str!Equal) <=> DiffersOf(ins, smem, D + 1)  BY <1>1, <1>2, StopsIs
  <2>4. (stage' = "done") <=> DiffersOf(ins, smem, D + 1)  BY <1>1, <2>3
  <2> QED  BY <2>2, <2>4, Zenon DEF Compared
<1> QED  BY <1>1, <1>5, <1>6, <1>7 DEF StringsInv

(* For pages of any even size, segments of any number of them, any count,   *)
(* and any pages missing on the way (STOS_helper2, MOVS_helper2 and their   *)
(* like): at each fault and at the end exactly the elements that the count  *)
(* register says are done have been moved, once and in order, and a         *)
(* repeated comparison ends at the first element that it should end at.     *)
THEOREM Moves == StringsAssumed => (StringsSpec => []MovesExact)
<1> SUFFICES ASSUME StringsAssumed PROVE StringsSpec => []MovesExact  OBVIOUS
<1>1. Str!Init => StringsInv  BY StringsStart
<1>2. StringsInv /\ [Str!Next]_Str!strVars => StringsInv'
  <2> SUFFICES ASSUME StringsInv, [Str!Next]_Str!strVars PROVE StringsInv'  OBVIOUS
  <2>1. CASE Str!SlowElement  BY <2>1, ElementStepKeeps
  <2>2. CASE Str!FastChunk  BY <2>2, ChunkStepKeeps
  <2>3. CASE Str!SlowPath \/ Str!Finish \/ Str!Handler \/ (stage \in {"fast", "slow"} /\ Str!Fault)
    BY <2>3, Pauses
  <2>4. CASE UNCHANGED Str!strVars  BY <2>4 DEF Str!strVars, StringsInv
  <2> QED  BY <2>1, <2>2, <2>3, <2>4 DEF Str!Next
<1>3. StringsInv => MovesExact  BY StringsExact DEF MovesExact
<1> QED  BY <1>1, <1>2, <1>3, PTL DEF StringsSpec
=============================================================================
