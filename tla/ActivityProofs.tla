--------------------------- MODULE ActivityProofs ----------------------------
(***************************************************************************)
(* The activities.  With a user who leaves only running machines, and an   *)
(* emulator thread that notices g_stop in time, no sequence of starts and  *)
(* stops, however long, crashes the process or leaves a thread at work.    *)
(* And the list of machines, their disks and the slots of a start, for any *)
(* images, any boot choices and any number of machines and disks.          *)
(***************************************************************************)
EXTENDS Lifecycle, VmStore, SequenceTheorems, TLAPS

(* At most one activity is current, and threads belong to activities.      *)
OneCurrent ==
  \A a, b \in Activities : life[a] = "created" /\ life[b] = "created" => a = b

Idle(a) == init[a] \in {"none", "done", "failed"} /\ emu[a] \in {"none", "done"}

Owned ==
  \A a \in Activities :
    /\ life[a] = "new" => init[a] = "none" /\ emu[a] = "none"
    /\ life[a] = "gone" => Idle(a)
    /\ life[a] = "created" => init[a] # "none"
    /\ init[a] \notin {"none", "load", "failed"} => lib
    /\ init[a] \in {"none", "load", "fb", "pc", "hook", "spawn"} => emu[a] = "none"
    /\ init[a] = "failed" => emu[a] = "none"

(* The flags say what the threads do. *)
Flags ==
  /\ g_run <=> \E a \in Activities : emu[a] \in {"test", "step", "vga"}
  /\ g_stop <=> ui.at \in {"wait", "clear", "reset"}

(* While nativeStop runs it is for a current, started activity; past its   *)
(* wait the thread is through.                                             *)
Stopping ==
  ui.at # "idle" =>
    /\ ui.act \in Activities
    /\ life[ui.act] = "created"
    /\ Started(ui.act)
    /\ ui.at # "wait" => emu[ui.act] \in {"none", "done"}

(* Whoever relies on a global finds its own machine there. *)
OwnMachine ==
  \A a \in Activities :
    /\ emu[a] \in {"ready", "test", "step", "vga"} => g_pc = a
    /\ emu[a] \in {"step", "vga"} => cur[a] = a
    /\ init[a] \in {"hook", "spawn", "view"} => g_pc = a
    /\ init[a] \in {"pc", "hook", "spawn", "view"} => g_fb = a
    /\ bb[a] \in {a, NULL}

(* The inductive invariant. *)
LInv ==
  TypeOK /\ OneCurrent /\ Owned /\ Flags /\ Stopping /\ OwnMachine /\ NoNullMachine

Orderly == Patient /\ Prompt

LEMMA InitInv == Init => LInv
<1> SUFFICES ASSUME Init PROVE LInv
  OBVIOUS
<1> USE DEF Init
<1>1. TypeOK
  <2>1. ui \in [at : {"idle", "wait", "clear", "reset", "forget"}, act : Ref]
    BY DEF Ref
  <2>2. /\ life \in [Activities -> {"new", "created", "gone"}]
        /\ init \in [Activities -> {"none", "load", "fb", "pc", "hook", "spawn",
                                    "view", "done", "failed"}]
        /\ emu \in [Activities -> {"none", "ready", "test", "step", "vga", "done"}]
        /\ cur \in [Activities -> Ref] /\ bb \in [Activities -> Ref]
        /\ g_pc \in Ref /\ g_fb \in Ref
    BY DEF Ref
  <2>3. tries \in 0..StopTries /\ off \in SUBSET Activities
    BY BoundAssumption
  <2>4. lib \in BOOLEAN /\ g_run \in BOOLEAN /\ g_stop \in BOOLEAN
        /\ crashed \in BOOLEAN
    BY Zenon
  <2> QED
    BY <2>1, <2>2, <2>3, <2>4 DEF TypeOK
<1>2. OneCurrent /\ Owned
  BY DEF OneCurrent, Owned, Idle
<1>3. Flags
  BY DEF Flags
<1>4. Stopping /\ NoNullMachine
  BY DEF Stopping, NoNullMachine
<1>5. OwnMachine
  BY DEF OwnMachine
<1> QED
  BY <1>1, <1>2, <1>3, <1>4, <1>5 DEF LInv

(* When nativeStop is past its wait, no thread of any activity is left.    *)
LEMMA PastWait ==
  ASSUME LInv, ui.at \in {"clear", "reset", "forget"}
  PROVE  \A a \in Activities : Idle(a)
<1> TAKE a \in Activities
<1>1. life[a] \in {"new", "created", "gone"}
  BY DEF LInv, TypeOK
<1>2. CASE life[a] = "created"
  <2>1. a = ui.act
    BY <1>2 DEF LInv, OneCurrent, Stopping
  <2> QED
    BY <2>1 DEF LInv, Stopping, Started, Idle
<1> QED
  BY <1>1, <1>2 DEF LInv, Owned, Idle

(* Before, only the thread of the activity being left can be at work.      *)
LEMMA NotRunning ==
  ASSUME LInv, NEW a \in Activities, ~g_run
  PROVE  emu[a] \in {"none", "ready", "done"}
BY DEF LInv, Flags, TypeOK

LEMMA StopWaited_Inv ==
  ASSUME LInv, Orderly, StopWaited
  PROVE  LInv'
<1>1. ui.at = "wait" /\ ~g_run /\ ui' = [ui EXCEPT !.at = "clear"]
  BY DEF Orderly, StopWaited
<1>2. UNCHANGED <<life, tries, init, emu, cur, bb, globals, off, crashed>>
  BY DEF StopWaited
<1>3. ui'.at = "clear" /\ ui'.act = ui.act /\ ui' \in [at : {"clear"}, act : Ref]
  BY <1>1 DEF LInv, TypeOK
<1>4. TypeOK'
  BY <1>2, <1>3 DEF LInv, TypeOK, globals, Ref
<1>5. (OneCurrent /\ Owned /\ NoNullMachine /\ OwnMachine)'
  BY <1>2 DEF LInv, OneCurrent, Owned, Idle, NoNullMachine, OwnMachine, globals
<1>6. Flags'
  BY <1>1, <1>2, <1>3 DEF LInv, Flags, globals
<1>7. Stopping'
  BY <1>1, <1>2, <1>3, NotRunning DEF LInv, Stopping, Started
<1> QED
  BY <1>4, <1>5, <1>6, <1>7 DEF LInv

LEMMA StopClear_Inv ==
  ASSUME LInv, StopClear
  PROVE  LInv'
<1>1. /\ ui.at = "clear" /\ ui' = [ui EXCEPT !.at = "reset"]
      /\ g_pc' = NULL /\ g_fb' = NULL
  BY DEF StopClear
<1>2. UNCHANGED <<life, tries, init, emu, cur, bb, lib, g_run, g_stop, off, crashed>>
  BY DEF StopClear
<1>3. ui'.at = "reset" /\ ui'.act = ui.act /\ ui' \in [at : {"reset"}, act : Ref]
  BY <1>1 DEF LInv, TypeOK
<1>4. TypeOK'
  BY <1>1, <1>2, <1>3 DEF LInv, TypeOK, Ref
<1>5. (OneCurrent /\ Owned /\ NoNullMachine)'
  BY <1>2 DEF LInv, OneCurrent, Owned, Idle, NoNullMachine
<1>6. Flags'
  BY <1>1, <1>2, <1>3 DEF LInv, Flags
<1>7. Stopping'
  BY <1>1, <1>2, <1>3 DEF LInv, Stopping, Started
<1>8. \A a \in Activities : Idle(a)
  BY <1>1, PastWait
<1>9. OwnMachine'
  BY <1>2, <1>8 DEF LInv, OwnMachine, Idle
<1> QED
  BY <1>4, <1>5, <1>6, <1>7, <1>9 DEF LInv

LEMMA StopReset_Inv ==
  ASSUME LInv, StopReset
  PROVE  LInv'
<1>1. ui.at = "reset" /\ ui' = [ui EXCEPT !.at = "forget"] /\ g_stop' = FALSE
  BY DEF StopReset
<1>2. UNCHANGED <<life, tries, init, emu, cur, bb, lib, g_pc, g_fb, g_run, off, crashed>>
  BY DEF StopReset
<1>3. ui'.at = "forget" /\ ui'.act = ui.act /\ ui' \in [at : {"forget"}, act : Ref]
  BY <1>1 DEF LInv, TypeOK
<1>4. TypeOK'
  BY <1>1, <1>2, <1>3 DEF LInv, TypeOK, Ref
<1>5. (OneCurrent /\ Owned /\ NoNullMachine /\ OwnMachine)'
  BY <1>2 DEF LInv, OneCurrent, Owned, Idle, NoNullMachine, OwnMachine
<1>6. Flags'
  BY <1>1, <1>2, <1>3 DEF LInv, Flags
<1>7. Stopping'
  BY <1>1, <1>2, <1>3 DEF LInv, Stopping, Started
<1> QED
  BY <1>4, <1>5, <1>6, <1>7 DEF LInv

LEMMA StopForget_Inv ==
  ASSUME LInv, StopForget
  PROVE  LInv'
<1>1. /\ ui.at = "forget" /\ ui' = [at |-> "idle", act |-> NULL]
      /\ g_run' = FALSE /\ tries' = 0
      /\ life' = [life EXCEPT ![ui.act] = "gone"]
  BY DEF StopForget
<1>2. UNCHANGED <<init, emu, cur, bb, lib, g_pc, g_fb, g_stop, off, crashed>>
  BY DEF StopForget
<1>3. ui'.at = "idle" /\ ui' \in [at : {"idle"}, act : Ref]
  BY <1>1 DEF Ref
<1>4. TypeOK'
  <2>1. tries' \in 0..StopTries
    BY <1>1, BoundAssumption
  <2>4. g_run' \in BOOLEAN
    BY <1>1, Zenon
  <2>2. life' \in [Activities -> {"new", "created", "gone"}]
    BY <1>1 DEF LInv, TypeOK
  <2>3. ui' \in [at : {"idle", "wait", "clear", "reset", "forget"}, act : Ref]
    BY <1>3
  <2> QED
    BY <1>2, <2>1, <2>2, <2>3, <2>4 DEF LInv, TypeOK
<1>5. \A a \in Activities : Idle(a)
  BY <1>1, PastWait
<1>6. \A a \in Activities : life'[a] = (IF a = ui.act THEN "gone" ELSE life[a])
  BY <1>1 DEF LInv, TypeOK
<1>7. ui.act \in Activities /\ life[ui.act] = "created"
  BY <1>1 DEF LInv, Stopping
<1>8. OneCurrent' /\ NoNullMachine' /\ OwnMachine'
  <2>1. OneCurrent'
    BY <1>6 DEF LInv, OneCurrent
  <2>2. NoNullMachine'
    BY <1>2 DEF LInv, NoNullMachine
  <2>3. OwnMachine'
    BY <1>2 DEF LInv, OwnMachine
  <2> QED
    BY <2>1, <2>2, <2>3
<1>9. Owned'
  BY <1>2, <1>5, <1>6 DEF LInv, Owned, Idle
<1>10. Flags'
  BY <1>1, <1>2, <1>3, <1>5 DEF LInv, Flags, Idle
<1>11. Stopping'
  BY <1>3 DEF Stopping
<1> QED
  BY <1>4, <1>8, <1>9, <1>10, <1>11 DEF LInv

LEMMA OnCreate_Inv ==
  ASSUME LInv, NEW a \in Activities, OnCreate(a)
  PROVE  LInv'
<1>1. /\ life[a] = "new" /\ \A b \in Activities : life[b] # "created"
      /\ life' = [life EXCEPT ![a] = "created"]
      /\ init' = [init EXCEPT ![a] = "load"]
      /\ ui.at = "idle"
  BY DEF OnCreate, UiIdle
<1>2. UNCHANGED <<ui, tries, emu, cur, bb, globals, off, crashed>>
  BY DEF OnCreate
<1>3. /\ \A b \in Activities : life'[b] = (IF b = a THEN "created" ELSE life[b])
      /\ \A b \in Activities : init'[b] = (IF b = a THEN "load" ELSE init[b])
  BY <1>1 DEF LInv, TypeOK
<1>4. TypeOK'
  BY <1>1, <1>2 DEF LInv, TypeOK, Ref, globals
<1>5. OneCurrent'
  BY <1>1, <1>3 DEF OneCurrent
<1>6. Owned'
  BY <1>1, <1>2, <1>3 DEF LInv, Owned, Idle, globals
<1>7. Flags' /\ Stopping' /\ NoNullMachine'
  BY <1>1, <1>2 DEF LInv, Flags, Stopping, NoNullMachine, globals
<1>8. OwnMachine'
  BY <1>2, <1>3 DEF LInv, OwnMachine, globals
<1> QED
  BY <1>4, <1>5, <1>6, <1>7, <1>8 DEF LInv

LEMMA OnDestroy_Inv ==
  ASSUME LInv, Orderly, NEW a \in Activities, OnDestroy(a)
  PROVE  LInv'
<1>1. life[a] = "created" /\ Started(a) /\ ui.at = "idle"
  BY DEF Orderly, OnDestroy, UiIdle
<1>2. CASE lib
  <2>1. /\ g_stop' = TRUE /\ ui' = [at |-> "wait", act |-> a] /\ tries' = 0
        /\ life' = life
    BY <1>2 DEF OnDestroy
  <2>2. UNCHANGED <<init, emu, cur, bb, lib, g_pc, g_fb, g_run, off, crashed>>
    BY DEF OnDestroy
  <2>3. ui' \in [at : {"wait"}, act : Ref] /\ ui'.at = "wait" /\ ui'.act = a
    BY <2>1 DEF Ref
  <2>4. TypeOK'
    BY <2>1, <2>2, <2>3, BoundAssumption DEF LInv, TypeOK, Ref
  <2>5. OneCurrent' /\ Owned' /\ NoNullMachine' /\ OwnMachine'
    BY <2>1, <2>2 DEF LInv, OneCurrent, Owned, Idle, NoNullMachine, OwnMachine
  <2>6. Flags'
    BY <1>1, <2>1, <2>2, <2>3 DEF LInv, Flags
  <2>7. Stopping'
    BY <1>1, <2>1, <2>2, <2>3 DEF Stopping, Started
  <2> QED
    BY <2>4, <2>5, <2>6, <2>7 DEF LInv
<1>3. CASE ~lib
  <2>1. init[a] = "failed" /\ emu[a] = "none"
    BY <1>1, <1>3 DEF LInv, Owned, Started
  <2>2. /\ life' = [life EXCEPT ![a] = "gone"]
        /\ UNCHANGED <<ui, tries, init, emu, cur, bb, lib, g_pc, g_fb, g_run,
                       g_stop, off, crashed>>
    BY <1>3 DEF OnDestroy
  <2>3. \A b \in Activities : life'[b] = (IF b = a THEN "gone" ELSE life[b])
    BY <2>2 DEF LInv, TypeOK
  <2>4. TypeOK'
    BY <2>2 DEF LInv, TypeOK, Ref
  <2>5. OneCurrent' /\ Owned' /\ NoNullMachine' /\ OwnMachine'
    BY <2>1, <2>2, <2>3 DEF LInv, OneCurrent, Owned, Idle, NoNullMachine, OwnMachine
  <2>6. Flags' /\ Stopping'
    BY <1>1, <2>2 DEF LInv, Flags, Stopping
  <2> QED
    BY <2>4, <2>5, <2>6 DEF LInv
<1> QED
  BY <1>2, <1>3

(* A step of the start-up thread of a: only init[a] and what it publishes. *)
LEMMA LoadLibrary_Inv ==
  ASSUME LInv, NEW a \in Activities, LoadLibrary(a)
  PROVE  LInv'
<1>1. init[a] = "load" /\ init' = [init EXCEPT ![a] = "fb"] /\ lib'
  BY DEF LoadLibrary, At
<1>2. UNCHANGED <<life, ui, tries, emu, cur, bb, g_pc, g_fb, g_run, g_stop,
                  off, crashed>>
  BY DEF LoadLibrary
<1>3. lib' \in BOOLEAN
  BY DEF LoadLibrary
<1>4. \A b \in Activities : init'[b] = (IF b = a THEN "fb" ELSE init[b])
  BY <1>1 DEF LInv, TypeOK
<1>5. TypeOK'
  BY <1>1, <1>2, <1>3 DEF LInv, TypeOK, Ref
<1>6. OneCurrent' /\ Flags' /\ NoNullMachine'
  BY <1>2 DEF LoadLibrary, At, LInv, OneCurrent, Flags, NoNullMachine
<1>7. Owned'
  BY <1>1, <1>2, <1>4 DEF LInv, Owned, Idle
<1>8. Stopping'
  BY <1>1, <1>2, <1>4 DEF LInv, Stopping, Started
<1>9. OwnMachine'
  BY <1>1, <1>2, <1>4 DEF LInv, OwnMachine
<1> QED
  BY <1>5, <1>6, <1>7, <1>8, <1>9 DEF LInv

(* The activity whose start-up or emulation thread is at work is current,  *)
(* so no other activity has one.                                           *)
LEMMA Alone ==
  ASSUME LInv, NEW a \in Activities, ~Idle(a)
  PROVE  life[a] = "created" /\ \A b \in Activities : b # a => Idle(b)
<1>1. life[a] = "created"
  BY DEF LInv, Owned, Idle, TypeOK
<1>2. ASSUME NEW b \in Activities, b # a PROVE Idle(b)
  <2>1. life[b] \in {"new", "gone"}
    BY <1>1, <1>2 DEF LInv, OneCurrent, TypeOK
  <2> QED
    BY <2>1 DEF LInv, Owned, Idle
<1> QED
  BY <1>1, <1>2

LEMMA AllocFb_Inv ==
  ASSUME LInv, NEW a \in Activities, AllocFb(a)
  PROVE  LInv'
<1>1. init[a] = "fb" /\ init' = [init EXCEPT ![a] = "pc"] /\ g_fb' = a
  BY DEF AllocFb, At
<1>2. UNCHANGED <<life, ui, tries, emu, cur, bb, lib, g_pc, g_run, g_stop,
                  off, crashed>>
  BY DEF AllocFb
<1>3. \A b \in Activities : b # a => Idle(b)
  BY <1>1, Alone DEF Idle
<1>4. \A b \in Activities : init'[b] = (IF b = a THEN "pc" ELSE init[b])
  BY <1>1 DEF LInv, TypeOK
<1>5. TypeOK'
  BY <1>1, <1>2 DEF LInv, TypeOK, Ref
<1>6. OneCurrent' /\ Flags' /\ NoNullMachine'
  BY <1>2 DEF LInv, OneCurrent, Flags, NoNullMachine
<1>7. Owned'
  BY <1>1, <1>2, <1>4 DEF LInv, Owned, Idle
<1>8. Stopping'
  BY <1>1, <1>2, <1>4 DEF LInv, Stopping, Started
<1>9. OwnMachine'
  BY <1>1, <1>2, <1>3, <1>4 DEF LInv, OwnMachine, Idle
<1> QED
  BY <1>5, <1>6, <1>7, <1>8, <1>9 DEF LInv

LEMMA PcNew_Inv ==
  ASSUME LInv, NEW a \in Activities, PcNew(a)
  PROVE  LInv'
<1>1. init[a] = "pc" /\ init' = [init EXCEPT ![a] = "hook"] /\ g_pc' = a
  BY DEF PcNew, At
<1>2. UNCHANGED <<life, ui, tries, emu, cur, bb, lib, g_fb, g_run, g_stop,
                  off, crashed>>
  BY DEF PcNew
<1>3. \A b \in Activities : b # a => Idle(b)
  BY <1>1, Alone DEF Idle
<1>4. \A b \in Activities : init'[b] = (IF b = a THEN "hook" ELSE init[b])
  BY <1>1 DEF LInv, TypeOK
<1>5. TypeOK'
  BY <1>1, <1>2 DEF LInv, TypeOK, Ref
<1>6. OneCurrent' /\ Flags' /\ NoNullMachine'
  BY <1>2 DEF LInv, OneCurrent, Flags, NoNullMachine
<1>7. Owned'
  BY <1>1, <1>2, <1>4 DEF LInv, Owned, Idle
<1>8. Stopping'
  BY <1>1, <1>2, <1>4 DEF LInv, Stopping, Started
<1>9. OwnMachine'
  BY <1>1, <1>2, <1>3, <1>4 DEF LInv, OwnMachine, Idle
<1> QED
  BY <1>5, <1>6, <1>7, <1>8, <1>9 DEF LInv

(* nativeInit fails and takes back what it published: with this activity   *)
(* current, no thread is there to rely on it.                              *)
LEMMA InitFailed ==
  ASSUME LInv, NEW a \in Activities, At(a, "fb", "failed") \/ At(a, "pc", "failed"),
         g_pc' \in {g_pc, NULL}, g_fb' \in {g_fb, NULL},
         UNCHANGED <<life, ui, tries, emu, cur, bb, lib, g_run, g_stop, off, crashed>>
  PROVE  LInv'
<1>1. init[a] \in {"fb", "pc"} /\ init' = [init EXCEPT ![a] = "failed"]
  BY DEF At
<1>2. \A b \in Activities : b # a => Idle(b)
  BY <1>1, Alone DEF Idle
<1>3. emu[a] = "none"
  BY <1>1 DEF LInv, Owned
<1>4. \A b \in Activities : init'[b] = (IF b = a THEN "failed" ELSE init[b])
  BY <1>1 DEF LInv, TypeOK
<1>5. TypeOK'
  BY <1>1 DEF LInv, TypeOK, Ref
<1>6. OneCurrent' /\ Flags' /\ NoNullMachine'
  BY DEF LInv, OneCurrent, Flags, NoNullMachine
<1>7. Owned'
  BY <1>1, <1>3, <1>4 DEF LInv, Owned, Idle
<1>8. Stopping'
  BY <1>1, <1>4 DEF LInv, Stopping, Started
<1>9. OwnMachine'
  BY <1>2, <1>3, <1>4 DEF LInv, OwnMachine, Idle
<1> QED
  BY <1>5, <1>6, <1>7, <1>8, <1>9 DEF LInv

(* The steps of the start-up thread that publish nothing. *)
LEMMA InitMove ==
  ASSUME LInv, NEW a \in Activities, NEW next,
         init' = [init EXCEPT ![a] = next],
         \/ init[a] = "load" /\ next = "failed"
         \/ init[a] = "hook" /\ next = "spawn"
         \/ init[a] = "spawn" /\ next = "failed",
         UNCHANGED <<life, ui, tries, emu, cur, bb, globals, off, crashed>>
  PROVE  LInv'
<1>1. UNCHANGED <<life, ui, tries, emu, cur, bb, lib, g_pc, g_fb, g_run,
                  g_stop, off, crashed>>
  BY DEF globals
<1>2. \A b \in Activities : init'[b] = (IF b = a THEN next ELSE init[b])
  BY DEF LInv, TypeOK
<1>3. TypeOK'
  BY <1>1 DEF LInv, TypeOK, Ref
<1>4. OneCurrent' /\ Flags' /\ NoNullMachine'
  BY <1>1 DEF LInv, OneCurrent, Flags, NoNullMachine
<1>5. Owned'
  BY <1>1, <1>2 DEF LInv, Owned, Idle
<1>6. Stopping'
  BY <1>1, <1>2 DEF LInv, Stopping, Started
<1>7. OwnMachine'
  BY <1>1, <1>2 DEF LInv, OwnMachine
<1> QED
  BY <1>3, <1>4, <1>5, <1>6, <1>7 DEF LInv

(* g_pc cannot have been cleared under the start-up thread. *)
LEMMA HookProbe_Inv ==
  ASSUME LInv, NEW a \in Activities, HookProbe(a)
  PROVE  LInv'
<1>1. init[a] = "hook"
  BY DEF HookProbe, At
<1>2. g_pc = a /\ g_pc # NULL
  BY <1>1, NullAssumption DEF LInv, OwnMachine
<1> QED
  BY <1>1, <1>2, InitMove DEF HookProbe, At

LEMMA Spawn_Inv ==
  ASSUME LInv, NEW a \in Activities, Spawn(a)
  PROVE  LInv'
<1>1. /\ init[a] = "spawn" /\ init' = [init EXCEPT ![a] = "view"]
      /\ emu' = [emu EXCEPT ![a] = "ready"]
  BY DEF Spawn, At
<1>2. UNCHANGED <<life, ui, tries, cur, bb, lib, g_pc, g_fb, g_run, g_stop,
                  off, crashed>>
  BY DEF Spawn, globals
<1>3. life[a] = "created" /\ \A b \in Activities : b # a => Idle(b)
  BY <1>1, Alone DEF Idle
<1>4. /\ \A b \in Activities : init'[b] = (IF b = a THEN "view" ELSE init[b])
      /\ \A b \in Activities : emu'[b] = (IF b = a THEN "ready" ELSE emu[b])
  BY <1>1 DEF LInv, TypeOK
<1>5. TypeOK'
  BY <1>1, <1>2 DEF LInv, TypeOK, Ref
<1>6. OneCurrent' /\ NoNullMachine'
  BY <1>2 DEF LInv, OneCurrent, NoNullMachine
<1>7. emu[a] = "none"
  BY <1>1 DEF LInv, Owned
<1>8. Flags'
  BY <1>2, <1>4, <1>7 DEF LInv, Flags
<1>9. Owned'
  BY <1>1, <1>2, <1>3, <1>4 DEF LInv, Owned, Idle
<1>10. Stopping'
  BY <1>1, <1>2, <1>4 DEF LInv, Stopping, Started
<1>11. OwnMachine'
  BY <1>1, <1>2, <1>3, <1>4 DEF LInv, OwnMachine, Idle
<1> QED
  BY <1>5, <1>6, <1>8, <1>9, <1>10, <1>11 DEF LInv

LEMMA NativeFb_Inv ==
  ASSUME LInv, NEW a \in Activities, NativeFb(a)
  PROVE  LInv'
<1>1. /\ init[a] = "view" /\ init' = [init EXCEPT ![a] = "done"]
      /\ bb' = [bb EXCEPT ![a] = g_fb]
  BY DEF NativeFb, At
<1>2. UNCHANGED <<life, ui, tries, emu, cur, lib, g_pc, g_fb, g_run, g_stop,
                  off, crashed>>
  BY DEF NativeFb, globals
<1>3. g_fb = a
  BY <1>1 DEF LInv, OwnMachine
<1>4. /\ \A b \in Activities : init'[b] = (IF b = a THEN "done" ELSE init[b])
      /\ \A b \in Activities : bb'[b] = (IF b = a THEN a ELSE bb[b])
  BY <1>1, <1>3 DEF LInv, TypeOK
<1>5. TypeOK'
  BY <1>1, <1>2 DEF LInv, TypeOK, Ref
<1>6. OneCurrent' /\ Flags' /\ NoNullMachine'
  BY <1>2 DEF LInv, OneCurrent, Flags, NoNullMachine
<1>7. Owned'
  BY <1>1, <1>2, <1>4 DEF LInv, Owned, Idle
<1>8. Stopping'
  BY <1>1, <1>2, <1>4 DEF LInv, Stopping, Started
<1>9. OwnMachine'
  BY <1>2, <1>4 DEF LInv, OwnMachine
<1> QED
  BY <1>5, <1>6, <1>7, <1>8, <1>9 DEF LInv

(* The steps of an emulation thread that is or comes to be in the loop.    *)
LEMMA EmuMove ==
  ASSUME LInv, NEW a \in Activities, NEW here, NEW next,
         emu[a] = here, emu' = [emu EXCEPT ![a] = next],
         here \in {"ready", "test", "step", "vga"},
         next \in {"test", "step", "vga"},
         cur' \in [Activities -> Ref],
         \A b \in Activities : b # a => cur'[b] = cur[b],
         next \in {"step", "vga"} => cur'[a] = a,
         g_run' = TRUE,
         off' \in SUBSET Activities,
         UNCHANGED <<life, ui, tries, init, bb, lib, g_pc, g_fb, g_stop, crashed>>
  PROVE  LInv'
<1>1. life[a] = "created" /\ \A b \in Activities : b # a => Idle(b)
  BY Alone DEF Idle
<1>2. \A b \in Activities : emu'[b] = (IF b = a THEN next ELSE emu[b])
  BY DEF LInv, TypeOK
<1>3. TypeOK'
  <2>1. emu' \in [Activities -> {"none", "ready", "test", "step", "vga", "done"}]
    BY DEF LInv, TypeOK
  <2>2. g_run' \in BOOLEAN
    BY Zenon
  <2> QED
    BY <2>1, <2>2 DEF LInv, TypeOK, Ref
<1>4. OneCurrent'
  BY DEF LInv, OneCurrent
<1>5. NoNullMachine'
  BY DEF LInv, NoNullMachine
<1>6. Flags'
  BY <1>2 DEF LInv, Flags
<1>7. Owned'
  BY <1>1, <1>2 DEF LInv, Owned, Idle
<1>8. ui.at \notin {"clear", "reset", "forget"}
  BY PastWait DEF Idle
<1>9. Stopping'
  BY <1>2, <1>8 DEF LInv, TypeOK, Stopping, Started
<1>10. OwnMachine'
  BY <1>1, <1>2 DEF LInv, OwnMachine, Idle
<1> QED
  BY <1>3, <1>4, <1>5, <1>6, <1>7, <1>9, <1>10 DEF LInv

LEMMA InLoop ==
  ASSUME LInv, NEW a \in Activities, emu[a] \in {"test", "step", "vga"}
  PROVE  g_run = TRUE /\ g_pc = a /\ g_pc # NULL
<1>1. g_run
  BY DEF LInv, Flags
<1>2. g_run = TRUE
  BY <1>1 DEF LInv, TypeOK
<1> QED
  BY <1>2, NullAssumption DEF LInv, OwnMachine

LEMMA EmuSteps_Inv ==
  ASSUME LInv, NEW a \in Activities, EmuSteps(a)
  PROVE  LInv'
<1> USE DEF globals
<1>1. off \in SUBSET Activities /\ cur \in [Activities -> Ref] /\ a \in Ref
  BY DEF LInv, TypeOK, Ref
<1>2. CASE EmuRun(a)
  BY <1>1, <1>2, EmuMove DEF EmuRun
<1>3. CASE EmuEnter(a)
  <2>1. g_run = TRUE /\ g_pc = a
    BY <1>3, InLoop DEF EmuEnter
  <2>2. cur' = [cur EXCEPT ![a] = a]
    BY <1>3, <2>1 DEF EmuEnter
  <2> QED
    BY <1>1, <1>3, <2>1, <2>2, EmuMove, ZenonT(30) DEF EmuEnter
<1>4. CASE EmuStep(a)
  <2>1. g_run = TRUE /\ g_pc = a /\ g_pc # NULL
    BY <1>4, InLoop DEF EmuStep
  <2>2. cur' = [cur EXCEPT ![a] = a]
    BY <1>4, <2>1 DEF EmuStep
  <2>3. cur[a] = a
    BY <1>4 DEF EmuStep, LInv, OwnMachine
  <2>4. off' \in SUBSET Activities
    BY <1>1, <1>4, <2>3 DEF EmuStep
  <2> QED
    BY <1>1, <1>4, <2>1, <2>2, <2>4, EmuMove DEF EmuStep
<1>5. CASE EmuVga(a)
  <2>1. g_run = TRUE
    BY <1>5, InLoop DEF EmuVga
  <2>2. cur' \in [Activities -> Ref] /\ \A b \in Activities : b # a => cur'[b] = cur[b]
    BY <1>1, <1>5 DEF EmuVga, Ref
  <2> QED
    BY <1>1, <1>5, <2>1, <2>2, EmuMove DEF EmuVga
<1>6. CASE EmuExit(a)
  <2>1. /\ emu[a] = "test" /\ emu' = [emu EXCEPT ![a] = "done"]
        /\ g_run' = FALSE
    BY <1>6 DEF EmuExit
  <2>2. UNCHANGED <<life, ui, tries, init, cur, bb, lib, g_pc, g_fb, g_stop,
                    off, crashed>>
    BY <1>6 DEF EmuExit
  <2>3. life[a] = "created" /\ \A b \in Activities : b # a => Idle(b)
    BY <2>1, Alone DEF Idle
  <2>4. \A b \in Activities : emu'[b] = (IF b = a THEN "done" ELSE emu[b])
    BY <2>1 DEF LInv, TypeOK
  <2>5. TypeOK'
    <3>1. g_run' \in BOOLEAN
      BY <2>1, Zenon
    <3>2. emu' \in [Activities -> {"none", "ready", "test", "step", "vga", "done"}]
      BY <2>1 DEF LInv, TypeOK
    <3> QED
      BY <2>2, <3>1, <3>2 DEF LInv, TypeOK, Ref
  <2>6. OneCurrent' /\ NoNullMachine'
    BY <2>2 DEF LInv, OneCurrent, NoNullMachine
  <2>7. Flags'
    BY <2>1, <2>2, <2>3, <2>4 DEF LInv, Flags, Idle
  <2>8. Owned'
    BY <2>1, <2>2, <2>4 DEF LInv, Owned, Idle
  <2>9. Stopping'
    BY <2>1, <2>2, <2>4 DEF LInv, Stopping, Started
  <2>10. OwnMachine'
    BY <2>2, <2>4 DEF LInv, OwnMachine
  <2> QED
    BY <2>5, <2>6, <2>7, <2>8, <2>9, <2>10 DEF LInv
<1> QED
  BY <1>2, <1>3, <1>4, <1>5, <1>6 DEF EmuSteps

LEMMA NextInv ==
  ASSUME LInv, Orderly, [Next]_vars
  PROVE  LInv'
<1>1. ASSUME NEW a \in Activities, OnCreate(a) \/ OnDestroy(a) \/ NativeKey(a)
      PROVE  LInv'
  <2>1. CASE NativeKey(a)
    <3>1. ~lib /\ UNCHANGED <<threads, globals, off>> /\ crashed'
      BY <2>1 DEF NativeKey, Die
    <3> QED
      BY <3>1 DEF LInv, TypeOK, OneCurrent, Owned, Idle, Flags, Stopping, Started,
         OwnMachine, NoNullMachine, threads, globals
  <2> QED
    BY <1>1, <2>1, OnCreate_Inv, OnDestroy_Inv DEF Orderly
<1>2. CASE UiSteps
  BY <1>2, StopWaited_Inv, StopClear_Inv, StopReset_Inv, StopForget_Inv
     DEF UiSteps, StopWait, Orderly
<1>3. ASSUME NEW a \in Activities, InitSteps(a) PROVE LInv'
  <2>1. CASE SpawnFails(a)
    BY <2>1, InitMove DEF SpawnFails, At
  <2>2. CASE InitFails(a)
    <3>1. CASE At(a, "load", "failed") /\ UNCHANGED g_fb
      BY <2>2, <3>1, InitMove DEF InitFails, At, globals
    <3>2. CASE At(a, "fb", "failed") /\ g_fb' \in {g_fb, NULL}
      BY <2>2, <3>2, InitFailed DEF InitFails
    <3> QED
      BY <2>2, <3>1, <3>2 DEF InitFails
  <2>3. CASE PcNewFails(a)
    BY <2>3, InitFailed DEF PcNewFails
  <2> QED
    BY <1>3, <2>1, <2>2, <2>3, LoadLibrary_Inv, AllocFb_Inv, PcNew_Inv, HookProbe_Inv,
       Spawn_Inv, NativeFb_Inv DEF InitSteps
<1>4. ASSUME NEW a \in Activities, EmuSteps(a) PROVE LInv'
  BY <1>4, EmuSteps_Inv
<1>5. CASE UNCHANGED vars
  BY <1>5 DEF LInv, TypeOK, OneCurrent, Owned, Idle, Flags, Stopping, Started,
     OwnMachine, NoNullMachine, vars, threads, globals
<1> QED
  BY <1>1, <1>2, <1>3, <1>4, <1>5 DEF Next

LEMMA Invariance == Orderly => (Spec => []LInv)
<1> SUFFICES ASSUME Orderly PROVE Spec => []LInv
  OBVIOUS
<1>1. Init => LInv
  BY InitInv
<1>2. LInv /\ [Next]_vars => LInv'
  BY NextInv
<1> QED
  BY <1>1, <1>2, PTL DEF Spec

(* However many machines are started and stopped, however the threads      *)
(* interleave and whatever fails in nativeInit, no thread follows a null   *)
(* machine when the user leaves only started machines and emu_loop notices *)
(* g_stop in time: only a key before the library is loaded kills.          *)
THEOREM OrderlySurvives == Orderly => (Spec => []NoNullMachine)
<1> SUFFICES ASSUME Orderly PROVE Spec => []NoNullMachine
  OBVIOUS
<1>1. LInv => NoNullMachine
  BY DEF LInv
<1> QED
  BY <1>1, Invariance, PTL

(* Under the same assumption a machine whose activity is gone is left      *)
(* alone by every thread.                                                  *)
THEOREM OrderlyQuiet == Orderly => (Spec => []QuietAfterPowerOff)
<1> SUFFICES ASSUME Orderly PROVE Spec => []QuietAfterPowerOff
  OBVIOUS
<1>1. LInv => QuietAfterPowerOff
  BY DEF LInv, Owned, Idle, OwnMachine, QuietAfterPowerOff, Working
<1> QED
  BY <1>1, Invariance, PTL

(* And at most one thread is ever inside the emulator, on its own machine. *)
THEOREM OrderlyOneStepper == Orderly => (Spec => []OneStepper)
<1> SUFFICES ASSUME Orderly PROVE Spec => []OneStepper
  OBVIOUS
<1>1. LInv => OneStepper
  BY DEF LInv, OwnMachine, OneStepper, Working
<1> QED
  BY <1>1, Invariance, PTL

-----------------------------------------------------------------------------
(* The list of machines. *)
Images == {None, Included} \cup {User(f) : f \in UserFiles}
Disks  == Images \cup {Own(n) : n \in Nat}
Machine == [fda : Images, hda : Disks, cda : Images, boot : Boots \cup {0}, builtin : BOOLEAN]

(* The list begins with the built-in machine, so that it is never empty and *)
(* an empty file can only be one that a save has opened.                    *)
Lists == {list \in Seq(Machine) : Len(list) > 0 /\ list[1].builtin}

VTypeOK ==
  /\ screen \in {"resume", "list", "form", "saving", "running"}
  /\ mine \in Lists
  /\ form \in [vm : Machine, idx : Nat]
  /\ running \in Machine
  /\ created \in Nat

(* The file, and what is shown of it, against the list of the user. *)
Kept ==
  /\ screen = "saving" => writing = mine /\ json = <<>>
  /\ screen = "resume" => json = mine \/ mine = <<BuiltIn>>
  /\ json = mine \/ json = <<>>
  /\ screen = "list" => vms = mine
  /\ MachinesKept

Owners(list) ==
  /\ \A i \in DOMAIN list, n \in Nat : list[i].hda = Own(n) => Own(n) \in files
  /\ \A i, j \in DOMAIN list, n \in Nat :
       list[i].hda = Own(n) /\ list[j].hda = Own(n) => i = j

(* A created disk has one owner, or none; the next one is a new one. *)
DisksOwned ==
  /\ Owners(mine)
  /\ \A n \in Nat : Own(n) \in files => n <= created
  /\ screen = "form" => \A n \in Nat : form.vm.hda = Own(n) =>
       /\ Own(n) \in files
       /\ \A j \in DOMAIN mine : mine[j].hda = Own(n) => j = form.idx

Equipped == screen = "running" => drives = Attached(running)

VInv == VTypeOK /\ Kept /\ DisksOwned /\ Equipped

-----------------------------------------------------------------------------
(* The paths are told apart by what they begin with. *)
LEMMA Apart ==
  /\ Included # None
  /\ \A f \in UserFiles : User(f) # None /\ User(f)[1] = "user"
  /\ \A n \in Nat : Own(n) # None /\ Own(n) # Included /\ Own(n)[1] = "own"
  /\ \A n \in Nat : Own(n) \notin Images
  /\ \A n, m \in Nat : Own(n) = Own(m) => n = m
<1>1. Included # None /\ \A f : User(f) # None
  BY DEF Included, None, User
<1>2. \A f : User(f)[1] = "user" /\ Len(User(f)) = 2
  BY DEF User
<1>3. \A n : Own(n)[1] = "own" /\ Own(n)[2] = n /\ Len(Own(n)) = 2
  BY DEF Own
<1>4. Len(None) = 0 /\ Len(Included) = 1
  BY DEF None, Included
<1>. QED
  BY <1>1, <1>2, <1>3, <1>4 DEF Images

(* The machines of the start. *)
LEMMA Built == Blank \in Machine /\ BuiltIn \in Machine /\ <<BuiltIn>> \in Lists
<1>1. Blank \in Machine /\ BuiltIn \in Machine /\ BuiltIn.builtin
  BY DEF Blank, BuiltIn, Machine, Images, Disks
<1>. QED
  BY <1>1 DEF Lists

(* What RemoveAt leaves. *)
LEMMA Removed ==
  ASSUME NEW list \in Seq(Machine), NEW i \in DOMAIN list
  PROVE  /\ RemoveAt(list, i) \in Seq(Machine)
         /\ Len(RemoveAt(list, i)) = Len(list) - 1
         /\ \A k \in 1 .. Len(list) - 1 :
              RemoveAt(list, i)[k] = IF k < i THEN list[k] ELSE list[k + 1]
<1>. DEFINE front == SubSeq(list, 1, i - 1)
            back == SubSeq(list, i + 1, Len(list))
<1>1. i \in 1 .. Len(list) /\ Len(list) \in Nat
  OBVIOUS
<1>2. /\ front \in Seq(Machine) /\ Len(front) = i - 1
      /\ \A k \in 1 .. i - 1 : front[k] = list[k]
  BY <1>1, SubSeqProperties
<1>3. /\ back \in Seq(Machine) /\ Len(back) = Len(list) - i
      /\ \A k \in 1 .. Len(list) - i : back[k] = list[i + k]
  <2>1. \A k \in i + 1 .. Len(list) : list[k] \in Machine
    BY <1>1
  <2>. QED
    BY <1>1, <2>1, SubSeqProperties
<1>4. RemoveAt(list, i) = front \o back
  BY DEF RemoveAt
<1>. HIDE DEF front, back
<1>5. /\ front \o back \in Seq(Machine)
      /\ Len(front \o back) = Len(front) + Len(back)
      /\ \A k \in 1 .. Len(front) + Len(back) :
           (front \o back)[k] = IF k <= Len(front) THEN front[k] ELSE back[k - Len(front)]
  BY <1>2, <1>3, ConcatProperties
<1>6. ASSUME NEW k \in 1 .. Len(list) - 1
      PROVE  (front \o back)[k] = IF k < i THEN list[k] ELSE list[k + 1]
  <2>1. CASE k < i
    BY <1>1, <1>2, <1>3, <1>5, <2>1, SMTT(30)
  <2>2. CASE ~(k < i)
    <3>1. /\ k - (i - 1) \in 1 .. Len(list) - i
          /\ i + (k - (i - 1)) = k + 1
      BY <1>1, <2>2
    <3>3. Len(front) = i - 1 /\ Len(back) = Len(list) - i
      BY <1>2, <1>3
    <3>4. k \in 1 .. Len(front) + Len(back)
      BY <1>1, <3>3
    <3>5. ~(k <= Len(front))
      BY <1>1, <3>3, <2>2
    <3>2. (front \o back)[k] = back[k - (i - 1)]
      BY <1>2, <1>5, <3>1, <3>4, <3>5
    <3>. QED
      BY <1>3, <3>1, <3>2, <2>2
  <2>. QED
    BY <2>1, <2>2
<1>7. Len(front \o back) = Len(list) - 1
  BY <1>1, <1>2, <1>3, <1>5
<1>. QED
  BY <1>4, <1>5, <1>6, <1>7

(* What the form adds to a list, or puts in the place of a machine of it.   *)
Placed(list) ==
  IF form.idx \in 1 .. Len(list)
  THEN [list EXCEPT ![form.idx] = [form.vm EXCEPT !.builtin = list[form.idx].builtin]]
  ELSE Append(list, form.vm)

LEMMA PlacedIsList ==
  ASSUME NEW list \in Lists, form \in [vm : Machine, idx : Nat]
  PROVE  /\ Placed(list) \in Lists
         /\ \A k \in DOMAIN Placed(list) :
              \/ k \in DOMAIN list /\ k # form.idx /\ Placed(list)[k] = list[k]
              \/ Placed(list)[k].hda = form.vm.hda /\ (k = form.idx \/ k \notin DOMAIN list)
         /\ \A k, l \in DOMAIN Placed(list) : k \notin DOMAIN list /\ l \notin DOMAIN list => k = l
         /\ form.idx \in DOMAIN list => DOMAIN Placed(list) = DOMAIN list
<1>1. list \in Seq(Machine) /\ Len(list) \in Nat \ {0} /\ list[1].builtin /\ form.vm \in Machine
  BY DEF Lists
<1>2. CASE form.idx \in 1 .. Len(list)
  <2>. DEFINE new == [form.vm EXCEPT !.builtin = list[form.idx].builtin]
  <2>1. list[form.idx].builtin \in BOOLEAN
    <3>1. list[form.idx] \in Machine
      BY <1>1, <1>2
    <3>. QED
      BY <3>1, Zenon DEF Machine
  <2>2. new \in Machine /\ new.builtin = list[form.idx].builtin /\ new.hda = form.vm.hda
    BY <1>1, <2>1 DEF Machine
  <2>3. Placed(list) = [list EXCEPT ![form.idx] = new]
    BY <1>2 DEF Placed
  <2>. HIDE DEF new
  <2>4. /\ Placed(list) \in Seq(Machine) /\ Len(Placed(list)) = Len(list)
        /\ \A k \in 1 .. Len(list) : Placed(list)[k] = IF k = form.idx THEN new ELSE list[k]
    BY <1>1, <1>2, <2>2, <2>3, ExceptSeq
  <2>5. Placed(list)[1].builtin = list[1].builtin
    <3>1. Placed(list)[1] = IF 1 = form.idx THEN new ELSE list[1]
      BY <1>1, <2>4
    <3>. QED
      BY <2>2, <3>1
  <2>. QED
    BY <1>1, <1>2, <2>2, <2>4, <2>5 DEF Lists
<1>3. CASE form.idx \notin 1 .. Len(list)
  <2>1. Placed(list) = Append(list, form.vm)
    BY <1>3 DEF Placed
  <2>2. /\ Placed(list) \in Seq(Machine) /\ Len(Placed(list)) = Len(list) + 1
        /\ \A k \in 1 .. Len(list) : Placed(list)[k] = list[k]
        /\ Placed(list)[Len(list) + 1] = form.vm
    BY <1>1, <2>1, AppendProperties
  <2>. QED
    BY <1>1, <1>3, <2>2 DEF Lists
<1>. QED
  BY <1>2, <1>3

-----------------------------------------------------------------------------
(* The list that a save is given is the one that the file then holds; only *)
(* while the file is open, and after a kill then, it reads as an empty one. *)
LEMMA InitHolds == VmInit => VInv
<1>. SUFFICES ASSUME VmInit PROVE VInv
  OBVIOUS
<1>1. VTypeOK
  BY Built DEF VmInit, VTypeOK, NoForm
<1>2. Kept
  BY DEF VmInit, Kept, MachinesKept
<1>3. mine = <<BuiltIn>> /\ BuiltIn.hda = None
  BY DEF VmInit, BuiltIn, Blank
<1>4. \A n \in Nat : Own(n) \notin files
  BY Apart DEF VmInit, Images
<1>5. DisksOwned
  BY <1>3, <1>4, Apart DEF DisksOwned, Owners, VmInit
<1>. QED
  BY <1>1, <1>2, <1>5 DEF VInv, Equipped, VmInit

(* With the list, the disks and the form as they are, the owners are too.   *)
LEMMA OwnedStays ==
  ASSUME DisksOwned, UNCHANGED <<files, created, mine>>,
         screen' = "form" => screen = "form" /\ form'.vm.hda = form.vm.hda /\ form'.idx = form.idx
  PROVE  DisksOwned'
BY DEF DisksOwned, Owners

LEMMA SaveKeeps == ASSUME VInv, WriteList PROVE VInv'
<1>1. VTypeOK'
  BY DEF VInv, VTypeOK, WriteList
<1>2. Kept'
  BY DEF VInv, Kept, WriteList, MachinesKept
<1>3. DisksOwned'
  BY OwnedStays DEF VInv, WriteList
<1>. QED
  BY <1>1, <1>2, <1>3 DEF VInv, Equipped, WriteList

LEMMA ResumeKeeps == ASSUME VInv, Resume PROVE VInv'
<1>1. VTypeOK'
  BY DEF VInv, VTypeOK, Resume, Save
<1>2. Kept'
  <2>1. mine # <<>>
    BY DEF VInv, VTypeOK, Lists
  <2>2. CASE json = <<>>
    BY <2>1, <2>2 DEF VInv, Kept, Resume, Save, Load, MachinesKept
  <2>3. CASE json # <<>>
    BY <2>3 DEF VInv, Kept, Resume, Save, Load, MachinesKept
  <2>. QED
    BY <2>2, <2>3
<1>3. DisksOwned'
  BY OwnedStays DEF VInv, Resume, Save
<1>4. screen' # "running"
  BY DEF Resume, Save
<1>. QED
  BY <1>1, <1>2, <1>3, <1>4 DEF VInv, Equipped

(* The screens that only show something else. *)
LEMMA LeavingKeeps ==
  ASSUME VInv, LeaveForm \/ LeaveMachine \/ \E i \in 1 .. MaxMachines + 1 : Select(i)
  PROVE  VInv'
<1>1. VTypeOK'
  BY Built DEF VInv, VTypeOK, LeaveForm, LeaveMachine, Select, NoForm
<1>2. Kept'
  BY DEF VInv, Kept, LeaveForm, LeaveMachine, Select, MachinesKept
<1>3. DisksOwned' /\ screen' # "running"
  BY OwnedStays DEF VInv, LeaveForm, LeaveMachine, Select
<1>. QED
  BY <1>1, <1>2, <1>3 DEF VInv, Equipped

LEMMA StartKeeps == ASSUME VInv, Start PROVE VInv'
<1>1. VTypeOK'
  <2>1. vms = mine /\ sel \in DOMAIN mine /\ mine \in Seq(Machine)
    BY DEF VInv, VTypeOK, Kept, Lists, Start
  <2>2. vms[sel] \in Machine
    BY <2>1
  <2>. QED
    BY <2>2 DEF VInv, VTypeOK, Start
<1>2. Kept'
  BY DEF VInv, Kept, Start, MachinesKept
<1>3. DisksOwned'
  BY OwnedStays DEF VInv, Start
<1>4. Equipped'
  <2>1. running' = vms[sel] /\ drives' = Attached(vms[sel])
    BY DEF Start
  <2>2. Attached(running)' = Attached(running')
    BY DEF Attached, Put, Floppy, HdSlot, CdSlot
  <2>. QED
    BY <2>1, <2>2 DEF Equipped
<1>. QED
  BY <1>1, <1>2, <1>3, <1>4 DEF VInv

LEMMA KillKeeps == ASSUME VInv, Kill PROVE VInv'
<1>1. VTypeOK'
  BY Built DEF VInv, VTypeOK, Kill, NoForm
<1>2. Kept'
  BY DEF VInv, VTypeOK, Kept, Kill, MachinesKept
<1>3. DisksOwned'
  <2>1. BuiltIn.hda = None /\ \A i \in DOMAIN <<BuiltIn>> : <<BuiltIn>>[i] = BuiltIn
    BY DEF BuiltIn, Blank
  <2>2. CASE screen = "saving"
    BY <2>1, <2>2, Apart DEF VInv, DisksOwned, Owners, Kill
  <2>3. CASE screen # "saving"
    BY <2>3, OwnedStays DEF VInv, Kill
  <2>. QED
    BY <2>2, <2>3
<1>. QED
  BY <1>1, <1>2, <1>3 DEF VInv, Equipped, Kill

-----------------------------------------------------------------------------
(* The form shows an own disk only of the machine that it edits. *)
LEMMA OpenKeeps ==
  ASSUME VInv, NEW i \in 0 .. MaxMachines + 1, OpenForm(i) PROVE VInv'
<1>1. json = mine /\ vms = mine /\ mine \in Seq(Machine)
  BY DEF VInv, VTypeOK, Kept, MachinesKept, OpenForm, Lists
<1>2. \/ i \in DOMAIN mine /\ form' = [vm |-> mine[i], idx |-> i]
      \/ form' = NoForm
  BY <1>1 DEF OpenForm, Load
<1>3. NoForm \in [vm : Machine, idx : Nat]
  BY Built DEF NoForm
<1>4. form' \in [vm : Machine, idx : Nat]
  BY <1>1, <1>2, <1>3
<1>5. VTypeOK'
  BY <1>4 DEF VInv, VTypeOK, OpenForm
<1>6. Kept'
  BY <1>1 DEF VInv, Kept, OpenForm, MachinesKept
<1>7. DisksOwned'
  <2>1. CASE i \in DOMAIN mine /\ form' = [vm |-> mine[i], idx |-> i]
    BY <2>1 DEF VInv, DisksOwned, Owners, OpenForm
  <2>2. CASE form' = NoForm
    <3>1. form'.vm.hda = None
      BY <2>2 DEF NoForm, Blank
    <3>. QED
      BY <3>1, Apart DEF VInv, DisksOwned, Owners, OpenForm
  <2>. QED
    BY <1>2, <2>1, <2>2
<1>. QED
  BY <1>5, <1>6, <1>7 DEF VInv, Equipped, OpenForm

(* What is entered changes nothing that was saved. *)
LEMMA EnterKeeps ==
  ASSUME VInv, NEW vm \in Machine, Enter(vm), created' \in Nat
  PROVE  /\ VTypeOK' /\ Kept' /\ Equipped'
         /\ mine' = mine /\ screen = "form" /\ form'.vm = vm /\ form'.idx = form.idx
<1>1. form \in [vm : Machine, idx : Nat] /\ form' = [form EXCEPT !.vm = vm]
  BY DEF VInv, VTypeOK, Enter
<1>2. form' \in [vm : Machine, idx : Nat] /\ form'.vm = vm /\ form'.idx = form.idx
  BY <1>1
<1>3. VTypeOK'
  BY <1>2 DEF VInv, VTypeOK, Enter
<1>4. Kept'
  BY DEF VInv, Kept, Enter, MachinesKept
<1>. QED
  BY <1>2, <1>3, <1>4 DEF VInv, Equipped, Enter

LEMMA ChooseKeeps ==
  ASSUME VInv,
         \/ \E device \in {"fda", "hda", "cda"}, f \in UserFiles : Pick(device, f)
         \/ \E b \in Boots : ChooseBoot(b)
  PROVE  VInv'
<1>1. form.vm \in Machine
  BY DEF VInv, VTypeOK
<1>2. ASSUME NEW vm \in Machine, Enter(vm), UNCHANGED <<files, created>>,
             vm.hda = form.vm.hda \/ vm.hda \in Images
      PROVE  VInv'
  <2>1. /\ VTypeOK' /\ Kept' /\ Equipped' /\ mine' = mine /\ screen = "form"
        /\ form'.vm = vm /\ form'.idx = form.idx
    BY <1>2, EnterKeeps DEF VInv, VTypeOK
  <2>2. DisksOwned'
    BY <1>2, <2>1, Apart DEF VInv, DisksOwned, Owners
  <2>. QED
    BY <2>1, <2>2 DEF VInv
<1>3. ASSUME NEW device \in {"fda", "hda", "cda"}, NEW f \in UserFiles, Pick(device, f)
      PROVE  VInv'
  <2>. DEFINE vm == [form.vm EXCEPT ![device] = User(f)]
  <2>1. User(f) \in Images /\ User(f) \in Disks
    BY DEF Images, Disks
  <2>2. vm \in Machine /\ (vm.hda = form.vm.hda \/ vm.hda = User(f))
    BY <1>1, <2>1 DEF Machine
  <2>. QED
    BY <1>2, <1>3, <2>1, <2>2 DEF Pick
<1>4. ASSUME NEW b \in Boots, ChooseBoot(b) PROVE VInv'
  <2>. DEFINE vm == [form.vm EXCEPT !.boot = b]
  <2>1. vm \in Machine /\ vm.hda = form.vm.hda
    BY <1>1 DEF Machine
  <2>. QED
    BY <1>2, <1>4, <2>1 DEF ChooseBoot
<1>. QED
  BY <1>3, <1>4

(* A disk that is created is no other machine's. *)
LEMMA CreateKeeps == ASSUME VInv, CreateDisk PROVE VInv'
<1>. DEFINE vm == [form.vm EXCEPT !.hda = Own(created + 1)]
<1>1. form.vm \in Machine /\ created \in Nat /\ created' = created + 1
  BY DEF VInv, VTypeOK, CreateDisk
<1>2. vm \in Machine /\ vm.hda = Own(created + 1)
  BY <1>1 DEF Machine, Disks
<1>3. /\ VTypeOK' /\ Kept' /\ Equipped' /\ mine' = mine /\ screen = "form"
      /\ form'.vm = vm /\ form'.idx = form.idx
  BY <1>1, <1>2, EnterKeeps DEF CreateDisk
<1>4. Own(created + 1) \notin files /\ files' = files \cup {Own(created + 1)}
  BY <1>1 DEF VInv, DisksOwned, CreateDisk
<1>5. Owners(mine)'
  BY <1>3, <1>4 DEF VInv, DisksOwned, Owners
<1>6. \A n \in Nat : Own(n) \in files' => n <= created'
  BY <1>1, <1>4, Apart DEF VInv, DisksOwned
<1>7. ASSUME NEW n \in Nat, form'.vm.hda = Own(n)
      PROVE  Own(n) \in files' /\ \A j \in DOMAIN mine : mine[j].hda # Own(n)
  <2>1. n = created + 1
    BY <1>1, <1>2, <1>3, <1>7, Apart
  <2>. QED
    BY <1>4, <2>1 DEF VInv, DisksOwned, Owners
<1>8. DisksOwned'
  BY <1>3, <1>5, <1>6, <1>7 DEF DisksOwned
<1>. QED
  BY <1>3, <1>8 DEF VInv

LEMMA SaveFormKeeps == ASSUME VInv, SaveForm PROVE VInv'
<1>1. /\ json = mine /\ mine \in Lists /\ form \in [vm : Machine, idx : Nat]
      /\ screen = "form"
  BY DEF VInv, VTypeOK, Kept, MachinesKept, SaveForm
<1>2. /\ mine' = Placed(mine) /\ writing' = Placed(json)
      /\ json' = <<>> /\ screen' = "saving" /\ form' = NoForm
  BY DEF SaveForm, Save, Placed, Load
<1>3. VTypeOK'
  <2>1. Placed(mine) \in Lists /\ NoForm \in [vm : Machine, idx : Nat]
    BY <1>1, PlacedIsList, Built DEF NoForm
  <2>. QED
    BY <1>2, <2>1 DEF VInv, VTypeOK, SaveForm
<1>4. Kept'
  BY <1>1, <1>2 DEF Kept, MachinesKept
<1>5. Owners(mine)'
  <2>. DEFINE new == Placed(mine)
  <2>1. /\ \A k \in DOMAIN new :
             \/ k \in DOMAIN mine /\ k # form.idx /\ new[k] = mine[k]
             \/ new[k].hda = form.vm.hda /\ (k = form.idx \/ k \notin DOMAIN mine)
        /\ \A k, l \in DOMAIN new : k \notin DOMAIN mine /\ l \notin DOMAIN mine => k = l
        /\ form.idx \in DOMAIN mine => DOMAIN new = DOMAIN mine
    BY <1>1, PlacedIsList
  <2>. HIDE DEF new
  <2>2. /\ Owners(mine)
        /\ \A n \in Nat : form.vm.hda = Own(n) =>
             Own(n) \in files /\ \A j \in DOMAIN mine : mine[j].hda = Own(n) => j = form.idx
    BY <1>1 DEF VInv, DisksOwned
  <2>3. ASSUME NEW k \in DOMAIN new, NEW n \in Nat, new[k].hda = Own(n)
        PROVE  Own(n) \in files
    BY <2>1, <2>2, <2>3 DEF Owners
  <2>4. ASSUME NEW k \in DOMAIN new, NEW l \in DOMAIN new, NEW n \in Nat,
               new[k].hda = Own(n), new[l].hda = Own(n)
        PROVE  k = l
    <3>1. CASE /\ k \in DOMAIN mine /\ k # form.idx /\ new[k] = mine[k]
               /\ l \in DOMAIN mine /\ l # form.idx /\ new[l] = mine[l]
      BY <2>2, <2>4, <3>1 DEF Owners
    <3>2. CASE /\ k \in DOMAIN mine /\ k # form.idx /\ new[k] = mine[k]
               /\ new[l].hda = form.vm.hda
      BY <2>2, <2>4, <3>2
    <3>3. CASE /\ l \in DOMAIN mine /\ l # form.idx /\ new[l] = mine[l]
               /\ new[k].hda = form.vm.hda
      BY <2>2, <2>4, <3>3
    <3>4. CASE /\ k = form.idx \/ k \notin DOMAIN mine
               /\ l = form.idx \/ l \notin DOMAIN mine
      BY <2>1, <3>4
    <3>. QED
      BY <2>1, <3>1, <3>2, <3>3, <3>4
  <2>5. files' = files /\ mine' = new
    BY <1>2 DEF SaveForm, new
  <2>. QED
    BY <2>3, <2>4, <2>5 DEF Owners
<1>6. DisksOwned'
  BY <1>2, <1>5 DEF VInv, DisksOwned, SaveForm
<1>. QED
  BY <1>2, <1>3, <1>4, <1>6 DEF VInv, Equipped

(* A deletion takes the first machine never, and no disk of another one.    *)
LEMMA DeleteKeeps ==
  ASSUME VInv, NEW i \in 1 .. MaxMachines + 1, Delete(i) PROVE VInv'
<1>. DEFINE left == RemoveAt(mine, i)
<1>1. /\ vms = mine /\ mine \in Seq(Machine) /\ Len(mine) \in Nat \ {0} /\ mine[1].builtin
      /\ i \in DOMAIN mine /\ ~mine[i].builtin
  BY DEF VInv, VTypeOK, Kept, Lists, Delete
<1>2. i \in 2 .. Len(mine)
  <2>1. i \in 1 .. Len(mine) /\ i # 1
    BY <1>1
  <2>. QED
    BY <1>1, <2>1
<1>3. /\ left \in Seq(Machine) /\ Len(left) = Len(mine) - 1
      /\ \A k \in 1 .. Len(mine) - 1 : left[k] = IF k < i THEN mine[k] ELSE mine[k + 1]
  BY <1>1, Removed
<1>4. /\ mine' = left /\ writing' = left /\ vms' = left /\ json' = <<>>
      /\ screen' = "saving" /\ files' = files \ DeletedWith(i)
      /\ UNCHANGED <<created, form, drives, running>>
  BY <1>1 DEF Delete, Save
<1>. HIDE DEF left
<1>5. left \in Lists
  <2>1. Len(left) > 0 /\ left[1] = mine[1]
    BY <1>1, <1>2, <1>3
  <2>. QED
    BY <1>1, <1>3, <2>1 DEF Lists
<1>6. VTypeOK'
  BY <1>4, <1>5 DEF VInv, VTypeOK
<1>7. Kept'
  BY <1>4 DEF Kept, MachinesKept
<1>8. ASSUME NEW n \in Nat, NEW k \in DOMAIN mine, k # i, mine[k].hda = Own(n)
      PROVE  Own(n) \in files'
  <2>1. mine[i] \in Machine /\ Owners(mine)
    BY <1>1 DEF VInv, DisksOwned
  <2>2. mine[i].fda # Own(n) /\ mine[i].cda # Own(n)
    BY <2>1, Apart DEF Machine
  <2>3. mine[i].hda # Own(n)
    BY <1>1, <1>8, <2>1 DEF Owners
  <2>4. Own(n) \notin DeletedWith(i)
    BY <1>1, <2>2, <2>3 DEF DeletedWith
  <2>. QED
    BY <1>4, <1>8, <2>1, <2>4 DEF Owners
<1>9. Owners(mine)'
  <2>. DEFINE was(k) == IF k < i THEN k ELSE k + 1
  <2>1. ASSUME NEW k \in DOMAIN left
        PROVE  was(k) \in DOMAIN mine /\ was(k) # i /\ left[k] = mine[was(k)]
    <3>1. k \in 1 .. Len(mine) - 1
      BY <1>1, <1>3, <2>1
    <3>2. was(k) \in 1 .. Len(mine) /\ was(k) # i
      BY <1>1, <1>2, <3>1
    <3>. QED
      BY <1>1, <1>3, <3>1, <3>2
  <2>2. ASSUME NEW k \in DOMAIN left, NEW l \in DOMAIN left, was(k) = was(l)
        PROVE  k = l
    <3>1. k \in Int /\ l \in Int /\ i \in Int
      BY <1>2, <1>3
    <3>. QED
      BY <2>2, <3>1
  <2>. HIDE DEF was
  <2>3. Owners(mine)
    BY DEF VInv, DisksOwned
  <2>4. ASSUME NEW k \in DOMAIN left, NEW n \in Nat, left[k].hda = Own(n)
        PROVE  Own(n) \in files'
    BY <1>8, <2>1, <2>4
  <2>5. ASSUME NEW k \in DOMAIN left, NEW l \in DOMAIN left, NEW n \in Nat,
               left[k].hda = Own(n), left[l].hda = Own(n)
        PROVE  k = l
    <3>1. was(k) = was(l)
      BY <2>1, <2>3, <2>5 DEF Owners
    <3>. QED
      BY <2>2, <3>1
  <2>. QED
    BY <1>4, <2>4, <2>5 DEF Owners
<1>10. DisksOwned'
  BY <1>4, <1>9 DEF VInv, DisksOwned
<1>. QED
  BY <1>4, <1>6, <1>7, <1>10 DEF VInv, Equipped

-----------------------------------------------------------------------------
LEMMA StepHolds == VInv /\ [VmNext]_vmVars => VInv'
<1>. SUFFICES ASSUME VInv, [VmNext]_vmVars PROVE VInv'
  OBVIOUS
<1>1. CASE UNCHANGED vmVars
  BY <1>1 DEF VInv, VTypeOK, Kept, MachinesKept, DisksOwned, Owners, Equipped, vmVars,
              Attached, Put, Floppy, HdSlot, CdSlot
<1>2. CASE VmNext
  BY <1>2, SaveKeeps, ResumeKeeps, LeavingKeeps, StartKeeps, KillKeeps, OpenKeeps,
     ChooseKeeps, CreateKeeps, SaveFormKeeps, DeleteKeeps DEF VmNext
<1>. QED
  BY <1>1, <1>2

LEMMA Inductive == VmSpec => []VInv
BY InitHolds, StepHolds, PTL DEF VmSpec

(* Whatever the user does in whatever order, and wherever the process is   *)
(* killed, the screens work on a file that holds the list of the user      *)
(* (VM.java, LauncherActivity, CreateVmActivity).                          *)
THEOREM ListIsKept == VmSpec => []MachinesKept
<1>1. VInv => MachinesKept
  BY DEF VInv, Kept
<1>. QED
  BY <1>1, Inductive, PTL

(* A deletion or an edit takes away no disk that another machine has       *)
(* (deleteOwnDisks of LauncherActivity, createDisk of CreateVmActivity).   *)
THEOREM DisksStay == VmSpec => []OwnDisksStay
<1>1. VInv => OwnDisksStay
  BY DEF VInv, Kept, DisksOwned, Owners, OwnDisksStay
<1>. QED
  BY <1>1, Inductive, PTL

(* Each image of the machine gets a slot of its own, and the boot device   *)
(* the first one (MainActivity, pc.c).                                     *)
THEOREM SlotsKept == VmSpec => []SlotsAsPromised
<1>1. ASSUME VInv, screen = "running" PROVE SlotsAsPromised
  <2>1. drives = Attached(running) /\ running \in Machine
    BY <1>1 DEF VInv, VTypeOK, Equipped
  <2>. DEFINE vm == running
  <2>2. /\ drives.fda = Floppy(vm)
        /\ drives.slot = [s \in 0 .. 3 |->
             IF vm.cda # None /\ s = CdSlot(vm) THEN vm.cda
             ELSE IF vm.hda # None /\ s = HdSlot(vm) THEN vm.hda ELSE None]
        /\ drives.cd = [s \in 0 .. 3 |-> vm.cda # None /\ s = CdSlot(vm)]
    <3>1. HdSlot(vm) \in 0 .. 3 /\ CdSlot(vm) \in 0 .. 3
      BY DEF HdSlot, CdSlot
    <3>. HIDE DEF vm
    <3>2. drives = Attached(vm)
      BY <2>1 DEF vm
    <3>. QED
      BY <3>1, <3>2 DEF Attached, Put, NoDrives
  <2>3. vm.hda # None /\ vm.cda # None => HdSlot(vm) # CdSlot(vm)
    BY DEF HdSlot, CdSlot
  <2>4. HdSlot(vm) \in 0 .. 3 /\ CdSlot(vm) \in 0 .. 3
    BY DEF HdSlot, CdSlot
  <2>. HIDE DEF vm
  <2>5. ASSUME vm.hda # None
        PROVE  \E s \in 0 .. 3 : drives.slot[s] = vm.hda /\ drives.cd[s] = FALSE
    <3>1. ~(vm.cda # None /\ HdSlot(vm) = CdSlot(vm))
      BY <2>3, <2>5
    <3>2. drives.slot[HdSlot(vm)] = vm.hda
      BY <2>2, <2>4, <2>5, <3>1
    <3>3. drives.cd[HdSlot(vm)] = (vm.cda # None /\ HdSlot(vm) = CdSlot(vm))
      BY <2>2, <2>4, Zenon
    <3>4. drives.cd[HdSlot(vm)] = FALSE
      BY <3>1, <3>3, Zenon
    <3>. QED
      BY <2>4, <3>2, <3>4
  <2>6. ASSUME vm.cda # None
        PROVE  \E s \in 0 .. 3 : drives.slot[s] = vm.cda /\ drives.cd[s] = TRUE
    <3>1. drives.slot[CdSlot(vm)] = vm.cda
      BY <2>2, <2>4, <2>6
    <3>2. drives.cd[CdSlot(vm)] = (vm.cda # None /\ CdSlot(vm) = CdSlot(vm))
      BY <2>2, <2>4, Zenon
    <3>3. drives.cd[CdSlot(vm)] = TRUE
      BY <2>6, <3>2, Zenon
    <3>. QED
      BY <2>4, <3>1, <3>3
  <2>7. ASSUME vm.hda # None, vm.cda # None PROVE drives.cd[0] <=> vm.boot = 2
    <3>1. 0 \in 0 .. 3
      OBVIOUS
    <3>2. drives.cd[0] <=> 0 = CdSlot(vm)
      BY <2>2, <2>7, <3>1, Zenon
    <3>3. 0 = CdSlot(vm) <=> vm.boot = 2
      BY <2>7 DEF CdSlot
    <3>. QED
      BY <3>2, <3>3, Zenon
  <2>8. {drives.fda, drives.slot[0]} # {None}
    <3>1. CASE vm.fda # None \/ (vm.hda = None /\ vm.cda = None)
      BY <2>2, <3>1, Apart DEF Floppy
    <3>2. CASE vm.fda = None /\ ~(vm.hda = None /\ vm.cda = None)
      <4>1. drives.slot[0] # None
        BY <2>2, <3>2 DEF HdSlot, CdSlot
      <4>. QED
        BY <4>1
    <3>. QED
      BY <3>1, <3>2
  <2>9. vm.fda # None => drives.fda = vm.fda
    BY <2>2 DEF Floppy
  <2>. QED
    BY <2>5, <2>6, <2>7, <2>8, <2>9 DEF SlotsAsPromised, vm
<1>2. VInv => SlotsAsPromised
  BY <1>1 DEF SlotsAsPromised
<1>. QED
  BY <1>2, Inductive, PTL

(* The list, the disks and the slots together: a machine that is in the    *)
(* list can be started with what it was given (VM, LauncherActivity,       *)
(* MainActivity).                                                          *)
THEOREM MachinesHold == VmSpec => []MachinesSound
<1>1. MachinesKept /\ OwnDisksStay /\ SlotsAsPromised <=> MachinesSound
  BY DEF MachinesSound
<1>. QED
  BY <1>1, ListIsKept, DisksStay, SlotsKept, PTL
=============================================================================
