------------------------------- MODULE Paging ------------------------------
(***************************************************************************)
(* Paging (i386.c): the translation buffer and the page from which         *)
(* instructions are fetched, both caches of page tables that the guest     *)
(* changes in memory.  Two directories share two tables; a page number     *)
(* names an entry of the directory and one of its table.  The bits that    *)
(* record accesses other than writes are left out.                         *)
(*                                                                         *)
(* `stale` are the pages that the guest has changed, while they were       *)
(* present, without yet clearing the buffer: what it reads of them may be  *)
(* old.  The guest returns to user code in pages that user code may fetch  *)
(* from: the page of the return itself is not checked again.               *)
(***************************************************************************)
EXTENDS Integers, FiniteSets

CONSTANTS
  Slots,        \* tlb_size
  Dirs,         \* directories: for each of two roots, two entries
  Ptes,         \* table entries that the guest writes
  Cacheable,    \* frames of RAM away from its end and from memory-mapped I/O
  MaxEdits

VARIABLES
  cr0,          \* [pg, wp]
  cr3,          \* the root in use
  dirs,
  tables,       \* <<table, index>> to an entry with its bit D
  tlb, ifetch,
  stale, written, edits

pageVars == <<cr0, cr3, dirs, tables, tlb, ifetch, stale, written, edits>>

Lpgno == 0 .. 2
PteRef == {<<1, 0>>, <<1, 1>>, <<2, 0>>}
NoEntry == [lpgno |-> -1, frame |-> 0, lookup |-> <<FALSE, FALSE, FALSE>>, ppte |-> <<1, 0>>]
NoFetch == [lpgno |-> -1, frame |-> 0]
NoFault == [page |-> -1, present |-> FALSE]

Pde(p) == dirs[cr3][p \div 2]
RefOf(p) == <<Pde(p).table, p % 2>>

-----------------------------------------------------------------------------
(* The tables as the guest means them.                                      *)

Mapped(p) == Pde(p).p /\ tables[RefOf(p)].p

(* User code needs U/S, and a write R/W unless a supervisor writes with     *)
(* CR0.WP clear; both in the directory and in the table.                    *)
Denied(p, user, write) ==
  LET us == Pde(p).us /\ tables[RefOf(p)].us
      rw == Pde(p).rw /\ tables[RefOf(p)].rw
  IN (user /\ ~us) \/ (write /\ ~rw /\ (user \/ cr0.wp))

RefFault(p, user, write) ==
  IF ~cr0.pg THEN NoFault
  ELSE IF ~Mapped(p) THEN [page |-> p, present |-> FALSE]
  ELSE IF Denied(p, user, write) THEN [page |-> p, present |-> TRUE]
  ELSE NoFault

-----------------------------------------------------------------------------
(* pte_lookup[wp][us, rw][user][write]: whether to fault. *)
PteLookup ==
  << << << <<0, 0>>, <<1, 1>> >>, << <<0, 0>>, <<1, 1>> >>,
        << <<0, 0>>, <<0, 1>> >>, << <<0, 0>>, <<0, 0>> >> >>,
     << << <<0, 1>>, <<1, 1>> >>, << <<0, 0>>, <<1, 1>> >>,
        << <<0, 1>>, <<0, 1>> >>, << <<0, 0>>, <<0, 0>> >> >> >>

Index(b) == IF b THEN 2 ELSE 1
Bits(us, rw) == 1 + (IF us THEN 2 ELSE 0) + (IF rw THEN 1 ELSE 0)
Refuses(lookup, user, write) ==
  PteLookup[Index(lookup[1])][Bits(lookup[2], lookup[3])][Index(user)][Index(write)] = 1

(* A state of the caches and tables between two steps of a translation.     *)
Now == [tlb |-> tlb, tables |-> tables]

(* tlb_refill of a page that is mapped. *)
Refill(st, p) ==
  LET e == st.tables[RefOf(p)]
  IN [st EXCEPT !.tlb[p % Slots] =
        [lpgno |-> p, frame |-> e.frame,
         lookup |-> <<cr0.wp, e.us /\ Pde(p).us, e.rw /\ Pde(p).rw>>, ppte |-> RefOf(p)]]

(* Mutated: the entry that refused stays. *)
DropNot(st, p) == st

Drop(st, p) == [st EXCEPT !.tlb[p % Slots].lpgno = -1]

(* Every write sets the dirty bit through the entry. *)
Dirty(st, p) == [st EXCEPT !.tables[st.tlb[p % Slots].ppte].d = TRUE]

(* translate_lpgno, and translate8r for a read. *)
TranslateLpgno(st, p, user, write) ==
  LET hit == st.tlb[p % Slots].lpgno = p
      full == IF hit THEN st ELSE Refill(st, p)
      e == full.tlb[p % Slots]
  IN IF ~hit /\ ~Mapped(p)
     THEN [st |-> st, fault |-> [page |-> p, present |-> FALSE], frame |-> 0]
     ELSE IF Refuses(e.lookup, user, write)
     THEN [st |-> Drop(full, p), fault |-> [page |-> p, present |-> TRUE], frame |-> 0]
     ELSE [st |-> IF write THEN Dirty(full, p) ELSE full, fault |-> NoFault, frame |-> e.frame]

(* translate_laddr of bytes in one page, or across its end. *)
Translate(st, p, across, user, write) ==
  LET one == TranslateLpgno(st, p, user, write)
  IN IF ~cr0.pg THEN [st |-> st, fault |-> NoFault, frame |-> p]
     ELSE IF one.fault = NoFault /\ across
     THEN TranslateLpgno(one.st, p + 1, user, write) ELSE one

-----------------------------------------------------------------------------
Cleared == [s \in 0 .. Slots - 1 |-> NoEntry]

Init ==
  /\ cr0 = [pg |-> TRUE, wp |-> TRUE] /\ cr3 = 1
  /\ dirs \in Dirs
  /\ tables = [r \in PteRef |->
                 [p |-> TRUE, us |-> TRUE, rw |-> r[2] = 0, frame |-> r[1], d |-> FALSE]]
  /\ tlb = Cleared /\ ifetch = NoFetch
  /\ stale = {} /\ written = {} /\ edits = 0

(* tlb_clear. *)
TlbClear == tlb' = Cleared /\ ifetch' = NoFetch /\ stale' = {}

(* A read, a write, or a read to be written back, which is checked as one.  *)
Access(p, across, user, write) ==
  /\ across => p + 1 \in Lpgno
  /\ LET t == Translate(Now, p, across, user, write)
     IN /\ tlb' = t.st.tlb /\ tables' = t.st.tables
        /\ written' = IF write /\ cr0.pg /\ t.fault = NoFault
                      THEN written \cup {RefOf(q) : q \in {p} \cup IF across THEN {p + 1} ELSE {}}
                      ELSE written
  /\ UNCHANGED <<cr0, cr3, dirs, ifetch, stale, edits>>

(* peek8: a page is fetched from without looking as long as it is the last. *)
FetchOf(p, user) ==
  IF ifetch.lpgno = p
  THEN [st |-> Now, fault |-> NoFault, frame |-> ifetch.frame]
  ELSE Translate(Now, p, FALSE, user, FALSE)

MayReturn(p, user) == user /\ ifetch.lpgno = p => RefFault(p, TRUE, FALSE) = NoFault

Fetch(p, user) ==
  /\ MayReturn(p, user)
  /\ LET t == FetchOf(p, user)
     IN /\ tlb' = t.st.tlb /\ tables' = t.st.tables
        /\ ifetch' = IF t.fault = NoFault /\ t.frame \in Cacheable
                     THEN [lpgno |-> p, frame |-> t.frame] ELSE ifetch
  /\ UNCHANGED <<cr0, cr3, dirs, stale, written, edits>>

-----------------------------------------------------------------------------
(* The guest's own steps. *)

(* MOV to CR3. *)
LoadCr3(r) ==
  /\ cr3' = r /\ TlbClear
  /\ UNCHANGED <<cr0, dirs, tables, written, edits>>

(* MOV to CR0. *)
LoadCr0(pg, wp) ==
  /\ cr0' = [pg |-> pg, wp |-> wp]
  /\ IF cr0' # cr0 THEN TlbClear ELSE UNCHANGED <<tlb, ifetch, stale>>
  /\ UNCHANGED <<cr3, dirs, tables, written, edits>>

(* INVLPG clears everything. *)
Invlpg ==
  /\ TlbClear
  /\ UNCHANGED <<cr0, cr3, dirs, tables, written, edits>>

(* The pages that go through a table entry. *)
PagesOf(r) == {p \in Lpgno : RefOf(p) = r}

(* The guest writes a table entry; a page that was not there is not cached. *)
Edit(r, e) ==
  /\ edits < MaxEdits /\ edits' = edits + 1
  /\ tables' = [tables EXCEPT ![r] =
                  [p |-> e.p, us |-> e.us, rw |-> e.rw, frame |-> e.frame, d |-> FALSE]]
  /\ written' = written \ {r}
  /\ stale' = IF tables[r].p THEN stale \cup PagesOf(r) ELSE stale
  /\ UNCHANGED <<cr0, cr3, dirs, tlb, ifetch>>

(* It clears the dirty bit to find out what is written next. *)
ClearDirty(r) ==
  /\ edits < MaxEdits /\ edits' = edits + 1
  /\ tables[r].d
  /\ tables' = [tables EXCEPT ![r].d = FALSE]
  /\ written' = written \ {r}
  /\ UNCHANGED <<cr0, cr3, dirs, tlb, ifetch, stale>>

Next ==
  \/ \E p \in Lpgno, across, user, write \in BOOLEAN : Access(p, across, user, write)
  \/ \E p \in Lpgno, user \in BOOLEAN : Fetch(p, user)
  \/ \E r \in {1, 2} : LoadCr3(r)
  \/ \E pg, wp \in BOOLEAN : LoadCr0(pg, wp)
  \/ Invlpg
  \/ \E r \in PteRef : ClearDirty(r) \/ \E e \in Ptes : Edit(r, e)

-----------------------------------------------------------------------------
TypeOK ==
  /\ \A s \in 0 .. Slots - 1 :
       /\ tlb[s].lpgno \in Lpgno \cup {-1} /\ tlb[s].lpgno # -1 => tlb[s].lpgno % Slots = s
       /\ tlb[s].ppte \in PteRef
  /\ ifetch.lpgno \in Lpgno \cup {-1}
  /\ stale \subseteq Lpgno /\ written \subseteq PteRef

(* An access by any code to pages whose last change has been announced      *)
(* faults exactly when the tables refuse it, at the page that they refuse   *)
(* first and with the right reason, and else goes to the frame they name.   *)
AccessRight ==
  \A p \in Lpgno, across, user, write \in BOOLEAN :
    LET t == Translate(Now, p, across, user, write)
        last == IF across /\ RefFault(p, user, write) = NoFault THEN p + 1 ELSE p
    IN (across => p + 1 \in Lpgno) /\ p \notin stale /\ (across => p + 1 \notin stale) =>
         /\ t.fault = RefFault(last, user, write)
         /\ ~across /\ t.fault = NoFault /\ cr0.pg => t.frame = tables[RefOf(p)].frame

(* So does the fetch of an instruction. *)
FetchRight ==
  \A p \in Lpgno \ stale, user \in BOOLEAN :
    LET t == FetchOf(p, user)
    IN MayReturn(p, user) =>
         /\ t.fault = RefFault(p, user, FALSE)
         /\ t.fault = NoFault /\ cr0.pg => t.frame = tables[RefOf(p)].frame

(* Whatever is cached, a fault is never wrong twice: the access that is     *)
(* tried again after it meets the tables as they are, so that a guest may   *)
(* grant more than before without clearing the buffer.                      *)
FaultForgets ==
  \A p \in Lpgno, user, write \in BOOLEAN :
    LET t == Translate(Now, p, FALSE, user, write)
    IN t.fault # NoFault =>
         Translate(t.st, p, FALSE, user, write).fault = RefFault(p, user, write)

(* A page written to since the guest cleared its dirty bit has it set, also *)
(* when the entry was cached all the time.                                  *)
DirtyRecorded == \A r \in written : tables[r].d

(* What the processor remembers of the page tables serves the guest as the  *)
(* tables themselves would.                                                 *)
CachesCurrent == TypeOK /\ AccessRight /\ FetchRight /\ FaultForgets /\ DirtyRecorded
=============================================================================
