---------------------------- MODULE I8259Proofs ----------------------------
(***************************************************************************)
(* For every set of devices and every guest: the interrupt controllers     *)
(* keep their types, serve only unmasked requests, the highest first, and  *)
(* implement the ledger.  For a guest that keeps to OrdinaryGuest no       *)
(* request is lost on the way to the processor; for one that also keeps    *)
(* to CascadeRespected, none of the slave either.                          *)
(***************************************************************************)
EXTENDS MCI8259, TLAPS

(* Whenever the master would hand the processor a request, the processor   *)
(* has been told.                                                          *)
Told == Wants(pic, 0) => intr

(* A non-empty set of lines has a member of highest priority. *)
LEMMA HighestExists ==
  ASSUME NEW c \in PicState, NEW S \in SUBSET Line, S # {}
  PROVE  \E i \in S : \A j \in S : Priority(c, i) <= Priority(c, j)
<1> DEFINE At(n) == \E i \in S : Priority(c, i) = n
<1>1. \A i \in S : Priority(c, i) \in 0..7
  BY SMT DEF Priority, PicState, Line
<1>2. \E n \in 0..7 : At(n) /\ \A m \in 0..7 : m < n => ~At(m)
  <2> HIDE DEF At
  <2>1. \E n \in 0..7 : At(n)
    BY <1>1 DEF At
  <2> QED
    BY <2>1, SMT
<1> QED
  BY <1>1, <1>2, SMT

LEMMA HighestIn ==
  ASSUME NEW c \in PicState, NEW S \in SUBSET Line, S # {}
  PROVE  Highest(c, S) \in S
  BY HighestExists DEF Highest

LEMMA SetIrq1Type ==
  ASSUME NEW c \in PicState, NEW irq \in Line, NEW level \in BOOLEAN
  PROVE  SetIrq1(c, irq, level) \in PicState
  BY DEF SetIrq1, PicState

LEMMA EligibleLines ==
  ASSUME NEW p \in [Chip -> PicState], NEW k \in Chip
  PROVE  Eligible(p, k) \in SUBSET Line
  BY DEF Eligible, PicState

LEMMA GetIrqIn ==
  ASSUME NEW p \in [Chip -> PicState], NEW k \in Chip, Wants(p, k)
  PROVE  GetIrq(p, k) \in Eligible(p, k) /\ GetIrq(p, k) \in Line
  BY EligibleLines, HighestIn DEF Wants, GetIrq

LEMMA CascadedType ==
  ASSUME NEW p \in [Chip -> PicState]
  PROVE  Cascaded(p) \in [Chip -> PicState]
<1>1. p[0] \in PicState /\ Cascade \in Line
  BY DEF Chip, Cascade, Line
<1>2. SetIrq1(SetIrq1(p[0], Cascade, TRUE), Cascade, FALSE) \in PicState
  BY <1>1, SetIrq1Type
<1> QED
  BY <1>2 DEF Cascaded, Chip

(* A handler that ends in pic_update_irq keeps the types and leaves no     *)
(* request unannounced, whatever it did to the registers before.           *)
LEMMA UpdateKeeps ==
  ASSUME NEW p \in [Chip -> PicState], TypeOK, UpdateIrq(p)
  PROVE  TypeOK' /\ Told'
<1>1. TypeOK'
  BY CascadedType DEF UpdateIrq, TypeOK
<1>2. Told'
  BY DEF UpdateIrq, Told, Wants, Eligible, Blocking
<1> QED
  BY <1>1, <1>2

(* A write that does not end there is harmless when it makes no request of *)
(* the master eligible.                                                    *)
LEMMA StoreKeeps ==
  ASSUME NEW p \in [Chip -> PicState], TypeOK, Told, Store(p),
         Eligible(p, 0) \subseteq Eligible(pic, 0)
  PROVE  TypeOK' /\ Told'
<1>1. TypeOK'
  BY DEF Store, TypeOK
<1>2. Wants(p, 0) => Wants(pic, 0)
  BY DEF Wants
<1>3. Wants(pic, 0)' <=> Wants(p, 0)
  BY DEF Store, Wants, Eligible, Blocking
<1>4. intr' = intr
  BY DEF Store
<1> QED
  BY <1>1, <1>2, <1>3, <1>4 DEF Told

LEMMA AcknowledgedType ==
  ASSUME NEW c \in PicState, NEW irq \in Line
  PROVE  Acknowledged(c, irq) \in PicState
<1>1. (irq + 1) % 8 \in Line
  BY DEF Line
<1> QED
  BY <1>1 DEF Acknowledged, PicState

LEMMA AfterAckType ==
  ASSUME NEW p \in [Chip -> PicState]
  PROVE  AfterAck(p) \in [Chip -> PicState]
<1>1. 0 \in Chip /\ 1 \in Chip
  BY DEF Chip
<1>2. AfterMaster(p) \in [Chip -> PicState]
  <2>1. CASE Wants(p, 0)
    <3>1. Acknowledged(p[0], GetIrq(p, 0)) \in PicState
      BY <1>1, <2>1, GetIrqIn, AcknowledgedType
    <3> QED
      BY <2>1, <3>1 DEF AfterMaster
  <2>2. CASE ~Wants(p, 0)
    BY <2>2 DEF AfterMaster
  <2> QED
    BY <2>1, <2>2
<1>3. CASE FromSlave(p) /\ Wants(AfterMaster(p), 1)
  <2>1. Acknowledged(AfterMaster(p)[1], GetIrq(AfterMaster(p), 1)) \in PicState
    BY <1>1, <1>2, <1>3, GetIrqIn, AcknowledgedType
  <2> QED
    BY <1>2, <1>3, <2>1 DEF AfterAck
<1>4. CASE ~(FromSlave(p) /\ Wants(AfterMaster(p), 1))
  BY <1>2, <1>4 DEF AfterAck
<1> QED
  BY <1>3, <1>4

LEMMA ResetChipType == ResetChip \in PicState
BY DEF ResetChip, PicState, Line

LEMMA PutType ==
  ASSUME NEW k \in Chip, NEW c \in PicState, TypeOK
  PROVE  /\ Put(k, c) \in [Chip -> PicState]
         /\ Put(k, c)[k] = c
         /\ k = 1 => Put(k, c)[0] = pic[0]
BY DEF TypeOK, Put, Chip

(* Making less of the master's state stand in the way makes requests       *)
(* eligible; conversely, a request eligible after a write was so before.   *)
LEMMA EligibleShrinks ==
  ASSUME NEW p \in [Chip -> PicState], NEW q \in [Chip -> PicState],
         p[0].irr \subseteq q[0].irr,
         p[0].imr = q[0].imr,  p[0].isr = q[0].isr,
         p[0].priority_add = q[0].priority_add,
         p[0].special_mask => q[0].special_mask,
         p[0].special_fully_nested_mode => q[0].special_fully_nested_mode
  PROVE  Eligible(p, 0) \subseteq Eligible(q, 0)
<1>1. Blocking(q, 0) \subseteq Blocking(p, 0)
  BY DEF Blocking
<1>2. \A i, j : Priority(p[0], i) < Priority(p[0], j)
                <=> Priority(q[0], i) < Priority(q[0], j)
  BY DEF Priority
<1> QED
  BY <1>1, <1>2 DEF Eligible

(* Each step keeps the types; for the guests of OrdinaryGuest it also      *)
(* keeps every eligible request announced.                                 *)
Kept == TypeOK' /\ (OrdinaryGuest /\ Told => Told')

(* A write to one chip that ends in pic_update_irq. *)
LEMMA UpdateChipKeeps ==
  ASSUME TypeOK, NEW k \in Chip, NEW c \in PicState, UpdateIrq(Put(k, c))
  PROVE  Kept
BY PutType, UpdateKeeps DEF Kept

(* A write to one chip that does not, when it leaves alone what decides     *)
(* which requests are eligible.                                            *)
LEMMA StoreChipKeeps ==
  ASSUME TypeOK, NEW k \in Chip, NEW c \in PicState, Store(Put(k, c)),
         c.irr = pic[k].irr, c.imr = pic[k].imr, c.isr = pic[k].isr,
         c.priority_add = pic[k].priority_add,
         OrdinaryGuest => /\ c.special_mask => pic[k].special_mask
                          /\ c.special_fully_nested_mode
                               => pic[k].special_fully_nested_mode
  PROVE  Kept
<1> DEFINE p == Put(k, c)
<1>1. p \in [Chip -> PicState] /\ p[k] = c /\ (k = 1 => p[0] = pic[0])
  BY PutType
<1>2. TypeOK'
  BY <1>1 DEF Store, TypeOK
<1>3. pic \in [Chip -> PicState]
  BY DEF TypeOK
<1>4. ASSUME OrdinaryGuest PROVE Eligible(p, 0) \subseteq Eligible(pic, 0)
  <2>1. CASE k = 0
    BY <1>1, <1>3, <1>4, <2>1, EligibleShrinks
  <2>2. CASE k = 1
    BY <1>1, <1>3, <2>2, EligibleShrinks
  <2> QED
    BY <2>1, <2>2 DEF Chip
<1> QED
  BY <1>1, <1>2, <1>4, StoreKeeps DEF Kept

LEMMA SetIrqKeeps ==
  ASSUME TypeOK, NEW irq \in DeviceIrqs, NEW level \in BOOLEAN,
         SetIrq(irq, level)
  PROVE  Kept
<1>1. irq \div 8 \in Chip /\ irq % 8 \in Line
  BY IrqAssumption, SMT DEF Chip, Line
<1>2. SetIrq1(pic[irq \div 8], irq % 8, level) \in PicState
  BY <1>1, SetIrq1Type DEF TypeOK
<1> QED
  BY <1>1, <1>2, UpdateChipKeeps DEF SetIrq

LEMMA ReadIrqKeeps ==
  ASSUME TypeOK, ReadIrq
  PROVE  Kept
<1>1. Cascaded(AfterAck(pic)) \in [Chip -> PicState]
  BY AfterAckType, CascadedType DEF TypeOK
<1>2. Wants(Cascaded(AfterAck(pic)), 0) \in BOOLEAN
  BY DEF Wants
<1>3. /\ pic' = Cascaded(AfterAck(pic))
      /\ intr' = Wants(Cascaded(AfterAck(pic)), 0)
      /\ aborted' = aborted
  BY DEF ReadIrq
<1>4. TypeOK'
  BY <1>1, <1>2, <1>3 DEF TypeOK
<1>5. Told'
  BY <1>3 DEF Told, Wants, Eligible, Blocking
<1> QED
  BY <1>4, <1>5 DEF Kept

LEMMA Icw1Type ==
  ASSUME NEW a \in BOOLEAN, NEW b \in BOOLEAN
  PROVE  [ResetChip EXCEPT !.init_state = 1, !.init4 = a, !.single_mode = b]
           \in PicState
<1>1. \A c \in PicState : \A st \in 0..3 :
        [c EXCEPT !.init_state = st, !.init4 = a, !.single_mode = b] \in PicState
  <2> TAKE c \in PicState
  <2> TAKE st \in 0..3
  <2> QED
    BY DEF PicState
<1>2. 1 \in 0..3
  OBVIOUS
<1> QED
  BY <1>1, <1>2, ResetChipType, Zenon

LEMMA WriteIcw1Keeps ==
  ASSUME TypeOK, NEW k \in Chip, NEW w \in Icw1Writes, WriteIcw1(k, w)
  PROVE  Kept
<1> DEFINE c == [ResetChip EXCEPT !.init_state = 1, !.init4 = w.init4,
                                  !.single_mode = w.single]
<1>1. w.init4 \in BOOLEAN /\ w.single \in BOOLEAN /\ w.level \in BOOLEAN
  BY WritesAssumption
<1>2. c \in PicState
  BY <1>1, Icw1Type
<1>3. pic' = Put(k, c) /\ intr' = intr /\ aborted' = w.level
  BY DEF WriteIcw1
<1>4. /\ pic' \in [Chip -> PicState] /\ pic'[k] = c
      /\ k = 1 => pic'[0] = pic[0]
  BY <1>2, <1>3, PutType
<1>5. TypeOK'
  BY <1>1, <1>3, <1>4 DEF TypeOK
<1>6. ASSUME Told PROVE Told'
  <2>1. CASE k = 0
    <3>1. pic'[0].irr = {}
      BY <1>4, <2>1 DEF ResetChip
    <3> QED
      BY <3>1 DEF Told, Wants, Eligible
  <2>2. CASE k = 1
    BY <1>3, <1>4, <1>6, <2>2 DEF Told, Wants, Eligible, Blocking
  <2> QED
    BY <2>1, <2>2 DEF Chip
<1> QED
  BY <1>5, <1>6 DEF Kept

LEMMA WriteOcw3Keeps ==
  ASSUME TypeOK, NEW k \in Chip, NEW w \in Ocw3Writes, WriteOcw3(k, w)
  PROVE  Kept
<1> DEFINE a == pic[k].poll \/ w.poll
           b == IF w.smm = "keep" THEN pic[k].special_mask ELSE w.smm = "set"
           c == [pic[k] EXCEPT !.poll = a, !.special_mask = b]
<1>1. pic[k] \in PicState /\ pic[k].special_mask \in BOOLEAN
  BY DEF TypeOK, PicState
<1>2. a \in BOOLEAN /\ b \in BOOLEAN
  BY <1>1
<1> HIDE DEF a, b
<1>3. c \in PicState
  BY <1>1, <1>2 DEF PicState
<1>4. /\ c.irr = pic[k].irr /\ c.imr = pic[k].imr /\ c.isr = pic[k].isr
      /\ c.priority_add = pic[k].priority_add
      /\ c.special_mask = b
      /\ c.special_fully_nested_mode = pic[k].special_fully_nested_mode
  BY <1>1 DEF PicState
<1>5. OrdinaryGuest => (b => pic[k].special_mask)
  BY WritesAssumption DEF OrdinaryGuest, b
<1>6. Store(Put(k, c))
  BY DEF WriteOcw3, a, b
<1> QED
  BY <1>3, <1>4, <1>5, <1>6, StoreChipKeeps

LEMMA WriteOcw2Keeps ==
  ASSUME TypeOK, NEW k \in Chip, NEW w \in Ocw2Writes, WriteOcw2(k, w)
  PROVE  Kept
<1> DEFINE c == pic[k]
           irq == EndLine(c, w)
           auto == w.cmd = 4
           rot == [c EXCEPT !.rotate_on_auto_eoi = auto]
           next == IF w.cmd \in {5, 7} THEN (irq + 1) % 8 ELSE c.priority_add
           ended == [c EXCEPT !.isr = @ \ {irq}, !.priority_add = next]
           set == [c EXCEPT !.priority_add = (w.level + 1) % 8]
<1>1. c \in PicState /\ c.isr \in SUBSET Line /\ c.priority_add \in Line
  BY DEF TypeOK, PicState
<1>2. w.cmd \in Line /\ w.level \in Line
  BY WritesAssumption
<1>3. \/ Store(Put(k, rot))
      \/ (\/ w.cmd \in {1, 5} /\ c.isr # {}
          \/ w.cmd \in {3, 7}) /\ UpdateIrq(Put(k, ended))
      \/ UpdateIrq(Put(k, set))
      \/ UNCHANGED vars
  BY DEF WriteOcw2
<1>4. CASE Store(Put(k, rot))
  <2> auto \in BOOLEAN
    OBVIOUS
  <2> HIDE DEF c, auto
  <2>1. rot \in PicState
    BY <1>1 DEF PicState
  <2>2. /\ rot.irr = c.irr /\ rot.imr = c.imr /\ rot.isr = c.isr
        /\ rot.priority_add = c.priority_add
        /\ rot.special_mask = c.special_mask
        /\ rot.special_fully_nested_mode = c.special_fully_nested_mode
    BY <1>1 DEF PicState
  <2> QED
    BY <1>4, <2>1, <2>2, StoreChipKeeps DEF c
<1>5. CASE (\/ w.cmd \in {1, 5} /\ c.isr # {}
           \/ w.cmd \in {3, 7}) /\ UpdateIrq(Put(k, ended))
  <2>1. irq \in Line
    BY <1>1, <1>2, <1>5, HighestIn DEF EndLine
  <2>2. next \in Line
    BY <1>1, <2>1 DEF Line
  <2> HIDE DEF c, irq, next
  <2>3. ended \in PicState
    BY <1>1, <2>1, <2>2 DEF PicState
  <2> QED
    BY <1>5, <2>3, UpdateChipKeeps
<1>6. CASE UpdateIrq(Put(k, set))
  <2>1. (w.level + 1) % 8 \in Line
    BY <1>2 DEF Line
  <2> HIDE DEF c
  <2>2. set \in PicState
    BY <1>1, <2>1 DEF PicState
  <2> QED
    BY <1>6, <2>2, UpdateChipKeeps
<1>7. CASE UNCHANGED vars
  BY <1>7 DEF Kept, TypeOK, Told, Wants, Eligible, Blocking, vars
<1> QED
  BY <1>3, <1>4, <1>5, <1>6, <1>7

LEMMA WriteOcw1Keeps ==
  ASSUME TypeOK, NEW k \in Chip, NEW mask \in MaskWrites, WriteOcw1(k, mask)
  PROVE  Kept
<1> DEFINE c == [pic[k] EXCEPT !.imr = mask]
<1>1. pic[k] \in PicState /\ mask \in SUBSET Line
  BY WritesAssumption DEF TypeOK
<1>2. c \in PicState
  BY <1>1 DEF PicState
<1> QED
  BY <1>2, UpdateChipKeeps DEF WriteOcw1

LEMMA WriteIcw2Keeps ==
  ASSUME TypeOK, NEW k \in Chip, NEW base \in VectorBases, WriteIcw2(k, base)
  PROVE  Kept
<1> DEFINE st == IF ~pic[k].single_mode THEN 2
                 ELSE IF pic[k].init4 THEN 3 ELSE 0
           c == [pic[k] EXCEPT !.irq_base = base, !.init_state = st]
<1>1. pic[k] \in PicState /\ base \in Nat /\ st \in 0..3
  BY WritesAssumption DEF TypeOK
<1>2. Store(Put(k, c))
  BY DEF WriteIcw2
<1> HIDE DEF st
<1>3. c \in PicState
  BY <1>1 DEF PicState
<1>4. /\ c.irr = pic[k].irr /\ c.imr = pic[k].imr /\ c.isr = pic[k].isr
      /\ c.priority_add = pic[k].priority_add
      /\ c.special_mask = pic[k].special_mask
      /\ c.special_fully_nested_mode = pic[k].special_fully_nested_mode
  BY <1>1 DEF PicState
<1> QED
  BY <1>2, <1>3, <1>4, StoreChipKeeps

LEMMA WriteIcw3Keeps ==
  ASSUME TypeOK, NEW k \in Chip, WriteIcw3(k)
  PROVE  Kept
<1> DEFINE st == IF pic[k].init4 THEN 3 ELSE 0
           c == [pic[k] EXCEPT !.init_state = st]
<1>1. pic[k] \in PicState /\ st \in 0..3
  BY DEF TypeOK
<1>2. Store(Put(k, c))
  BY DEF WriteIcw3
<1> HIDE DEF st
<1>3. c \in PicState
  BY <1>1 DEF PicState
<1>4. /\ c.irr = pic[k].irr /\ c.imr = pic[k].imr /\ c.isr = pic[k].isr
      /\ c.priority_add = pic[k].priority_add
      /\ c.special_mask = pic[k].special_mask
      /\ c.special_fully_nested_mode = pic[k].special_fully_nested_mode
  BY <1>1 DEF PicState
<1> QED
  BY <1>2, <1>3, <1>4, StoreChipKeeps

LEMMA WriteIcw4Keeps ==
  ASSUME TypeOK, NEW k \in Chip, NEW w \in Icw4Writes, WriteIcw4(k, w)
  PROVE  Kept
<1> DEFINE a == w.sfnm
           b == w.auto_eoi
           st == 0
           c == [pic[k] EXCEPT !.special_fully_nested_mode = a,
                               !.auto_eoi = b, !.init_state = st]
<1>1. pic[k] \in PicState /\ a \in BOOLEAN /\ b \in BOOLEAN /\ st \in 0..3
  BY WritesAssumption DEF TypeOK
<1>2. Store(Put(k, c)) /\ (OrdinaryGuest => ~a)
  BY DEF WriteIcw4, OrdinaryGuest
<1> HIDE DEF a, b, st
<1>3. c \in PicState
  BY <1>1 DEF PicState
<1>4. /\ c.irr = pic[k].irr /\ c.imr = pic[k].imr /\ c.isr = pic[k].isr
      /\ c.priority_add = pic[k].priority_add
      /\ c.special_mask = pic[k].special_mask
      /\ c.special_fully_nested_mode = a
  BY <1>1 DEF PicState
<1> QED
  BY <1>2, <1>3, <1>4, StoreChipKeeps

LEMMA DroppedType ==
  ASSUME NEW c \in PicState, NEW irq \in Line
  PROVE  Dropped(c, irq) \in PicState
BY DEF Dropped, PicState

LEMMA PolledType ==
  ASSUME NEW p \in [Chip -> PicState], NEW k \in Chip, Wants(p, k)
  PROVE  Polled(p, k) \in [Chip -> PicState]
<1>1. GetIrq(p, k) \in Line /\ Cascade \in Line
  BY GetIrqIn DEF Line, Cascade
<1>2. Dropped(p[k], GetIrq(p, k)) \in PicState
  BY <1>1, DroppedType
<1>3. Dropped(p[0], Cascade) \in PicState
  BY <1>1, DroppedType DEF Chip
<1> QED
  BY <1>2, <1>3 DEF Polled, Chip

(* Polling line 2 off the master, the only poll that does not end in       *)
(* pic_update_irq, uncovers no other request: an eligible line 2 was not    *)
(* holding anything back.                                                  *)
LEMMA PolledCascade ==
  ASSUME NEW p \in [Chip -> PicState], Wants(p, 0), GetIrq(p, 0) = Cascade
  PROVE  Eligible(Polled(p, 0), 0) \subseteq Eligible(p, 0)
<1> DEFINE q == Polled(p, 0)
<1>1. p[0] \in PicState /\ 0 \in Chip
  BY DEF Chip
<1>2. /\ q[0].irr = p[0].irr \ {Cascade}
      /\ q[0].isr = p[0].isr \ {Cascade}
      /\ q[0].imr = p[0].imr
      /\ q[0].priority_add = p[0].priority_add
      /\ q[0].special_mask = p[0].special_mask
      /\ q[0].special_fully_nested_mode = p[0].special_fully_nested_mode
  BY <1>1 DEF Polled, Dropped, PicState, Chip
<1>3. Cascade \in Eligible(p, 0)
  BY <1>1, GetIrqIn
<1>4. Priority(p[0], Cascade) \in Int
  BY <1>1 DEF Priority, Cascade, PicState, Line
<1>5. Cascade \notin Blocking(p, 0)
  BY <1>3, <1>4 DEF Eligible
<1>6. Blocking(q, 0) = Blocking(p, 0)
  BY <1>2, <1>5 DEF Blocking
<1>7. \A i, j : Priority(q[0], i) < Priority(q[0], j)
                <=> Priority(p[0], i) < Priority(p[0], j)
  BY <1>2 DEF Priority
<1> HIDE DEF q
<1> QED
  BY <1>2, <1>6, <1>7 DEF Eligible, q

(* A poll that finds no request ends in pic_update_irq; so does one that    *)
(* takes a request, unless it is the master's line 2.                      *)
LEMMA PollShape ==
  ASSUME NEW k \in Chip, PollRead(k)
  PROVE  LET p == Put(k, [pic[k] EXCEPT !.poll = FALSE]) IN
           \/ ~Wants(p, k) /\ UpdateIrq(p)
           \/ Wants(p, k) /\ UpdateIrq(Polled(p, k))
           \/ k = 0 /\ Wants(p, 0) /\ GetIrq(p, 0) = Cascade /\ Store(Polled(p, 0))
BY DEF PollRead, Chip

LEMMA PollReadKeeps ==
  ASSUME TypeOK, NEW k \in Chip, PollRead(k)
  PROVE  Kept
<1> DEFINE a == FALSE
           c == [pic[k] EXCEPT !.poll = a]
           p == Put(k, c)
<1>1. pic[k] \in PicState /\ a \in BOOLEAN
  BY DEF TypeOK
<1>2. \/ UpdateIrq(p)
      \/ Wants(p, k) /\ UpdateIrq(Polled(p, k))
      \/ k = 0 /\ Wants(p, 0) /\ GetIrq(p, 0) = Cascade /\ Store(Polled(p, 0))
  BY PollShape
<1> HIDE DEF a
<1>3. c \in PicState
  BY <1>1 DEF PicState
<1>4. p \in [Chip -> PicState] /\ p[k] = c
  BY <1>3, PutType
<1>5. CASE UpdateIrq(p)
  BY <1>3, <1>5, UpdateChipKeeps
<1>6. CASE Wants(p, k) /\ UpdateIrq(Polled(p, k))
  BY <1>4, <1>6, PolledType, UpdateKeeps DEF Kept
<1>7. CASE k = 0 /\ Wants(p, 0) /\ GetIrq(p, 0) = Cascade /\ Store(Polled(p, 0))
  <2>1. Polled(p, 0) \in [Chip -> PicState]
    BY <1>4, <1>7, PolledType
  <2>2. /\ c.irr = pic[k].irr /\ c.imr = pic[k].imr /\ c.isr = pic[k].isr
        /\ c.priority_add = pic[k].priority_add
        /\ c.special_mask = pic[k].special_mask
        /\ c.special_fully_nested_mode = pic[k].special_fully_nested_mode
    BY <1>1 DEF PicState
  <2>3. Eligible(p, 0) \subseteq Eligible(pic, 0)
    BY <1>4, <1>7, <2>2, EligibleShrinks, ZenonT(30) DEF TypeOK
  <2>4. Eligible(Polled(p, 0), 0) \subseteq Eligible(pic, 0)
    BY <1>4, <1>7, <2>3, PolledCascade
  <2>5. TypeOK'
    BY <1>7, <2>1 DEF Store, TypeOK
  <2> QED
    BY <1>7, <2>1, <2>4, <2>5, StoreKeeps DEF Kept
<1> QED
  BY <1>2, <1>5, <1>6, <1>7

LEMMA NextKeeps ==
  ASSUME TypeOK, [Next]_vars
  PROVE  Kept
<1>1. CASE \E irq \in DeviceIrqs, level \in BOOLEAN : SetIrq(irq, level)
  BY <1>1, SetIrqKeeps
<1>2. CASE ReadIrq
  BY <1>2, ReadIrqKeeps
<1>3. ASSUME NEW k \in Chip, GuestWrite(k) PROVE Kept
  BY <1>3, WriteIcw1Keeps, WriteOcw3Keeps, WriteOcw2Keeps, WriteOcw1Keeps,
     WriteIcw2Keeps, WriteIcw3Keeps, WriteIcw4Keeps DEF GuestWrite
<1>4. ASSUME NEW k \in Chip, PollRead(k) PROVE Kept
  BY <1>4, PollReadKeeps
<1>5. CASE UNCHANGED vars
  BY <1>5 DEF Kept, TypeOK, Told, Wants, Eligible, Blocking, vars
<1> QED
  BY <1>1, <1>2, <1>3, <1>4, <1>5 DEF Next

LEMMA InitKept == Init => TypeOK /\ Told
<1> SUFFICES ASSUME Init PROVE TypeOK /\ Told
  OBVIOUS
<1>1. TypeOK
  BY ResetChipType DEF Init, TypeOK
<1>2. pic[0].irr = {}
  BY DEF Init, ResetChip, Chip
<1> QED
  BY <1>1, <1>2 DEF Told, Wants, Eligible

(* The registers keep their types under every sequence of device signals   *)
(* and guest accesses.                                                     *)
THEOREM TypeCorrect == Spec => []TypeOK
<1>1. Init => TypeOK
  BY InitKept
<1>2. TypeOK /\ [Next]_vars => TypeOK'
  BY NextKeeps DEF Kept
<1> QED
  BY <1>1, <1>2, PTL DEF Spec

(* For a guest that never sets the special mask or the special fully       *)
(* nested mode, the processor has always been told of a request the master *)
(* would hand it: pic_update_irq is called wherever it has to be.          *)
THEOREM NoLost == OrdinaryGuest => (Spec => [](Told /\ NoLostInterrupt))
<1> SUFFICES ASSUME OrdinaryGuest
             PROVE  Spec => [](Told /\ NoLostInterrupt)
  OBVIOUS
<1> DEFINE Inv == TypeOK /\ Told
<1>1. Init => Inv
  BY InitKept
<1>2. Inv /\ [Next]_vars => Inv'
  BY NextKeeps DEF Kept
<1>3. Plain(0) \subseteq Eligible(pic, 0)
  BY DEF Plain, Eligible, Blocking
<1>4. Inv => Told /\ NoLostInterrupt
  BY <1>3 DEF Told, NoLostInterrupt, Wants
<1> QED
  BY <1>1, <1>2, <1>4, PTL DEF Spec
-----------------------------------------------------------------------------
(* What a step does to the requests and to the lines in service.  The      *)
(* pulse on line 2 of the master touches neither the slave nor any other   *)
(* line of the master.                                                     *)
LEMMA CascadedKeeps ==
  ASSUME NEW p \in [Chip -> PicState]
  PROVE  /\ Cascaded(p)[1] = p[1]
         /\ Cascaded(p)[0].isr = p[0].isr
         /\ Cascaded(p)[0].imr = p[0].imr
         /\ Cascaded(p)[0].priority_add = p[0].priority_add
         /\ p[0].irr \subseteq Cascaded(p)[0].irr
         /\ Cascaded(p)[0].irr \ {Cascade} = p[0].irr \ {Cascade}
<1>1. p[0] \in PicState /\ DOMAIN p = Chip
  BY DEF Chip
<1> DEFINE c == SetIrq1(SetIrq1(p[0], Cascade, TRUE), Cascade, FALSE)
<1>2. /\ c.isr = p[0].isr /\ c.imr = p[0].imr
      /\ c.priority_add = p[0].priority_add
      /\ p[0].irr \subseteq c.irr
      /\ c.irr \ {Cascade} = p[0].irr \ {Cascade}
  BY <1>1 DEF SetIrq1, PicState
<1>3. Cascaded(p) = IF Wants(p, 1) THEN [p EXCEPT ![0] = c] ELSE p
  BY <1>1 DEF Cascaded, Chip
<1> HIDE DEF c
<1> QED
  BY <1>1, <1>2, <1>3 DEF Chip

(* What an acknowledgement does: the line of the master leaves its latch   *)
(* and may enter service; when it is line 2, so does the slave's line.     *)
LEMMA AfterAckEffect ==
  ASSUME NEW p \in [Chip -> PicState]
  PROVE  \/ /\ ~Wants(p, 0)
            /\ AfterAck(p) = p
         \/ /\ Wants(p, 0)
            /\ AfterAck(p)[0] = Acknowledged(p[0], GetIrq(p, 0))
            /\ \/ AfterAck(p)[1] = p[1]
               \/ /\ GetIrq(p, 0) = Cascade
                  /\ Wants(p, 1)
                  /\ AfterAck(p)[1] = Acknowledged(p[1], GetIrq(p, 1))
<1> DEFINE m == AfterMaster(p)
<1>1. DOMAIN p = Chip /\ 0 \in Chip /\ 1 \in Chip
  BY DEF Chip
<1>2. CASE ~Wants(p, 0)
  BY <1>2 DEF AfterAck, FromSlave, AfterMaster
<1>3. CASE Wants(p, 0)
  <2>1. m[0] = Acknowledged(p[0], GetIrq(p, 0)) /\ m[1] = p[1] /\ DOMAIN m = Chip
    BY <1>1, <1>3 DEF AfterMaster
  <2>2. Wants(m, 1) = Wants(p, 1) /\ GetIrq(m, 1) = GetIrq(p, 1)
    BY <2>1 DEF Wants, GetIrq, Eligible, Blocking
  <2>3. AfterAck(p) = IF GetIrq(p, 0) = Cascade /\ Wants(p, 1)
                      THEN [m EXCEPT ![1] = Acknowledged(m[1], GetIrq(m, 1))]
                      ELSE m
    BY <1>3, <2>2 DEF AfterAck, FromSlave
  <2> HIDE DEF m
  <2> QED
    BY <1>1, <1>3, <2>1, <2>2, <2>3
<1> QED
  BY <1>2, <1>3

LEMMA AcknowledgedFields ==
  ASSUME NEW c \in PicState, NEW irq \in Line
  PROVE  /\ Acknowledged(c, irq).irr = c.irr \ {irq}
         /\ Acknowledged(c, irq).isr \in {c.isr, c.isr \union {irq}}
         /\ Acknowledged(c, irq).imr = c.imr
BY DEF Acknowledged, PicState

(* The registers a step leaves: a write to one chip, or the result of an   *)
(* acknowledgement or a poll, in either case before the pulse on line 2.   *)
Leaves(p) == pic' \in {p, Cascaded(p)}

LEMMA LeavesLines ==
  ASSUME NEW p \in [Chip -> PicState], Leaves(p)
  PROVE  /\ pic'[1] = p[1]
         /\ pic'[0].isr = p[0].isr
         /\ pic'[0].irr \ {Cascade} = p[0].irr \ {Cascade}
BY CascadedKeeps DEF Leaves

LEMMA PutLines ==
  ASSUME TypeOK, NEW k \in Chip, NEW c \in PicState, Leaves(Put(k, c))
  PROVE  /\ pic'[k].isr = c.isr
         /\ pic'[1 - k].isr = pic[1 - k].isr
         /\ pic'[1].irr = IF k = 1 THEN c.irr ELSE pic[1].irr
         /\ pic'[0].irr \ {Cascade}
              = (IF k = 0 THEN c.irr ELSE pic[0].irr) \ {Cascade}
<1>1. Put(k, c) \in [Chip -> PicState]
  BY PutType
<1>2. Put(k, c)[0] = (IF k = 0 THEN c ELSE pic[0])
      /\ Put(k, c)[1] = (IF k = 1 THEN c ELSE pic[1])
  BY DEF Put, TypeOK, Chip
<1> QED
  BY <1>1, <1>2, LeavesLines DEF Chip

(* A poll forgets one eligible line of the chip, and line 2 of the master. *)
LEMMA PollEffect ==
  ASSUME TypeOK, NEW k \in Chip, PollRead(k)
  PROVE  \/ /\ \A j \in Chip : pic'[j].isr = pic[j].isr
            /\ pic'[1].irr = pic[1].irr
            /\ pic'[0].irr \ {Cascade} = pic[0].irr \ {Cascade}
         \/ \E l \in Eligible(pic, k) :
              /\ pic'[1].irr = pic[1].irr \ (IF k = 1 THEN {l} ELSE {})
              /\ pic'[1].isr = pic[1].isr \ (IF k = 1 THEN {l} ELSE {})
              /\ pic'[0].irr \ {Cascade}
                   = pic[0].irr \ ({Cascade} \union IF k = 0 THEN {l} ELSE {})
              /\ pic'[0].isr = pic[0].isr \ {IF k = 0 THEN l ELSE Cascade}
<1> DEFINE c == [pic[k] EXCEPT !.poll = FALSE]
           p == Put(k, c)
           l == GetIrq(p, k)
<1>1. pic[k] \in PicState
  BY DEF TypeOK
<1>2. /\ c \in PicState
      /\ c.irr = pic[k].irr /\ c.imr = pic[k].imr /\ c.isr = pic[k].isr
      /\ c.priority_add = pic[k].priority_add
      /\ c.special_mask = pic[k].special_mask
      /\ c.special_fully_nested_mode = pic[k].special_fully_nested_mode
  <2> DEFINE a == FALSE
  <2>1. a \in BOOLEAN
    OBVIOUS
  <2> HIDE DEF a
  <2>2. [pic[k] EXCEPT !.poll = a] \in PicState
    BY <1>1, <2>1 DEF PicState
  <2> QED
    BY <1>1, <2>2 DEF a, PicState
<1> HIDE DEF c
<1>3. /\ p \in [Chip -> PicState]
      /\ p[0] = (IF k = 0 THEN c ELSE pic[0])
      /\ p[1] = (IF k = 1 THEN c ELSE pic[1])
      /\ p[k] = c
  BY <1>2, PutType DEF Put, TypeOK, Chip
<1>4. \/ ~Wants(p, k) /\ Leaves(p)
      \/ Wants(p, k) /\ Leaves(Polled(p, k))
  BY DEF PollRead, UpdateIrq, Store, Leaves, c
<1>5. Eligible(p, k) = Eligible(pic, k)
  BY <1>2, <1>3 DEF Eligible, Blocking, Priority
<1>6. CASE Leaves(p)
  BY <1>2, <1>3, <1>6, LeavesLines DEF Chip
<1>7. CASE Wants(p, k) /\ Leaves(Polled(p, k))
  <2> DEFINE q == Polled(p, k)
  <2>1. q \in [Chip -> PicState]
    BY <1>3, <1>7, PolledType
  <2>2. l \in Eligible(pic, k)
    BY <1>3, <1>5, <1>7, GetIrqIn
  <2>3. /\ pic'[1] = q[1]
        /\ pic'[0].isr = q[0].isr
        /\ pic'[0].irr \ {Cascade} = q[0].irr \ {Cascade}
    BY <1>7, <2>1, LeavesLines
  <2>4. \A d \in PicState : \A i \in Line : /\ Dropped(d, i).irr = d.irr \ {i}
                                           /\ Dropped(d, i).isr = d.isr \ {i}
    BY DEF Dropped, PicState
  <2>5. /\ q[0] = Dropped(p[0], IF k = 0 THEN l ELSE Cascade)
        /\ q[1] = IF k = 1 THEN Dropped(p[1], l) ELSE p[1]
    BY <1>3 DEF Polled, Chip
  <2>6. l \in Line /\ Cascade \in Line /\ p[0] \in PicState /\ p[1] \in PicState
    BY <1>3, <1>7, GetIrqIn DEF Line, Cascade, Chip
  <2> HIDE DEF q, l
  <2>7. /\ q[1].irr = p[1].irr \ (IF k = 1 THEN {l} ELSE {})
        /\ q[1].isr = p[1].isr \ (IF k = 1 THEN {l} ELSE {})
        /\ q[0].irr = p[0].irr \ {IF k = 0 THEN l ELSE Cascade}
        /\ q[0].isr = p[0].isr \ {IF k = 0 THEN l ELSE Cascade}
    BY <2>4, <2>5, <2>6 DEF Chip
  <2>8. /\ p[0].irr = pic[0].irr /\ p[0].isr = pic[0].isr
        /\ p[1].irr = pic[1].irr /\ p[1].isr = pic[1].isr
    BY <1>2, <1>3
  <2>9. (k = 0 \/ k = 1) /\ ~(k = 0 /\ k = 1)
    BY DEF Chip
  <2> QED
    BY <2>2, <2>3, <2>7, <2>8, <2>9
<1> QED
  BY <1>4, <1>6, <1>7

(* A write to a chip, other than the first initialisation word, drops no   *)
(* request; it ends at most one line in service.  One that does not end in *)
(* pic_update_irq changes nothing a request depends on.                    *)
Rewrites(k, c) ==
  /\ c \in PicState
  /\ c.irr = pic[k].irr /\ c.last_irr = pic[k].last_irr
  /\ \/ /\ UpdateIrq(Put(k, c))
        /\ \/ c.isr = pic[k].isr
           \/ \E l \in Line : c.isr = pic[k].isr \ {l}
     \/ /\ Store(Put(k, c))
        /\ c.isr = pic[k].isr /\ c.imr = pic[k].imr
        /\ c.priority_add = pic[k].priority_add

LEMMA GuestWriteEffect ==
  ASSUME TypeOK, NEW k \in Chip, GuestWrite(k)
  PROVE  \/ UNCHANGED vars
         \/ \E w \in Icw1Writes : WriteIcw1(k, w)
         \/ \E c : Rewrites(k, c)
<1> DEFINE old == pic[k]
<1>1. old \in PicState /\ old.priority_add \in Line /\ old.isr \in SUBSET Line
  BY DEF TypeOK, PicState
<1>2. ASSUME NEW w \in Ocw3Writes, WriteOcw3(k, w) PROVE \E c : Rewrites(k, c)
  <2> DEFINE a == old.poll \/ w.poll
             b == IF w.smm = "keep" THEN old.special_mask ELSE w.smm = "set"
             c == [old EXCEPT !.poll = a, !.special_mask = b]
  <2>1. a \in BOOLEAN /\ b \in BOOLEAN
    BY <1>1 DEF PicState
  <2>2. Store(Put(k, c))
    BY <1>2 DEF WriteOcw3
  <2> HIDE DEF a, b, old
  <2>3. /\ c \in PicState
        /\ c.irr = old.irr /\ c.last_irr = old.last_irr
        /\ c.isr = old.isr /\ c.imr = old.imr
        /\ c.priority_add = old.priority_add
    BY <1>1, <2>1 DEF PicState
  <2> QED
    BY <2>2, <2>3 DEF Rewrites, old
<1>3. ASSUME NEW w \in Ocw2Writes, WriteOcw2(k, w)
      PROVE  UNCHANGED vars \/ \E c : Rewrites(k, c)
  <2> DEFINE irq == EndLine(old, w)
             auto == w.cmd = 4
             rot == [old EXCEPT !.rotate_on_auto_eoi = auto]
             next == IF w.cmd \in {5, 7} THEN (irq + 1) % 8 ELSE old.priority_add
             ended == [old EXCEPT !.isr = @ \ {irq}, !.priority_add = next]
             new == (w.level + 1) % 8
             set == [old EXCEPT !.priority_add = new]
  <2>1. w.cmd \in Line /\ w.level \in Line
    BY WritesAssumption
  <2>2. \/ Store(Put(k, rot))
        \/ (\/ w.cmd \in {1, 5} /\ old.isr # {}
            \/ w.cmd \in {3, 7}) /\ UpdateIrq(Put(k, ended))
        \/ UpdateIrq(Put(k, set))
        \/ UNCHANGED vars
    BY <1>3 DEF WriteOcw2
  <2>3. CASE Store(Put(k, rot))
    <3>1. auto \in BOOLEAN
      OBVIOUS
    <3> HIDE DEF auto, old
    <3>2. /\ rot \in PicState
          /\ rot.irr = old.irr /\ rot.last_irr = old.last_irr
          /\ rot.isr = old.isr /\ rot.imr = old.imr
          /\ rot.priority_add = old.priority_add
      BY <1>1, <3>1 DEF PicState
    <3> QED
      BY <2>3, <3>2 DEF Rewrites, old
  <2>4. CASE (\/ w.cmd \in {1, 5} /\ old.isr # {}
              \/ w.cmd \in {3, 7}) /\ UpdateIrq(Put(k, ended))
    <3>1. irq \in Line
      BY <1>1, <2>1, <2>4, HighestIn DEF EndLine
    <3>2. next \in Line
      BY <1>1, <3>1 DEF Line
    <3> HIDE DEF irq, next, old
    <3>3. /\ ended \in PicState
          /\ ended.irr = old.irr /\ ended.last_irr = old.last_irr
          /\ ended.isr = old.isr \ {irq}
      BY <1>1, <3>1, <3>2 DEF PicState
    <3> QED
      BY <2>4, <3>1, <3>3 DEF Rewrites, old
  <2>5. CASE UpdateIrq(Put(k, set))
    <3>1. new \in Line
      BY <2>1 DEF Line
    <3> HIDE DEF new, old
    <3>2. /\ set \in PicState
          /\ set.irr = old.irr /\ set.last_irr = old.last_irr
          /\ set.isr = old.isr
      BY <1>1, <3>1 DEF PicState
    <3> QED
      BY <2>5, <3>2 DEF Rewrites, old
  <2> QED
    BY <2>2, <2>3, <2>4, <2>5
<1>4. ASSUME NEW m \in MaskWrites, WriteOcw1(k, m) PROVE \E c : Rewrites(k, c)
  <2> DEFINE c == [old EXCEPT !.imr = m]
  <2>1. m \in SUBSET Line
    BY WritesAssumption
  <2>2. UpdateIrq(Put(k, c))
    BY <1>4 DEF WriteOcw1
  <2> HIDE DEF old
  <2>3. /\ c \in PicState
        /\ c.irr = old.irr /\ c.last_irr = old.last_irr
        /\ c.isr = old.isr
    BY <1>1, <2>1 DEF PicState
  <2> QED
    BY <2>2, <2>3 DEF Rewrites, old
<1>5. ASSUME NEW b \in VectorBases, WriteIcw2(k, b) PROVE \E c : Rewrites(k, c)
  <2> DEFINE st == IF ~old.single_mode THEN 2 ELSE IF old.init4 THEN 3 ELSE 0
             c == [old EXCEPT !.irq_base = b, !.init_state = st]
  <2>1. b \in Nat /\ st \in 0..3
    BY WritesAssumption
  <2>2. Store(Put(k, c))
    BY <1>5 DEF WriteIcw2
  <2> HIDE DEF old, st
  <2>3. /\ c \in PicState
        /\ c.irr = old.irr /\ c.last_irr = old.last_irr
        /\ c.isr = old.isr /\ c.imr = old.imr
        /\ c.priority_add = old.priority_add
    BY <1>1, <2>1 DEF PicState
  <2> QED
    BY <2>2, <2>3 DEF Rewrites, old
<1>6. ASSUME WriteIcw3(k) PROVE \E c : Rewrites(k, c)
  <2> DEFINE st == IF old.init4 THEN 3 ELSE 0
             c == [old EXCEPT !.init_state = st]
  <2>1. st \in 0..3
    OBVIOUS
  <2>2. Store(Put(k, c))
    BY <1>6 DEF WriteIcw3
  <2> HIDE DEF old, st
  <2>3. /\ c \in PicState
        /\ c.irr = old.irr /\ c.last_irr = old.last_irr
        /\ c.isr = old.isr /\ c.imr = old.imr
        /\ c.priority_add = old.priority_add
    BY <1>1, <2>1 DEF PicState
  <2> QED
    BY <2>2, <2>3 DEF Rewrites, old
<1>7. ASSUME NEW w \in Icw4Writes, WriteIcw4(k, w) PROVE \E c : Rewrites(k, c)
  <2> DEFINE a == w.sfnm
             b == w.auto_eoi
             st == 0
             c == [old EXCEPT !.special_fully_nested_mode = a,
                              !.auto_eoi = b, !.init_state = st]
  <2>1. a \in BOOLEAN /\ b \in BOOLEAN /\ st \in 0..3
    BY WritesAssumption
  <2>2. Store(Put(k, c))
    BY <1>7 DEF WriteIcw4
  <2> HIDE DEF old, a, b, st
  <2>3. /\ c \in PicState
        /\ c.irr = old.irr /\ c.last_irr = old.last_irr
        /\ c.isr = old.isr /\ c.imr = old.imr
        /\ c.priority_add = old.priority_add
    BY <1>1, <2>1 DEF PicState
  <2> QED
    BY <2>2, <2>3 DEF Rewrites, old
<1> QED
  BY <1>2, <1>3, <1>4, <1>5, <1>6, <1>7 DEF GuestWrite

(* Every line that enters service passed the mask and the lines already    *)
(* in service.                                                             *)
LEMMA EnteredEligible ==
  ASSUME TypeOK, [Next]_vars, NEW k \in Chip
  PROVE  Entered(k) \subseteq Eligible(pic, k)
<1>1. ASSUME NEW j \in Chip, NEW c \in PicState, Leaves(Put(j, c)),
             c.isr \subseteq pic[j].isr
      PROVE  Entered(k) = {}
  BY <1>1, PutLines DEF Entered, Chip
<1>2. CASE \E irq \in DeviceIrqs, level \in BOOLEAN : SetIrq(irq, level)
  <2> PICK irq \in DeviceIrqs, level \in BOOLEAN : SetIrq(irq, level)
    BY <1>2
  <2>1. irq \div 8 \in Chip /\ irq % 8 \in Line
    BY IrqAssumption, SMT DEF Chip, Line
  <2> DEFINE c == SetIrq1(pic[irq \div 8], irq % 8, level)
  <2>2. pic[irq \div 8] \in PicState
    BY <2>1 DEF TypeOK
  <2>3. c \in PicState
    BY <2>1, <2>2, SetIrq1Type
  <2>4. c.isr = pic[irq \div 8].isr
    BY <2>2 DEF SetIrq1, PicState
  <2>5. Leaves(Put(irq \div 8, c))
    BY DEF SetIrq, UpdateIrq, Leaves
  <2> QED
    BY <1>1, <2>1, <2>3, <2>4, <2>5
<1>3. CASE ReadIrq
  <2>1. AfterAck(pic) \in [Chip -> PicState] /\ Leaves(AfterAck(pic))
    BY <1>3, AfterAckType DEF ReadIrq, Leaves, TypeOK
  <2>2. pic'[0].isr = AfterAck(pic)[0].isr /\ pic'[1].isr = AfterAck(pic)[1].isr
    BY <2>1, LeavesLines
  <2>3. \A j \in Chip : Wants(pic, j) =>
          /\ GetIrq(pic, j) \in Eligible(pic, j)
          /\ Acknowledged(pic[j], GetIrq(pic, j)).isr
               \subseteq pic[j].isr \union {GetIrq(pic, j)}
    BY GetIrqIn, AcknowledgedFields DEF TypeOK
  <2>4. 0 \in Chip /\ 1 \in Chip /\ (k = 0 \/ k = 1)
    BY DEF Chip
  <2>5. pic \in [Chip -> PicState]
    BY DEF TypeOK
  <2>6. /\ AfterAck(pic)[0].isr \subseteq pic[0].isr \union Eligible(pic, 0)
        /\ AfterAck(pic)[1].isr \subseteq pic[1].isr \union Eligible(pic, 1)
    <3>1. CASE AfterAck(pic) = pic
      BY <3>1
    <3>2. CASE /\ Wants(pic, 0)
               /\ AfterAck(pic)[0] = Acknowledged(pic[0], GetIrq(pic, 0))
               /\ AfterAck(pic)[1] = pic[1]
      BY <2>3, <2>4, <3>2
    <3>3. CASE /\ Wants(pic, 0)
               /\ AfterAck(pic)[0] = Acknowledged(pic[0], GetIrq(pic, 0))
               /\ Wants(pic, 1)
               /\ AfterAck(pic)[1] = Acknowledged(pic[1], GetIrq(pic, 1))
      BY <2>3, <2>4, <3>3
    <3> QED
      BY <2>5, <3>1, <3>2, <3>3, AfterAckEffect
  <2> QED
    BY <2>2, <2>4, <2>6 DEF Entered
<1>4. ASSUME NEW j \in Chip, NEW w \in Icw1Writes, WriteIcw1(j, w)
      PROVE  Entered(k) = {}
  <2>1. w.init4 \in BOOLEAN /\ w.single \in BOOLEAN
    BY WritesAssumption
  <2> DEFINE c == [ResetChip EXCEPT !.init_state = 1, !.init4 = w.init4,
                                    !.single_mode = w.single]
  <2>2. c \in PicState /\ c.isr = {} /\ Leaves(Put(j, c))
    BY <1>4, <2>1, Icw1Type DEF WriteIcw1, Leaves, ResetChip
  <2> QED
    BY <1>1, <2>2
<1>5. ASSUME NEW j \in Chip, PollRead(j) PROVE Entered(k) = {}
  BY <1>5, PollEffect DEF Entered, Chip
<1>6. ASSUME NEW j \in Chip, GuestWrite(j), ~UNCHANGED vars,
             \A w \in Icw1Writes : ~WriteIcw1(j, w)
      PROVE  Entered(k) = {}
  <2> PICK c : Rewrites(j, c)
    BY <1>6, GuestWriteEffect
  <2> QED
    BY <1>1 DEF Rewrites, UpdateIrq, Store, Leaves
<1>7. CASE UNCHANGED vars
  BY <1>7 DEF Entered, vars
<1> QED
  BY <1>2, <1>3, <1>4, <1>5, <1>6, <1>7 DEF Next

(* What the processor takes preempts every line in service that counts,    *)
(* under every rotation and special mode.                                  *)
THEOREM Preempts == Spec => PreemptsLower
<1>1. TypeOK /\ [Next]_vars =>
        [\A k \in Chip, i \in Line :
            i \in Entered(k) => \A j \in Blocking(pic, k) :
               Priority(pic[k], i) < Priority(pic[k], j)]_vars
  <2> SUFFICES ASSUME TypeOK, [Next]_vars, NEW k \in Chip, NEW i \in Entered(k),
                      NEW j \in Blocking(pic, k)
               PROVE  Priority(pic[k], i) < Priority(pic[k], j)
    OBVIOUS
  <2> QED
    BY EnteredEligible DEF Eligible
<1> QED
  BY <1>1, TypeCorrect, PTL DEF PreemptsLower, Spec

(* No masked line enters service.                                          *)
THEOREM UnmaskedOnly == Spec => OnlyUnmaskedServed
<1>1. TypeOK /\ [Next]_vars =>
        [\A k \in Chip : Entered(k) \cap pic[k].imr = {}]_vars
  <2> SUFFICES ASSUME TypeOK, [Next]_vars, NEW k \in Chip
               PROVE  Entered(k) \cap pic[k].imr = {}
    OBVIOUS
  <2> QED
    BY EnteredEligible DEF Eligible
<1> QED
  BY <1>1, TypeCorrect, PTL DEF OnlyUnmaskedServed, Spec

-----------------------------------------------------------------------------
(* The cascade.  Line 2 of the master is left low by every pulse, so the   *)
(* next pulse is an edge again; and a request of the slave stays latched   *)
(* there until the master acknowledges it, which pulses the line again.    *)
SlaveLatched ==
  /\ Cascade \notin pic[0].last_irr
  /\ Plain(1) # {} => Cascade \in pic[0].irr

(* A guest that initialises the master only while the slave asks for       *)
(* nothing, and does not poll the master.                                  *)
CascadeRespected ==
  /\ \A w \in Icw1Writes : WriteIcw1(0, w) => Plain(1) = {}
  /\ ~PollRead(0)

(* The pulse reaches the latch.                                            *)
LEMMA PulseLatches ==
  ASSUME NEW p \in [Chip -> PicState], Cascade \notin p[0].last_irr,
         pic' = Cascaded(p)
  PROVE  SlaveLatched'
<1>1. p[0] \in PicState
  BY DEF Chip
<1> DEFINE c == SetIrq1(SetIrq1(p[0], Cascade, TRUE), Cascade, FALSE)
<1>2. Cascade \in c.irr /\ Cascade \notin c.last_irr
  BY <1>1 DEF SetIrq1, PicState
<1>3. Cascaded(p) = IF Wants(p, 1) THEN [p EXCEPT ![0] = c] ELSE p
  BY <1>1 DEF Cascaded, Chip
<1> HIDE DEF c
<1>4. Cascade \notin pic'[0].last_irr
  BY <1>2, <1>3 DEF Chip
<1>5. pic'[1] = p[1]
  BY CascadedKeeps
<1>6. ASSUME Plain(1)' # {} PROVE Wants(p, 1)
  BY <1>5, <1>6 DEF Plain, Wants, Eligible, Blocking, Priority
<1>7. Wants(p, 1) => Cascade \in pic'[0].irr
  BY <1>2, <1>3 DEF Chip
<1> QED
  BY <1>4, <1>6, <1>7 DEF SlaveLatched

LEMMA CascadeStep ==
  ASSUME TypeOK, SlaveLatched, [Next /\ CascadeRespected]_vars
  PROVE  SlaveLatched'
<1>1. pic \in [Chip -> PicState] /\ 0 \in Chip /\ 1 \in Chip /\ DOMAIN pic = Chip
  BY DEF TypeOK, Chip
<1>2. ASSUME NEW k \in Chip, NEW c \in PicState, UpdateIrq(Put(k, c)),
             k = 0 => Cascade \notin c.last_irr
      PROVE  SlaveLatched'
  <2>1. Put(k, c) \in [Chip -> PicState] /\ Cascade \notin Put(k, c)[0].last_irr
    BY <1>1, <1>2, PutType DEF SlaveLatched, Chip
  <2> QED
    BY <1>2, <2>1, PulseLatches DEF UpdateIrq
<1>3. ASSUME pic' = pic PROVE SlaveLatched'
  BY <1>3 DEF SlaveLatched, Plain
<1>4. CASE \E irq \in DeviceIrqs, level \in BOOLEAN : SetIrq(irq, level)
  <2> PICK irq \in DeviceIrqs, level \in BOOLEAN : SetIrq(irq, level)
    BY <1>4
  <2> DEFINE k == irq \div 8
             l == irq % 8
             c == SetIrq1(pic[k], l, level)
  <2>1. k \in Chip /\ l \in Line /\ (k = 0 => l # Cascade)
    BY IrqAssumption, SMT DEF Chip, Line, Cascade
  <2>2. UpdateIrq(Put(k, c))
    BY DEF SetIrq
  <2> HIDE DEF k, l
  <2>3. c \in PicState
    BY <1>1, <2>1, SetIrq1Type
  <2>4. pic[k] \in PicState
    BY <1>1, <2>1
  <2>5. k = 0 => Cascade \notin c.last_irr
    BY <2>1, <2>4 DEF SetIrq1, SlaveLatched, PicState
  <2> QED
    BY <1>2, <2>1, <2>2, <2>3, <2>5
<1>5. CASE ReadIrq
  <2> DEFINE p == AfterAck(pic)
  <2>1. p \in [Chip -> PicState] /\ pic' = Cascaded(p)
    BY <1>1, <1>5, AfterAckType DEF ReadIrq
  <2>2. \A d \in PicState : \A i \in Line : Acknowledged(d, i).last_irr = d.last_irr
    BY DEF Acknowledged, PicState
  <2>3. p[0] = pic[0] \/ (Wants(pic, 0) /\ p[0] = Acknowledged(pic[0], GetIrq(pic, 0)))
    BY <1>1, AfterAckEffect
  <2> HIDE DEF p
  <2>4. p[0].last_irr = pic[0].last_irr
    BY <1>1, <2>2, <2>3, GetIrqIn
  <2> QED
    BY <2>1, <2>4, PulseLatches DEF SlaveLatched
<1>6. ASSUME NEW k \in Chip, NEW w \in Icw1Writes, WriteIcw1(k, w), CascadeRespected
      PROVE  SlaveLatched'
  <2> DEFINE c == [ResetChip EXCEPT !.init_state = 1, !.init4 = w.init4,
                                    !.single_mode = w.single]
  <2>1. pic' = [pic EXCEPT ![k] = c] /\ c.irr = {} /\ c.last_irr = {}
    BY <1>6 DEF WriteIcw1, Put, ResetChip
  <2>2. CASE k = 0
    <3>1. Plain(1) = {} /\ pic'[0] = c /\ pic'[1] = pic[1]
      BY <1>1, <1>6, <2>1, <2>2 DEF CascadeRespected
    <3>2. Plain(1)' = Plain(1)
      BY <3>1 DEF Plain
    <3> QED
      BY <2>1, <3>1, <3>2 DEF SlaveLatched
  <2>3. CASE k = 1
    <3>1. pic'[1] = c /\ pic'[0] = pic[0]
      BY <1>1, <2>1, <2>3
    <3>2. Plain(1)' = {}
      BY <2>1, <3>1 DEF Plain
    <3> QED
      BY <3>1, <3>2 DEF SlaveLatched
  <2> QED
    BY <2>2, <2>3 DEF Chip
<1>7. ASSUME NEW k \in Chip, NEW c, Rewrites(k, c) PROVE SlaveLatched'
  <2>1. CASE UpdateIrq(Put(k, c))
    BY <1>2, <1>7, <2>1 DEF Rewrites, SlaveLatched
  <2>2. CASE /\ Store(Put(k, c))
             /\ c.isr = pic[k].isr /\ c.imr = pic[k].imr
             /\ c.priority_add = pic[k].priority_add
    <3>1. pic' = [pic EXCEPT ![k] = c]
      BY <2>2 DEF Store, Put
    <3>2. /\ pic'[0].irr = pic[0].irr /\ pic'[0].last_irr = pic[0].last_irr
          /\ pic'[1].irr = pic[1].irr /\ pic'[1].imr = pic[1].imr
          /\ pic'[1].isr = pic[1].isr
          /\ pic'[1].priority_add = pic[1].priority_add
      BY <1>1, <1>7, <2>2, <3>1 DEF Rewrites, Chip
    <3>3. Plain(1)' = Plain(1)
      BY <3>2 DEF Plain, Priority
    <3> QED
      BY <3>2, <3>3 DEF SlaveLatched
  <2> QED
    BY <1>7, <2>1, <2>2 DEF Rewrites
<1>8. ASSUME PollRead(1) PROVE SlaveLatched'
  <2> DEFINE a == FALSE
             c == [pic[1] EXCEPT !.poll = a]
             p == Put(1, c)
  <2>1. UpdateIrq(p) \/ (Wants(p, 1) /\ UpdateIrq(Polled(p, 1)))
    BY <1>1, <1>8, PollShape DEF Chip
  <2>2. pic[1] \in PicState /\ a \in BOOLEAN
    BY <1>1
  <2> HIDE DEF a
  <2>3. c \in PicState
    BY <2>2 DEF PicState
  <2>4. p \in [Chip -> PicState] /\ p[0] = pic[0]
    BY <1>1, <2>3, PutType
  <2> HIDE DEF p
  <2>5. CASE Wants(p, 1) /\ UpdateIrq(Polled(p, 1))
    <3>1. Polled(p, 1) \in [Chip -> PicState]
      BY <1>1, <2>4, <2>5, PolledType
    <3>2. Polled(p, 1)[0] = Dropped(p[0], Cascade)
      BY <2>4 DEF Polled, Chip
    <3>3. Polled(p, 1)[0].last_irr = pic[0].last_irr
      BY <1>1, <2>4, <3>2 DEF Dropped, PicState
    <3> QED
      BY <2>5, <3>1, <3>3, PulseLatches DEF SlaveLatched, UpdateIrq
  <2> QED
    BY <2>1, <2>4, <2>5, PulseLatches DEF SlaveLatched, UpdateIrq
<1>9. ASSUME NEW k \in Chip, GuestWrite(k), CascadeRespected PROVE SlaveLatched'
  BY <1>3, <1>6, <1>7, <1>9, GuestWriteEffect DEF vars
<1> QED
  BY <1>3, <1>4, <1>5, <1>8, <1>9 DEF Next, CascadeRespected, Chip, vars

(* A request of the slave that line 2 of the master lets through has       *)
(* reached the processor, although the master only ever sees pulses: for   *)
(* every guest that keeps out of the way of the cascade.                   *)
THEOREM SlaveReachesCpu ==
  OrdinaryGuest =>
    (Spec /\ [][CascadeRespected]_vars => []SlaveRequestReachesCpu)
<1> SUFFICES ASSUME OrdinaryGuest
             PROVE  Spec /\ [][CascadeRespected]_vars => []SlaveRequestReachesCpu
  OBVIOUS
<1>1. Init => SlaveLatched
  BY DEF Init, SlaveLatched, Plain, ResetChip, Chip
<1>2. TypeOK /\ SlaveLatched /\ [Next /\ CascadeRespected]_vars => SlaveLatched'
  BY CascadeStep
<1>3. SlaveLatched /\ NoLostInterrupt => SlaveRequestReachesCpu
  BY DEF SlaveLatched, NoLostInterrupt, SlaveRequestReachesCpu, Plain
<1>4. [Next]_vars /\ [CascadeRespected]_vars => [Next /\ CascadeRespected]_vars
  OBVIOUS
<1> QED
  BY <1>1, <1>2, <1>3, <1>4, TypeCorrect, NoLost, PTL DEF Spec

(* The same for the guests of the model-checked instance: the one that     *)
(* uses the pair as constants say, among the others.                       *)
THEOREM NestedGuest ==
  OrdinaryGuest =>
    (GuestSpec /\ [][CascadeRespected]_<<vars, guest>> => []SlaveAnnounced)
<1> SUFFICES ASSUME OrdinaryGuest
             PROVE  GuestSpec /\ [][CascadeRespected]_<<vars, guest>>
                      => []SlaveAnnounced
  OBVIOUS
<1> DEFINE Inv == guest = "nested" =>
                    TypeOK /\ Told /\ SlaveLatched
<1>1. GuestInit => Inv
  <2>1. Init => SlaveLatched
    BY DEF Init, SlaveLatched, Plain, ResetChip, Chip
  <2> QED
    BY <2>1, InitKept DEF GuestInit
<1>2. Inv /\ [GuestNext]_<<vars, guest>> /\ [CascadeRespected]_<<vars, guest>>
        => Inv'
  <2> SUFFICES ASSUME Inv, [GuestNext]_<<vars, guest>>,
                      [CascadeRespected]_<<vars, guest>>, guest' = "nested"
               PROVE  (TypeOK /\ Told /\ SlaveLatched)'
    OBVIOUS
  <2>1. guest = "nested" /\ (Next \/ UNCHANGED vars)
    BY DEF GuestNext
  <2>2. [Next]_vars /\ [Next /\ CascadeRespected]_vars
    BY <2>1
  <2>3. TypeOK' /\ Told'
    BY <2>1, <2>2, NextKeeps DEF Kept
  <2>4. SlaveLatched'
    BY <2>1, <2>2, CascadeStep
  <2> QED
    BY <2>3, <2>4
<1>3. Inv => SlaveAnnounced
  <2>1. Plain(0) \subseteq Eligible(pic, 0)
    BY DEF Plain, Eligible, Blocking
  <2>2. Told => NoLostInterrupt
    BY <2>1 DEF Told, NoLostInterrupt, Wants
  <2>3. SlaveLatched /\ NoLostInterrupt => SlaveRequestReachesCpu
    BY DEF SlaveLatched, NoLostInterrupt, SlaveRequestReachesCpu, Plain
  <2> QED
    BY <2>2, <2>3 DEF SlaveAnnounced
<1> QED
  BY <1>1, <1>2, <1>3, PTL DEF GuestSpec

-----------------------------------------------------------------------------
(* The refinement: every step of the pair is a step of the ledger, or       *)
(* changes nothing the ledger sees.                                        *)
LedgerStep == [Ledger!LedgerNext]_(Ledger!ledgerVars)

(* What the ledger sees of a step, from the latch and the lines in service *)
(* of each chip; line 2 of the master is not among it.                     *)
LEMMA SeenByLedger ==
  ASSUME NEW l \in Line, NEW k \in Chip, k = 0 => l # Cascade
  PROVE  8 * k + l \in (0..15) \ {Cascade}
BY DEF Line, Chip, Cascade

LEMMA NothingSeen ==
  ASSUME pic'[1].irr = pic[1].irr, pic'[1].isr = pic[1].isr,
         pic'[0].irr \ {Cascade} = pic[0].irr \ {Cascade},
         pic'[0].isr \ {Cascade} = pic[0].isr \ {Cascade}
  PROVE  LedgerStep
BY DEF LedgerStep, Ledger!ledgerVars, Requested, Serving

LEMMA RaiseSeen ==
  ASSUME TypeOK, NEW k \in Chip, NEW l \in Line, k = 0 => l # Cascade,
         pic'[1].isr = pic[1].isr, pic'[0].isr = pic[0].isr,
         pic'[1].irr = pic[1].irr \union (IF k = 1 THEN {l} ELSE {}),
         pic'[0].irr \ {Cascade}
           = (pic[0].irr \ {Cascade}) \union (IF k = 0 THEN {l} ELSE {})
  PROVE  LedgerStep
<1>1. 8 * k + l \in (0..15) \ {Cascade}
  BY SeenByLedger
<1>2. (k = 0 \/ k = 1) /\ 8 * 0 + l = l /\ 8 * 1 + l = 8 + l
  BY DEF Chip, Line
<1>3. Requested' = Requested \union {8 * k + l}
  BY <1>2 DEF Requested
<1>4. Serving' = Serving
  BY DEF Serving
<1>5. Ledger!Raise(8 * k + l)
  BY <1>3, <1>4 DEF Ledger!Raise
<1> QED
  BY <1>1, <1>5 DEF LedgerStep, Ledger!LedgerNext

(* Removing a line of one chip, from what the ledger sees of it.           *)
LEMMA RemovedSeen ==
  ASSUME NEW k \in Chip, NEW l \in Line, k = 0 => l # Cascade,
         NEW A \in SUBSET Line, NEW B \in SUBSET Line
  PROVE  ((A \ (IF k = 0 THEN {l} ELSE {})) \ {Cascade})
           \union { 8 + i : i \in B \ (IF k = 1 THEN {l} ELSE {}) }
         = ((A \ {Cascade}) \union { 8 + i : i \in B }) \ {8 * k + l}
<1>1. (k = 0 \/ k = 1) /\ 8 * 0 + l = l /\ 8 * 1 + l = 8 + l
  BY DEF Chip, Line
<1>2. \A i \in Line : i # 8 + l /\ 8 + i # l /\ (8 + i = 8 + l <=> i = l)
  BY DEF Line
<1>3. CASE k = 0
  BY <1>1, <1>2, <1>3
<1>4. CASE k = 1
  BY <1>1, <1>2, <1>4
<1> QED
  BY <1>1, <1>3, <1>4

(* A line of one chip leaves the latch, enters or leaves service.          *)
RequestGone(k, l) ==
  /\ pic'[1].irr = pic[1].irr \ (IF k = 1 THEN {l} ELSE {})
  /\ pic'[0].irr \ {Cascade}
       = (pic[0].irr \ (IF k = 0 THEN {l} ELSE {})) \ {Cascade}

ServiceEnded(k, l) ==
  /\ pic'[1].isr = pic[1].isr \ (IF k = 1 THEN {l} ELSE {})
  /\ pic'[0].isr \ {Cascade}
       = (pic[0].isr \ (IF k = 0 THEN {l} ELSE {})) \ {Cascade}

ServiceSame ==
  /\ pic'[1].isr = pic[1].isr
  /\ pic'[0].isr \ {Cascade} = pic[0].isr \ {Cascade}

ServiceBegun(k, l) ==
  /\ pic'[1].isr = pic[1].isr \union (IF k = 1 THEN {l} ELSE {})
  /\ pic'[0].isr \ {Cascade}
       = (pic[0].isr \union (IF k = 0 THEN {l} ELSE {})) \ {Cascade}

LEMMA GoneSeen ==
  ASSUME TypeOK, NEW k \in Chip, NEW l \in Line, k = 0 => l # Cascade
  PROVE  /\ RequestGone(k, l) => Requested' = Requested \ {8 * k + l}
         /\ ServiceEnded(k, l) => Serving' = Serving \ {8 * k + l}
         /\ ServiceSame => Serving' = Serving
         /\ ServiceBegun(k, l) => Serving' = Serving \union {8 * k + l}
         /\ l \in pic[k].irr => 8 * k + l \in Requested
<1>1. /\ pic[0].irr \in SUBSET Line /\ pic[0].isr \in SUBSET Line
      /\ pic[1].irr \in SUBSET Line /\ pic[1].isr \in SUBSET Line
  BY DEF TypeOK, PicState, Chip
<1>2. RequestGone(k, l) => Requested' = Requested \ {8 * k + l}
  <2> SUFFICES ASSUME RequestGone(k, l) PROVE Requested' = Requested \ {8 * k + l}
    OBVIOUS
  <2>1. Requested' = ((pic[0].irr \ (IF k = 0 THEN {l} ELSE {})) \ {Cascade})
           \union { 8 + i : i \in pic[1].irr \ (IF k = 1 THEN {l} ELSE {}) }
    BY DEF RequestGone, Requested
  <2>2. Requested = (pic[0].irr \ {Cascade}) \union { 8 + i : i \in pic[1].irr }
    BY DEF Requested
  <2>3. ((pic[0].irr \ (IF k = 0 THEN {l} ELSE {})) \ {Cascade})
           \union { 8 + i : i \in pic[1].irr \ (IF k = 1 THEN {l} ELSE {}) }
         = ((pic[0].irr \ {Cascade}) \union { 8 + i : i \in pic[1].irr }) \ {8 * k + l}
    BY <1>1, RemovedSeen
  <2> QED
    BY <2>1, <2>2, <2>3
<1>3. ServiceEnded(k, l) => Serving' = Serving \ {8 * k + l}
  <2> SUFFICES ASSUME ServiceEnded(k, l) PROVE Serving' = Serving \ {8 * k + l}
    OBVIOUS
  <2>1. Serving' = ((pic[0].isr \ (IF k = 0 THEN {l} ELSE {})) \ {Cascade})
           \union { 8 + i : i \in pic[1].isr \ (IF k = 1 THEN {l} ELSE {}) }
    BY DEF ServiceEnded, Serving
  <2>2. Serving = (pic[0].isr \ {Cascade}) \union { 8 + i : i \in pic[1].isr }
    BY DEF Serving
  <2>3. ((pic[0].isr \ (IF k = 0 THEN {l} ELSE {})) \ {Cascade})
           \union { 8 + i : i \in pic[1].isr \ (IF k = 1 THEN {l} ELSE {}) }
         = ((pic[0].isr \ {Cascade}) \union { 8 + i : i \in pic[1].isr }) \ {8 * k + l}
    BY <1>1, RemovedSeen
  <2> QED
    BY <2>1, <2>2, <2>3
<1>4. (k = 0 \/ k = 1) /\ 8 * 0 + l = l /\ 8 * 1 + l = 8 + l
  BY DEF Chip, Line
<1>5. ServiceBegun(k, l) => Serving' = Serving \union {8 * k + l}
  BY <1>4 DEF ServiceBegun, Serving
<1>6. l \in pic[k].irr => 8 * k + l \in Requested
  BY <1>4 DEF Requested
<1>7. ServiceSame => Serving' = Serving
  BY DEF ServiceSame, Serving
<1> QED
  BY <1>2, <1>3, <1>5, <1>6, <1>7

LEMMA DeliverSeen ==
  ASSUME TypeOK, NEW k \in Chip, NEW l \in Line, k = 0 => l # Cascade,
         l \in pic[k].irr, RequestGone(k, l),
         ServiceSame \/ ServiceBegun(k, l)
  PROVE  LedgerStep
<1>1. Ledger!Deliver(8 * k + l)
  BY GoneSeen DEF Ledger!Deliver
<1> QED
  BY <1>1, SeenByLedger DEF LedgerStep, Ledger!LedgerNext

LEMMA RetireSeen ==
  ASSUME TypeOK, NEW k \in Chip, NEW l \in Line,
         pic'[1].irr = pic[1].irr, pic'[0].irr \ {Cascade} = pic[0].irr \ {Cascade},
         ServiceEnded(k, l)
  PROVE  LedgerStep
<1>1. CASE k = 0 /\ l = Cascade
  BY <1>1, NothingSeen DEF ServiceEnded
<1>2. CASE ~(k = 0 /\ l = Cascade)
  <2>1. Requested' = Requested
    BY DEF Requested
  <2>2. Ledger!Retire(8 * k + l)
    BY <1>2, <2>1, GoneSeen DEF Ledger!Retire
  <2> QED
    BY <1>2, <2>2, SeenByLedger DEF LedgerStep, Ledger!LedgerNext
<1> QED
  BY <1>1, <1>2

LEMMA PollSeen ==
  ASSUME TypeOK, NEW k \in Chip, NEW l \in Line, l \in pic[k].irr,
         RequestGone(k, l), ServiceEnded(k, l)
  PROVE  LedgerStep
<1>1. CASE k = 0 /\ l = Cascade
  BY <1>1, NothingSeen DEF RequestGone, ServiceEnded
<1>2. CASE ~(k = 0 /\ l = Cascade)
  <2>1. Ledger!Poll(8 * k + l)
    BY <1>2, GoneSeen DEF Ledger!Poll
  <2> QED
    BY <1>2, <2>1, SeenByLedger DEF LedgerStep, Ledger!LedgerNext
<1> QED
  BY <1>1, <1>2

LEMMA InitialiseSeen ==
  ASSUME TypeOK, NEW k \in Chip, NEW c, c.irr = {}, c.isr = {}, pic' = Put(k, c)
  PROVE  LedgerStep
<1>1. DOMAIN pic = Chip /\ Chip = {0, 1}
  BY DEF TypeOK, Chip
<1>2. /\ pic[0].irr \in SUBSET Line /\ pic[0].isr \in SUBSET Line
      /\ pic[1].irr \in SUBSET Line /\ pic[1].isr \in SUBSET Line
  BY DEF TypeOK, PicState, Chip
<1>3. \A A, B \in SUBSET Line :
        LET Both == (A \ {Cascade}) \union { 8 + i : i \in B } IN
        /\ Both \ Ledger!OnChip(0) = ({} \ {Cascade}) \union { 8 + i : i \in B }
        /\ Both \ Ledger!OnChip(1) = (A \ {Cascade}) \union { 8 + i : i \in {} }
  <2> SUFFICES ASSUME NEW A \in SUBSET Line, NEW B \in SUBSET Line
               PROVE  LET Both == (A \ {Cascade}) \union { 8 + i : i \in B } IN
        /\ Both \ Ledger!OnChip(0) = ({} \ {Cascade}) \union { 8 + i : i \in B }
        /\ Both \ Ledger!OnChip(1) = (A \ {Cascade}) \union { 8 + i : i \in {} }
    OBVIOUS
  <2>1. \A i \in A \ {Cascade} : i \in (0..15) \ {Cascade} /\ i \div 8 = 0
    BY SMT DEF Line
  <2>2. \A i \in B : 8 + i \in (0..15) \ {Cascade} /\ (8 + i) \div 8 = 1
    BY SMT DEF Line, Cascade
  <2>3. { 8 + i : i \in B } \cap A = {}
    BY SMT DEF Line
  <2> QED
    BY <2>1, <2>2, <2>3 DEF Ledger!OnChip
<1>4. /\ pic'[0].irr = IF k = 0 THEN {} ELSE pic[0].irr
      /\ pic'[0].isr = IF k = 0 THEN {} ELSE pic[0].isr
      /\ pic'[1].irr = IF k = 1 THEN {} ELSE pic[1].irr
      /\ pic'[1].isr = IF k = 1 THEN {} ELSE pic[1].isr
  BY <1>1 DEF Put
<1>5. /\ Requested' = Requested \ Ledger!OnChip(k)
      /\ Serving' = Serving \ Ledger!OnChip(k)
  <2>1. CASE k = 0
    <3>1. /\ Requested' = ({} \ {Cascade}) \union { 8 + i : i \in pic[1].irr }
          /\ Serving' = ({} \ {Cascade}) \union { 8 + i : i \in pic[1].isr }
      BY <1>4, <2>1 DEF Requested, Serving
    <3> QED
      BY <1>2, <1>3, <2>1, <3>1, ZenonT(30) DEF Requested, Serving
  <2>2. CASE k = 1
    <3>1. /\ Requested' = (pic[0].irr \ {Cascade}) \union { 8 + i : i \in {} }
          /\ Serving' = (pic[0].isr \ {Cascade}) \union { 8 + i : i \in {} }
      BY <1>4, <2>2 DEF Requested, Serving
    <3> QED
      BY <1>2, <1>3, <2>2, <3>1 DEF Requested, Serving
  <2> QED
    BY <2>1, <2>2 DEF Chip
<1> QED
  BY <1>5 DEF LedgerStep, Ledger!LedgerNext, Ledger!Initialise, Chip

LEMMA SetIrqSeen ==
  ASSUME TypeOK, NEW irq \in DeviceIrqs, NEW level \in BOOLEAN, SetIrq(irq, level)
  PROVE  LedgerStep
<1> DEFINE k == irq \div 8
           l == irq % 8
           c == SetIrq1(pic[k], l, level)
<1>1. k \in Chip /\ l \in Line /\ (k = 0 => l # Cascade)
  BY IrqAssumption, SMT DEF Chip, Line, Cascade
<1>2. Leaves(Put(k, c))
  BY DEF SetIrq, UpdateIrq, Leaves
<1> HIDE DEF k, l
<1>3. pic[k] \in PicState
  BY <1>1 DEF TypeOK
<1>4. /\ c \in PicState
      /\ c.isr = pic[k].isr
      /\ c.irr = pic[k].irr \/ c.irr = pic[k].irr \union {l}
  <2>1. c \in PicState
    BY <1>1, <1>3, SetIrq1Type
  <2>2. c.irr = pic[k].irr \/ c.irr = pic[k].irr \union {l}
    <3>1. CASE level
      BY <1>3, <3>1 DEF SetIrq1, PicState
    <3>2. CASE ~level
      BY <1>3, <3>2 DEF SetIrq1, PicState
    <3> QED
      BY <3>1, <3>2
  <2>3. c.isr = pic[k].isr
    BY <1>3 DEF SetIrq1, PicState
  <2> QED
    BY <2>1, <2>2, <2>3
<1> HIDE DEF c
<1>5. /\ pic'[0].isr = pic[0].isr /\ pic'[1].isr = pic[1].isr
      /\ pic'[1].irr = IF k = 1 THEN c.irr ELSE pic[1].irr
      /\ pic'[0].irr \ {Cascade}
           = (IF k = 0 THEN c.irr ELSE pic[0].irr) \ {Cascade}
  BY <1>1, <1>2, <1>4, PutLines DEF Chip
<1>6. CASE c.irr = pic[k].irr
  BY <1>1, <1>5, <1>6, NothingSeen DEF Chip
<1>7. CASE c.irr = pic[k].irr \union {l}
  <2>1. CASE k = 0
    BY <1>1, <1>5, <1>7, <2>1, RaiseSeen
  <2>2. CASE k = 1
    BY <1>1, <1>5, <1>7, <2>2, RaiseSeen
  <2> QED
    BY <1>1, <2>1, <2>2 DEF Chip
<1> QED
  BY <1>4, <1>6, <1>7

LEMMA ReadIrqSeen ==
  ASSUME TypeOK, ReadIrq
  PROVE  LedgerStep
<1> DEFINE p == AfterAck(pic)
           m == GetIrq(pic, 0)
           n == GetIrq(pic, 1)
<1>1. pic \in [Chip -> PicState] /\ 0 \in Chip /\ 1 \in Chip
  BY DEF TypeOK, Chip
<1>2. p \in [Chip -> PicState] /\ Leaves(p)
  BY <1>1, AfterAckType DEF ReadIrq, Leaves
<1>3. /\ pic'[1] = p[1]
      /\ pic'[0].isr = p[0].isr
      /\ pic'[0].irr \ {Cascade} = p[0].irr \ {Cascade}
  BY <1>2, LeavesLines
<1>4. Wants(pic, 0) =>
        /\ m \in Line /\ m \in pic[0].irr
        /\ Acknowledged(pic[0], m).irr = pic[0].irr \ {m}
        /\ Acknowledged(pic[0], m).isr \in {pic[0].isr, pic[0].isr \union {m}}
  BY <1>1, GetIrqIn, AcknowledgedFields DEF Eligible
<1>5. Wants(pic, 1) =>
        /\ n \in Line /\ n \in pic[1].irr
        /\ Acknowledged(pic[1], n).irr = pic[1].irr \ {n}
        /\ Acknowledged(pic[1], n).isr \in {pic[1].isr, pic[1].isr \union {n}}
  BY <1>1, GetIrqIn, AcknowledgedFields DEF Eligible
<1>6. \/ p = pic
      \/ /\ Wants(pic, 0)
         /\ p[0] = Acknowledged(pic[0], m)
         /\ \/ p[1] = pic[1]
            \/ m = Cascade /\ Wants(pic, 1) /\ p[1] = Acknowledged(pic[1], n)
  BY <1>1, AfterAckEffect
<1> HIDE DEF p, m, n
<1>7. CASE p = pic
  BY <1>3, <1>7, NothingSeen
<1>8. CASE Wants(pic, 0) /\ p[0] = Acknowledged(pic[0], m) /\ p[1] = pic[1]
  <2>1. CASE m = Cascade
    <3>1. /\ p[0].irr \ {Cascade} = pic[0].irr \ {Cascade}
          /\ p[0].isr \ {Cascade} = pic[0].isr \ {Cascade}
      BY <1>4, <1>8, <2>1
    <3> QED
      BY <1>3, <1>8, <3>1, NothingSeen
  <2>2. CASE m # Cascade
    <3>1. RequestGone(0, m)
      BY <1>3, <1>4, <1>8 DEF RequestGone
    <3>2. ServiceSame \/ ServiceBegun(0, m)
      BY <1>3, <1>4, <1>8 DEF ServiceSame, ServiceBegun
    <3> QED
      BY <1>1, <1>4, <1>8, <2>2, <3>1, <3>2, DeliverSeen
  <2> QED
    BY <2>1, <2>2
<1>9. CASE /\ Wants(pic, 0) /\ p[0] = Acknowledged(pic[0], m)
           /\ m = Cascade /\ Wants(pic, 1) /\ p[1] = Acknowledged(pic[1], n)
  <2>1. /\ p[0].irr \ {Cascade} = pic[0].irr \ {Cascade}
        /\ p[0].isr \ {Cascade} = pic[0].isr \ {Cascade}
    BY <1>4, <1>9
  <2>2. RequestGone(1, n)
    BY <1>3, <1>5, <1>9, <2>1 DEF RequestGone
  <2>3. ServiceSame \/ ServiceBegun(1, n)
    BY <1>3, <1>5, <1>9, <2>1 DEF ServiceSame, ServiceBegun
  <2> QED
    BY <1>1, <1>5, <1>9, <2>2, <2>3, DeliverSeen
<1> QED
  BY <1>6, <1>7, <1>8, <1>9

LEMMA GuestWriteSeen ==
  ASSUME TypeOK, NEW k \in Chip, GuestWrite(k)
  PROVE  LedgerStep
<1>1. CASE UNCHANGED vars
  BY <1>1, NothingSeen DEF vars
<1>2. CASE \E w \in Icw1Writes : WriteIcw1(k, w)
  <2> PICK w \in Icw1Writes : WriteIcw1(k, w)
    BY <1>2
  <2> DEFINE c == [ResetChip EXCEPT !.init_state = 1, !.init4 = w.init4,
                                    !.single_mode = w.single]
  <2>1. pic' = Put(k, c) /\ c.irr = {} /\ c.isr = {}
    BY DEF WriteIcw1, ResetChip
  <2> QED
    BY <2>1, InitialiseSeen
<1>3. CASE \E c : Rewrites(k, c)
  <2> PICK c : Rewrites(k, c)
    BY <1>3
  <2>1. c \in PicState /\ c.irr = pic[k].irr /\ Leaves(Put(k, c))
    BY DEF Rewrites, UpdateIrq, Store, Leaves
  <2>2. /\ pic'[k].isr = c.isr
        /\ pic'[1 - k].isr = pic[1 - k].isr
        /\ pic'[1].irr = pic[1].irr
        /\ pic'[0].irr \ {Cascade} = pic[0].irr \ {Cascade}
    BY <2>1, PutLines DEF Chip
  <2>3. CASE c.isr = pic[k].isr
    BY <2>2, <2>3, NothingSeen DEF Chip
  <2>4. ASSUME NEW l \in Line, c.isr = pic[k].isr \ {l} PROVE LedgerStep
    <3>1. ServiceEnded(k, l)
      BY <2>2, <2>4 DEF ServiceEnded, Chip
    <3> QED
      BY <2>2, <3>1, RetireSeen
  <2> QED
    BY <2>3, <2>4 DEF Rewrites
<1> QED
  BY <1>1, <1>2, <1>3, GuestWriteEffect

LEMMA PollReadSeen ==
  ASSUME TypeOK, NEW k \in Chip, PollRead(k)
  PROVE  LedgerStep
<1>1. CASE /\ \A j \in Chip : pic'[j].isr = pic[j].isr
           /\ pic'[1].irr = pic[1].irr
           /\ pic'[0].irr \ {Cascade} = pic[0].irr \ {Cascade}
  BY <1>1, NothingSeen DEF Chip
<1>2. ASSUME NEW l \in Eligible(pic, k),
             pic'[1].irr = pic[1].irr \ (IF k = 1 THEN {l} ELSE {}),
             pic'[1].isr = pic[1].isr \ (IF k = 1 THEN {l} ELSE {}),
             pic'[0].irr \ {Cascade}
               = pic[0].irr \ ({Cascade} \union IF k = 0 THEN {l} ELSE {}),
             pic'[0].isr = pic[0].isr \ {IF k = 0 THEN l ELSE Cascade}
      PROVE  LedgerStep
  <2>1. l \in Line /\ l \in pic[k].irr
    BY EligibleLines DEF TypeOK, Eligible
  <2>2. RequestGone(k, l) /\ ServiceEnded(k, l)
    BY <1>2 DEF RequestGone, ServiceEnded, Chip
  <2> QED
    BY <2>1, <2>2, PollSeen
<1> QED
  BY <1>1, <1>2, PollEffect

(* The pair of chips implements the ledger: whatever the guest programs, a *)
(* request stays latched until it is delivered once, polled, or dropped by *)
(* an initialisation, and a line in service stays so until it is ended;    *)
(* nothing a step does to one line shows on another, and the cascade is    *)
(* invisible.                                                              *)
THEOREM Refines == Spec => ImplementsLedger
<1>1. Init => Ledger!LedgerInit
  BY DEF Init, ResetChip, Ledger!LedgerInit, Requested, Serving, Chip
<1>2. TypeOK /\ [Next]_vars => [Ledger!LedgerNext]_(Ledger!ledgerVars)
  <2> SUFFICES ASSUME TypeOK, [Next]_vars PROVE LedgerStep
    BY DEF LedgerStep
  <2>1. CASE UNCHANGED vars
    BY <2>1, NothingSeen DEF vars
  <2> QED
    BY <2>1, SetIrqSeen, ReadIrqSeen, GuestWriteSeen, PollReadSeen DEF Next
<1> QED
  BY <1>1, <1>2, TypeCorrect, PTL DEF Spec, ImplementsLedger, Ledger!LedgerSpec
=============================================================================
