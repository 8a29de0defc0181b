----------------------------- MODULE MouseProofs -----------------------------
(***************************************************************************)
(* The mouse, for any size of its queue, any room for replies and any      *)
(* motion: until something does not fit into the queue, the guest never    *)
(* loses its place among packets and replies.  It reads a queue whose      *)
(* first bytes are the ones that it wants and whose others are whole       *)
(* packets, counted from the last byte of the queue.                       *)
(***************************************************************************)
EXTENDS DeviceParts, Sequences, SequenceTheorems, WellFoundedInduction, TLAPS

(* Numbers: the least of some, and what holds of 0 and of each successor.   *)
LEMMA LeastOf ==
  ASSUME NEW T, T \subseteq Nat, T # {}
  PROVE  \E x \in T : \A y \in T : ~(y < x)
<1> DEFINE R == OpToRel(<, Nat)
<1>1. IsWellFoundedOn(R, Nat)  BY NatLessThanWellFounded, Zenon
<1>2. \E x \in T : \A y \in T : ~(<<y, x>> \in R)
  <2> HIDE DEF R
  <2> QED  BY <1>1, WFMin, Zenon
<1>3. PICK x \in T : \A y \in T : ~(<<y, x>> \in R)  BY <1>2
<1>4. \A y \in T : ~(y < x)
  <2> SUFFICES ASSUME NEW y \in T, y < x PROVE FALSE
    OBVIOUS
  <2>1. <<y, x>> \in R  BY DEF OpToRel
  <2> QED  BY <1>3, <2>1
<1> QED  BY <1>4

LEMMA Successors ==
  ASSUME NEW S, 0 \in S, \A k \in Nat : k \in S => k + 1 \in S
  PROVE  Nat \subseteq S
<1> DEFINE T == Nat \ S
<1>1. SUFFICES ASSUME T # {} PROVE FALSE
  BY Zenon DEF T
<1>2. T \subseteq Nat  OBVIOUS
<1>3. \E x \in T : \A y \in T : ~(y < x)
  <2> HIDE DEF T
  <2> QED  BY <1>1, <1>2, LeastOf
<1>4. PICK x \in T : \A y \in T : ~(y < x)  BY <1>3
<1>5. x # 0 /\ x - 1 \in Nat /\ x - 1 < x /\ (x - 1) + 1 = x  OBVIOUS
<1>6. x - 1 \notin T  BY <1>4, <1>5
<1> QED  BY <1>5, <1>6

(* A function that is defined by what it is at 0 and from each number to    *)
(* the next.                                                                *)
Iterates(f, n, first, next) == f[0] = first /\ \A k \in 1 .. n : f[k] = next[k][f[k - 1]]

LEMMA Iterated ==
  ASSUME NEW n \in Nat, NEW M, NEW first \in M, NEW next \in [1 .. n -> [M -> M]]
  PROVE  \E f \in [0 .. n -> M] : Iterates(f, n, first, next)
<1> DEFINE Upto(j) ==
             \E f \in [0 .. j -> M] : f[0] = first /\ \A k \in 1 .. j : f[k] = next[k][f[k - 1]]
           S == {j \in Nat : j <= n => Upto(j)}
<1>1. 0 \in S
  <2> DEFINE f == [k \in 0 .. 0 |-> first]
  <2>1. f \in [0 .. 0 -> M] /\ f[0] = first  OBVIOUS
  <2>2. \A k \in 1 .. 0 : f[k] = next[k][f[k - 1]]  OBVIOUS
  <2> QED  BY <2>1, <2>2
<1>2. ASSUME NEW j \in Nat, j \in S PROVE j + 1 \in S
  <2> SUFFICES ASSUME j + 1 <= n PROVE Upto(j + 1)
    OBVIOUS
  <2>1. PICK f \in [0 .. j -> M] : f[0] = first /\ \A k \in 1 .. j : f[k] = next[k][f[k - 1]]
    BY <1>2
  <2> DEFINE g == [k \in 0 .. j + 1 |-> IF k = j + 1 THEN next[j + 1][f[j]] ELSE f[k]]
  <2>2. next[j + 1][f[j]] \in M  OBVIOUS
  <2>3. g \in [0 .. j + 1 -> M]  BY <2>2
  <2>4. g[0] = first  BY <2>1
  <2>5. \A k \in 1 .. j + 1 : g[k] = next[k][g[k - 1]]
    <3> SUFFICES ASSUME NEW k \in 1 .. j + 1 PROVE g[k] = next[k][g[k - 1]]
      OBVIOUS
    <3>1. CASE k = j + 1
      <4>1. k - 1 = j /\ j # j + 1 /\ j \in 0 .. j + 1 BY <3>1
      <4>2. g[k] = next[j + 1][f[j]]  BY <3>1
      <4>3. g[k - 1] = f[j]  BY <4>1
      <4> QED  BY <3>1, <4>2, <4>3
    <3>2. CASE k # j + 1
      <4>1. k \in 1 .. j /\ k - 1 \in 0 .. j + 1 /\ k - 1 # j + 1  BY <3>2
      <4>2. g[k] = f[k] /\ g[k - 1] = f[k - 1]  BY <3>2, <4>1
      <4> QED  BY <2>1, <4>1, <4>2
    <3> QED  BY <3>1, <3>2
  <2> QED  BY <2>3, <2>4, <2>5
<1> HIDE DEF S
<1>3. Nat \subseteq S  BY <1>1, <1>2, Successors
<1> QED  BY <1>3 DEF S, Iterates

-----------------------------------------------------------------------------
MouseSpec == Mouse!Init /\ [][Mouse!Next]_Mouse!mouseVars

(* The longest reply has room in an empty queue.                            *)
MouseAssumed ==
  /\ QueueSize \in Nat /\ QueueSize >= 5 /\ MouseRoom \in Nat
  /\ Largest \in Nat \ {0} /\ Reach \in Nat /\ Moves \subseteq Int \X Int

Kinds == {"ack", "byte", "head", "dx", "dy", "dz"}
Types == {0, 3, 4}
MouseT == [write_cmd : {"none", "sample", "resolution"}, wrap : BOOLEAN, enabled : BOOLEAN,
           remote : BOOLEAN, type : Types, detect : 0 .. 3, dx : Int, dz : Int]
ByteT == [kind : Kinds, v : Int]
DrvT == [at : {"idle", "stream", "reply", "drain"}, cmd : Mouse!Commands \cup {"none"},
         want : Seq(Kinds), type : Int, probe : Seq({80, 100, 200}), kind : Types,
         known : BOOLEAN, aligned : BOOLEAN]

(* Packets of a type, and the byte that comes j bytes before the last.      *)
PacketLen(t) == IF t = 0 THEN 3 ELSE 4
KindAt(t, j) ==
  IF t = 0
  THEN IF j = 0 THEN "dy" ELSE IF j = 1 THEN "dx" ELSE "head"
  ELSE IF j = 0 THEN "dz" ELSE IF j = 1 THEN "dy" ELSE IF j = 2 THEN "dx" ELSE "head"

(* The first w of n bytes are the ones that are wanted, the others are      *)
(* whole packets.                                                           *)
Laid(q, want, w, n, t) ==
  /\ w <= n
  /\ \A i \in 1 .. w : q[i].kind = want[i]
  /\ (n - w) % PacketLen(t) = 0
  /\ \A i \in w + 1 .. n : q[i].kind = KindAt(t, (n - i) % PacketLen(t))

Sending == mouse.enabled /\ ~mouse.remote
Naming == mouse_drv.at = "reply" /\ mouse_drv.cmd = "type"

MouseTyped == mouse \in MouseT /\ mouse_queue \in Seq(ByteT) /\ mouse_drv \in DrvT /\ mouse_owed \in Int

(* What the guest is doing, and the mode that the mouse is in.              *)
Modal ==
  /\ mouse_drv.at = "stream" => Sending
  /\ mouse_drv.at \in {"idle", "drain"} => ~Sending
  /\ mouse_drv.at = "drain" => mouse_drv.cmd \in {"disable", "remote"}
  /\ mouse_drv.at = "idle" => mouse_drv.want = <<>>
  /\ mouse_drv.at = "reply" => mouse_drv.want # <<>>
  /\ mouse.wrap => ~Sending
  /\ mouse.write_cmd # "none" =>
       ~Sending /\ ~mouse.wrap /\ mouse_drv.cmd = mouse.write_cmd /\ mouse_drv.at \in {"idle", "reply"}
  /\ mouse.write_cmd = "sample" => ~mouse.enabled

(* The probe that the guest is in the middle of.                            *)
Probing ==
  /\ \/ Len(mouse_drv.probe) = 0 /\ mouse.detect = 0
     \/ Len(mouse_drv.probe) = 1 /\ mouse.detect = 1
     \/ Len(mouse_drv.probe) = 2 /\ mouse_drv.probe[2] = 100 /\ mouse.detect = 2
     \/ Len(mouse_drv.probe) = 2 /\ mouse_drv.probe[2] = 200 /\ mouse.detect = 3
  /\ mouse_drv.probe # <<>> =>
       ~mouse.enabled /\ ~mouse.wrap /\ mouse_drv.cmd = "sample" /\ mouse.write_cmd # "resolution"
  /\ mouse_drv.kind = mouse.type

(* What it knows. *)
Knowing ==
  /\ mouse.enabled \/ mouse_drv.at = "drain" => mouse_drv.known
  /\ mouse_drv.known /\ ~Naming => mouse_drv.type = mouse.type
  /\ Naming => /\ ~mouse.wrap /\ ~Sending
               /\ mouse_drv.want \in {<<"ack", "byte">>, <<"byte">>}
               /\ mouse_queue[Len(mouse_queue)] = Mouse!Byte("byte", mouse.type)

(* What is on its way. *)
InBody == {"dx", "dy", "dz"}
Queueing ==
  /\ Len(mouse_queue) <= QueueSize
  /\ mouse_drv.at \in {"idle", "stream", "reply"} =>
       /\ Laid(mouse_queue, mouse_drv.want, Len(mouse_drv.want), Len(mouse_queue), mouse.type)
       /\ ~Sending => Len(mouse_queue) = Len(mouse_drv.want)
  /\ mouse_drv.at = "stream" => \A i \in 1 .. Len(mouse_drv.want) : mouse_drv.want[i] \in InBody
  /\ mouse_drv.at = "drain" =>
       /\ mouse_queue # <<>> /\ mouse_drv.want # <<>>
       /\ Laid(mouse_queue, mouse_drv.want, Len(mouse_drv.want) - 1, Len(mouse_queue) - 1, mouse.type)
       /\ mouse_queue[Len(mouse_queue)].kind = "ack" /\ mouse_drv.want[Len(mouse_drv.want)] = "ack"
       /\ \A i \in 1 .. Len(mouse_drv.want) - 1 : mouse_drv.want[i] \in InBody

MouseInv ==
  MouseTyped /\ Modal /\ Probing /\ Knowing /\ Queueing /\ Mouse!PacketsAligned /\ Mouse!MotionKept

-----------------------------------------------------------------------------
(* The sum of the motion in a queue.                                        *)
SumOf(q) ==
  LET upto[i \in 0 .. Len(q)] == IF i = 0 THEN 0 ELSE upto[i - 1] + Mouse!Along(q[i])
  IN upto

LEMMA InsideIs == ASSUME NEW q PROVE Mouse!Inside(q) = SumOf(q)[Len(q)]
BY DEF Mouse!Inside, SumOf

LEMMA AlongIn == ASSUME NEW b \in ByteT PROVE Mouse!Along(b) \in Int
BY DEF ByteT, Mouse!Along

LEMMA SumSteps ==
  ASSUME NEW q \in Seq(ByteT)
  PROVE  /\ SumOf(q)[0] = 0
         /\ \A k \in 0 .. Len(q) : SumOf(q)[k] \in Int
         /\ \A k \in 1 .. Len(q) : SumOf(q)[k] = SumOf(q)[k - 1] + Mouse!Along(q[k])
<1> DEFINE n == Len(q)
           R(m) == [k \in 0 .. n |-> IF k = 0 THEN 0 ELSE m[k - 1] + Mouse!Along(q[k])]
           g == SumOf(q)
<1>0. n \in Nat /\ \A k \in 1 .. n : q[k] \in ByteT  OBVIOUS
<1>1. g = CHOOSE m : m = R(m)  BY DEF SumOf
<1>a. \A k \in 1 .. n : Mouse!Along(q[k]) \in Int  BY <1>0, AlongIn
<1> HIDE DEF n
<1>2. \E m : m = R(m)
  <2> DEFINE next == [k \in 1 .. n |-> [m \in Int |-> m + Mouse!Along(q[k])]]
  <2>1. next \in [1 .. n -> [Int -> Int]]
    <3>1. \A k \in 1 .. n : \A m \in Int : m + Mouse!Along(q[k]) \in Int  BY <1>a
    <3> QED  BY <3>1, Zenon
  <2>3. \A k \in 1 .. n : \A m \in Int : next[k][m] = m + Mouse!Along(q[k])  OBVIOUS
  <2>7. 0 \in Int  OBVIOUS
  <2> HIDE DEF next
  <2>8. PICK f \in [0 .. n -> Int] : Iterates(f, n, 0, next)
    BY <1>0, <2>1, <2>7, Iterated
  <2>4. f[0] = 0 /\ \A k \in 1 .. n : f[k] = next[k][f[k - 1]]
    BY <2>8 DEF Iterates
  <2>5. \A k \in 0 .. n : f[k] = IF k = 0 THEN 0 ELSE f[k - 1] + Mouse!Along(q[k])
    <3> TAKE k \in 0 .. n
    <3>1. CASE k = 0  BY <2>4, <3>1
    <3>2. CASE k # 0
      <4>1. k \in 1 .. n /\ k - 1 \in 0 .. n  BY <1>0, <3>2
      <4> QED  BY <2>3, <2>4, <3>2, <4>1
    <3> QED  BY <3>1, <3>2
  <2>6. f = R(f)  BY <2>5
  <2> QED  BY <2>6
<1>3. g = R(g)
  <2> HIDE DEF g, R
  <2> QED  BY <1>1, <1>2
<1> HIDE DEF g
<1>4. g[0] = 0 /\ \A k \in 1 .. n : g[k] = g[k - 1] + Mouse!Along(q[k])
  <2>2. 0 \in 0 .. n /\ \A k \in 1 .. n : k \in 0 .. n /\ k # 0  BY <1>0
  <2>3. \A k \in 0 .. n : g[k] = IF k = 0 THEN 0 ELSE g[k - 1] + Mouse!Along(q[k])
    BY <1>3, Zenon
  <2> QED  BY <2>2, <2>3, Zenon
<1>5. \A k \in 0 .. n : g[k] \in Int
  <2> DEFINE S == {k \in Nat : k <= n => g[k] \in Int}
  <2>1. 0 \in S  BY <1>4
  <2>2. ASSUME NEW k \in Nat, k \in S PROVE k + 1 \in S
    <3> SUFFICES ASSUME k + 1 <= n PROVE g[k + 1] \in Int
      OBVIOUS
    <3>1. k + 1 \in 1 .. n /\ (k + 1) - 1 = k /\ k <= n  BY <1>0
    <3>2. g[k + 1] = g[k] + Mouse!Along(q[k + 1])  BY <1>4, <3>1
    <3>3. g[k] \in Int  BY <2>2, <3>1
    <3> QED  BY <1>a, <3>1, <3>2, <3>3
  <2> HIDE DEF S
  <2>3. Nat \subseteq S  BY <2>1, <2>2, Successors
  <2> QED  BY <1>0, <2>3 DEF S
<1> QED  BY <1>4, <1>5 DEF g, n

LEMMA InsideIn == ASSUME NEW q \in Seq(ByteT) PROVE Mouse!Inside(q) \in Int
<1>1. Len(q) \in 0 .. Len(q)  OBVIOUS
<1> QED  BY <1>1, InsideIs, SumSteps

(* Queues that begin alike have the same sums there.                        *)
LEMMA SameSums ==
  ASSUME NEW q \in Seq(ByteT), NEW p \in Seq(ByteT), NEW n \in Nat, n <= Len(q), n <= Len(p),
         \A k \in 1 .. n : q[k] = p[k]
  PROVE  SumOf(q)[n] = SumOf(p)[n]
<1> DEFINE S == {k \in Nat : k <= n => SumOf(q)[k] = SumOf(p)[k]}
<1>1. 0 \in S  BY SumSteps
<1>2. ASSUME NEW k \in Nat, k \in S PROVE k + 1 \in S
  <2> SUFFICES ASSUME k + 1 <= n PROVE SumOf(q)[k + 1] = SumOf(p)[k + 1]
    OBVIOUS
  <2>1. k + 1 \in 1 .. Len(q) /\ k + 1 \in 1 .. Len(p) /\ k + 1 \in 1 .. n /\ (k + 1) - 1 = k
    OBVIOUS
  <2>2. SumOf(q)[k + 1] = SumOf(q)[k] + Mouse!Along(q[k + 1])  BY <2>1, SumSteps
  <2>3. SumOf(p)[k + 1] = SumOf(p)[k] + Mouse!Along(p[k + 1])  BY <2>1, SumSteps
  <2>4. SumOf(q)[k] = SumOf(p)[k]  BY <1>2, <2>1
  <2> QED  BY <2>1, <2>2, <2>3, <2>4
<1> HIDE DEF S
<1>3. Nat \subseteq S  BY <1>1, <1>2, Successors
<1> QED  BY <1>3 DEF S

LEMMA InsideEmpty == Mouse!Inside(<<>>) = 0
<1>1. <<>> \in Seq(ByteT) /\ Len(<<>>) = 0  OBVIOUS
<1> QED  BY <1>1, InsideIs, SumSteps

(* A byte more, and a byte less. *)
LEMMA InsideAppend ==
  ASSUME NEW q \in Seq(ByteT), NEW b \in ByteT
  PROVE  Mouse!Inside(Append(q, b)) = Mouse!Inside(q) + Mouse!Along(b)
<1> DEFINE p == Append(q, b)
           n == Len(q)
<1>1. p \in Seq(ByteT) /\ Len(p) = n + 1 /\ p[n + 1] = b /\ n \in Nat  OBVIOUS
<1>2. \A k \in 1 .. n : q[k] = p[k]  OBVIOUS
<1> HIDE DEF p
<1>3. SumOf(q)[n] = SumOf(p)[n]  BY <1>1, <1>2, SameSums
<1>4. n + 1 \in 1 .. Len(p) /\ (n + 1) - 1 = n  BY <1>1
<1>5. SumOf(p)[n + 1] = SumOf(p)[n] + Mouse!Along(b)  BY <1>1, <1>4, SumSteps
<1>6. Mouse!Inside(p) = SumOf(p)[n + 1] /\ Mouse!Inside(q) = SumOf(q)[n]  BY <1>1, InsideIs
<1> QED  BY <1>3, <1>5, <1>6 DEF p

LEMMA InsideTail ==
  ASSUME NEW q \in Seq(ByteT), q # <<>>
  PROVE  Mouse!Inside(Tail(q)) = Mouse!Inside(q) - Mouse!Along(Head(q))
<1> DEFINE p == Tail(q)
           n == Len(p)
<1>1. p \in Seq(ByteT) /\ Len(q) = n + 1 /\ q[1] = Head(q) /\ n \in Nat  OBVIOUS
<1>2. \A k \in 1 .. n : p[k] = q[k + 1]  OBVIOUS
<1> DEFINE a == Mouse!Along(Head(q))
           S == {k \in Nat : k <= n => SumOf(q)[k + 1] = a + SumOf(p)[k]}
<1>3. a \in Int
  <2>1. Head(q) \in ByteT  OBVIOUS
  <2> QED  BY <2>1, AlongIn
<1> HIDE DEF p, a
<1>4. 0 \in S
  <2>1. 1 \in 1 .. Len(q) /\ 1 - 1 = 0  BY <1>1
  <2>2. SumOf(q)[1] = SumOf(q)[0] + Mouse!Along(q[1])  BY <2>1, SumSteps
  <2>3. SumOf(q)[0] = 0 /\ SumOf(p)[0] = 0  BY <1>1, SumSteps
  <2> QED  BY <1>1, <1>3, <2>2, <2>3 DEF a
<1>5. ASSUME NEW k \in Nat, k \in S PROVE k + 1 \in S
  <2> SUFFICES ASSUME k + 1 <= n PROVE SumOf(q)[(k + 1) + 1] = a + SumOf(p)[k + 1]
    OBVIOUS
  <2>1. /\ (k + 1) + 1 \in 1 .. Len(q) /\ k + 1 \in 1 .. n /\ (k + 1) - 1 = k /\ k <= n
        /\ ((k + 1) + 1) - 1 = k + 1 /\ k \in 0 .. n
    BY <1>1
  <2>2. SumOf(q)[(k + 1) + 1] = SumOf(q)[k + 1] + Mouse!Along(q[(k + 1) + 1])  BY <2>1, SumSteps
  <2>3. SumOf(p)[k + 1] = SumOf(p)[k] + Mouse!Along(p[k + 1])  BY <1>1, <2>1, SumSteps
  <2>4. SumOf(q)[k + 1] = a + SumOf(p)[k]  BY <1>5, <2>1
  <2>5. p[k + 1] = q[(k + 1) + 1]  BY <1>2, <2>1
  <2>6. SumOf(p)[k] \in Int /\ Mouse!Along(p[k + 1]) \in Int
    <3>1. p[k + 1] \in ByteT  BY <1>1, <2>1
    <3> QED  BY <1>1, <2>1, <3>1, SumSteps, AlongIn
  <2> QED  BY <1>3, <2>2, <2>3, <2>4, <2>5, <2>6
<1> HIDE DEF S
<1>6. Nat \subseteq S  BY <1>4, <1>5, Successors
<1>7. SumOf(q)[n + 1] = a + SumOf(p)[n]  BY <1>1, <1>6 DEF S
<1>8. Mouse!Inside(p) = SumOf(p)[n] /\ Mouse!Inside(q) = SumOf(q)[n + 1]  BY <1>1, InsideIs
<1>9. SumOf(p)[n] \in Int
  <2>1. n \in 0 .. n  BY <1>1
  <2> QED  BY <1>1, <2>1, SumSteps
<1> QED  BY <1>3, <1>7, <1>8, <1>9 DEF p, a

-----------------------------------------------------------------------------
(* A packet: its bytes, and what is left to send after it.                  *)
Queue == {s \in Seq(ByteT) : Len(s) <= QueueSize}

LEMMA QueuedFits ==
  ASSUME MouseAssumed, NEW q \in Queue, NEW bytes \in Seq(ByteT), Len(q) + Len(bytes) <= QueueSize
  PROVE  Mouse!Queued(q, bytes) = q \o bytes /\ q \o bytes \in Queue
BY DEF Mouse!Queued, Queue

LEMMA QueuedIn ==
  ASSUME MouseAssumed, NEW q \in Queue, NEW bytes \in Seq(ByteT)
  PROVE  Mouse!Queued(q, bytes) \in Queue
<1>1. CASE Len(q) + Len(bytes) <= QueueSize  BY <1>1, QueuedFits
<1>2. CASE ~(Len(q) + Len(bytes) <= QueueSize)
  <2> DEFINE n == QueueSize - Len(q)
  <2>1. n \in Nat /\ n <= Len(bytes) /\ q \in Seq(ByteT)  BY <1>2 DEF Queue, MouseAssumed
  <2>2. SubSeq(bytes, 1, n) \in Seq(ByteT) /\ Len(SubSeq(bytes, 1, n)) = n  BY <2>1
  <2>3. Mouse!Queued(q, bytes) = q \o SubSeq(bytes, 1, n)  BY <1>2 DEF Mouse!Queued
  <2>4. Len(q \o SubSeq(bytes, 1, n)) = Len(q) + n  BY <2>1, <2>2
  <2>5. Len(q) + n = QueueSize  BY <2>1 DEF MouseAssumed, Queue
  <2>6. q \o SubSeq(bytes, 1, n) \in Seq(ByteT)  BY <2>1, <2>2
  <2> HIDE DEF n
  <2> QED  BY <2>3, <2>4, <2>5, <2>6 DEF Queue, MouseAssumed
<1> QED  BY <1>1, <1>2

LEMMA ClampIn == ASSUME MouseAssumed, NEW x \in Int PROVE Mouse!Clamp(x) \in Int
BY DEF MouseAssumed, Mouse!Clamp

LEMMA BytesIn ==
  ASSUME NEW k \in Kinds, NEW v \in Int
  PROVE  /\ Mouse!Byte(k, v) \in ByteT
         /\ Mouse!Byte(k, v).kind = k /\ Mouse!Byte(k, v).v = v
BY DEF Mouse!Byte, ByteT

LEMMA PacketIs ==
  ASSUME MouseAssumed, NEW m \in MouseT
  PROVE  /\ Mouse!Packet(m) \in Seq(ByteT)
         /\ Len(Mouse!Packet(m)) = PacketLen(m.type)
         /\ \A j \in 1 .. PacketLen(m.type) :
              Mouse!Packet(m)[j].kind = KindAt(m.type, PacketLen(m.type) - j)
<1> DEFINE x == Mouse!Byte("dx", Mouse!Clamp(m.dx))
           z == Mouse!Byte("dz", Mouse!Clamp(m.dz))
           y == Mouse!Byte("dy", 0)
           h == Mouse!Byte("head", 0)
<1>1. m.dx \in Int /\ m.dz \in Int  BY DEF MouseT
<1>2. /\ x \in ByteT /\ z \in ByteT /\ y \in ByteT /\ h \in ByteT
      /\ x.kind = "dx" /\ y.kind = "dy" /\ z.kind = "dz" /\ h.kind = "head"
  <2>1. Mouse!Clamp(m.dx) \in Int /\ Mouse!Clamp(m.dz) \in Int  BY <1>1, ClampIn
  <2> QED  BY <2>1, BytesIn DEF Kinds
<1>3. Mouse!Packet(m) = <<h, x, y>> \o (IF m.type = 0 THEN <<>> ELSE <<z>>)
  BY DEF Mouse!Packet
<1> HIDE DEF x, y, z, h
<1>4. CASE m.type = 0
  <2>1. Mouse!Packet(m) = <<h, x, y>>  BY <1>3, <1>4
  <2>2. /\ <<h, x, y>> \in Seq(ByteT) /\ Len(<<h, x, y>>) = 3
        /\ <<h, x, y>>[1] = h /\ <<h, x, y>>[2] = x /\ <<h, x, y>>[3] = y
    BY <1>2
  <2> HIDE <1>3
  <2> QED  BY <1>2, <1>4, <2>1, <2>2 DEF PacketLen, KindAt
<1>5. CASE m.type # 0
  <2> DEFINE s == <<h, x, y>> \o <<z>>
  <2>1. Mouse!Packet(m) = s  BY <1>3, <1>5
  <2>2. s \in Seq(ByteT) /\ Len(s) = 4 /\ s[1] = h /\ s[2] = x /\ s[3] = y /\ s[4] = z
    BY <1>2
  <2> HIDE DEF s
  <2>3. \A j \in 1 .. 4 : j = 1 \/ j = 2 \/ j = 3 \/ j = 4  OBVIOUS
  <2> QED  BY <1>2, <1>5, <2>1, <2>2, <2>3 DEF PacketLen, KindAt
<1> QED  BY <1>4, <1>5

LEMMA Joined ==
  ASSUME NEW q \in Seq(ByteT), NEW u \in Seq(ByteT)
  PROVE  /\ q \o u \in Seq(ByteT) /\ Len(q \o u) = Len(q) + Len(u)
         /\ \A i \in 1 .. Len(q) : (q \o u)[i] = q[i]
         /\ \A i \in 1 .. Len(u) : (q \o u)[Len(q) + i] = u[i]
OBVIOUS

LEMMA JoinedWants ==
  ASSUME NEW q \in Seq(Kinds), NEW u \in Seq(Kinds)
  PROVE  /\ q \o u \in Seq(Kinds) /\ Len(q \o u) = Len(q) + Len(u)
         /\ \A i \in 1 .. Len(q) : (q \o u)[i] = q[i]
         /\ \A i \in 1 .. Len(u) : (q \o u)[Len(q) + i] = u[i]
OBVIOUS

LEMMA InsidePacket ==
  ASSUME MouseAssumed, NEW m \in MouseT, NEW q \in Seq(ByteT)
  PROVE  Mouse!Inside(q \o Mouse!Packet(m)) = Mouse!Inside(q) + Mouse!Clamp(m.dx)
<1> DEFINE x == Mouse!Byte("dx", Mouse!Clamp(m.dx))
           z == Mouse!Byte("dz", Mouse!Clamp(m.dz))
           y == Mouse!Byte("dy", 0)
           h == Mouse!Byte("head", 0)
<1>1. m.dx \in Int /\ m.dz \in Int  BY DEF MouseT
<1>0. Mouse!Clamp(m.dx) \in Int /\ Mouse!Clamp(m.dz) \in Int  BY <1>1, ClampIn
<1>2. /\ x \in ByteT /\ z \in ByteT /\ y \in ByteT /\ h \in ByteT
      /\ x.kind = "dx" /\ y.kind = "dy" /\ z.kind = "dz" /\ h.kind = "head"
      /\ x.v = Mouse!Clamp(m.dx)
  BY <1>0, BytesIn DEF Kinds
<1>3. Mouse!Packet(m) = <<h, x, y>> \o (IF m.type = 0 THEN <<>> ELSE <<z>>)
  BY DEF Mouse!Packet
<1> HIDE DEF x, y, z, h
<1> DEFINE p1 == Append(q, h)
           p2 == Append(p1, x)
           p3 == Append(p2, y)
           p4 == Append(p3, z)
<1>4. p1 \in Seq(ByteT) /\ p2 \in Seq(ByteT) /\ p3 \in Seq(ByteT)  BY <1>2
<1>5. q \o Mouse!Packet(m) = IF m.type = 0 THEN p3 ELSE p4
  <2> DEFINE n == Len(q)
  <2>0. n \in Nat  OBVIOUS
  <2>1. /\ Len(p3) = n + 3 /\ \A i \in 1 .. n : p3[i] = q[i]
        /\ p3[n + 1] = h /\ p3[n + 2] = x /\ p3[n + 3] = y
    BY <1>2
  <2>2. p4 \in Seq(ByteT) /\ Len(p4) = n + 4 /\ (\A i \in 1 .. n + 3 : p4[i] = p3[i]) /\ p4[n + 4] = z
    BY <1>2, <1>4, <2>1
  <2>3. CASE m.type = 0
    <3> DEFINE s == q \o <<h, x, y>>
    <3>1. q \o Mouse!Packet(m) = s  BY <1>2, <1>3, <2>3
    <3>2. /\ s \in Seq(ByteT) /\ Len(s) = n + 3 /\ \A i \in 1 .. n : s[i] = q[i]
          /\ s[n + 1] = h /\ s[n + 2] = x /\ s[n + 3] = y
      BY <1>2
    <3>3. \A i \in 1 .. n + 3 : i \in 1 .. n \/ i = n + 1 \/ i = n + 2 \/ i = n + 3  BY <2>0
    <3> HIDE DEF s, p1, p2, p3, p4, n
    <3>4. \A i \in 1 .. Len(s) : s[i] = p3[i]  BY <2>1, <3>2, <3>3
    <3>5. s = p3  BY <1>4, <2>1, <3>2, <3>4, SeqEqual
    <3> QED  BY <2>3, <3>1, <3>5
  <2>4. CASE m.type # 0
    <3> DEFINE u == <<h, x, y>> \o <<z>>
    <3> DEFINE s == q \o u
    <3>1. q \o Mouse!Packet(m) = s  BY <1>3, <2>4
    <3>2. u \in Seq(ByteT) /\ Len(u) = 4 /\ u[1] = h /\ u[2] = x /\ u[3] = y /\ u[4] = z
      BY <1>2
    <3> HIDE DEF u
    <3>3. /\ s \in Seq(ByteT) /\ Len(s) = n + 4 /\ \A i \in 1 .. n : s[i] = q[i]
          /\ s[n + 1] = h /\ s[n + 2] = x /\ s[n + 3] = y /\ s[n + 4] = z
      <4>1. Len(q) + Len(u) = n + 4 /\ 1 \in 1 .. Len(u) /\ 2 \in 1 .. Len(u) /\ 3 \in 1 .. Len(u)
            /\ 4 \in 1 .. Len(u)
        BY <3>2
      <4> HIDE DEF p1, p2, p3, p4
      <4> QED  BY <3>2, <4>1, Joined
    <3>4. \A i \in 1 .. n + 4 : i \in 1 .. n \/ i = n + 1 \/ i = n + 2 \/ i = n + 3 \/ i = n + 4
      BY <2>0
    <3>6. /\ n + 1 \in 1 .. n + 3 /\ n + 2 \in 1 .. n + 3 /\ n + 3 \in 1 .. n + 3
          /\ \A i \in 1 .. n : i \in 1 .. n + 3
      BY <2>0
    <3> HIDE DEF s, p1, p2, p3, p4, n
    <3>7. /\ \A i \in 1 .. n : p4[i] = q[i]
          /\ p4[n + 1] = h /\ p4[n + 2] = x /\ p4[n + 3] = y
      BY <2>1, <2>2, <3>6, Zenon
    <3>8. \A i \in 1 .. Len(s) : s[i] = p4[i]  BY <2>2, <3>3, <3>4, <3>7
    <3>5. s = p4  BY <2>2, <3>3, <3>8, SeqEqual
    <3> QED  BY <2>4, <3>1, <3>5
  <2> QED  BY <2>3, <2>4
<1> HIDE DEF p1
<1>6. Mouse!Inside(p1) = Mouse!Inside(q) + Mouse!Along(h)  BY <1>2, InsideAppend DEF p1
<1> HIDE DEF p2
<1>7. Mouse!Inside(p2) = Mouse!Inside(p1) + Mouse!Along(x)  BY <1>2, <1>4, InsideAppend DEF p2
<1> HIDE DEF p3
<1>8. Mouse!Inside(p3) = Mouse!Inside(p2) + Mouse!Along(y)  BY <1>2, <1>4, InsideAppend DEF p3
<1> HIDE DEF p4
<1>9. Mouse!Inside(p4) = Mouse!Inside(p3) + Mouse!Along(z)  BY <1>2, <1>4, InsideAppend DEF p4
<1>10. /\ Mouse!Along(h) = 0 /\ Mouse!Along(y) = 0 /\ Mouse!Along(z) = 0
       /\ Mouse!Along(x) = Mouse!Clamp(m.dx)
  BY <1>2 DEF Mouse!Along
<1>11. Mouse!Inside(q) \in Int  BY InsideIn
<1> QED  BY <1>0, <1>5, <1>6, <1>7, <1>8, <1>9, <1>10, <1>11

Within(x, b) == -b <= x /\ x <= b

LEMMA ClampLeaves ==
  ASSUME MouseAssumed, NEW x \in Int, NEW c \in Nat
  PROVE  /\ Within(x, c + Largest) => Within(x - Mouse!Clamp(x), c)
         /\ Within(x, c) => Within(x - Mouse!Clamp(x), IF c = 0 THEN 0 ELSE c - 1)
BY DEF MouseAssumed, Mouse!Clamp, Within

(* A mouse that differs in the motion to send only.                         *)
SameMode(m, m0) ==
  /\ m \in MouseT
  /\ m.write_cmd = m0.write_cmd /\ m.wrap = m0.wrap /\ m.enabled = m0.enabled
  /\ m.remote = m0.remote /\ m.type = m0.type /\ m.detect = m0.detect

LEMMA SentIs ==
  ASSUME MouseAssumed, NEW m \in MouseT
  PROVE  /\ SameMode(Mouse!Sent(m), m)
         /\ Mouse!Sent(m).dx = m.dx - Mouse!Clamp(m.dx)
         /\ \/ Mouse!Sent(m).dz = 0
            \/ Mouse!Sent(m).dz = m.dz - Mouse!Clamp(m.dz)
<1>1. m.dx \in Int /\ m.dz \in Int  BY DEF MouseT
<1>2. Mouse!Clamp(m.dx) \in Int /\ Mouse!Clamp(m.dz) \in Int  BY <1>1, ClampIn
<1>3. m.dx - Mouse!Clamp(m.dx) \in Int /\ m.dz - Mouse!Clamp(m.dz) \in Int /\ 0 \in Int
  BY <1>1, <1>2
<1> QED  BY <1>3 DEF Mouse!Sent, MouseT, SameMode

LEMMA SameTwice ==
  ASSUME NEW m0 \in MouseT, NEW m, NEW p, SameMode(m, m0), SameMode(p, m)
  PROVE  SameMode(p, m0) /\ m.type = m0.type /\ p.type = m0.type
BY DEF SameMode, MouseT

-----------------------------------------------------------------------------
(* Packet after packet.                                                     *)
AfterPacket(s) == [m |-> Mouse!Sent(s.m), q |-> Mouse!Queued(s.q, Mouse!Packet(s.m))]
States == [m : MouseT, q : Queue]

LEMMA StatesStay == ASSUME MouseAssumed, NEW s \in States PROVE AfterPacket(s) \in States
<1>1. s.m \in MouseT /\ s.q \in Queue  BY DEF States
<1>2. Mouse!Sent(s.m) \in MouseT  BY <1>1, SentIs DEF SameMode
<1>3. Mouse!Queued(s.q, Mouse!Packet(s.m)) \in Queue  BY <1>1, PacketIs, QueuedIn
<1> QED  BY <1>2, <1>3 DEF AfterPacket, States

LEMMA PacketsSteps ==
  ASSUME MouseAssumed, NEW m0 \in MouseT, NEW q0 \in Queue
  PROVE  /\ Mouse!Packets(m0, q0)[0] = [m |-> m0, q |-> q0]
         /\ \A k \in 1 .. Reach + 1 :
              Mouse!Packets(m0, q0)[k] = AfterPacket(Mouse!Packets(m0, q0)[k - 1])
<1> DEFINE n == Reach + 1
           first == [m |-> m0, q |-> q0]
           R(f) == [k \in 0 .. n |-> IF k = 0 THEN first ELSE AfterPacket(f[k - 1])]
           g == Mouse!Packets(m0, q0)
<1>0. n \in Nat /\ first \in States  BY DEF MouseAssumed, States
<1>1. g = CHOOSE f : f = R(f)  BY DEF Mouse!Packets, AfterPacket
<1> HIDE DEF n, first
<1>2. \E f : f = R(f)
  <2> DEFINE next == [k \in 1 .. n |-> [s \in States |-> AfterPacket(s)]]
  <2>1. next \in [1 .. n -> [States -> States]]
    <3>1. \A s \in States : AfterPacket(s) \in States  BY StatesStay
    <3> QED  BY <3>1, Zenon
  <2>3. \A k \in 1 .. n : \A s \in States : next[k][s] = AfterPacket(s)  OBVIOUS
  <2> HIDE DEF next
  <2>8. PICK f \in [0 .. n -> States] : Iterates(f, n, first, next)
    BY <1>0, <2>1, Iterated
  <2>4. f[0] = first /\ \A k \in 1 .. n : f[k] = next[k][f[k - 1]]
    BY <2>8 DEF Iterates
  <2>5. \A k \in 0 .. n : f[k] = IF k = 0 THEN first ELSE AfterPacket(f[k - 1])
    <3> TAKE k \in 0 .. n
    <3>1. CASE k = 0  BY <2>4, <3>1
    <3>2. CASE k # 0
      <4>1. k \in 1 .. n /\ k - 1 \in 0 .. n  BY <1>0, <3>2
      <4> QED  BY <2>3, <2>4, <3>2, <4>1
    <3> QED  BY <3>1, <3>2
  <2>6. f = R(f)  BY <2>5
  <2> QED  BY <2>6
<1>3. g = R(g)
  <2> HIDE DEF g, R
  <2> QED  BY <1>1, <1>2
<1> HIDE DEF g
<1>4. g[0] = first /\ \A k \in 1 .. n : g[k] = AfterPacket(g[k - 1])
  <2>2. 0 \in 0 .. n /\ \A k \in 1 .. n : k \in 0 .. n /\ k # 0  BY <1>0
  <2>3. \A k \in 0 .. n : g[k] = IF k = 0 THEN first ELSE AfterPacket(g[k - 1])
    BY <1>3, Zenon
  <2> QED  BY <2>2, <2>3, Zenon
<1> QED  BY <1>4 DEF g, n, first

(* What k packets have done: to the motion that is left, and, when there is *)
(* room for them, to the queue.                                             *)
Lessened(m0, s, k) ==
  /\ s \in States /\ SameMode(s.m, m0)
  /\ LET left == IF k <= Reach THEN Reach - k ELSE 0
     IN Within(s.m.dx, left) /\ Within(s.m.dz, left)

Streamed(m0, q0, s, k) ==
  /\ s \in States /\ SameMode(s.m, m0)
  /\ s.m.dx + Mouse!Inside(s.q) = m0.dx + Mouse!Inside(q0)
  /\ Len(s.q) = Len(q0) + k * PacketLen(m0.type)
  /\ \A i \in 1 .. Len(q0) : s.q[i] = q0[i]
  /\ \A i \in Len(q0) + 1 .. Len(s.q) :
       s.q[i].kind = KindAt(m0.type, (Len(s.q) - i) % PacketLen(m0.type))

Fits(m0, q0, k) == Len(q0) + k * PacketLen(m0.type) <= QueueSize

LEMMA OneLess ==
  ASSUME MouseAssumed, NEW m0 \in MouseT, NEW k \in Nat, NEW s, Lessened(m0, s, k)
  PROVE  Lessened(m0, AfterPacket(s), k + 1)
<1> DEFINE m == s.m
           m1 == Mouse!Sent(m)
<1>1. m \in MouseT /\ SameMode(m, m0) /\ m.type = m0.type
  BY DEF Lessened, States, SameMode
<1>2. /\ SameMode(m1, m) /\ m1.dx = m.dx - Mouse!Clamp(m.dx)
      /\ m1.dz = 0 \/ m1.dz = m.dz - Mouse!Clamp(m.dz)
  BY <1>1, SentIs
<1>3. AfterPacket(s) \in States /\ AfterPacket(s).m = m1
  BY StatesStay DEF Lessened, AfterPacket
<1>4. SameMode(m1, m0)  BY <1>1, <1>2, SameTwice
<1>5. m.dx \in Int /\ m.dz \in Int /\ m1.dx \in Int /\ m1.dz \in Int
  BY <1>1, <1>4 DEF MouseT, SameMode
<1> HIDE DEF m1
<1>6. LET left == IF k + 1 <= Reach THEN Reach - (k + 1) ELSE 0
      IN Within(m1.dx, left) /\ Within(m1.dz, left)
  <2> DEFINE c == IF k <= Reach THEN Reach - k ELSE 0
             d == IF k + 1 <= Reach THEN Reach - (k + 1) ELSE 0
  <2>1. c \in Nat /\ d = (IF c = 0 THEN 0 ELSE c - 1) /\ d \in Nat  BY DEF MouseAssumed
  <2>2. Within(m.dx, c) /\ Within(m.dz, c)  BY DEF Lessened
  <2> HIDE DEF m, c, d
  <2>3. Within(m.dx - Mouse!Clamp(m.dx), d) /\ Within(m.dz - Mouse!Clamp(m.dz), d)
    BY <1>5, <2>1, <2>2, ClampLeaves
  <2>4. Within(0, d)  BY <2>1 DEF Within
  <2>5. Within(m1.dx, d) /\ Within(m1.dz, d)  BY <1>2, <2>3, <2>4
  <2> QED  BY <2>5 DEF d
<1> HIDE DEF m
<1> QED  BY <1>3, <1>4, <1>6 DEF Lessened

LEMMA OnePacket ==
  ASSUME MouseAssumed, NEW m0 \in MouseT, NEW q0 \in Queue,
         NEW k \in Nat, Fits(m0, q0, k + 1), NEW s, Streamed(m0, q0, s, k)
  PROVE  Streamed(m0, q0, AfterPacket(s), k + 1)
<1> DEFINE m == s.m
           q == s.q
           p == Mouse!Packet(m)
           m1 == Mouse!Sent(m)
           q1 == Mouse!Queued(q, p)
           b == PacketLen(m0.type)
<1>1. m \in MouseT /\ q \in Queue /\ SameMode(m, m0) /\ m.type = m0.type /\ q \in Seq(ByteT) /\ q0 \in Seq(ByteT)
  BY DEF Streamed, States, SameMode, Queue
<1>2. p \in Seq(ByteT) /\ Len(p) = b /\ \A j \in 1 .. b : p[j].kind = KindAt(m0.type, b - j)
  BY <1>1, PacketIs
<1>3. b \in {3, 4}  BY DEF PacketLen
<1>4. Len(q) = Len(q0) + k * b  BY DEF Streamed
<1>5. Len(q) \in Nat /\ Len(q0) \in Nat  BY <1>1
<1>6. Len(q) + Len(p) <= QueueSize
  <2>0. Len(q0) + (k + 1) * b <= QueueSize  BY DEF Fits
  <2>1. CASE b = 3  BY <1>2, <1>4, <1>5, <2>0, <2>1 DEF MouseAssumed
  <2>2. CASE b = 4  BY <1>2, <1>4, <1>5, <2>0, <2>2 DEF MouseAssumed
  <2> QED  BY <1>3, <2>1, <2>2
<1>7. q1 = q \o p /\ q1 \in Queue  BY <1>1, <1>2, <1>6, QueuedFits
<1>8. /\ Len(q1) = Len(q) + b
      /\ \A i \in 1 .. Len(q) : q1[i] = q[i]
      /\ \A i \in 1 .. b : q1[Len(q) + i] = p[i]
  <2> HIDE DEF p, m, q, b
  <2>1. q1 = q \o p  BY <1>7
  <2> HIDE DEF q1
  <2> QED  BY <1>1, <1>2, <2>1, Joined
<1>9. AfterPacket(s) = [m |-> m1, q |-> q1]  BY DEF AfterPacket
<1>10. /\ SameMode(m1, m) /\ m1.dx = m.dx - Mouse!Clamp(m.dx)
       /\ m1.dz = 0 \/ m1.dz = m.dz - Mouse!Clamp(m.dz)
  BY <1>1, SentIs
<1>11. AfterPacket(s) \in States  BY StatesStay DEF Streamed
<1>12. SameMode(m1, m0)  BY <1>1, <1>10, SameTwice
<1>13. m.dx \in Int /\ m.dz \in Int /\ m0.dx \in Int /\ m1.dx \in Int /\ m1.dz \in Int
  BY <1>1, <1>12 DEF MouseT, SameMode
<1>14. Mouse!Inside(q1) = Mouse!Inside(q) + Mouse!Clamp(m.dx)
  BY <1>1, <1>7, InsidePacket
<1>15. Mouse!Clamp(m.dx) \in Int  BY <1>13, ClampIn
<1>16. Mouse!Inside(q) \in Int  BY <1>1, InsideIn
<1>17. m1.dx + Mouse!Inside(q1) = m0.dx + Mouse!Inside(q0)
  <2>1. m.dx + Mouse!Inside(q) = m0.dx + Mouse!Inside(q0)  BY DEF Streamed
  <2> HIDE DEF m, q, m1, q1, p, b
  <2> QED  BY <1>10, <1>13, <1>14, <1>15, <1>16, <2>1
<1> HIDE DEF m1, q1, p, b
<1>18. Len(q1) = Len(q0) + (k + 1) * b
  <2>1. CASE b = 3  BY <1>4, <1>5, <1>8, <2>1
  <2>2. CASE b = 4  BY <1>4, <1>5, <1>8, <2>2
  <2> QED  BY <1>3, <2>1, <2>2
<1>19. Len(q) >= Len(q0)
  <2>1. CASE b = 3  BY <1>4, <1>5, <2>1
  <2>2. CASE b = 4  BY <1>4, <1>5, <2>2
  <2> QED  BY <1>3, <2>1, <2>2
<1>20. \A i \in 1 .. Len(q0) : q1[i] = q0[i]
  <2>1. \A i \in 1 .. Len(q0) : q[i] = q0[i]  BY DEF Streamed
  <2> HIDE DEF q
  <2> QED  BY <1>5, <1>8, <1>19, <2>1
<1>21. \A i \in Len(q0) + 1 .. Len(q1) : q1[i].kind = KindAt(m0.type, (Len(q1) - i) % b)
  <2>0. \A i \in Len(q0) + 1 .. Len(q) : q[i].kind = KindAt(m0.type, (Len(q) - i) % b)
    BY DEF Streamed, b
  <2> HIDE DEF q
  <2> TAKE i \in Len(q0) + 1 .. Len(q1)
  <2>1. CASE i <= Len(q)
    <3>1. (Len(q1) - i) % b = (Len(q) - i) % b
      <4>1. Len(q1) - i = (Len(q) - i) + b /\ Len(q) - i \in Nat  BY <1>3, <1>5, <1>8, <2>1
      <4>2. CASE b = 3  BY <4>1, <4>2
      <4>3. CASE b = 4  BY <4>1, <4>3
      <4> QED  BY <1>3, <4>2, <4>3
    <3>2. i \in Len(q0) + 1 .. Len(q) /\ i \in 1 .. Len(q)  BY <1>5, <2>1
    <3> QED  BY <1>8, <2>0, <3>1, <3>2
  <2>2. CASE i > Len(q)
    <3>1. PICK j \in 1 .. b : i = Len(q) + j
      <4>1. i - Len(q) \in 1 .. b  BY <1>3, <1>5, <1>8, <2>2
      <4> QED  BY <1>5, <4>1
    <3>2. Len(q1) - i = b - j  BY <1>3, <1>5, <1>8, <3>1
    <3>3. (b - j) % b = b - j
      <4>2. CASE b = 3  BY <3>1, <4>2
      <4>3. CASE b = 4  BY <3>1, <4>3
      <4> QED  BY <1>3, <4>2, <4>3
    <3> QED  BY <1>2, <1>8, <3>1, <3>2, <3>3
  <2> QED  BY <1>5, <2>1, <2>2
<1>24. AfterPacket(s).m = m1 /\ AfterPacket(s).q = q1  BY <1>9
<1> HIDE DEF m, q
<1> QED  BY <1>11, <1>12, <1>17, <1>18, <1>20, <1>21, <1>24 DEF Streamed, b

LEMMA ManyPackets ==
  ASSUME MouseAssumed, NEW m0 \in MouseT, NEW q0 \in Queue,
         m0.dx \in -Reach .. Reach, m0.dz \in -Reach .. Reach
  PROVE  \A k \in 0 .. Reach + 1 :
           /\ Lessened(m0, Mouse!Packets(m0, q0)[k], k)
           /\ Fits(m0, q0, k) => Streamed(m0, q0, Mouse!Packets(m0, q0)[k], k)
<1> DEFINE P == Mouse!Packets(m0, q0)
           Good(k) == /\ Lessened(m0, P[k], k)
                      /\ Fits(m0, q0, k) => Streamed(m0, q0, P[k], k)
           S == {k \in Nat : k <= Reach + 1 => Good(k)}
<1>0. Reach \in Nat  BY DEF MouseAssumed
<1>1. P[0] = [m |-> m0, q |-> q0] /\ \A k \in 1 .. Reach + 1 : P[k] = AfterPacket(P[k - 1])
  BY PacketsSteps
<1> HIDE DEF P
<1>2. Good(0)
  <2>1. P[0].m = m0 /\ P[0].q = q0 /\ P[0] \in States  BY <1>1 DEF States
  <2>2. SameMode(m0, m0)  BY DEF SameMode
  <2>3. Len(q0) = Len(q0) + 0 * PacketLen(m0.type)
    <3>1. Len(q0) \in Nat /\ PacketLen(m0.type) \in Nat  BY DEF Queue, PacketLen
    <3> QED  BY <3>1
  <2>4. ~\E i \in Len(q0) + 1 .. Len(q0) : TRUE
    <3>1. Len(q0) \in Nat  BY DEF Queue
    <3> QED  BY <3>1
  <2>5. LET left == IF 0 <= Reach THEN Reach - 0 ELSE 0
        IN Within(m0.dx, left) /\ Within(m0.dz, left)
    BY <1>0 DEF Within
  <2>6. Streamed(m0, q0, P[0], 0)  BY <2>1, <2>2, <2>3, <2>4 DEF Streamed
  <2>7. Lessened(m0, P[0], 0)  BY <2>1, <2>2, <2>5 DEF Lessened
  <2> QED  BY <2>6, <2>7
<1>3. 0 \in S  BY <1>2
<1>4. ASSUME NEW k \in Nat, k \in S PROVE k + 1 \in S
  <2> SUFFICES ASSUME k + 1 <= Reach + 1 PROVE Good(k + 1)
    OBVIOUS
  <2>1. k <= Reach + 1 /\ k + 1 \in 1 .. Reach + 1 /\ (k + 1) - 1 = k
    BY <1>0
  <2>2. Good(k)  BY <1>4, <2>1
  <2>3. P[k + 1] = AfterPacket(P[k])  BY <1>1, <2>1
  <2>4. Lessened(m0, P[k + 1], k + 1)  BY <2>2, <2>3, OneLess
  <2>5. ASSUME Fits(m0, q0, k + 1) PROVE Streamed(m0, q0, P[k + 1], k + 1)
    <3>1. Fits(m0, q0, k)
      <4>1. Len(q0) \in Nat /\ QueueSize \in Nat  BY DEF Queue, MouseAssumed
      <4>2. CASE PacketLen(m0.type) = 3  BY <2>5, <4>1, <4>2 DEF Fits
      <4>3. CASE PacketLen(m0.type) = 4  BY <2>5, <4>1, <4>3 DEF Fits
      <4> QED  BY <4>2, <4>3 DEF PacketLen
    <3> QED  BY <2>2, <2>3, <2>5, <3>1, OnePacket
  <2> QED  BY <2>4, <2>5
<1> HIDE DEF S
<1>5. Nat \subseteq S  BY <1>3, <1>4, Successors
<1> QED  BY <1>0, <1>5 DEF S, P

(* An event sends all that is waiting, in so many packets.                  *)
LEMMA StreamSends ==
  ASSUME MouseAssumed, NEW m0 \in MouseT, NEW q0 \in Queue,
         m0.dx \in -Reach .. Reach, m0.dz \in -Reach .. Reach
  PROVE  /\ Mouse!Count(m0, q0) \in Nat
         /\ Fits(m0, q0, Mouse!Count(m0, q0))
              => Streamed(m0, q0, Mouse!Stream(m0, q0), Mouse!Count(m0, q0))
<1> DEFINE P == Mouse!Packets(m0, q0)
           Nothing(k) == P[k].m.dx = 0 /\ P[k].m.dz = 0
           Soonest(k) == Nothing(k) /\ \A j \in 1 .. k - 1 : ~Nothing(j)
           n == CHOOSE k \in 1 .. Reach + 1 : Soonest(k)
<1>1. Mouse!Count(m0, q0) = n /\ Mouse!Stream(m0, q0) = P[n]
  BY DEF Mouse!Stream, Mouse!Count
<1>2. \A k \in 0 .. Reach + 1 :
        Lessened(m0, P[k], k) /\ (Fits(m0, q0, k) => Streamed(m0, q0, P[k], k))
  BY ManyPackets
<1> HIDE DEF P
<1>0. Reach \in Nat  BY DEF MouseAssumed
<1>3. Nothing(Reach + 1)
  <2>1. Lessened(m0, P[Reach + 1], Reach + 1)  BY <1>0, <1>2
  <2>2. P[Reach + 1].m.dx \in Int /\ P[Reach + 1].m.dz \in Int
    BY <2>1 DEF Lessened, States, MouseT
  <2>3. ~(Reach + 1 <= Reach)  BY <1>0
  <2>4. Within(P[Reach + 1].m.dx, 0) /\ Within(P[Reach + 1].m.dz, 0)
    BY <2>1, <2>3 DEF Lessened
  <2> QED  BY <2>2, <2>4 DEF Within
<1>4. \E k \in 1 .. Reach + 1 : Soonest(k)
  <2> DEFINE T == {k \in 1 .. Reach + 1 : Nothing(k)}
  <2> HIDE DEF Nothing
  <2>1. T \subseteq Nat /\ T # {}  BY <1>0, <1>3
  <2>2. \E x \in T : \A y \in T : ~(y < x)
    <3> HIDE DEF T
    <3> QED  BY <2>1, LeastOf
  <2>3. PICK x \in T : \A y \in T : ~(y < x)  BY <2>2
  <2>4. \A j \in 1 .. x - 1 : ~Nothing(j)
    <3> SUFFICES ASSUME NEW j \in 1 .. x - 1, Nothing(j) PROVE FALSE
      OBVIOUS
    <3>1. j \in T /\ j < x  BY <1>0
    <3> QED  BY <2>3, <3>1
  <2> QED  BY <2>3, <2>4
<1>5. n \in 1 .. Reach + 1
  <2> HIDE DEF Soonest
  <2> QED  BY <1>4
<1> HIDE DEF n
<1>6. n \in Nat /\ n \in 0 .. Reach + 1  BY <1>0, <1>5
<1> QED  BY <1>1, <1>2, <1>6

-----------------------------------------------------------------------------
(* What is on its way, when more is sent and when a byte is read.           *)
LEMMA PacketLenIn == ASSUME NEW t PROVE PacketLen(t) \in {3, 4}
BY DEF PacketLen

LEMMA BodyIs ==
  ASSUME NEW t
  PROVE  /\ Mouse!Body(t) \in Seq(Kinds) /\ Len(Mouse!Body(t)) = PacketLen(t) - 1
         /\ \A j \in 1 .. PacketLen(t) - 1 :
              Mouse!Body(t)[j] = KindAt(t, (PacketLen(t) - 1) - j) /\ Mouse!Body(t)[j] \in InBody
<1>0. <<"dx", "dy">> \in Seq(Kinds) /\ <<"dz">> \in Seq(Kinds)  BY DEF Kinds
<1>1. CASE t = 0
  <2> DEFINE s == <<"dx", "dy">>
  <2>1. Mouse!Body(t) = s
    <3>1. Mouse!Body(t) = s \o <<>>  BY <1>1 DEF Mouse!Body
    <3> QED  BY <1>0, <3>1
  <2>2. s \in Seq(Kinds) /\ Len(s) = 2 /\ s[1] = "dx" /\ s[2] = "dy"  BY <1>0
  <2>3. \A j \in 1 .. 2 : j = 1 \/ j = 2  OBVIOUS
  <2> HIDE DEF s
  <2> QED  BY <1>1, <2>1, <2>2, <2>3 DEF PacketLen, KindAt, InBody
<1>2. CASE t # 0
  <2> DEFINE s == <<"dx", "dy">> \o <<"dz">>
  <2>1. Mouse!Body(t) = s  BY <1>2 DEF Mouse!Body
  <2>2. s \in Seq(Kinds) /\ Len(s) = 3 /\ s[1] = "dx" /\ s[2] = "dy" /\ s[3] = "dz"  BY <1>0
  <2>3. \A j \in 1 .. 3 : j = 1 \/ j = 2 \/ j = 3  OBVIOUS
  <2> HIDE DEF s
  <2> QED  BY <1>2, <2>1, <2>2, <2>3 DEF PacketLen, KindAt, InBody
<1> QED  BY <1>1, <1>2

LEMMA LaidMore ==
  ASSUME NEW t, NEW q \in Seq(ByteT), NEW want \in Seq(Kinds), NEW p \in Seq(ByteT), NEW k \in Nat,
         Laid(q, want, Len(want), Len(q), t),
         Len(p) = Len(q) + k * PacketLen(t), \A i \in 1 .. Len(q) : p[i] = q[i],
         \A i \in Len(q) + 1 .. Len(p) : p[i].kind = KindAt(t, (Len(p) - i) % PacketLen(t))
  PROVE  Laid(p, want, Len(want), Len(p), t)
<1> PICK b \in {3, 4} : b = PacketLen(t)  BY PacketLenIn
<1> PICK n \in Nat, l \in Nat, w \in Nat : n = Len(q) /\ l = Len(p) /\ w = Len(want)  OBVIOUS
<1>1. /\ w <= n /\ (n - w) % b = 0
      /\ \A i \in 1 .. w : q[i].kind = want[i]
      /\ \A i \in w + 1 .. n : q[i].kind = KindAt(t, (n - i) % b)
  BY DEF Laid
<1>2. l = n + k * b /\ l >= n
  <2>1. CASE b = 3  BY <2>1
  <2>2. CASE b = 4  BY <2>2
  <2> QED  BY <2>1, <2>2
<1>3. \A x \in Int : (x + k * b) % b = x % b
  <2>1. CASE b = 3  BY <2>1
  <2>2. CASE b = 4  BY <2>2
  <2> QED  BY <2>1, <2>2
<1>4. \A i \in Int : l - i = (n - i) + k * b /\ n - i \in Int
  <2>1. CASE b = 3  BY <1>2, <2>1
  <2>2. CASE b = 4  BY <1>2, <2>2
  <2> QED  BY <2>1, <2>2
<1>5. (l - w) % b = 0  BY <1>1, <1>3, <1>4
<1>6. \A i \in 1 .. w : p[i].kind = want[i]
  <2>1. \A i \in 1 .. w : i \in 1 .. n  BY <1>1
  <2> QED  BY <1>1, <2>1
<1>7. ASSUME NEW i \in w + 1 .. l PROVE p[i].kind = KindAt(t, (l - i) % b)
  <2>1. CASE i <= n
    <3>1. i \in w + 1 .. n /\ i \in 1 .. n /\ i \in Int  BY <2>1
    <3>2. (l - i) % b = (n - i) % b  BY <1>3, <1>4, <3>1
    <3> QED  BY <1>1, <3>1, <3>2
  <2>2. CASE i > n
    <3>1. i \in n + 1 .. l  BY <2>2
    <3> QED  BY <3>1
  <2> QED  BY <2>1, <2>2
<1>8. w <= l  BY <1>1, <1>2
<1> QED  BY <1>5, <1>6, <1>7, <1>8 DEF Laid

LEMMA LaidNext ==
  ASSUME NEW t, NEW q \in Seq(ByteT), NEW want \in Seq(Kinds), NEW w \in Nat \ {0}, NEW n \in Nat,
         w <= Len(want), n <= Len(q), Laid(q, want, w, n, t)
  PROVE  q[1].kind = want[1] /\ Laid(Tail(q), Tail(want), w - 1, n - 1, t)
<1> PICK b \in {3, 4} : b = PacketLen(t)  BY PacketLenIn
<1> DEFINE p == Tail(q)
           v == Tail(want)
<1>1. /\ w <= n /\ (n - w) % b = 0
      /\ \A i \in 1 .. w : q[i].kind = want[i]
      /\ \A i \in w + 1 .. n : q[i].kind = KindAt(t, (n - i) % b)
  BY DEF Laid
<1>2. /\ \A i \in 1 .. n - 1 : p[i] = q[i + 1]
      /\ \A i \in 1 .. w - 1 : v[i] = want[i + 1]
  BY <1>1
<1> HIDE DEF p, v
<1>3. (n - 1) - (w - 1) = n - w  BY <1>1
<1>4. \A i \in 1 .. w - 1 : p[i].kind = v[i]
  <2> TAKE i \in 1 .. w - 1
  <2>1. i \in 1 .. n - 1 /\ i + 1 \in 1 .. w  BY <1>1
  <2>2. p[i] = q[i + 1] /\ v[i] = want[i + 1]  BY <1>2, <2>1, Zenon
  <2> QED  BY <1>1, <2>1, <2>2, Zenon
<1>5. ASSUME NEW i \in (w - 1) + 1 .. n - 1 PROVE p[i].kind = KindAt(t, ((n - 1) - i) % b)
  <2>1. i \in 1 .. n - 1 /\ i + 1 \in w + 1 .. n /\ n - (i + 1) = (n - 1) - i  BY <1>1
  <2>2. p[i] = q[i + 1]  BY <1>2, <2>1, Zenon
  <2>3. q[i + 1].kind = KindAt(t, (n - (i + 1)) % b)  BY <1>1, <2>1, Zenon
  <2> QED  BY <2>1, <2>2, <2>3
<1>6. w - 1 <= n - 1  BY <1>1
<1>7. 1 \in 1 .. w  OBVIOUS
<1> QED  BY <1>1, <1>3, <1>4, <1>5, <1>6, <1>7 DEF Laid, p, v

WholeAfter(n, b) ==
  /\ n >= b /\ (n - 1) % b = b - 1 /\ ((n - 1) - (b - 1)) % b = 0
  /\ \A i \in 1 .. b - 1 : (n - (i + 1)) % b = (b - 1) - i

LEMMA WholePackets ==
  ASSUME NEW b \in {3, 4}, NEW n \in Nat \ {0}, n % b = 0
  PROVE  WholeAfter(n, b)
<1> USE DEF WholeAfter
<1>1. CASE b = 3
  <2>1. /\ n >= 3 /\ (n - 1) % 3 = 2 /\ ((n - 1) - 2) % 3 = 0 /\ (n - 2) % 3 = 1 /\ (n - 3) % 3 = 0
    BY <1>1
  <2>2. \A i \in 1 .. 2 : i = 1 \/ i = 2  OBVIOUS
  <2> QED  BY <1>1, <2>1, <2>2
<1>2. CASE b = 4
  <2>1. /\ n >= 4 /\ (n - 1) % 4 = 3 /\ ((n - 1) - 3) % 4 = 0
        /\ (n - 2) % 4 = 2 /\ (n - 3) % 4 = 1 /\ (n - 4) % 4 = 0
    BY <1>2
  <2>2. \A i \in 1 .. 3 : i = 1 \/ i = 2 \/ i = 3  OBVIOUS
  <2> QED  BY <1>2, <2>1, <2>2
<1> QED  BY <1>1, <1>2

LEMMA LaidHead ==
  ASSUME NEW t, NEW q \in Seq(ByteT), NEW want \in Seq(Kinds), NEW n \in Nat \ {0}, n <= Len(q),
         Laid(q, want, 0, n, t), NEW rest \in Seq(Kinds)
  PROVE  /\ q[1].kind = "head"
         /\ Laid(Tail(q), Mouse!Body(t) \o rest, Len(Mouse!Body(t)), n - 1, t)
<1> PICK b \in {3, 4} : b = PacketLen(t)  BY PacketLenIn
<1> DEFINE p == Tail(q)
           v == Mouse!Body(t) \o rest
<1>1. /\ (n - 0) % b = 0
      /\ \A i \in 1 .. n : q[i].kind = KindAt(t, (n - i) % b)
  BY DEF Laid
<1>2. \A i \in 1 .. n - 1 : p[i] = q[i + 1]  OBVIOUS
<1>0. n % b = 0
  <2>1. n - 0 = n  OBVIOUS
  <2> QED  BY <1>1, <2>1
<1>3. /\ n >= b /\ (n - 1) % b = b - 1 /\ ((n - 1) - (b - 1)) % b = 0
      /\ \A i \in 1 .. b - 1 : (n - (i + 1)) % b = (b - 1) - i
  <2>1. WholeAfter(n, b)  BY <1>0, WholePackets
  <2> QED  BY <2>1 DEF WholeAfter
<1>4. KindAt(t, b - 1) = "head"  BY DEF PacketLen, KindAt
<1>5. q[1].kind = "head"
  <2>1. 1 \in 1 .. n  OBVIOUS
  <2> QED  BY <1>1, <1>3, <1>4, <2>1
<1>6. /\ Len(Mouse!Body(t)) = b - 1
      /\ \A j \in 1 .. b - 1 : Mouse!Body(t)[j] = KindAt(t, (b - 1) - j)
  BY BodyIs
<1>7. \A j \in 1 .. b - 1 : v[j] = Mouse!Body(t)[j]
  <2>1. Mouse!Body(t) \in Seq(Kinds)  BY BodyIs
  <2> QED  BY <1>6, <2>1
<1> HIDE DEF p, v
<1>8. ASSUME NEW i \in 1 .. b - 1 PROVE p[i].kind = v[i]
  <2>1. i \in 1 .. n - 1 /\ i + 1 \in 1 .. n  BY <1>3
  <2>2. (n - (i + 1)) % b = (b - 1) - i  BY <1>3, Zenon
  <2> QED  BY <1>1, <1>2, <1>6, <1>7, <2>1, <2>2
<1>9. ASSUME NEW i \in (b - 1) + 1 .. n - 1 PROVE p[i].kind = KindAt(t, ((n - 1) - i) % b)
  <2>1. i \in 1 .. n - 1 /\ i + 1 \in 1 .. n /\ n - (i + 1) = (n - 1) - i  BY <1>3
  <2> QED  BY <1>1, <1>2, <2>1
<1>10. b - 1 <= n - 1  BY <1>3
<1> QED  BY <1>3, <1>5, <1>6, <1>8, <1>9, <1>10 DEF Laid, p, v

-----------------------------------------------------------------------------
LEMMA InsideNone ==
  ASSUME NEW q \in Seq(ByteT), \A i \in 1 .. Len(q) : q[i].kind # "dx"
  PROVE  Mouse!Inside(q) = 0
<1> DEFINE S == {k \in Nat : k <= Len(q) => SumOf(q)[k] = 0}
<1>1. 0 \in S  BY SumSteps
<1>2. ASSUME NEW k \in Nat, k \in S PROVE k + 1 \in S
  <2> SUFFICES ASSUME k + 1 <= Len(q) PROVE SumOf(q)[k + 1] = 0
    OBVIOUS
  <2>1. k + 1 \in 1 .. Len(q) /\ (k + 1) - 1 = k  OBVIOUS
  <2>2. SumOf(q)[k + 1] = SumOf(q)[k] + Mouse!Along(q[k + 1])  BY <2>1, SumSteps
  <2>3. SumOf(q)[k] = 0  BY <1>2, <2>1
  <2>4. Mouse!Along(q[k + 1]) = 0  BY <2>1 DEF Mouse!Along
  <2> QED  BY <2>2, <2>3, <2>4
<1> HIDE DEF S
<1>3. Nat \subseteq S  BY <1>1, <1>2, Successors
<1>4. Len(q) \in S  BY <1>3
<1> QED  BY <1>4, InsideIs DEF S

LEMMA MouseStarts == MouseAssumed /\ Mouse!Init => MouseInv
<1> SUFFICES ASSUME MouseAssumed, Mouse!Init PROVE MouseInv
  OBVIOUS
<1> USE DEF Mouse!Init
<1>1. MouseTyped
  <2>1. mouse \in MouseT  BY DEF MouseT, Types
  <2>2. mouse_queue \in Seq(ByteT)  OBVIOUS
  <2>3. mouse_drv \in DrvT
    <3>1. <<>> \in Seq(Kinds) /\ <<>> \in Seq({80, 100, 200})  OBVIOUS
    <3> QED  BY <3>1 DEF DrvT, Types
  <2>4. mouse_owed \in Int  OBVIOUS
  <2> QED  BY <2>1, <2>2, <2>3, <2>4 DEF MouseTyped
<1>2. Modal  BY DEF Modal, Sending
<1>3. Probing  BY DEF Probing
<1>4. Knowing  BY DEF Knowing, Naming
<1>5. Queueing
  <2>1. Len(<<>>) = 0 /\ mouse_queue = <<>> /\ mouse_drv.want = <<>>  OBVIOUS
  <2>2. Laid(<<>>, <<>>, 0, 0, mouse.type)  BY DEF Laid, PacketLen
  <2> QED  BY <2>1, <2>2 DEF Queueing, MouseAssumed
<1>6. Mouse!PacketsAligned  BY DEF Mouse!PacketsAligned
<1>7. Mouse!MotionKept  BY InsideEmpty DEF Mouse!MotionKept
<1> QED  BY <1>1, <1>2, <1>3, <1>4, <1>5, <1>6, <1>7 DEF MouseInv

(* An event, sent or kept. *)
LEMMA ModesKept ==
  ASSUME MouseInv, SameMode(mouse', mouse), mouse_drv' = mouse_drv,
         Naming => mouse_queue' = mouse_queue
  PROVE  Modal' /\ Probing' /\ Knowing' /\ Mouse!PacketsAligned'
<1>1. Modal'  BY DEF MouseInv, Modal, Sending, SameMode
<1>2. Probing'  BY DEF MouseInv, Probing, SameMode
<1>3. Knowing'  BY DEF MouseInv, Knowing, Naming, Sending, SameMode
<1>4. Mouse!PacketsAligned'  BY DEF MouseInv, Mouse!PacketsAligned
<1> QED  BY <1>1, <1>2, <1>3, <1>4

LEMMA EventKeeps ==
  ASSUME MouseAssumed, MouseInv, NEW dx \in Int, NEW dz \in Int, Mouse!Event(dx, dz),
         ~mouse_cut'
  PROVE  MouseInv'
<1> DEFINE m == [mouse EXCEPT !.dx = @ + dx, !.dz = @ + dz]
           nothing == m.dx = 0 /\ m.dz = 0
           send == ~mouse.remote /\ Len(mouse_queue) < QueueSize - MouseRoom
           all == Mouse!Stream(m, mouse_queue)
           k == Mouse!Count(m, mouse_queue)
<1>1. /\ mouse \in MouseT /\ mouse_queue \in Seq(ByteT) /\ mouse_drv \in DrvT /\ mouse_owed \in Int
      /\ mouse.dx \in Int /\ mouse_queue \in Queue
  BY DEF MouseInv, MouseTyped, MouseT, Queueing, Queue
<1>2. m \in MouseT /\ SameMode(m, mouse) /\ m.dx = mouse.dx + dx
  <2>1. mouse.dx + dx \in Int /\ mouse.dz + dz \in Int  BY <1>1 DEF MouseT
  <2>2. m \in MouseT  BY <1>1, <2>1 DEF MouseT
  <2>3. /\ m.write_cmd = mouse.write_cmd /\ m.wrap = mouse.wrap /\ m.enabled = mouse.enabled
        /\ m.remote = mouse.remote /\ m.type = mouse.type /\ m.detect = mouse.detect
        /\ m.dx = mouse.dx + dx
    BY <1>1 DEF MouseT
  <2> QED  BY <2>2, <2>3 DEF SameMode
<1>3. /\ mouse.enabled /\ {m.dx, m.dz} \subseteq -Reach .. Reach
      /\ mouse' = IF nothing \/ ~send THEN m ELSE all.m
      /\ mouse_queue' = IF nothing \/ ~send THEN mouse_queue ELSE all.q
      /\ mouse_owed' = mouse_owed + dx
      /\ mouse_drv' = mouse_drv
      /\ mouse_cut' = (send /\ ~nothing
                        /\ Len(mouse_queue) + k * Len(Mouse!Packet(m)) > QueueSize)
  BY DEF Mouse!Event
<1> HIDE DEF m, k
<1>4. mouse_owed = mouse.dx + Mouse!Inside(mouse_queue) /\ Mouse!Inside(mouse_queue) \in Int
  BY <1>1, InsideIn DEF MouseInv, Mouse!MotionKept
<1>5. CASE nothing \/ ~send
  <2>1. mouse' = m /\ mouse_queue' = mouse_queue  BY <1>3, <1>5
  <2>2. MouseTyped'  BY <1>1, <1>2, <1>3, <2>1 DEF MouseTyped
  <2>3. Modal' /\ Probing' /\ Knowing' /\ Mouse!PacketsAligned'
    BY <1>2, <1>3, <2>1, ModesKept
  <2>4. Queueing'
    <3>1. mouse'.type = mouse.type /\ Sending' = Sending  BY <1>2, <2>1 DEF SameMode, Sending
    <3> QED  BY <1>3, <2>1, <3>1 DEF MouseInv, Queueing
  <2>5. Mouse!MotionKept'
    BY <1>1, <1>2, <1>3, <1>4, <2>1 DEF Mouse!MotionKept
  <2> QED  BY <2>2, <2>3, <2>4, <2>5 DEF MouseInv
<1>6. CASE ~(nothing \/ ~send)
  <2>1. mouse' = all.m /\ mouse_queue' = all.q /\ Sending  BY <1>3, <1>6 DEF Sending
  <2>2. k \in Nat /\ Fits(m, mouse_queue, k) /\ Streamed(m, mouse_queue, all, k)
    <3>1. m.dx \in -Reach .. Reach /\ m.dz \in -Reach .. Reach  BY <1>3
    <3>2. k \in Nat  BY <1>1, <1>2, <3>1, StreamSends DEF k
    <3>3. Len(Mouse!Packet(m)) = PacketLen(m.type) /\ PacketLen(m.type) \in {3, 4}
      BY <1>2, PacketIs, PacketLenIn
    <3>4. ~(Len(mouse_queue) + k * PacketLen(m.type) > QueueSize)  BY <1>3, <1>6, <3>3
    <3>5. Fits(m, mouse_queue, k)
      <4>1. Len(mouse_queue) \in Nat /\ QueueSize \in Nat  BY <1>1 DEF MouseAssumed
      <4>2. CASE PacketLen(m.type) = 3  BY <3>2, <3>4, <4>1, <4>2 DEF Fits
      <4>3. CASE PacketLen(m.type) = 4  BY <3>2, <3>4, <4>1, <4>3 DEF Fits
      <4> QED  BY <3>3, <4>2, <4>3
    <3>6. Streamed(m, mouse_queue, all, k)  BY <1>1, <1>2, <3>1, <3>5, StreamSends DEF k
    <3> QED  BY <3>2, <3>5, <3>6
  <2> HIDE DEF all, nothing, send
  <2>3. SameMode(mouse', mouse) /\ mouse' \in MouseT /\ mouse_queue' \in Seq(ByteT)
    <3>1. SameMode(all.m, m) /\ all.q \in Queue  BY <2>2 DEF Streamed, States
    <3>2. SameMode(all.m, mouse)  BY <1>1, <1>2, <3>1, SameTwice
    <3> QED  BY <2>1, <3>1, <3>2 DEF SameMode, Queue
  <2>4. MouseTyped'  BY <1>1, <1>3, <2>3, <1>2 DEF MouseTyped
  <2>5. Modal' /\ Probing' /\ Knowing' /\ Mouse!PacketsAligned'
    <3>1. ~Naming  BY <2>1 DEF MouseInv, Knowing
    <3> QED  BY <1>3, <2>3, <3>1, ModesKept
  <2>6. Mouse!MotionKept'
    <3>1. mouse'.dx + Mouse!Inside(mouse_queue') = m.dx + Mouse!Inside(mouse_queue)
      BY <2>1, <2>2 DEF Streamed
    <3>2. mouse'.dx \in Int /\ Mouse!Inside(mouse_queue') \in Int
      BY <2>3, InsideIn DEF MouseT
    <3> QED  BY <1>1, <1>2, <1>3, <1>4, <3>1, <3>2 DEF Mouse!MotionKept
  <2>7. Queueing'
    <3>1. mouse_drv.at \in {"stream", "reply"}
      BY <1>1, <2>1 DEF MouseInv, Modal, DrvT
    <3>2. Laid(mouse_queue, mouse_drv.want, Len(mouse_drv.want), Len(mouse_queue), mouse.type)
      BY <3>1 DEF MouseInv, Queueing
    <3>3. m.type = mouse.type /\ mouse'.type = mouse.type /\ Sending'
      BY <1>2, <2>1, <2>3 DEF SameMode, Sending
    <3>4. /\ Len(mouse_queue') = Len(mouse_queue) + k * PacketLen(mouse.type)
          /\ \A i \in 1 .. Len(mouse_queue) : mouse_queue'[i] = mouse_queue[i]
          /\ \A i \in Len(mouse_queue) + 1 .. Len(mouse_queue') :
               mouse_queue'[i].kind
                 = KindAt(mouse.type, (Len(mouse_queue') - i) % PacketLen(mouse.type))
      BY <2>1, <2>2, <3>3 DEF Streamed
    <3>5. mouse_drv.want \in Seq(Kinds) /\ k \in Nat
      BY <1>1, <2>2 DEF DrvT
    <3>6. Laid(mouse_queue', mouse_drv.want, Len(mouse_drv.want), Len(mouse_queue'), mouse.type)
      BY <1>1, <2>3, <3>2, <3>4, <3>5, LaidMore
    <3>7. Len(mouse_queue') <= QueueSize  BY <2>1, <2>2 DEF Streamed, States, Queue
    <3> QED  BY <1>3, <3>1, <3>3, <3>6, <3>7 DEF MouseInv, Queueing
  <2> QED  BY <2>4, <2>5, <2>6, <2>7 DEF MouseInv
<1> QED  BY <1>5, <1>6

-----------------------------------------------------------------------------
(* A command and its answer.                                                *)
Answers(q, want) ==
  /\ q \in Seq(ByteT) /\ want \in Seq(Kinds)
  /\ Len(q) = Len(want) /\ Len(q) \in 1 .. 5
  /\ \A i \in 1 .. Len(q) : q[i].kind = want[i]

LEMMA AckIs == Mouse!Ack \in ByteT /\ Mouse!Ack.kind = "ack"
BY BytesIn DEF Mouse!Ack, Kinds

LEMMA OneByte ==
  ASSUME NEW b \in ByteT
  PROVE  Answers(<<b>>, <<b.kind>>)
<1>1. b.kind \in Kinds  BY DEF ByteT
<1>2. \A i \in 1 .. 1 : i = 1  OBVIOUS
<1> QED  BY <1>1, <1>2 DEF Answers

LEMMA PollAnswers ==
  ASSUME MouseAssumed, NEW m \in MouseT
  PROVE  /\ Answers(<<Mouse!Ack>> \o Mouse!Packet(m), <<"ack", "head">> \o Mouse!Body(m.type))
         /\ Mouse!Inside(<<Mouse!Ack>> \o Mouse!Packet(m)) = Mouse!Clamp(m.dx)
<1> DEFINE a == <<Mouse!Ack>>
           p == Mouse!Packet(m)
           t == m.type
           c == <<"ack", "head">>
           d == Mouse!Body(t)
           q == a \o p
           w == c \o d
<1> PICK b \in {3, 4} : b = PacketLen(t)  BY PacketLenIn
<1>1. a \in Seq(ByteT) /\ Len(a) = 1 /\ a[1].kind = "ack"  BY AckIs
<1>2. p \in Seq(ByteT) /\ Len(p) = b /\ \A j \in 1 .. b : p[j].kind = KindAt(t, b - j)
  BY PacketIs
<1>3. c \in Seq(Kinds) /\ Len(c) = 2 /\ c[1] = "ack" /\ c[2] = "head"  BY DEF Kinds
<1>4. d \in Seq(Kinds) /\ Len(d) = b - 1 /\ \A j \in 1 .. b - 1 : d[j] = KindAt(t, (b - 1) - j)
  BY BodyIs
<1>5. KindAt(t, b - 1) = "head"  BY DEF PacketLen, KindAt
<1> HIDE DEF a, p, c, d, t
<1>6. /\ q \in Seq(ByteT) /\ Len(q) = b + 1 /\ q[1].kind = "ack"
      /\ \A j \in 1 .. b : q[j + 1] = p[j]
  <2>0. q = a \o p  OBVIOUS
  <2> HIDE DEF q
  <2>3. /\ q \in Seq(ByteT) /\ Len(q) = Len(a) + Len(p)
        /\ \A i \in 1 .. Len(a) : q[i] = a[i]
        /\ \A i \in 1 .. Len(p) : q[Len(a) + i] = p[i]
    BY <1>1, <1>2, <2>0, Joined
  <2>1. /\ q \in Seq(ByteT) /\ Len(q) = 1 + b /\ q[1] = a[1]
        /\ \A i \in 1 .. b : q[1 + i] = p[i]
    <3>1. 1 \in 1 .. Len(a)  BY <1>1
    <3> QED  BY <1>1, <1>2, <2>3, <3>1
  <2>2. \A i \in 1 .. b : 1 + i = i + 1  OBVIOUS
  <2> QED  BY <1>1, <2>1, <2>2
<1>7. /\ w \in Seq(Kinds) /\ Len(w) = b + 1 /\ w[1] = "ack" /\ w[2] = "head"
      /\ \A j \in 1 .. b - 1 : w[j + 2] = d[j]
  <2>0. w = c \o d  OBVIOUS
  <2> HIDE DEF w
  <2>1. /\ w \in Seq(Kinds) /\ Len(w) = Len(c) + Len(d)
        /\ \A i \in 1 .. Len(c) : w[i] = c[i]
        /\ \A i \in 1 .. Len(d) : w[Len(c) + i] = d[i]
    BY <1>3, <1>4, <2>0, JoinedWants
  <2>2. 1 \in 1 .. Len(c) /\ 2 \in 1 .. Len(c)  BY <1>3
  <2>3. \A j \in 1 .. b - 1 : j + 2 = 2 + j  OBVIOUS
  <2>4. 2 + (b - 1) = b + 1  OBVIOUS
  <2> QED  BY <1>3, <1>4, <2>1, <2>2, <2>3, <2>4
<1> HIDE DEF q, w
<1>8. ASSUME NEW i \in 1 .. b + 1 PROVE q[i].kind = w[i]
  <2>1. CASE i = 1  BY <1>6, <1>7, <2>1
  <2>2. CASE i = 2
    <3>1. 1 \in 1 .. b /\ 1 + 1 = i  BY <2>2
    <3>2. q[i] = p[1] /\ p[1].kind = KindAt(t, b - 1)  BY <1>2, <1>6, <3>1
    <3> QED  BY <1>5, <1>7, <2>2, <3>2
  <2>3. CASE i >= 3
    <3>1. i - 1 \in 1 .. b /\ (i - 1) + 1 = i /\ i - 2 \in 1 .. b - 1 /\ (i - 2) + 2 = i
      BY <2>3
    <3>2. b - (i - 1) = (b - 1) - (i - 2)  OBVIOUS
    <3>3. q[i] = p[i - 1] /\ w[i] = d[i - 2]  BY <1>6, <1>7, <3>1
    <3>4. p[i - 1].kind = KindAt(t, b - (i - 1)) /\ d[i - 2] = KindAt(t, (b - 1) - (i - 2))
      BY <1>2, <1>4, <3>1
    <3> QED  BY <3>2, <3>3, <3>4
  <2> QED  BY <2>1, <2>2, <2>3
<1>9. Answers(q, w)  BY <1>6, <1>7, <1>8 DEF Answers
<1>10. Mouse!Inside(q) = Mouse!Clamp(m.dx)
  <2>1. Mouse!Inside(q) = Mouse!Inside(a) + Mouse!Clamp(m.dx)
    BY <1>1, InsidePacket DEF q, p
  <2>2. Mouse!Inside(a) = 0
    <3>1. \A i \in 1 .. Len(a) : a[i].kind # "dx"  BY <1>1
    <3> QED  BY <1>1, <3>1, InsideNone
  <2>3. Mouse!Clamp(m.dx) \in Int  BY ClampIn DEF MouseT
  <2> QED  BY <2>1, <2>2, <2>3
<1> QED  BY <1>9, <1>10 DEF q, w, a, p, c, d, t

LEMMA CommandAnswers ==
  ASSUME MouseAssumed, mouse \in MouseT, ~mouse.wrap, NEW c \in Mouse!Commands,
         c = "poll" => mouse_drv.type = mouse.type
  PROVE  /\ Answers(Mouse!Answer(c), Mouse!Expected(c))
         /\ c # "poll" => Mouse!Inside(Mouse!Answer(c)) = 0
         /\ c = "poll" => Mouse!Inside(Mouse!Answer(c)) = Mouse!Clamp(mouse.dx)
         /\ c = "type" => /\ Mouse!Expected(c) = <<"ack", "byte">>
                          /\ Mouse!Answer(c)[Len(Mouse!Answer(c))] = Mouse!Byte("byte", mouse.type)
<1> DEFINE q == Mouse!Answer(c)
           w == Mouse!Expected(c)
           zero == Mouse!Byte("byte", 0)
           test == Mouse!Byte("byte", 170)
           name == Mouse!Byte("byte", mouse.type)
           ack == Mouse!Ack
<1>1. /\ zero \in ByteT /\ test \in ByteT /\ name \in ByteT /\ ack \in ByteT
      /\ zero.kind = "byte" /\ test.kind = "byte" /\ name.kind = "byte" /\ ack.kind = "ack"
  <2>1. mouse.type \in Int  BY DEF MouseT, Types
  <2> QED  BY <2>1, BytesIn, AckIs DEF Kinds
<1>2. CASE c = "poll"
  <2>1. q = <<ack>> \o Mouse!Packet(mouse) /\ w = <<"ack", "head">> \o Mouse!Body(mouse.type)
    BY <1>2 DEF Mouse!Answer, Mouse!Expected
  <2> HIDE DEF q, w, ack
  <2> QED  BY <1>2, <2>1, PollAnswers DEF q, w, ack
<1>3. c # "poll" /\ Answers(q, w) => Mouse!Inside(q) = 0
  <2> SUFFICES ASSUME c # "poll", Answers(q, w) PROVE Mouse!Inside(q) = 0
    OBVIOUS
  <2>1. \A i \in 1 .. Len(w) : w[i] # "dx"
    <3>1. w \in {<<"ack", "byte">>, <<"ack", "byte", "byte", "byte">>, <<"ack", "byte", "byte">>, <<"ack">>}
      BY DEF Mouse!Expected
    <3> HIDE DEF w
    <3> QED  BY <3>1
  <2> HIDE DEF q, w
  <2> QED  BY <2>1, InsideNone DEF Answers
<1>4. CASE c = "type"
  <2>1. q = <<ack, name>> /\ w = <<"ack", "byte">>
    BY <1>4 DEF Mouse!Answer, Mouse!Expected
  <2> HIDE DEF zero, test, name, ack, q, w
  <2>2. \A i \in 1 .. 2 : i = 1 \/ i = 2  OBVIOUS
  <2>3. Answers(q, w) /\ q[Len(q)] = name  BY <1>1, <2>1, <2>2 DEF Answers, Kinds
  <2> QED  BY <1>3, <1>4, <2>1, <2>3 DEF q, w, name
<1>5. CASE c = "scale"
  <2>1. q = <<ack, zero, zero, zero>> /\ w = <<"ack", "byte", "byte", "byte">>
    BY <1>5 DEF Mouse!Answer, Mouse!Expected
  <2> HIDE DEF zero, test, name, ack, q, w
  <2>2. \A i \in 1 .. 4 : i = 1 \/ i = 2 \/ i = 3 \/ i = 4  OBVIOUS
  <2>3. Answers(q, w)  BY <1>1, <2>1, <2>2 DEF Answers, Kinds
  <2> QED  BY <1>3, <1>5, <2>3 DEF q, w
<1>6. CASE c = "reset"
  <2>1. q = <<ack, test, zero>> /\ w = <<"ack", "byte", "byte">>
    BY <1>6 DEF Mouse!Answer, Mouse!Expected
  <2> HIDE DEF zero, test, name, ack, q, w
  <2>2. \A i \in 1 .. 3 : i = 1 \/ i = 2 \/ i = 3  OBVIOUS
  <2>3. Answers(q, w)  BY <1>1, <2>1, <2>2 DEF Answers, Kinds
  <2> QED  BY <1>3, <1>6, <2>3 DEF q, w
<1>7. CASE c \notin {"poll", "type", "scale", "reset"}
  <2>1. q = <<ack>> /\ w = <<"ack">>
    BY <1>7 DEF Mouse!Answer, Mouse!Expected
  <2>2. Answers(<<ack>>, <<ack.kind>>)  BY <1>1, OneByte
  <2> HIDE DEF zero, test, name, ack, q, w
  <2>3. Answers(q, w)  BY <1>1, <2>1, <2>2
  <2> QED  BY <1>3, <1>7, <2>3 DEF q, w
<1> QED  BY <1>2, <1>4, <1>5, <1>6, <1>7

LEMMA BecameIs ==
  ASSUME MouseAssumed, mouse \in MouseT, NEW c \in Mouse!Commands
  PROVE  /\ Mouse!Became(c) \in MouseT
         /\ Mouse!Became(c).detect = mouse.detect
         /\ Mouse!Became(c).type = IF c = "reset" THEN 0 ELSE mouse.type
         /\ Mouse!Became(c).enabled = IF c = "enable" THEN TRUE
              ELSE IF c \in {"disable", "default", "reset"} THEN FALSE ELSE mouse.enabled
         /\ Mouse!Became(c).remote = IF c = "remote" THEN TRUE
              ELSE IF c \in {"stream", "default", "reset"} THEN FALSE ELSE mouse.remote
         /\ Mouse!Became(c).wrap = IF c = "wrap" THEN TRUE ELSE mouse.wrap
         /\ Mouse!Became(c).write_cmd
              = IF c \in {"sample", "resolution"} THEN c ELSE mouse.write_cmd
         /\ Mouse!Became(c).dx
              = IF c = "poll" THEN mouse.dx - Mouse!Clamp(mouse.dx) ELSE mouse.dx
<1>0. 0 \in Types  BY DEF Types
<1>1. CASE c = "poll"
  <2>1. Mouse!Became(c) = Mouse!Sent(mouse)  BY <1>1 DEF Mouse!Became
  <2> QED  BY <1>1, <2>1, SentIs DEF SameMode
<1>2. CASE c \in {"sample", "resolution"}
  <2>1. Mouse!Became(c) = [mouse EXCEPT !.write_cmd = c]  BY <1>2 DEF Mouse!Became
  <2> QED  BY <1>2, <2>1 DEF MouseT
<1>3. CASE c \in {"stream", "remote"}
  <2>1. Mouse!Became(c) = [mouse EXCEPT !.remote = c = "remote"]
    BY <1>3 DEF Mouse!Became
  <2> QED  BY <1>3, <2>1 DEF MouseT
<1>4. CASE c \in {"enable", "disable"}
  <2>1. Mouse!Became(c) = [mouse EXCEPT !.enabled = c = "enable"]
    BY <1>4 DEF Mouse!Became
  <2> QED  BY <1>4, <2>1 DEF MouseT
<1>5. CASE c = "wrap"
  <2>1. Mouse!Became(c) = [mouse EXCEPT !.wrap = TRUE]  BY <1>5 DEF Mouse!Became
  <2> QED  BY <1>5, <2>1 DEF MouseT
<1>6. CASE c = "default"
  <2>1. Mouse!Became(c) = [mouse EXCEPT !.enabled = FALSE, !.remote = FALSE]
    BY <1>6 DEF Mouse!Became
  <2> QED  BY <1>6, <2>1 DEF MouseT
<1>7. CASE c = "reset"
  <2>1. Mouse!Became(c) = [mouse EXCEPT !.enabled = FALSE, !.remote = FALSE, !.type = 0]
    BY <1>7 DEF Mouse!Became
  <2> QED  BY <1>0, <1>7, <2>1 DEF MouseT
<1>8. CASE c \in {"unwrap", "type", "scale"}
  <2>1. Mouse!Became(c) = mouse  BY <1>8 DEF Mouse!Became
  <2> QED  BY <1>8, <2>1
<1> QED  BY <1>1, <1>2, <1>3, <1>4, <1>5, <1>6, <1>7, <1>8 DEF Mouse!Commands

(* A reply that the guest waits for, on its own in the queue.               *)
LEMMA ReplyLaid ==
  ASSUME MouseAssumed, Answers(mouse_queue', mouse_drv'.want), mouse_drv'.at = "reply"
  PROVE  /\ mouse_queue' \in Seq(ByteT) /\ mouse_drv'.want \in Seq(Kinds)
         /\ mouse_drv'.want # <<>>
         /\ Queueing'
<1> DEFINE q == mouse_queue'
           w == mouse_drv'.want
<1>1. /\ q \in Seq(ByteT) /\ w \in Seq(Kinds) /\ Len(q) = Len(w) /\ Len(q) \in 1 .. 5
      /\ \A i \in 1 .. Len(q) : q[i].kind = w[i]
  BY DEF Answers
<1>2. Laid(q, w, Len(w), Len(q), mouse'.type)
  <2>1. (Len(q) - Len(w)) % PacketLen(mouse'.type) = 0
    <3>1. Len(q) - Len(w) = 0  BY <1>1
    <3>2. 0 % PacketLen(mouse'.type) = 0  BY PacketLenIn
    <3> QED  BY <3>1, <3>2
  <2>2. ~\E i \in Len(w) + 1 .. Len(q) : TRUE  BY <1>1
  <2> QED  BY <1>1, <2>1, <2>2 DEF Laid
<1> HIDE DEF q, w
<1>3. Len(q) <= QueueSize
  <2>1. PICK n \in 1 .. 5 : n = Len(q)  BY <1>1
  <2>2. PICK l \in Nat : l = QueueSize /\ l >= 5
    <3>1. QueueSize \in Nat /\ QueueSize >= 5  BY DEF MouseAssumed
    <3> QED  BY <3>1
  <2> QED  BY ONLY <2>1, <2>2, n \in 1 .. 5, l \in Nat
<1>4. w # <<>>
  <2>1. Len(w) # 0  BY <1>1
  <2> QED  BY <2>1
<1> USE DEF q, w
<1> QED  BY <1>1, <1>2, <1>3, <1>4 DEF Queueing

LEMMA Alone ==
  ASSUME MouseAssumed, MouseInv, NEW bytes \in Seq(ByteT), Len(bytes) <= 5, mouse_drv.at = "idle"
  PROVE  /\ mouse_queue = <<>> /\ mouse_drv.want = <<>>
         /\ Mouse!Queued(mouse_queue, bytes) = bytes
         /\ mouse_owed = mouse.dx
<1>1. mouse_drv.want = <<>> /\ ~Sending  BY DEF MouseInv, Modal
<1>2. Len(mouse_queue) = Len(mouse_drv.want)  BY <1>1 DEF MouseInv, Queueing
<1>3. mouse_queue = <<>>  BY <1>1, <1>2 DEF MouseInv, MouseTyped
<1>4. Mouse!Queued(<<>>, bytes) = bytes
  BY DEF Mouse!Queued, MouseAssumed
<1>5. mouse_owed = mouse.dx + 0  BY <1>3, InsideEmpty DEF MouseInv, Mouse!MotionKept
<1>6. mouse.dx \in Int  BY DEF MouseInv, MouseTyped, MouseT
<1> QED  BY <1>1, <1>3, <1>4, <1>5, <1>6

LEMMA SayAnswered ==
  ASSUME MouseAssumed, MouseInv, NEW c \in Mouse!Commands, Mouse!Say(c),
         mouse_drv.at = "idle", ~mouse.wrap
  PROVE  MouseInv'
<1> DEFINE m == Mouse!Became(c)
<1>1. /\ mouse \in MouseT /\ mouse_drv \in DrvT /\ mouse_owed \in Int /\ mouse.dx \in Int
  BY DEF MouseInv, MouseTyped, MouseT
<1>2. /\ mouse.write_cmd = "none" /\ c # "unwrap"
      /\ mouse_drv.probe # <<>> => c = "sample"
      /\ c \in {"enable", "poll"} => mouse_drv.known
      /\ c = "sample" => ~mouse.enabled
  BY DEF Mouse!Say, Mouse!May
<1>3. mouse' = m /\ mouse_queue' = Mouse!Queued(mouse_queue, Mouse!Answer(c))
  BY <1>2 DEF Mouse!Say, Mouse!Command
<1>4. /\ mouse_owed' = mouse_owed
      /\ mouse_drv' = [mouse_drv EXCEPT !.cmd = c, !.at = "reply", !.want = Mouse!Expected(c),
                         !.type = IF c = "reset" THEN 0 ELSE @,
                         !.kind = IF c = "reset" THEN 0 ELSE @,
                         !.known = IF c = "reset" THEN TRUE ELSE @]
  BY DEF Mouse!Say
<1>5. mouse_drv.known => mouse_drv.type = mouse.type
  BY DEF MouseInv, Knowing, Naming
<1>6. /\ Answers(Mouse!Answer(c), Mouse!Expected(c))
      /\ c # "poll" => Mouse!Inside(Mouse!Answer(c)) = 0
      /\ c = "poll" => Mouse!Inside(Mouse!Answer(c)) = Mouse!Clamp(mouse.dx)
      /\ c = "type" => /\ Mouse!Expected(c) = <<"ack", "byte">>
                       /\ Mouse!Answer(c)[Len(Mouse!Answer(c))] = Mouse!Byte("byte", mouse.type)
  BY <1>1, <1>2, <1>5, CommandAnswers
<1>7. /\ mouse_queue = <<>> /\ mouse_drv.want = <<>> /\ mouse_queue' = Mouse!Answer(c)
      /\ mouse_owed = mouse.dx
  BY <1>3, <1>6, Alone DEF Answers
<1>8. /\ mouse_drv'.cmd = c /\ mouse_drv'.at = "reply" /\ mouse_drv'.want = Mouse!Expected(c)
      /\ mouse_drv'.type = (IF c = "reset" THEN 0 ELSE mouse_drv.type)
      /\ mouse_drv'.kind = (IF c = "reset" THEN 0 ELSE mouse_drv.kind)
      /\ mouse_drv'.known = (IF c = "reset" THEN TRUE ELSE mouse_drv.known)
      /\ mouse_drv'.probe = mouse_drv.probe /\ mouse_drv'.aligned = mouse_drv.aligned
  BY <1>1, <1>4 DEF DrvT
<1>9. /\ m \in MouseT /\ m.detect = mouse.detect
      /\ m.type = (IF c = "reset" THEN 0 ELSE mouse.type)
      /\ m.enabled = (IF c = "enable" THEN TRUE
              ELSE IF c \in {"disable", "default", "reset"} THEN FALSE ELSE mouse.enabled)
      /\ m.remote = (IF c = "remote" THEN TRUE
              ELSE IF c \in {"stream", "default", "reset"} THEN FALSE ELSE mouse.remote)
      /\ m.wrap = (IF c = "wrap" THEN TRUE ELSE mouse.wrap)
      /\ m.write_cmd = (IF c \in {"sample", "resolution"} THEN c ELSE mouse.write_cmd)
      /\ m.dx = (IF c = "poll" THEN mouse.dx - Mouse!Clamp(mouse.dx) ELSE mouse.dx)
  BY <1>1, BecameIs
<1>10. ~Sending  BY DEF MouseInv, Modal
<1>11. /\ mouse_queue' \in Seq(ByteT) /\ mouse_drv'.want \in Seq(Kinds)
       /\ mouse_drv'.want # <<>> /\ Queueing'
  <2>1. Answers(mouse_queue', mouse_drv'.want) /\ mouse_drv'.at = "reply"  BY <1>6, <1>7, <1>8
  <2> QED  BY <2>1, ReplyLaid
<1> HIDE DEF m
<1>12. MouseTyped'
  <2>2. /\ (IF c = "reset" THEN 0 ELSE mouse_drv.type) \in Int
        /\ (IF c = "reset" THEN 0 ELSE mouse_drv.kind) \in Types
        /\ (IF c = "reset" THEN TRUE ELSE mouse_drv.known) \in BOOLEAN
    <3>1. mouse_drv.type \in Int /\ mouse_drv.kind \in Types /\ mouse_drv.known \in BOOLEAN
      BY <1>1 DEF DrvT
    <3>2. CASE c = "reset"  BY <3>2 DEF Types
    <3>3. CASE c # "reset"  BY <3>1, <3>3
    <3> QED  BY <3>2, <3>3
  <2>3. Mouse!Expected(c) \in Seq(Kinds)  BY <1>6 DEF Answers
  <2>1. mouse_drv' \in DrvT
    BY <1>1, <1>4, <2>2, <2>3 DEF DrvT
  <2> QED  BY <1>1, <1>3, <1>4, <1>9, <1>11, <2>1 DEF MouseTyped
<1>13. Modal'
  BY <1>2, <1>3, <1>8, <1>9, <1>10, <1>11 DEF Modal, Sending
<1>14. Probing'
  BY <1>2, <1>3, <1>8, <1>9 DEF MouseInv, Probing
<1>15. Knowing'
  <2>1. mouse'.enabled \/ mouse_drv'.at = "drain" => mouse_drv'.known
    BY <1>2, <1>3, <1>8, <1>9 DEF MouseInv, Knowing
  <2>2. mouse_drv'.known /\ ~Naming' => mouse_drv'.type = mouse'.type
    BY <1>3, <1>5, <1>8, <1>9
  <2>3. ASSUME Naming' PROVE /\ ~mouse'.wrap /\ ~Sending' /\ mouse_drv'.want = <<"ack", "byte">>
                             /\ mouse_queue'[Len(mouse_queue')] = Mouse!Byte("byte", mouse'.type)
    <3>1. c = "type"  BY <1>8, <2>3 DEF Naming
    <3> QED  BY <1>3, <1>6, <1>7, <1>8, <1>9, <1>10, <3>1 DEF Sending
  <2> QED  BY <2>1, <2>2, <2>3 DEF Knowing
<1>16. Mouse!PacketsAligned'  BY <1>8 DEF MouseInv, Mouse!PacketsAligned
<1>17. Mouse!MotionKept'
  <2>1. Mouse!Clamp(mouse.dx) \in Int  BY <1>1, ClampIn
  <2> QED  BY <1>1, <1>3, <1>4, <1>6, <1>7, <1>9, <2>1 DEF Mouse!MotionKept
<1> QED  BY <1>11, <1>12, <1>13, <1>14, <1>15, <1>16, <1>17 DEF MouseInv

LEMMA SayWrapped ==
  ASSUME MouseAssumed, MouseInv, NEW c \in Mouse!Commands, Mouse!Say(c), mouse.wrap
  PROVE  MouseInv'
<1>1. /\ mouse \in MouseT /\ mouse_drv \in DrvT /\ mouse_owed \in Int /\ mouse.dx \in Int
  BY DEF MouseInv, MouseTyped, MouseT
<1>2. c \in {"unwrap", "scale"} /\ mouse.write_cmd = "none"  BY DEF Mouse!Say, Mouse!May
<1>3. ~Sending /\ mouse_drv.at = "idle"  BY DEF MouseInv, Modal, Mouse!Say
<1> DEFINE b == IF c = "unwrap" THEN Mouse!Ack ELSE Mouse!Byte("byte", 0)
           w == IF c = "unwrap" THEN "ack" ELSE "byte"
<1>4. /\ mouse' = (IF c = "unwrap" THEN [mouse EXCEPT !.wrap = FALSE] ELSE mouse)
      /\ mouse_queue' = Mouse!Queued(mouse_queue, <<b>>)
  <2>1. CASE c = "unwrap"  BY <1>2, <2>1 DEF Mouse!Say, Mouse!Command
  <2>2. CASE c = "scale"  BY <1>2, <2>2 DEF Mouse!Say, Mouse!Command
  <2> QED  BY <1>2, <2>1, <2>2
<1>5. b \in ByteT /\ b.kind = w /\ w \in Kinds
  <2>1. 0 \in Int /\ "byte" \in Kinds /\ "ack" \in Kinds  BY DEF Kinds
  <2> QED  BY <2>1, AckIs, BytesIn
<1>6. Answers(<<b>>, <<w>>)  BY <1>5, OneByte
<1> HIDE DEF b
<1>7. mouse_queue = <<>> /\ mouse_queue' = <<b>> /\ mouse_owed = mouse.dx
  <2>1. <<b>> \in Seq(ByteT) /\ Len(<<b>>) <= 5  BY <1>5
  <2> QED  BY <1>3, <1>4, <2>1, Alone
<1>8. /\ mouse_owed' = mouse_owed
      /\ mouse_drv' = [mouse_drv EXCEPT !.cmd = c, !.at = "reply", !.want = <<w>>]
  <2>1. Mouse!Expected(c) = <<w>>  BY <1>2 DEF Mouse!Expected
  <2>2. mouse_drv' = [mouse_drv EXCEPT !.cmd = c, !.at = "reply", !.want = Mouse!Expected(c),
                         !.type = IF c = "reset" THEN 0 ELSE @,
                         !.kind = IF c = "reset" THEN 0 ELSE @,
                         !.known = IF c = "reset" THEN TRUE ELSE @]
    BY <1>3 DEF Mouse!Say
  <2>3. c # "reset"  BY <1>2
  <2> HIDE DEF w
  <2>4. mouse_drv' = [mouse_drv EXCEPT !.cmd = c, !.at = "reply", !.want = <<w>>,
                         !.type = @, !.kind = @, !.known = @]
    BY <2>1, <2>2, <2>3
  <2>5. mouse_owed' = mouse_owed  BY DEF Mouse!Say
  <2> QED  BY <1>1, <2>4, <2>5 DEF DrvT
<1>9. /\ mouse_drv'.cmd = c /\ mouse_drv'.at = "reply" /\ mouse_drv'.want = <<w>>
      /\ mouse_drv'.type = mouse_drv.type /\ mouse_drv'.kind = mouse_drv.kind
      /\ mouse_drv'.known = mouse_drv.known
      /\ mouse_drv'.probe = mouse_drv.probe /\ mouse_drv'.aligned = mouse_drv.aligned
  BY <1>1, <1>8 DEF DrvT
<1>10. /\ mouse' \in MouseT /\ mouse'.detect = mouse.detect /\ mouse'.type = mouse.type
       /\ mouse'.enabled = mouse.enabled /\ mouse'.remote = mouse.remote
       /\ mouse'.write_cmd = "none" /\ mouse'.dx = mouse.dx
  BY <1>1, <1>2, <1>4 DEF MouseT
<1>11. /\ mouse_queue' \in Seq(ByteT) /\ mouse_drv'.want \in Seq(Kinds)
       /\ mouse_drv'.want # <<>> /\ Queueing'
  <2>1. Answers(mouse_queue', mouse_drv'.want) /\ mouse_drv'.at = "reply"  BY <1>6, <1>7, <1>9
  <2> QED  BY <2>1, ReplyLaid
<1> HIDE DEF w
<1>12. MouseTyped'
  <2>1. mouse_drv' \in DrvT
    BY <1>1, <1>8, <1>9, <1>11 DEF DrvT, Types
  <2> QED  BY <1>1, <1>8, <1>10, <1>11, <2>1 DEF MouseTyped
<1>13. Modal'
  BY <1>3, <1>9, <1>10, <1>11 DEF Modal, Sending
<1>14. Probing'
  BY <1>9, <1>10 DEF MouseInv, Probing
<1>15. Knowing'
  <2>1. ~Naming /\ ~Naming'  BY <1>2, <1>3, <1>9 DEF Naming
  <2> QED  BY <1>9, <1>10, <2>1 DEF MouseInv, Knowing
<1>16. Mouse!PacketsAligned'  BY <1>9 DEF MouseInv, Mouse!PacketsAligned
<1>17. Mouse!MotionKept'
  <2>1. Mouse!Inside(<<b>>) = 0
    <3>1. <<b>> \in Seq(ByteT) /\ Len(<<b>>) = 1 /\ <<b>>[1].kind # "dx"  BY <1>5 DEF w
    <3>2. \A i \in 1 .. Len(<<b>>) : <<b>>[i].kind # "dx"
      <4>1. \A i \in 1 .. 1 : i = 1  OBVIOUS
      <4> QED  BY <3>1, <4>1
    <3> QED  BY <3>1, <3>2, InsideNone
  <2> QED  BY <1>1, <1>7, <1>8, <1>10, <2>1 DEF Mouse!MotionKept
<1> QED  BY <1>11, <1>12, <1>13, <1>14, <1>15, <1>16, <1>17 DEF MouseInv

LEMMA SayDrains ==
  ASSUME MouseAssumed, MouseInv, NEW c \in Mouse!Commands, Mouse!Say(c),
         mouse_drv.at = "stream", ~mouse.wrap, ~mouse_cut'
  PROVE  MouseInv'
<1> DEFINE m == Mouse!Became(c)
           q == mouse_queue
           p == mouse_queue'
<1>1. /\ mouse \in MouseT /\ mouse_drv \in DrvT /\ mouse_owed \in Int /\ mouse.dx \in Int
      /\ q \in Seq(ByteT)
  BY DEF MouseInv, MouseTyped, MouseT
<1>2. c \in {"disable", "remote"} /\ mouse.write_cmd = "none" /\ mouse_drv.want = <<>>
  BY DEF Mouse!Say, Mouse!May
<1>3. mouse' = m /\ p = Mouse!Queued(q, <<Mouse!Ack>>)
  BY <1>2 DEF Mouse!Say, Mouse!Command, Mouse!Answer
<1>4. /\ mouse_owed' = mouse_owed
      /\ mouse_drv' = [mouse_drv EXCEPT !.cmd = c, !.at = "drain", !.want = <<"ack">>]
  <2>1. Mouse!Expected(c) = <<"ack">>  BY <1>2 DEF Mouse!Expected
  <2>2. mouse_drv' = [mouse_drv EXCEPT !.cmd = c, !.at = "drain", !.want = Mouse!Expected(c),
                         !.type = IF c = "reset" THEN 0 ELSE @,
                         !.kind = IF c = "reset" THEN 0 ELSE @,
                         !.known = IF c = "reset" THEN TRUE ELSE @]
    BY DEF Mouse!Say
  <2>3. c # "reset"  BY <1>2
  <2>4. mouse_drv' = [mouse_drv EXCEPT !.cmd = c, !.at = "drain", !.want = <<"ack">>,
                         !.type = @, !.kind = @, !.known = @]
    BY <2>1, <2>2, <2>3
  <2>5. mouse_owed' = mouse_owed  BY DEF Mouse!Say
  <2> QED  BY <1>1, <2>4, <2>5 DEF DrvT
<1>5. /\ mouse_drv'.cmd = c /\ mouse_drv'.at = "drain" /\ mouse_drv'.want = <<"ack">>
      /\ mouse_drv'.type = mouse_drv.type /\ mouse_drv'.kind = mouse_drv.kind
      /\ mouse_drv'.known = mouse_drv.known
      /\ mouse_drv'.probe = mouse_drv.probe /\ mouse_drv'.aligned = mouse_drv.aligned
  BY <1>1, <1>4 DEF DrvT
<1>6. /\ mouse' \in MouseT /\ mouse'.detect = mouse.detect /\ mouse'.type = mouse.type
      /\ mouse'.write_cmd = "none" /\ mouse'.dx = mouse.dx /\ ~mouse'.wrap
      /\ ~mouse'.enabled \/ mouse'.remote
      /\ mouse'.enabled => mouse.enabled
  BY <1>1, <1>2, <1>3, BecameIs
<1>7. Sending  BY DEF MouseInv, Modal
<1>8. Len(q) \in Nat /\ Len(q) + 1 <= QueueSize
  <2>1. <<Mouse!Ack>> \in Seq(ByteT) /\ q \in Queue  BY <1>1, AckIs DEF MouseInv, Queueing, Queue
  <2>2. Len(p) <= QueueSize  BY <1>3, <2>1, QueuedIn DEF Queue
  <2>3. Len(p) = Len(q) + Len(mouse_drv'.want)  BY DEF Mouse!Say
  <2>4. Len(mouse_drv'.want) = 1  BY <1>5
  <2> QED  BY <1>1, <2>2, <2>3, <2>4
<1> HIDE DEF m
<1>9. p = Append(q, Mouse!Ack) /\ p \in Seq(ByteT) /\ Len(p) = Len(q) + 1 /\ p[Len(q) + 1].kind = "ack"
      /\ \A i \in 1 .. Len(q) : p[i] = q[i]
  <2>1. <<Mouse!Ack>> \in Seq(ByteT) /\ Len(<<Mouse!Ack>>) = 1  BY AckIs
  <2>2. Len(q) + 1 <= QueueSize  BY <1>8 DEF MouseAssumed
  <2>3. p = q \o <<Mouse!Ack>>  BY <1>3, <2>1, <2>2 DEF Mouse!Queued
  <2>4. q \o <<Mouse!Ack>> = Append(q, Mouse!Ack)  BY <1>1, AckIs, AppendIsConcat
  <2> QED  BY <1>1, <2>3, <2>4, AckIs
<1>10. MouseTyped'
  <2>1. <<"ack">> \in Seq(Kinds)  BY DEF Kinds
  <2>2. mouse_drv' \in DrvT  BY <1>1, <1>4, <2>1 DEF DrvT
  <2> QED  BY <1>1, <1>4, <1>6, <1>9, <2>2 DEF MouseTyped
<1>11. Modal'
  BY <1>2, <1>5, <1>6 DEF Modal, Sending
<1>12. Probing'
  <2>1. mouse_drv.probe = <<>>  BY <1>7 DEF MouseInv, Probing, Sending
  <2> QED  BY <1>5, <1>6, <2>1 DEF MouseInv, Probing
<1>13. Knowing'
  <2>1. ~Naming /\ ~Naming'  BY <1>5 DEF Naming
  <2>2. mouse_drv.known  BY <1>7 DEF MouseInv, Knowing, Sending
  <2> QED  BY <1>5, <1>6, <2>1, <2>2 DEF MouseInv, Knowing
<1>14. Mouse!PacketsAligned'  BY <1>5 DEF MouseInv, Mouse!PacketsAligned
<1>15. Mouse!MotionKept'
  <2>1. Mouse!Inside(p) = Mouse!Inside(q) + Mouse!Along(Mouse!Ack) /\ Mouse!Inside(q) \in Int
    BY <1>1, <1>9, InsideAppend, InsideIn, AckIs
  <2>2. Mouse!Along(Mouse!Ack) = 0  BY AckIs DEF Mouse!Along
  <2>3. mouse_owed = mouse.dx + Mouse!Inside(q)  BY DEF MouseInv, Mouse!MotionKept
  <2> QED  BY <1>4, <1>6, <2>1, <2>2, <2>3 DEF Mouse!MotionKept
<1>16. Queueing'
  <2>1. Len(p) <= QueueSize /\ p # <<>>
    <3>1. Len(p) <= QueueSize  BY <1>8, <1>9 DEF MouseAssumed
    <3>2. Len(p) # 0  BY <1>8, <1>9
    <3> QED  BY <3>1, <3>2
  <2>2. Laid(q, <<>>, 0, Len(q), mouse.type)
    <3>1. Len(<<>>) = 0  OBVIOUS
    <3> QED  BY <1>2, <3>1 DEF MouseInv, Queueing
  <2>3. Laid(p, <<"ack">>, 0, Len(q), mouse.type)
    <3>1. \A i \in 0 + 1 .. Len(q) : i \in 1 .. Len(q)  OBVIOUS
    <3>2. ~\E i \in 1 .. 0 : TRUE  OBVIOUS
    <3> QED  BY <1>9, <2>2, <3>1, <3>2 DEF Laid
  <2>4. Len(p) - 1 = Len(q) /\ Len(<<"ack">>) = 1 /\ <<"ack">>[1] = "ack" /\ <<"ack">> # <<>>
    BY <1>8, <1>9
  <2>5. Len(<<"ack">>) - 1 = 0 /\ ~\E i \in 1 .. 0 : TRUE  BY <2>4
  <2>6. p[Len(p)].kind = "ack"  BY <1>9
  <2> HIDE DEF p, q
  <2>7. /\ Laid(p, mouse_drv'.want, Len(mouse_drv'.want) - 1, Len(p) - 1, mouse'.type)
        /\ mouse_drv'.want[Len(mouse_drv'.want)] = "ack"
        /\ \A i \in 1 .. Len(mouse_drv'.want) - 1 : mouse_drv'.want[i] \in InBody
    BY <1>5, <1>6, <2>3, <2>4, <2>5
  <2> QED  BY <1>5, <2>1, <2>4, <2>6, <2>7 DEF Queueing, p
<1> QED  BY <1>10, <1>11, <1>12, <1>13, <1>14, <1>15, <1>16 DEF MouseInv

LEMMA SayKeeps ==
  ASSUME MouseAssumed, MouseInv, NEW c \in Mouse!Commands, Mouse!Say(c), ~mouse_cut'
  PROVE  MouseInv'
<1>1. mouse_drv.at \in {"idle", "stream"}  BY DEF Mouse!Say
<1>2. mouse.wrap \in BOOLEAN  BY DEF MouseInv, MouseTyped, MouseT
<1> QED  BY <1>1, <1>2, SayAnswered, SayWrapped, SayDrains

-----------------------------------------------------------------------------
(* A sample rate or a resolution.                                           *)
LEMMA RateKeeps ==
  ASSUME MouseAssumed, MouseInv, NEW rate \in {80, 100, 200}, Mouse!SayRate(rate)
  PROVE  MouseInv'
<1> DEFINE probe == mouse_drv.probe
           detect == mouse.detect
<1>1. /\ mouse \in MouseT /\ mouse_drv \in DrvT /\ mouse_owed \in Int /\ mouse.dx \in Int
      /\ probe \in Seq({80, 100, 200})
  BY DEF MouseInv, MouseTyped, MouseT, DrvT
<1>2. /\ mouse_drv.at = "idle" /\ mouse.write_cmd \in {"sample", "resolution"}
      /\ mouse_queue' = Mouse!Queued(mouse_queue, <<Mouse!Ack>>) /\ mouse_owed' = mouse_owed
      /\ ~Sending /\ ~mouse.wrap /\ mouse_drv.cmd = mouse.write_cmd
      /\ mouse.write_cmd = "sample" => ~mouse.enabled
  BY <1>1 DEF Mouse!SayRate, Mouse!Argument, MouseInv, Modal, MouseT
<1>3. <<Mouse!Ack>> \in Seq(ByteT) /\ Len(<<Mouse!Ack>>) <= 5 /\ Answers(<<Mouse!Ack>>, <<"ack">>)
  BY AckIs, OneByte
<1>4. mouse_queue = <<>> /\ mouse_queue' = <<Mouse!Ack>> /\ mouse_owed = mouse.dx
  BY <1>2, <1>3, Alone
<1>5. <<"ack">> \in Seq(Kinds)  BY DEF Kinds
<1>6. \/ Len(probe) = 0 /\ detect = 0 /\ probe = <<>>
      \/ Len(probe) = 1 /\ detect = 1 /\ probe # <<>>
      \/ Len(probe) = 2 /\ probe[2] = 100 /\ detect = 2 /\ probe # <<>>
      \/ Len(probe) = 2 /\ probe[2] = 200 /\ detect = 3 /\ probe # <<>>
  <2>1. Len(probe) = 0 <=> probe = <<>>  BY <1>1
  <2> HIDE DEF probe, detect
  <2>2. \/ Len(probe) = 0 /\ detect = 0
        \/ Len(probe) = 1 /\ detect = 1
        \/ Len(probe) = 2 /\ probe[2] = 100 /\ detect = 2
        \/ Len(probe) = 2 /\ probe[2] = 200 /\ detect = 3
    BY DEF MouseInv, Probing, probe, detect
  <2> QED  BY <2>1, <2>2
<1>7. /\ mouse_drv'.at = "reply" /\ mouse_drv'.want = <<"ack">> /\ mouse_drv'.cmd = mouse_drv.cmd
      /\ mouse_drv'.type = mouse_drv.type /\ mouse_drv'.aligned = mouse_drv.aligned
      /\ mouse_drv' \in DrvT
      /\ mouse' \in MouseT /\ mouse'.write_cmd = "none" /\ mouse'.dx = mouse.dx
      /\ mouse'.enabled = mouse.enabled /\ mouse'.remote = mouse.remote /\ mouse'.wrap = mouse.wrap
      /\ mouse_drv'.kind = mouse'.type
      /\ \/ /\ mouse_drv'.known = mouse_drv.known /\ mouse'.type = mouse.type
            /\ mouse_drv'.probe = <<>> /\ mouse'.detect = 0
         \/ /\ mouse_drv'.known = mouse_drv.known /\ mouse'.type = mouse.type
            /\ mouse.write_cmd = "sample"
            /\ \/ Len(mouse_drv'.probe) = 1 /\ mouse'.detect = 1
               \/ Len(mouse_drv'.probe) = 2 /\ mouse_drv'.probe[2] = 100 /\ mouse'.detect = 2
               \/ Len(mouse_drv'.probe) = 2 /\ mouse_drv'.probe[2] = 200 /\ mouse'.detect = 3
         \/ /\ mouse_drv'.known = FALSE /\ mouse_drv'.probe = <<>> /\ mouse'.detect = 0
            /\ mouse.write_cmd = "sample"
  <2>1. mouse_drv.kind = mouse.type /\ mouse.type \in Types
    BY <1>1 DEF MouseInv, Probing, MouseT
  <2>6. /\ mouse_drv.known \in BOOLEAN /\ mouse_drv.kind \in Types
        /\ mouse_drv = [mouse_drv EXCEPT !.probe = @, !.known = @, !.kind = @]
        /\ mouse = [mouse EXCEPT !.type = @, !.detect = @]
        /\ detect \in 0 .. 3
    BY <1>1 DEF DrvT, MouseT
  <2>2. CASE mouse.write_cmd = "resolution"
    <3>1. mouse' = [mouse EXCEPT !.write_cmd = "none"]
      BY <2>2 DEF Mouse!SayRate, Mouse!Argument
    <3>2. mouse_drv' = [mouse_drv EXCEPT !.at = "reply", !.want = <<"ack">>]
      BY <2>2 DEF Mouse!SayRate
    <3>3. probe = <<>> /\ detect = 0  BY <1>6, <2>2 DEF MouseInv, Probing
    <3>4. mouse' = [mouse EXCEPT !.write_cmd = "none", !.type = mouse.type, !.detect = detect]
      BY <1>1, <3>1 DEF MouseT
    <3>5. mouse_drv' = [mouse_drv EXCEPT !.at = "reply", !.want = <<"ack">>, !.probe = probe,
                          !.known = mouse_drv.known, !.kind = mouse_drv.kind]
      BY <1>1, <3>2 DEF DrvT
    <3> HIDE DEF probe, detect
    <3>6. /\ mouse' \in MouseT /\ mouse'.write_cmd = "none" /\ mouse'.dx = mouse.dx
          /\ mouse'.enabled = mouse.enabled /\ mouse'.remote = mouse.remote
          /\ mouse'.wrap = mouse.wrap /\ mouse'.type = mouse.type /\ mouse'.detect = detect
      BY <1>1, <2>6, <3>4 DEF MouseT
    <3>7. /\ mouse_drv'.at = "reply" /\ mouse_drv'.want = <<"ack">>
          /\ mouse_drv'.cmd = mouse_drv.cmd /\ mouse_drv'.type = mouse_drv.type
          /\ mouse_drv'.aligned = mouse_drv.aligned /\ mouse_drv' \in DrvT
          /\ mouse_drv'.probe = probe /\ mouse_drv'.known = mouse_drv.known /\ mouse_drv'.kind = mouse_drv.kind
      <4>1. mouse_drv' \in DrvT  BY <1>1, <1>5, <2>6, <3>5 DEF DrvT
      <4> QED  BY <1>1, <2>6, <3>5, <4>1 DEF DrvT
    <3> QED  BY <2>1, <3>3, <3>6, <3>7
  <2>3. CASE mouse.write_cmd = "sample"
    <3> DEFINE d == Mouse!Detected(rate)
    <3>1. mouse' = [mouse EXCEPT !.write_cmd = "none", !.type = d.type, !.detect = d.detect]
      BY <2>3 DEF Mouse!SayRate, Mouse!Argument
    <3>2. CASE probe = <<>> /\ rate # 200
      <4>1. mouse_drv' = [mouse_drv EXCEPT !.at = "reply", !.want = <<"ack">>]
        BY <3>2 DEF Mouse!SayRate
      <4>2. d.type = mouse.type /\ d.detect = 0
        BY <1>6, <3>2 DEF Mouse!Detected
      <4>3. mouse' = [mouse EXCEPT !.write_cmd = "none", !.type = mouse.type, !.detect = 0]
        BY <3>1, <4>2
      <4>4. mouse_drv' = [mouse_drv EXCEPT !.at = "reply", !.want = <<"ack">>, !.probe = probe,
                            !.known = mouse_drv.known, !.kind = mouse_drv.kind]
        BY <1>1, <4>1 DEF DrvT
      <4>5. 0 \in 0 .. 3  OBVIOUS
      <4> HIDE DEF d, probe, detect
      <4>6. /\ mouse' \in MouseT /\ mouse'.write_cmd = "none" /\ mouse'.dx = mouse.dx
            /\ mouse'.enabled = mouse.enabled /\ mouse'.remote = mouse.remote
            /\ mouse'.wrap = mouse.wrap /\ mouse'.type = mouse.type /\ mouse'.detect = 0
        BY <1>1, <2>6, <4>3, <4>5 DEF MouseT
      <4>7. /\ mouse_drv'.at = "reply" /\ mouse_drv'.want = <<"ack">>
            /\ mouse_drv'.cmd = mouse_drv.cmd /\ mouse_drv'.type = mouse_drv.type
            /\ mouse_drv'.aligned = mouse_drv.aligned /\ mouse_drv' \in DrvT
            /\ mouse_drv'.probe = probe /\ mouse_drv'.known = mouse_drv.known /\ mouse_drv'.kind = mouse_drv.kind
        <5>1. mouse_drv' \in DrvT  BY <1>1, <1>5, <2>6, <4>4 DEF DrvT
        <5> QED  BY <1>1, <2>6, <4>4, <5>1 DEF DrvT
      <4> QED  BY <2>1, <3>2, <4>6, <4>7
    <3>3. CASE ~(probe = <<>> /\ rate # 200) /\ rate = 80
      <4>0. Len(probe) = 2
        <5>1. ~(Len(probe) = 1)  BY <1>1, <1>6, <2>3, <3>3 DEF Mouse!SayRate
        <5> QED  BY <1>6, <3>3, <5>1
      <4>1. mouse_drv' = [mouse_drv EXCEPT !.at = "reply", !.want = <<"ack">>, !.probe = <<>>,
                            !.known = FALSE, !.kind = IF probe[2] = 100 THEN 3 ELSE 4]
        BY <2>3, <3>3 DEF Mouse!SayRate
      <4>2. d.type = (IF probe[2] = 100 THEN 3 ELSE 4) /\ d.detect = 0
        BY <1>6, <3>3, <4>0 DEF Mouse!Detected
      <4>3. d.type \in Types  BY <4>2 DEF Types
      <4>4. <<>> \in Seq({80, 100, 200})  OBVIOUS
      <4>5. mouse' = [mouse EXCEPT !.write_cmd = "none", !.type = d.type, !.detect = 0]
        BY <3>1, <4>2
      <4>6. mouse_drv' = [mouse_drv EXCEPT !.at = "reply", !.want = <<"ack">>, !.probe = <<>>,
                            !.known = FALSE, !.kind = d.type]
        BY <4>1, <4>2
      <4>7. 0 \in 0 .. 3 /\ FALSE \in BOOLEAN  OBVIOUS
      <4> HIDE DEF d, probe, detect
      <4>8. /\ mouse' \in MouseT /\ mouse'.write_cmd = "none" /\ mouse'.dx = mouse.dx
            /\ mouse'.enabled = mouse.enabled /\ mouse'.remote = mouse.remote
            /\ mouse'.wrap = mouse.wrap /\ mouse'.type = d.type /\ mouse'.detect = 0
        BY <1>1, <4>3, <4>5, <4>7 DEF MouseT
      <4>9. /\ mouse_drv'.at = "reply" /\ mouse_drv'.want = <<"ack">>
            /\ mouse_drv'.cmd = mouse_drv.cmd /\ mouse_drv'.type = mouse_drv.type
            /\ mouse_drv'.aligned = mouse_drv.aligned /\ mouse_drv' \in DrvT
            /\ mouse_drv'.probe = <<>> /\ mouse_drv'.known = FALSE /\ mouse_drv'.kind = d.type
        <5>1. mouse_drv' \in DrvT  BY <1>1, <1>5, <4>3, <4>4, <4>6, <4>7 DEF DrvT
        <5> QED  BY <1>1, <4>3, <4>4, <4>6, <4>7, <5>1 DEF DrvT
      <4> QED  BY <2>3, <4>8, <4>9
    <3>4. CASE ~(probe = <<>> /\ rate # 200) /\ rate # 80
      <4>0. Len(probe) \in {0, 1} /\ (Len(probe) = 0 => rate = 200)
        BY <1>6, <2>3, <3>4 DEF Mouse!SayRate
      <4>1. mouse_drv' = [mouse_drv EXCEPT !.at = "reply", !.want = <<"ack">>,
                                           !.probe = Append(probe, rate)]
        BY <2>3, <3>4 DEF Mouse!SayRate
      <4>2. /\ d.type = mouse.type
            /\ d.detect = (IF Len(probe) = 0 THEN 1 ELSE IF rate = 100 THEN 2 ELSE 3)
        BY <1>6, <3>4, <4>0 DEF Mouse!Detected
      <4>3. /\ Append(probe, rate) \in Seq({80, 100, 200})
            /\ Len(Append(probe, rate)) = Len(probe) + 1
            /\ Append(probe, rate)[Len(probe) + 1] = rate
        BY <1>1
      <4>4. \/ Len(probe) = 0 /\ Len(Append(probe, rate)) = 1
            \/ Len(probe) = 1 /\ Len(Append(probe, rate)) = 2 /\ Append(probe, rate)[2] = rate
        BY <4>0, <4>3
      <4> HIDE DEF d, probe
      <4>5. d.detect \in 0 .. 3  BY <4>2
      <4>6. mouse' \in MouseT /\ mouse'.detect = d.detect /\ mouse'.type = mouse.type
        BY <1>1, <3>1, <4>2, <4>5 DEF MouseT
      <4>7. mouse_drv' \in DrvT /\ mouse_drv'.probe = Append(probe, rate)
        BY <1>1, <1>5, <4>1, <4>3 DEF DrvT
      <4>8. /\ mouse_drv'.at = "reply" /\ mouse_drv'.want = <<"ack">> /\ mouse_drv'.cmd = mouse_drv.cmd
            /\ mouse_drv'.type = mouse_drv.type /\ mouse_drv'.aligned = mouse_drv.aligned
            /\ mouse_drv'.known = mouse_drv.known /\ mouse_drv'.kind = mouse_drv.kind
        BY <1>1, <4>1 DEF DrvT
      <4>9. /\ mouse'.write_cmd = "none" /\ mouse'.dx = mouse.dx /\ mouse'.enabled = mouse.enabled
            /\ mouse'.remote = mouse.remote /\ mouse'.wrap = mouse.wrap
        BY <1>1, <3>1 DEF MouseT
      <4>10. rate = 100 \/ rate = 200  BY <3>4
      <4> QED  BY <2>1, <2>3, <4>0, <4>2, <4>4, <4>6, <4>7, <4>8, <4>9, <4>10
    <3> QED  BY <3>2, <3>3, <3>4
  <2> QED  BY <1>2, <2>2, <2>3
<1> HIDE DEF probe, detect
<1>8. MouseTyped'  BY <1>2, <1>3, <1>4, <1>1, <1>7 DEF MouseTyped
<1>9. Modal'
  <2>1. <<"ack">> # <<>>  OBVIOUS
  <2> QED  BY <1>2, <1>7, <2>1 DEF Modal, Sending
<1>10. Probing'
  <2>1. Len(<<>>) = 0  OBVIOUS
  <2> QED  BY <1>2, <1>7, <2>1 DEF Probing
<1>11. Knowing'
  <2>1. ~Naming /\ ~Naming'  BY <1>2, <1>7 DEF Naming
  <2> QED  BY <1>2, <1>7, <2>1 DEF MouseInv, Knowing
<1>12. Queueing'
  <2>1. Answers(mouse_queue', mouse_drv'.want) /\ mouse_drv'.at = "reply"  BY <1>3, <1>4, <1>7
  <2> QED  BY <2>1, ReplyLaid
<1>13. Mouse!PacketsAligned'  BY <1>7 DEF MouseInv, Mouse!PacketsAligned
<1>14. Mouse!MotionKept'
  <2>1. Mouse!Inside(<<Mouse!Ack>>) = 0
    <3> DEFINE s == <<Mouse!Ack>>
    <3>1. Len(s) = 1 /\ s[1].kind # "dx" /\ \A i \in 1 .. 1 : i = 1
      BY AckIs
    <3>2. s \in Seq(ByteT)  BY <1>3
    <3> HIDE DEF s
    <3>3. \A i \in 1 .. Len(s) : s[i].kind # "dx"  BY <3>1
    <3>4. Mouse!Inside(s) = 0  BY <3>2, <3>3, InsideNone
    <3> QED  BY <3>4 DEF s
  <2> QED  BY <1>1, <1>2, <1>4, <1>7, <2>1 DEF Mouse!MotionKept
<1> QED  BY <1>8, <1>9, <1>10, <1>11, <1>12, <1>13, <1>14 DEF MouseInv

-----------------------------------------------------------------------------
(* A byte that the guest reads: what is the same for each, ...              *)
LEMMA ByteRead ==
  ASSUME MouseInv, Mouse!ReadByte
  PROVE  /\ mouse_queue # <<>> /\ mouse_queue' = Tail(mouse_queue) /\ mouse_queue' \in Seq(ByteT)
         /\ Len(mouse_queue) \in Nat \ {0} /\ Len(mouse_queue') = Len(mouse_queue) - 1
         /\ Head(mouse_queue) = mouse_queue[1] /\ mouse_queue[1] \in ByteT
         /\ \A i \in 1 .. Len(mouse_queue) - 1 : mouse_queue'[i] = mouse_queue[i + 1]
         /\ mouse' = mouse /\ mouse_owed' \in Int /\ Mouse!MotionKept'
<1> DEFINE q == mouse_queue
           p == mouse_queue'
<1>1. q \in Seq(ByteT) /\ mouse_owed \in Int /\ mouse.dx \in Int
  BY DEF MouseInv, MouseTyped, MouseT
<1>2. q # <<>> /\ p = Tail(q) /\ mouse' = mouse /\ mouse_owed' = mouse_owed - Mouse!Along(Head(q))
  BY DEF Mouse!ReadByte
<1>3. /\ p \in Seq(ByteT) /\ Len(q) \in Nat \ {0} /\ Len(p) = Len(q) - 1 /\ Head(q) = q[1]
      /\ q[1] \in ByteT /\ \A i \in 1 .. Len(q) - 1 : p[i] = q[i + 1]
  BY <1>1, <1>2
<1>4. Mouse!Inside(p) = Mouse!Inside(q) - Mouse!Along(Head(q))
  BY <1>1, <1>2, InsideTail
<1>5. Mouse!Inside(q) \in Int /\ Mouse!Along(Head(q)) \in Int  BY <1>1, <1>3, InsideIn, AlongIn
<1>6. mouse_owed = mouse.dx + Mouse!Inside(q)  BY DEF MouseInv, Mouse!MotionKept
<1>7. Mouse!MotionKept'  BY <1>1, <1>2, <1>4, <1>5, <1>6 DEF Mouse!MotionKept
<1> QED  BY <1>1, <1>2, <1>3, <1>5, <1>7

(* ... a byte that is expected, ...                                         *)
NamesType == mouse_drv.cmd = "type" /\ mouse_queue[1].kind = "byte" /\ ~mouse.wrap
Takes ==
  /\ mouse_drv' \in DrvT /\ mouse_drv'.want = Tail(mouse_drv.want) /\ mouse_drv'.aligned = TRUE
  /\ mouse_drv'.at = (IF Tail(mouse_drv.want) # <<>> THEN mouse_drv.at
                      ELSE IF Sending THEN "stream" ELSE "idle")
  /\ mouse_drv'.cmd = mouse_drv.cmd /\ mouse_drv'.probe = mouse_drv.probe
  /\ mouse_drv'.kind = mouse_drv.kind
  /\ mouse_drv'.type = (IF NamesType THEN mouse_queue[1].v ELSE mouse_drv.type)
  /\ mouse_drv'.known = (IF mouse_drv.cmd = "type" THEN TRUE ELSE mouse_drv.known)

LEMMA ByteTaken ==
  ASSUME MouseInv, Mouse!ReadByte, mouse_drv.want # <<>>, mouse_queue[1].kind = mouse_drv.want[1],
         ~(mouse_drv.at = "stream" /\ mouse_drv.want = <<"ack">>)
  PROVE  Takes
<1> DEFINE b == mouse_queue[1]
           type == IF NamesType THEN b.v ELSE mouse_drv.type
           known == IF mouse_drv.cmd = "type" THEN TRUE ELSE mouse_drv.known
           d == [mouse_drv EXCEPT !.want = Tail(mouse_drv.want), !.aligned = TRUE,
                                  !.type = type, !.known = known]
<1>1. mouse_drv \in DrvT /\ mouse_drv.want \in Seq(Kinds) /\ Head(mouse_queue) = b /\ b \in ByteT
  BY ByteRead DEF MouseInv, MouseTyped, DrvT
<1>2. <<"ack">>[1] = "ack"  OBVIOUS
<1>3. mouse_drv' = Mouse!Settled(d)
  <2>1. ~((mouse_drv.at = "stream" \/ (mouse_drv.at = "drain" /\ mouse_drv.want[1] = "ack" /\ b.kind # "ack"))
          /\ mouse_drv.want \in {<<>>, <<"ack">>})
    OBVIOUS
  <2>2. mouse_drv' = Mouse!Settled([mouse_drv EXCEPT
                      !.want = Tail(@), !.aligned = b.kind = mouse_drv.want[1],
                      !.type = IF mouse_drv.cmd = "type" /\ b.kind = "byte" /\ ~mouse.wrap THEN b.v ELSE @,
                      !.known = IF mouse_drv.cmd = "type" THEN TRUE ELSE @])
    BY <1>1, <2>1 DEF Mouse!ReadByte
  <2>3. (b.kind = mouse_drv.want[1]) = TRUE  OBVIOUS
  <2> QED  BY <1>1, <2>2, <2>3 DEF NamesType, DrvT
<1>4. type \in Int /\ known \in BOOLEAN /\ Tail(mouse_drv.want) \in Seq(Kinds)
  <2>1. b.v \in Int /\ mouse_drv.type \in Int /\ mouse_drv.known \in BOOLEAN
    BY <1>1 DEF DrvT, ByteT
  <2>2. Tail(mouse_drv.want) \in Seq(Kinds)  BY <1>1
  <2>3. type \in Int  BY <2>1
  <2>4. known \in BOOLEAN
    <3>1. CASE mouse_drv.cmd = "type"  BY <3>1
    <3>2. CASE mouse_drv.cmd # "type"  BY <2>1, <3>2
    <3> QED  BY <3>1, <3>2
  <2> QED  BY <2>2, <2>3, <2>4
<1> HIDE DEF type, known
<1>5. /\ d \in DrvT /\ d.want = Tail(mouse_drv.want) /\ d.aligned = TRUE /\ d.at = mouse_drv.at
      /\ d.cmd = mouse_drv.cmd /\ d.probe = mouse_drv.probe /\ d.kind = mouse_drv.kind
      /\ d.type = type /\ d.known = known
  <2>1. d \in DrvT  BY <1>1, <1>4 DEF DrvT
  <2> QED  BY <1>1, <1>4, <2>1 DEF DrvT
<1> HIDE DEF d
<1>6. CASE Tail(mouse_drv.want) # <<>>
  <2>1. mouse_drv' = d  BY <1>3, <1>5, <1>6 DEF Mouse!Settled
  <2> QED  BY <1>5, <1>6, <2>1 DEF Takes, type, known
<1>7. CASE Tail(mouse_drv.want) = <<>>
  <2>1. mouse_drv' = [d EXCEPT !.at = IF Sending THEN "stream" ELSE "idle"]
    BY <1>3, <1>5, <1>7 DEF Mouse!Settled, Sending
  <2>2. mouse_drv' \in DrvT  BY <1>5, <2>1 DEF DrvT
  <2>3. /\ mouse_drv'.want = d.want /\ mouse_drv'.aligned = d.aligned
        /\ mouse_drv'.at = (IF Sending THEN "stream" ELSE "idle")
        /\ mouse_drv'.cmd = d.cmd /\ mouse_drv'.probe = d.probe /\ mouse_drv'.kind = d.kind
        /\ mouse_drv'.type = d.type /\ mouse_drv'.known = d.known
    BY <1>5, <2>1 DEF DrvT
  <2> QED  BY <1>5, <1>7, <2>2, <2>3 DEF Takes, type, known
<1> QED  BY <1>6, <1>7

(* ... and one with which a packet begins.                                  *)
Begins ==
  /\ mouse_drv' \in DrvT /\ mouse_drv'.aligned = TRUE
  /\ mouse_drv'.want = Mouse!Body(mouse.type) \o mouse_drv.want
  /\ mouse_drv'.at = mouse_drv.at /\ mouse_drv'.cmd = mouse_drv.cmd
  /\ mouse_drv'.probe = mouse_drv.probe /\ mouse_drv'.kind = mouse_drv.kind
  /\ mouse_drv'.type = mouse_drv.type /\ mouse_drv'.known = mouse_drv.known

LEMMA ByteBegins ==
  ASSUME MouseInv, Mouse!ReadByte, mouse_drv.type = mouse.type, mouse_queue[1].kind = "head",
         \/ mouse_drv.at = "stream" /\ mouse_drv.want = <<>>
         \/ mouse_drv.at = "drain" /\ mouse_drv.want = <<"ack">>
  PROVE  Begins
<1> DEFINE b == mouse_queue[1]
<1>1. mouse_drv \in DrvT /\ mouse_drv.want \in Seq(Kinds) /\ Head(mouse_queue) = b
  BY ByteRead DEF MouseInv, MouseTyped, DrvT
<1>2. <<"ack">>[1] = "ack"  OBVIOUS
<1>3. mouse_drv' = [mouse_drv EXCEPT !.aligned = TRUE, !.want = Mouse!Body(mouse.type) \o mouse_drv.want]
  <2>1. (mouse_drv.at = "stream" \/ (mouse_drv.at = "drain" /\ mouse_drv.want[1] = "ack" /\ b.kind # "ack"))
        /\ mouse_drv.want \in {<<>>, <<"ack">>}
    BY <1>2
  <2>2. mouse_drv' = [mouse_drv EXCEPT !.aligned = b.kind = "head",
                                       !.want = Mouse!Body(mouse_drv.type) \o mouse_drv.want]
    BY <1>1, <2>1 DEF Mouse!ReadByte
  <2>3. (b.kind = "head") = TRUE  OBVIOUS
  <2> QED  BY <2>2, <2>3
<1>4. Mouse!Body(mouse.type) \in Seq(Kinds)  BY BodyIs
<1> DEFINE w == Mouse!Body(mouse.type) \o mouse_drv.want
<1>5. w \in Seq(Kinds)  BY <1>1, <1>4
<1> HIDE DEF w
<1>6. mouse_drv' \in DrvT  BY <1>1, <1>3, <1>5 DEF DrvT, w
<1> QED  BY <1>1, <1>3, <1>6 DEF Begins, DrvT

(* The guest waits for a reply.                                             *)
LEMMA ReadReply ==
  ASSUME MouseAssumed, MouseInv, Mouse!ReadByte, mouse_drv.at = "reply"
  PROVE  MouseInv'
<1> DEFINE q == mouse_queue
           p == mouse_queue'
           want == mouse_drv.want
           n == Len(q)
           w == Len(want)
<1>1. /\ mouse \in MouseT /\ mouse_drv \in DrvT /\ q \in Seq(ByteT)
      /\ want \in Seq(Kinds) /\ want # <<>> /\ mouse.type \in Types
  BY DEF MouseInv, MouseTyped, Modal, MouseT, DrvT
<1>2. w \in Nat \ {0} /\ n \in Nat /\ Tail(want) \in Seq(Kinds) /\ Len(Tail(want)) = w - 1
  BY <1>1
<1>3. n <= QueueSize /\ Laid(q, want, w, n, mouse.type) /\ (~Sending => n = w)
  BY DEF MouseInv, Queueing
<1>4. q[1].kind = want[1] /\ Laid(Tail(q), Tail(want), w - 1, n - 1, mouse.type)
  <2>1. w <= Len(want) /\ n <= Len(q)  BY <1>2
  <2> HIDE DEF q, want, n, w
  <2> QED  BY <1>1, <1>2, <1>3, <2>1, LaidNext
<1>5. /\ p = Tail(q) /\ p \in Seq(ByteT) /\ n \in Nat \ {0} /\ Len(p) = n - 1
      /\ \A i \in 1 .. n - 1 : p[i] = q[i + 1]
      /\ mouse' = mouse /\ mouse_owed' \in Int /\ Mouse!MotionKept'
  BY ByteRead
<1>6. Takes  BY <1>1, <1>4, ByteTaken
<1>7. /\ mouse_drv' \in DrvT /\ mouse_drv'.want = Tail(want) /\ mouse_drv'.aligned = TRUE
      /\ mouse_drv'.at = (IF Tail(want) # <<>> THEN "reply" ELSE IF Sending THEN "stream" ELSE "idle")
      /\ mouse_drv'.cmd = mouse_drv.cmd /\ mouse_drv'.probe = mouse_drv.probe
      /\ mouse_drv'.kind = mouse_drv.kind
      /\ mouse_drv'.type = (IF NamesType THEN q[1].v ELSE mouse_drv.type)
      /\ mouse_drv'.known = (IF mouse_drv.cmd = "type" THEN TRUE ELSE mouse_drv.known)
  BY <1>6 DEF Takes
<1>8. MouseTyped'  BY <1>1, <1>5, <1>7 DEF MouseTyped
<1>9. Modal'  BY <1>5, <1>7 DEF MouseInv, Modal, Sending
<1>10. Probing'  BY <1>5, <1>7 DEF MouseInv, Probing
<1>11. Mouse!PacketsAligned'  BY <1>7 DEF Mouse!PacketsAligned
<1>12. Knowing'
  <2>1. mouse_drv'.at # "drain"  BY <1>7
  <2>2. CASE mouse_drv.cmd # "type"
    <3>1. ~Naming /\ ~Naming' /\ ~NamesType  BY <1>7, <2>2 DEF Naming, NamesType
    <3> QED  BY <1>5, <1>7, <2>1, <2>2, <3>1 DEF MouseInv, Knowing
  <2>3. CASE mouse_drv.cmd = "type"
    <3>1. /\ ~mouse.wrap /\ ~Sending /\ want \in {<<"ack", "byte">>, <<"byte">>}
          /\ q[n] = Mouse!Byte("byte", mouse.type)
      BY <2>3 DEF MouseInv, Knowing, Naming
    <3>2. n = w /\ ~Sending'  BY <1>3, <1>5, <3>1 DEF Sending
    <3>3. CASE want = <<"ack", "byte">>
      <4>1. Tail(want) = <<"byte">> /\ w = 2 /\ want[1] = "ack"  BY <3>3
      <4>2. p[1] = q[2] /\ Len(p) = 1 /\ <<"byte">> # <<>>
        <5>1. 1 \in 1 .. n - 1 /\ n = 2 /\ 1 + 1 = 2  BY <3>2, <4>1
        <5>2. p[1] = q[1 + 1]  BY <1>5, <5>1, Zenon
        <5>3. <<"byte">> # <<>>  OBVIOUS
        <5>4. Len(p) = n - 1  BY <1>5
        <5> HIDE DEF p, q, n
        <5> QED  BY <5>1, <5>2, <5>3, <5>4
      <4>3. ~NamesType  BY <1>4, <4>1 DEF NamesType
      <4>4. Naming'  BY <1>7, <2>3, <4>1, <4>2 DEF Naming
      <4> HIDE DEF p, q, want
      <4>5. p[Len(p)] = Mouse!Byte("byte", mouse'.type)  BY <1>5, <3>1, <3>2, <4>1, <4>2
      <4> QED  BY <1>5, <1>7, <2>3, <3>1, <3>2, <4>1, <4>4, <4>5 DEF Knowing, p
    <3>4. CASE want = <<"byte">>
      <4>1. Tail(want) = <<>> /\ w = 1 /\ want[1] = "byte"  BY <3>4
      <4>2. NamesType /\ n = 1  BY <1>4, <2>3, <3>1, <3>2, <4>1 DEF NamesType
      <4>3. q[1].v = mouse.type  BY <3>1, <4>2 DEF Mouse!Byte
      <4>4. ~Naming'  BY <1>7, <4>1 DEF Naming
      <4> HIDE DEF p, q, want
      <4> QED  BY <1>5, <1>7, <2>3, <4>2, <4>3, <4>4 DEF Knowing
    <3> QED  BY <3>1, <3>3, <3>4
  <2> QED  BY <2>2, <2>3
<1>13. Queueing'
  <2>1. Len(p) = n - 1 /\ n - 1 < n /\ n - 1 <= QueueSize
    BY <1>3, <1>5 DEF MouseAssumed
  <2>2. Laid(p, mouse_drv'.want, Len(mouse_drv'.want), Len(p), mouse'.type)
    BY <1>2, <1>4, <1>5, <1>7
  <2>3. ~Sending' => Len(p) = Len(mouse_drv'.want)
    BY <1>2, <1>3, <1>5, <1>7 DEF Sending
  <2>4. Tail(want) = <<>> \/ mouse_drv'.at = "reply"  BY <1>7
  <2>5. mouse_drv'.at = "stream" => \A i \in 1 .. Len(mouse_drv'.want) : mouse_drv'.want[i] \in InBody
    <3>1. CASE mouse_drv'.at = "stream"
      <4>1. mouse_drv'.want = <<>>  BY <1>7, <2>4, <3>1
      <4>2. ~\E i \in 1 .. 0 : TRUE  OBVIOUS
      <4>3. Len(<<>>) = 0  OBVIOUS
      <4> QED  BY <4>1, <4>2, <4>3
    <3> QED  BY <3>1
  <2>6. mouse_drv'.at # "drain"  BY <1>7
  <2> HIDE DEF n, w, want
  <2> QED  BY <2>1, <2>2, <2>3, <2>5, <2>6 DEF Queueing
<1> QED  BY <1>5, <1>8, <1>9, <1>10, <1>11, <1>12, <1>13 DEF MouseInv

(* It follows the motion.                                                   *)
LEMMA ReadStream ==
  ASSUME MouseAssumed, MouseInv, Mouse!ReadByte, mouse_drv.at = "stream"
  PROVE  MouseInv'
<1> DEFINE q == mouse_queue
           p == mouse_queue'
           want == mouse_drv.want
           n == Len(q)
           w == Len(want)
           t == mouse.type
<1>1. /\ mouse \in MouseT /\ mouse_drv \in DrvT /\ q \in Seq(ByteT)
      /\ want \in Seq(Kinds) /\ t \in Types /\ w \in Nat
  BY DEF MouseInv, MouseTyped, MouseT, DrvT
<1>2. n <= QueueSize /\ Laid(q, want, w, n, t) /\ (\A i \in 1 .. w : want[i] \in InBody) /\ Sending
  BY DEF MouseInv, Queueing, Modal
<1>3. /\ p = Tail(q) /\ p \in Seq(ByteT) /\ n \in Nat \ {0} /\ Len(p) = n - 1
      /\ mouse' = mouse /\ mouse_owed' \in Int /\ Mouse!MotionKept'
  BY ByteRead
<1>4. mouse_drv.known /\ mouse_drv.type = t  BY <1>2 DEF MouseInv, Knowing, Naming, Sending
<1>5. /\ mouse_drv' \in DrvT /\ mouse_drv'.aligned = TRUE /\ mouse_drv'.at = "stream"
      /\ mouse_drv'.cmd = mouse_drv.cmd /\ mouse_drv'.probe = mouse_drv.probe
      /\ mouse_drv'.kind = mouse_drv.kind /\ mouse_drv'.type = t /\ mouse_drv'.known = TRUE
      /\ Laid(p, mouse_drv'.want, Len(mouse_drv'.want), n - 1, t)
      /\ \A i \in 1 .. Len(mouse_drv'.want) : mouse_drv'.want[i] \in InBody
  <2>1. CASE want = <<>>
    <3>1. w = 0 /\ <<>> \in Seq(Kinds)  BY <2>1
    <3>2. q[1].kind = "head" /\ Laid(p, Mouse!Body(t) \o <<>>, Len(Mouse!Body(t)), n - 1, t)
      <4>1. n <= Len(q) /\ Laid(q, want, 0, n, t)  BY <1>2, <1>3, <3>1
      <4>2. p = Tail(q)  BY <1>3
      <4> HIDE DEF q, want, n, w, p
      <4> QED  BY <1>1, <1>3, <3>1, <4>1, <4>2, LaidHead
    <3>3. Begins  BY <1>4, <2>1, <3>2, ByteBegins
    <3>4. Mouse!Body(t) \o <<>> = Mouse!Body(t) /\ Mouse!Body(t) \in Seq(Kinds)
      <4>1. Mouse!Body(t) \in Seq(Kinds)  BY BodyIs
      <4> QED  BY <4>1
    <3>5. mouse_drv'.want = Mouse!Body(t)  BY <2>1, <3>3, <3>4 DEF Begins
    <3>6. \A i \in 1 .. Len(Mouse!Body(t)) : Mouse!Body(t)[i] \in InBody  BY BodyIs
    <3> QED  BY <1>4, <3>2, <3>3, <3>4, <3>5, <3>6 DEF Begins
  <2>2. CASE want # <<>>
    <3>1. /\ w \in Nat \ {0} /\ Tail(want) \in Seq(Kinds) /\ Len(Tail(want)) = w - 1
          /\ \A i \in 1 .. w - 1 : Tail(want)[i] = want[i + 1] /\ i + 1 \in 1 .. w
      BY <1>1, <2>2
    <3>2. q[1].kind = want[1] /\ Laid(p, Tail(want), w - 1, n - 1, t)
      <4>1. w <= Len(want) /\ n <= Len(q) /\ Laid(q, want, w, n, t)  BY <1>2, <1>3, <3>1
      <4>2. p = Tail(q) /\ n \in Nat  BY <1>3
      <4>3. w \in Nat \ {0}  BY <3>1
      <4> HIDE DEF q, want, n, w, p, t
      <4>4. q[1].kind = want[1] /\ Laid(Tail(q), Tail(want), w - 1, n - 1, t)
        BY <1>1, <4>1, <4>2, <4>3, LaidNext
      <4> QED  BY <4>2, <4>4
    <3>3. 1 \in 1 .. w /\ want[1] \in InBody  BY <1>2, <3>1
    <3>4. want # <<"ack">> /\ q[1].kind # "byte"
      <4>1. <<"ack">>[1] = "ack"  OBVIOUS
      <4> QED  BY <3>2, <3>3, <4>1 DEF InBody
    <3>5. Takes  BY <2>2, <3>2, <3>4, ByteTaken
    <3>6. ~NamesType  BY <3>4 DEF NamesType
    <3>7. mouse_drv'.at = "stream" /\ mouse_drv'.known = TRUE /\ mouse_drv'.type = t
          /\ mouse_drv'.want = Tail(want)
      <4>1. mouse_drv.known \in BOOLEAN  BY <1>1 DEF DrvT
      <4> QED  BY <1>2, <1>4, <3>5, <3>6, <4>1 DEF Takes
    <3> QED  BY <1>2, <3>1, <3>2, <3>5, <3>7 DEF Takes
  <2> QED  BY <2>1, <2>2
<1>6. MouseTyped'  BY <1>1, <1>3, <1>5 DEF MouseTyped
<1>7. Modal'  BY <1>2, <1>3, <1>5 DEF MouseInv, Modal, Sending
<1>8. Probing'  BY <1>3, <1>5 DEF MouseInv, Probing
<1>9. Mouse!PacketsAligned'  BY <1>5 DEF Mouse!PacketsAligned
<1>10. Knowing'  BY <1>3, <1>5 DEF Knowing, Naming
<1>11. Queueing'
  <2>1. n - 1 <= QueueSize  BY <1>2, <1>3 DEF MouseAssumed
  <2>2. Sending'  BY <1>2, <1>3 DEF Sending
  <2> HIDE DEF n, w, want
  <2> QED  BY <1>3, <1>5, <2>1, <2>2 DEF Queueing
<1> QED  BY <1>3, <1>6, <1>7, <1>8, <1>9, <1>10, <1>11 DEF MouseInv

(* It told the mouse to stop, and reads what was sent before.               *)
LEMMA ReadDrain ==
  ASSUME MouseAssumed, MouseInv, Mouse!ReadByte, mouse_drv.at = "drain"
  PROVE  MouseInv'
<1> DEFINE q == mouse_queue
           p == mouse_queue'
           want == mouse_drv.want
           n == Len(q)
           w == Len(want)
           t == mouse.type
<1>1. /\ mouse \in MouseT /\ mouse_drv \in DrvT /\ q \in Seq(ByteT)
      /\ want \in Seq(Kinds) /\ want # <<>> /\ t \in Types
  BY DEF MouseInv, MouseTyped, MouseT, DrvT, Queueing
<1>a. w \in Nat \ {0} /\ Tail(want) \in Seq(Kinds) /\ Len(Tail(want)) = w - 1
      /\ (w = 1 => want = <<want[1]>> /\ Tail(want) = <<>>) /\ (w # 1 => Tail(want) # <<>>)
      /\ \A i \in 1 .. w - 1 : Tail(want)[i] = want[i + 1]
  <2>1. /\ w \in Nat \ {0} /\ Tail(want) \in Seq(Kinds) /\ Len(Tail(want)) = w - 1
        /\ \A i \in 1 .. w - 1 : Tail(want)[i] = want[i + 1]
    BY <1>1
  <2>2. w = 1 => want = <<want[1]>> /\ Tail(want) = <<>>
    <3> SUFFICES ASSUME w = 1 PROVE want = <<want[1]>> /\ Tail(want) = <<>>
      OBVIOUS
    <3>1. want = <<want[1]>>  BY <1>1
    <3>2. Len(Tail(want)) = 0  BY <2>1
    <3>3. Tail(want) = <<>>
      <4> DEFINE v == Tail(want)
      <4>1. v \in Seq(Kinds) /\ Len(v) = 0  BY <2>1, <3>2
      <4> HIDE DEF v
      <4>2. v = <<>>  BY <4>1
      <4> QED  BY <4>2 DEF v
    <3> HIDE DEF want
    <3> QED  BY <3>1, <3>3
  <2>3. w # 1 => Tail(want) # <<>>
    <3>1. w # 1 => Len(Tail(want)) # 0  BY <2>1
    <3> QED  BY <3>1
  <2> QED  BY <2>1, <2>2, <2>3
<1>2. /\ n <= QueueSize /\ Laid(q, want, w - 1, n - 1, t) /\ q[n].kind = "ack" /\ want[w] = "ack"
      /\ (\A i \in 1 .. w - 1 : want[i] \in InBody) /\ ~Sending
      /\ mouse_drv.cmd \in {"disable", "remote"}
  BY DEF MouseInv, Queueing, Modal
<1>3. /\ p = Tail(q) /\ p \in Seq(ByteT) /\ n \in Nat \ {0} /\ Len(p) = n - 1
      /\ \A i \in 1 .. n - 1 : p[i] = q[i + 1]
      /\ mouse' = mouse /\ mouse_owed' \in Int /\ Mouse!MotionKept'
  BY ByteRead
<1>4. mouse_drv.known /\ mouse_drv.type = t  BY DEF MouseInv, Knowing, Naming
<1>5. ~NamesType /\ mouse_drv.cmd # "type"  BY <1>2 DEF NamesType
<1>6. /\ mouse_drv' \in DrvT /\ mouse_drv'.aligned = TRUE
      /\ mouse_drv'.cmd = mouse_drv.cmd /\ mouse_drv'.probe = mouse_drv.probe
      /\ mouse_drv'.kind = mouse_drv.kind /\ mouse_drv'.type = t /\ mouse_drv'.known = TRUE
      /\ \/ /\ mouse_drv'.at = "idle" /\ mouse_drv'.want = <<>> /\ n = 1
         \/ /\ mouse_drv'.at = "drain" /\ mouse_drv'.want # <<>> /\ n - 1 \in Nat \ {0}
            /\ Laid(p, mouse_drv'.want, Len(mouse_drv'.want) - 1, (n - 1) - 1, t)
            /\ mouse_drv'.want[Len(mouse_drv'.want)] = "ack"
            /\ \A i \in 1 .. Len(mouse_drv'.want) - 1 : mouse_drv'.want[i] \in InBody
  <2>0. mouse_drv.known = TRUE  BY <1>1, <1>4 DEF DrvT
  <2>1. CASE w = 1 /\ n = 1
    <3>1. want[1] = "ack" /\ q[1].kind = "ack" /\ Tail(want) = <<>>  BY <1>2, <1>a, <2>1
    <3>2. Takes  BY <1>1, <3>1, ByteTaken
    <3> QED  BY <1>2, <1>4, <1>5, <2>0, <2>1, <3>1, <3>2 DEF Takes
  <2>2. CASE w = 1 /\ n # 1
    <3>1. want = <<"ack">> /\ <<"ack">> \in Seq(Kinds)  BY <1>1, <1>2, <1>a, <2>2
    <3>2. n - 1 \in Nat \ {0} /\ n - 1 <= Len(q) /\ Laid(q, want, 0, n - 1, t)
      BY <1>2, <1>3, <2>2
    <3>3. q[1].kind = "head" /\ Laid(p, Mouse!Body(t) \o <<"ack">>, Len(Mouse!Body(t)), (n - 1) - 1, t)
      <4>1. p = Tail(q)  BY <1>3
      <4> DEFINE l == n - 1
      <4>2. l \in Nat \ {0} /\ l <= Len(q) /\ Laid(q, want, 0, l, t)  BY <3>2
      <4> HIDE DEF q, want, n, w, p, t, l
      <4>3. q[1].kind = "head" /\ Laid(Tail(q), Mouse!Body(t) \o <<"ack">>, Len(Mouse!Body(t)), l - 1, t)
        BY <1>1, <3>1, <4>2, LaidHead
      <4> QED  BY <4>1, <4>3 DEF l
    <3>4. Begins  BY <1>4, <3>1, <3>3, ByteBegins
    <3> DEFINE v == Mouse!Body(t) \o <<"ack">>
    <3>5. /\ v \in Seq(Kinds) /\ Len(v) - 1 = Len(Mouse!Body(t)) /\ v # <<>> /\ v[Len(v)] = "ack"
          /\ \A i \in 1 .. Len(v) - 1 : v[i] \in InBody
      <4> DEFINE s == Mouse!Body(t)
      <4>1. s \in Seq(Kinds) /\ Len(s) \in Nat  BY BodyIs
      <4>2. \A i \in 1 .. Len(s) : s[i] \in InBody  BY BodyIs
      <4> HIDE DEF s
      <4>3. /\ s \o <<"ack">> \in Seq(Kinds) /\ Len(s \o <<"ack">>) = Len(s) + 1
            /\ (s \o <<"ack">>)[Len(s) + 1] = "ack"
            /\ \A i \in 1 .. Len(s) : (s \o <<"ack">>)[i] = s[i]
        BY <3>1, <4>1
      <4>4. s \o <<"ack">> # <<>>
        <5>1. Len(s) + 1 # 0  BY <4>1
        <5> QED  BY <4>3, <5>1
      <4>5. (Len(s) + 1) - 1 = Len(s)  BY <4>1
      <4> QED  BY <4>1, <4>2, <4>3, <4>4, <4>5 DEF s
    <3> HIDE DEF v
    <3>6. mouse_drv'.want = v  BY <3>1, <3>4 DEF Begins, v
    <3>7. Laid(p, v, Len(v) - 1, (n - 1) - 1, t)  BY <3>3, <3>5 DEF v
    <3> QED  BY <1>4, <2>0, <3>2, <3>4, <3>5, <3>6, <3>7 DEF Begins
  <2>3. CASE w # 1
    <3>1. w - 1 \in Nat \ {0} /\ w - 1 <= n - 1 /\ n - 1 \in Nat \ {0} /\ n - 1 <= Len(q)
          /\ w - 1 <= Len(want)
      <4>1. w - 1 <= n - 1  BY <1>2 DEF Laid
      <4>2. w \in Nat \ {0} /\ n \in Nat \ {0} /\ n = Len(q) /\ w = Len(want)  BY <1>a, <1>3
      <4> HIDE DEF q, want, n, w
      <4> QED  BY <2>3, <4>1, <4>2
    <3>2. q[1].kind = want[1] /\ Laid(p, Tail(want), (w - 1) - 1, (n - 1) - 1, t)
      <4>1. p = Tail(q)  BY <1>3
      <4> DEFINE l == n - 1
                 k == w - 1
      <4>2. l \in Nat /\ l <= Len(q) /\ Laid(q, want, k, l, t) /\ k \in Nat \ {0} /\ k <= Len(want)
        BY <1>2, <3>1
      <4> HIDE DEF q, want, n, w, p, t, l, k
      <4>3. q[1].kind = want[1] /\ Laid(Tail(q), Tail(want), k - 1, l - 1, t)
        BY <1>1, <4>2, LaidNext
      <4> QED  BY <4>1, <4>3 DEF l, k
    <3>3. Takes  BY <1>1, <3>2, ByteTaken
    <3> DEFINE v == Tail(want)
    <3>4. v # <<>> /\ Len(v) = w - 1 /\ v[Len(v)] = "ack" /\ \A i \in 1 .. Len(v) - 1 : v[i] \in InBody
      <4>1. v # <<>> /\ Len(v) = w - 1  BY <1>a, <2>3
      <4>2. w - 1 \in 1 .. w - 1 /\ (w - 1) + 1 = w  BY <3>1, <1>a
      <4>3. v[w - 1] = want[w]
        <5>1. v[w - 1] = want[(w - 1) + 1]  BY <1>a, <4>2, Zenon
        <5> QED  BY <4>2, <5>1
      <4>4. ASSUME NEW i \in 1 .. (w - 1) - 1 PROVE v[i] \in InBody
        <5>1. i \in 1 .. w - 1 /\ i + 1 \in 1 .. w - 1  BY <1>a
        <5>2. v[i] = want[i + 1]  BY <1>a, <5>1, Zenon
        <5>3. want[i + 1] \in InBody  BY <1>2, <5>1
        <5> QED  BY <5>2, <5>3
      <4> HIDE DEF v
      <4> QED  BY <1>2, <4>1, <4>3, <4>4
    <3>5. Laid(p, v, Len(v) - 1, (n - 1) - 1, t)  BY <3>2, <3>4
    <3>6. mouse_drv'.want = v  BY <3>3 DEF Takes
    <3> HIDE DEF v
    <3>7. mouse_drv'.at = "drain"  BY <3>3, <3>4 DEF Takes, v
    <3> QED  BY <1>4, <1>5, <2>0, <3>1, <3>3, <3>4, <3>5, <3>6, <3>7 DEF Takes
  <2> QED  BY <2>1, <2>2, <2>3
<1>7. MouseTyped'  BY <1>1, <1>3, <1>6 DEF MouseTyped
<1>8. Modal'  BY <1>2, <1>3, <1>6 DEF MouseInv, Modal, Sending
<1>9. Probing'  BY <1>3, <1>6 DEF MouseInv, Probing
<1>10. Mouse!PacketsAligned'  BY <1>6 DEF Mouse!PacketsAligned
<1>11. Knowing'  BY <1>3, <1>6 DEF Knowing, Naming
<1>12. Queueing'
  <2>1. Len(p) <= QueueSize  BY <1>2, <1>3 DEF MouseAssumed
  <2>2. CASE mouse_drv'.at = "idle" /\ mouse_drv'.want = <<>> /\ n = 1
    <3>1. Len(p) = 0 /\ Len(<<>>) = 0 /\ 0 % PacketLen(t) = 0  BY <1>3, <2>2, PacketLenIn
    <3>2. Laid(p, <<>>, 0, 0, t)
      <4>1. ~(\E i \in 1 .. 0 : TRUE) /\ ~(\E i \in 0 + 1 .. 0 : TRUE) /\ 0 - 0 = 0 /\ 0 <= 0  OBVIOUS
      <4> QED  BY <3>1, <4>1 DEF Laid
    <3> HIDE DEF p, t
    <3> QED  BY <1>3, <2>1, <2>2, <3>1, <3>2 DEF Queueing, p, t
  <2>3. CASE mouse_drv'.at = "drain" /\ n - 1 \in Nat \ {0}
    <3>1. Len(p) = n - 1 /\ p # <<>> /\ p[n - 1] = q[n]
      <4>1. n - 1 \in 1 .. n - 1 /\ (n - 1) + 1 = n  BY <1>3, <2>3
      <4>2. p[n - 1] = q[(n - 1) + 1]  BY <1>3, <4>1, Zenon
      <4>3. p # <<>>
        <5>1. Len(p) # 0  BY <1>3, <2>3
        <5> QED  BY <5>1
      <4> QED  BY <1>3, <4>1, <4>2, <4>3
    <3> HIDE DEF p, q, t, n
    <3> QED  BY <1>2, <1>3, <1>6, <2>1, <2>3, <3>1 DEF Queueing, p, t
  <2> QED  BY <1>6, <2>2, <2>3
<1> QED  BY <1>3, <1>7, <1>8, <1>9, <1>10, <1>11, <1>12 DEF MouseInv

LEMMA MouseReads ==
  ASSUME MouseAssumed, MouseInv, Mouse!ReadByte
  PROVE  MouseInv'
<1>1. mouse_drv.at # "idle"
  <2>1. SUFFICES ASSUME mouse_drv.at = "idle" PROVE FALSE
    OBVIOUS
  <2>2. <<>> \in Seq(ByteT) /\ Len(<<>>) <= 5  OBVIOUS
  <2>3. mouse_queue = <<>>  BY <2>1, <2>2, Alone
  <2> QED  BY <2>3, ByteRead
<1>2. mouse_drv.at \in {"idle", "stream", "reply", "drain"}
  BY DEF MouseInv, MouseTyped, DrvT
<1> QED  BY <1>1, <1>2, ReadReply, ReadStream, ReadDrain

-----------------------------------------------------------------------------
(* The guest takes every byte for what it is, no motion is lost and none is *)
(* invented, and a guest that ends its probes finds the mouse that it asked *)
(* for, through commands, polls, wrap and remote mode: ps2_mouse_event,     *)
(* ps2_mouse_send_packet and ps2_write_mouse, for any size of the queue and *)
(* of the room that motion leaves in it for replies, and any motion, until  *)
(* an event sends more than fits or a reply finds no room.  The code sends  *)
(* such an event all the same, and breaks off a packet.                     *)
THEOREM Mice == MouseAssumed => (MouseSpec => []MouseRight)
<1> SUFFICES ASSUME MouseAssumed PROVE MouseSpec => []MouseRight
  OBVIOUS
<1> DEFINE Followed == ~mouse_cut => MouseInv
<1>1. Mouse!Init => Followed  BY MouseStarts
<1>2. Followed /\ [Mouse!Next]_Mouse!mouseVars => Followed'
  <2> SUFFICES ASSUME Followed, [Mouse!Next]_Mouse!mouseVars, ~mouse_cut' PROVE MouseInv'
    OBVIOUS
  <2>0. MouseInv  BY DEF Mouse!Next, Mouse!mouseVars
  <2>1. ASSUME NEW move \in Moves, Mouse!Event(move[1], move[2]) PROVE MouseInv'
    <3>1. move[1] \in Int /\ move[2] \in Int  BY DEF MouseAssumed
    <3> QED  BY <2>0, <2>1, <3>1, EventKeeps
  <2>2. ASSUME NEW c \in Mouse!Commands, Mouse!Say(c) PROVE MouseInv'
    BY <2>0, <2>2, SayKeeps
  <2>3. ASSUME NEW rate \in {80, 100, 200}, Mouse!SayRate(rate) PROVE MouseInv'
    BY <2>0, <2>3, RateKeeps
  <2>4. CASE Mouse!ReadByte  BY <2>0, <2>4, MouseReads
  <2>5. CASE UNCHANGED Mouse!mouseVars
    <3>1. /\ mouse' = mouse /\ mouse_queue' = mouse_queue /\ mouse_drv' = mouse_drv
          /\ mouse_owed' = mouse_owed
      BY <2>5 DEF Mouse!mouseVars
    <3>2. MouseTyped'  BY <2>0, <3>1 DEF MouseInv, MouseTyped
    <3>3. Modal' /\ Probing'  BY <2>0, <3>1 DEF MouseInv, Modal, Probing, Sending
    <3>4. Knowing'  BY <2>0, <3>1 DEF MouseInv, Knowing, Sending, Naming
    <3>5. Queueing'  BY <2>0, <3>1 DEF MouseInv, Queueing, Sending
    <3>6. Mouse!PacketsAligned' /\ Mouse!MotionKept'
      BY <2>0, <3>1 DEF MouseInv, Mouse!PacketsAligned, Mouse!MotionKept
    <3> QED  BY <3>2, <3>3, <3>4, <3>5, <3>6 DEF MouseInv
  <2> QED  BY <2>1, <2>2, <2>3, <2>4, <2>5 DEF Mouse!Next
<1>3. Followed => MouseRight
  <2> SUFFICES ASSUME MouseInv PROVE Mouse!ProbeFinds
    BY DEF MouseInv, Mouse!MouseRight, MouseRight
  <2> QED  BY DEF MouseInv, Mouse!ProbeFinds, Knowing, Naming, Probing
<1> QED  BY <1>1, <1>2, <1>3, PTL DEF MouseSpec
=============================================================================
