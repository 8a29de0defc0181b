------------------------------ MODULE Ps2Mouse ------------------------------
(***************************************************************************)
(* The PS/2 mouse (i8042.c, ps2_mouse_event and ps2_write_mouse): its      *)
(* commands, the probe for a wheel by three sample rates, and motion that  *)
(* is sent in packets of three or four bytes through a bounded queue.      *)
(*                                                                         *)
(* The guest sends one command at a time, and takes a byte for what it     *)
(* expects next.  Motion is along x and the wheel; a coordinate of a       *)
(* packet is at most Largest (127, and 7 for the wheel of five buttons).   *)
(***************************************************************************)
EXTENDS Integers, Sequences

CONSTANTS
  Size,      \* of the queue (256)
  Room,      \* free when motion is sent (16); more motion may need more
  Largest,
  Reach,     \* bounds the motion that is not yet sent
  Moves      \* of the wheel and along x, in one event

VARIABLES
  mouse, queue,
  drv,       \* the guest: what it is doing and expects
  owed,      \* motion along x that the guest has not read
  cut        \* history: a packet or a reply did not fit into the queue

mouseVars == <<mouse, queue, drv, owed, cut>>

Byte(kind, v) == [kind |-> kind, v |-> v]
Ack == Byte("ack", 0)
Along(b) == IF b.kind = "dx" THEN b.v ELSE 0      \* the motion in a byte

Init ==
  /\ mouse = [write_cmd |-> "none", wrap |-> FALSE, enabled |-> FALSE, remote |-> FALSE,
              type |-> 0, detect |-> 0, dx |-> 0, dz |-> 0]
  /\ queue = <<>>
  /\ drv = [at |-> "idle", cmd |-> "none", want |-> <<>>, type |-> 0, probe |-> <<>>,
            kind |-> 0, known |-> TRUE, aligned |-> TRUE]
  /\ owed = 0 /\ cut = FALSE

-----------------------------------------------------------------------------
(* ps2_queue: what does not fit is dropped. *)
Queued(q, bytes) ==
  q \o (IF Len(q) + Len(bytes) <= Size THEN bytes ELSE SubSeq(bytes, 1, Size - Len(q)))

Clamp(n) == IF n > Largest THEN Largest ELSE IF n < -Largest THEN -Largest ELSE n
(* Mutated: a mouse of five buttons sends no wheel. *)
PacketShort(m) ==
  <<Byte("head", 0), Byte("dx", Clamp(m.dx)), Byte("dy", 0)>>
    \o (IF m.type # 3 THEN <<>> ELSE <<Byte("dz", Clamp(m.dz))>>)

Packet(m) ==
  <<Byte("head", 0), Byte("dx", Clamp(m.dx)), Byte("dy", 0)>>
    \o (IF m.type = 0 THEN <<>> ELSE <<Byte("dz", Clamp(m.dz))>>)

(* ps2_mouse_send_packet *)
Sent(m) == [m EXCEPT !.dx = @ - Clamp(@), !.dz = IF m.type = 0 THEN 0 ELSE @ - Clamp(@)]

(* ps2_mouse_event: the mouse and the queue after k packets, and after the  *)
(* first one with which nothing is left to send.                            *)
Packets(m, q) ==
  LET after[k \in 0 .. Reach + 1] ==
        IF k = 0 THEN [m |-> m, q |-> q]
        ELSE [m |-> Sent(after[k - 1].m), q |-> Queued(after[k - 1].q, Packet(after[k - 1].m))]
  IN after
Count(m, q) ==
  LET Nothing(k) == Packets(m, q)[k].m.dx = 0 /\ Packets(m, q)[k].m.dz = 0
  IN CHOOSE k \in 1 .. Reach + 1 : Nothing(k) /\ \A j \in 1 .. k - 1 : ~Nothing(j)
Stream(m, q) == Packets(m, q)[Count(m, q)]

(* ps2_mouse_event; buttons are left out.  All motion that has waited is     *)
(* sent at once, however many packets that takes: what does not fit into    *)
(* the queue breaks off a packet.                                           *)
Event(dx, dz) ==
  LET m == [mouse EXCEPT !.dx = @ + dx, !.dz = @ + dz]
      sent == Stream(m, queue)
      send == ~mouse.remote /\ Len(queue) < Size - Room
  IN /\ mouse.enabled /\ {m.dx, m.dz} \subseteq -Reach .. Reach
     /\ ~(m.dx = 0 /\ m.dz = 0 /\ <<dx, dz>> = <<0, 0>>)
     /\ mouse' = IF (m.dx = 0 /\ m.dz = 0) \/ ~send THEN m ELSE sent.m
     /\ queue' = IF (m.dx = 0 /\ m.dz = 0) \/ ~send THEN queue ELSE sent.q
     /\ cut' = (send /\ ~(m.dx = 0 /\ m.dz = 0)
                 /\ Len(queue) + Count(m, queue) * Len(Packet(m)) > Size)
     /\ owed' = owed + dx
     /\ UNCHANGED drv

-----------------------------------------------------------------------------
(* A command, what it changes and what it answers. *)
Became(c) ==
  CASE c = "stream"  -> [mouse EXCEPT !.remote = FALSE]
    [] c = "remote"  -> [mouse EXCEPT !.remote = TRUE]
    [] c = "wrap"    -> [mouse EXCEPT !.wrap = TRUE]
    [] c = "enable"  -> [mouse EXCEPT !.enabled = TRUE]
    [] c = "disable" -> [mouse EXCEPT !.enabled = FALSE]
    [] c = "default" -> [mouse EXCEPT !.enabled = FALSE, !.remote = FALSE]
    [] c = "reset"   -> [mouse EXCEPT !.enabled = FALSE, !.remote = FALSE, !.type = 0]
    [] c = "poll"    -> Sent(mouse)
    [] c \in {"sample", "resolution"} -> [mouse EXCEPT !.write_cmd = c]
    [] OTHER -> mouse
Answer(c) ==
  CASE c = "type"  -> <<Ack, Byte("byte", mouse.type)>>
    [] c = "scale" -> <<Ack, Byte("byte", 0), Byte("byte", 0), Byte("byte", 0)>>
    [] c = "reset" -> <<Ack, Byte("byte", 170), Byte("byte", 0)>>
    [] c = "poll"  -> <<Ack>> \o Packet(mouse)
    [] OTHER -> <<Ack>>

Commands == {"stream", "remote", "wrap", "unwrap", "enable", "disable", "default", "reset",
             "poll", "sample", "resolution", "type", "scale"}

(* The probe: 200, 100, 80 for a wheel, 200, 200, 80 for five buttons.      *)
Detected(rate) ==
  CASE mouse.detect = 0 /\ rate = 200 -> [type |-> mouse.type, detect |-> 1]
    [] mouse.detect = 1 /\ rate = 100 -> [type |-> mouse.type, detect |-> 2]
    [] mouse.detect = 1 /\ rate = 200 -> [type |-> mouse.type, detect |-> 3]
    [] mouse.detect = 2 /\ rate = 80 -> [type |-> 3, detect |-> 0]
    [] mouse.detect = 3 /\ rate = 80 -> [type |-> 4, detect |-> 0]
    [] OTHER -> [type |-> mouse.type, detect |-> 0]

(* ps2_write_mouse, of a command or of the byte that one waits for.         *)
Command(c) ==
  /\ mouse.write_cmd = "none"
  /\ CASE mouse.wrap /\ c = "unwrap" ->
            mouse' = [mouse EXCEPT !.wrap = FALSE] /\ queue' = Queued(queue, <<Ack>>)
       [] mouse.wrap /\ c \notin {"unwrap", "reset"} ->
            mouse' = mouse /\ queue' = Queued(queue, <<Byte("byte", 0)>>)
       [] ~mouse.wrap /\ c = "unwrap" -> UNCHANGED <<mouse, queue>>
       [] OTHER -> mouse' = Became(c) /\ queue' = Queued(queue, Answer(c))
Argument(v) ==
  /\ mouse.write_cmd # "none"
  /\ mouse' = IF mouse.write_cmd = "sample"
              THEN [mouse EXCEPT !.write_cmd = "none", !.type = Detected(v).type,
                                 !.detect = Detected(v).detect]
              ELSE [mouse EXCEPT !.write_cmd = "none"]
  /\ queue' = Queued(queue, <<Ack>>)

-----------------------------------------------------------------------------
(* The guest.  It sets the mouse up while no motion is sent, ends a probe   *)
(* that it began, asks for the type before it enables the mouse, and stops  *)
(* or polls it otherwise.                                                   *)
Body(type) == <<"dx", "dy">> \o (IF type = 0 THEN <<>> ELSE <<"dz">>)
Expected(c) ==
  IF mouse.wrap /\ c # "reset" THEN <<IF c = "unwrap" THEN "ack" ELSE "byte">>
  ELSE CASE c = "type" -> <<"ack", "byte">>
         [] c = "scale" -> <<"ack", "byte", "byte", "byte">>
         [] c = "reset" -> <<"ack", "byte", "byte">>
         [] c = "poll" -> <<"ack", "head">> \o Body(drv.type)
         [] OTHER -> <<"ack">>

May(c) ==
  CASE mouse.wrap -> c \in {"unwrap", "scale"}
    [] ~mouse.wrap /\ drv.at = "stream" -> c \in {"disable", "remote"}
    [] OTHER -> /\ c # "unwrap"
                /\ drv.probe # <<>> => c = "sample"
                /\ c \in {"enable", "poll"} => drv.known
                /\ c = "sample" => ~mouse.enabled

Say(c) ==
  /\ drv.at \in {"idle", "stream"} /\ drv.want = <<>> /\ mouse.write_cmd = "none" /\ May(c)
  /\ Command(c)
  /\ drv' = [drv EXCEPT !.cmd = c, !.at = IF @ = "stream" THEN "drain" ELSE "reply",
                        !.want = Expected(c),
                        !.type = IF c = "reset" THEN 0 ELSE @,
                        !.kind = IF c = "reset" THEN 0 ELSE @,
                        !.known = IF c = "reset" THEN TRUE ELSE @]
  /\ cut' = (Len(queue') # Len(queue) + Len(drv'.want))
  /\ UNCHANGED owed

(* After the acknowledgement of "sample" or "resolution". *)
SayRate(rate) ==
  LET probe == Append(drv.probe, rate) IN
  /\ drv.at = "idle" /\ mouse.write_cmd # "none"
  /\ mouse.write_cmd = "sample" =>
       CASE drv.probe = <<>> -> TRUE [] Len(drv.probe) = 1 -> rate \in {100, 200} [] OTHER -> rate = 80
  /\ Argument(rate)
  /\ drv' = IF mouse.write_cmd = "resolution" \/ (drv.probe = <<>> /\ rate # 200)
            THEN [drv EXCEPT !.at = "reply", !.want = <<"ack">>]
            ELSE IF rate = 80
            THEN [drv EXCEPT !.at = "reply", !.want = <<"ack">>, !.probe = <<>>, !.known = FALSE,
                             !.kind = IF drv.probe[2] = 100 THEN 3 ELSE 4]
            ELSE [drv EXCEPT !.at = "reply", !.want = <<"ack">>, !.probe = probe]
  /\ UNCHANGED <<owed, cut>>

(* What the guest does after the last byte that it expected. *)
Settled(d) ==
  IF d.want # <<>> THEN d
  ELSE [d EXCEPT !.at = IF mouse.enabled /\ ~mouse.remote THEN "stream" ELSE "idle"]

(* A byte: of a packet that came before the acknowledgement, or the next    *)
(* that it expects.                                                         *)
ReadByte ==
  LET b == Head(queue)
      packet == drv.at = "stream" \/ (drv.at = "drain" /\ drv.want[1] = "ack" /\ b.kind # "ack")
  IN /\ queue # <<>>
     /\ queue' = Tail(queue)
     /\ drv' = IF packet /\ drv.want \in {<<>>, <<"ack">>}
               THEN [drv EXCEPT !.aligned = b.kind = "head", !.want = Body(drv.type) \o drv.want]
               ELSE Settled([drv EXCEPT
                      !.want = Tail(@), !.aligned = b.kind = drv.want[1],
                      !.type = IF drv.cmd = "type" /\ b.kind = "byte" /\ ~mouse.wrap THEN b.v ELSE @,
                      !.known = IF drv.cmd = "type" THEN TRUE ELSE @])
     /\ owed' = owed - Along(b)
     /\ UNCHANGED <<mouse, cut>>

(* A guest whose packet was broken off is lost; it is not followed further. *)
Next ==
  /\ ~cut
  /\ \/ \E move \in Moves : Event(move[1], move[2])
     \/ \E c \in Commands : Say(c)
     \/ \E rate \in {80, 100, 200} : SayRate(rate)
     \/ ReadByte

-----------------------------------------------------------------------------
(* The guest never takes a byte for another: packets are queued whole, with *)
(* replies between them and not in them, and have the length of the type    *)
(* that the mouse named, for a guest that drains the queue before it waits  *)
(* for a reply.                                                             *)
PacketsAligned == drv.aligned

(* No motion along x is lost and none is invented: what the guest has not   *)
(* read is in the queue or not yet sent, through clamping, remote mode,     *)
(* polls and a queue that is nearly full.                                   *)
Inside(q) ==
  LET upto[i \in 0 .. Len(q)] ==
        IF i = 0 THEN 0 ELSE upto[i - 1] + Along(q[i])
  IN upto[Len(q)]
MotionKept == owed = mouse.dx + Inside(queue)

(* A guest that ends its probes finds the mouse that it asked for. *)
ProbeFinds == drv.known /\ drv.at \in {"idle", "stream"} => drv.type = drv.kind

(* The guest knows its mouse, and follows it, until an event sends more     *)
(* than fits into the queue, or fills it so that a reply does not.          *)
MouseRight == ~cut => PacketsAligned /\ MotionKept /\ ProbeFinds
============================================================================
