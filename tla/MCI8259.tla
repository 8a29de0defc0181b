------------------------------ MODULE MCI8259 ------------------------------
(* Three guests that use the interrupt controllers in different ways; each  *)
(* behaviour has one of them.                                              *)
EXTENDS I8259Props

VARIABLE guest

NoWrites == {}
Ocw(c, S) == { [cmd |-> x, level |-> l] : x \in c, l \in S }
Cascading == [init4 |-> TRUE, single |-> FALSE, level |-> FALSE]

(* Nested (the values of the constants in the cfg): the keyboard and two    *)
(* slave lines; masks, both kinds of end of interrupt, and commands that    *)
(* rotate the priorities.                                                  *)
NestedIrqs  == {1, 8, 12}
NestedMasks == {{}, {1, 4}, {0, 2}}
NestedEois  == Ocw({1}, {0}) \union Ocw({3}, {0, 2, 4})
RotateEois  == NestedEois \union Ocw({5}, {0}) \union Ocw({6}, {1})

(* Initialisation at any time (also the word that aborts), automatic end of *)
(* interrupt with and without rotation, and polling.                        *)
ModesIcw1  == { Cascading,
                [init4 |-> FALSE, single |-> TRUE, level |-> FALSE],
                [init4 |-> FALSE, single |-> TRUE, level |-> TRUE] }

Modes == INSTANCE I8259 WITH
  DeviceIrqs  <- {1, 12},
  Icw1Writes  <- ModesIcw1,
  Icw4Writes  <- {[sfnm |-> FALSE, auto_eoi |-> TRUE]},
  VectorBases <- {0},
  MaskWrites  <- {{}},
  Ocw2Writes  <- Ocw({0, 1, 2, 4}, {0}),
  Ocw3Writes  <- {[poll |-> TRUE, smm |-> "keep"]}

(* The special mask and special fully nested modes. *)
Special == INSTANCE I8259 WITH
  DeviceIrqs  <- {0, 12},
  Icw1Writes  <- {Cascading},
  Icw4Writes  <- {[sfnm |-> TRUE, auto_eoi |-> FALSE]},
  VectorBases <- {0},
  MaskWrites  <- {{}, {0}, {2, 4}},
  Ocw2Writes  <- NestedEois,
  Ocw3Writes  <- { [poll |-> FALSE, smm |-> x] : x \in {"set", "clear"} }

GuestInit == Init /\ guest \in {"nested", "modes", "special"}

GuestNext ==
  \/ guest = "nested" /\ Next /\ UNCHANGED guest
  \/ guest = "modes" /\ Modes!Next /\ UNCHANGED guest
  \/ guest = "special" /\ Special!Next /\ UNCHANGED guest

GuestSpec == GuestInit /\ [][GuestNext]_<<vars, guest>>

(* While the guest does not initialise a chip under way. *)
SlaveAnnounced == guest = "nested" => SlaveRequestReachesCpu
=============================================================================
