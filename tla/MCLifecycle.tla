---------------------------- MODULE MCLifecycle ----------------------------
(* Two or three starts of a virtual machine in one process. *)
EXTENDS Lifecycle, TLC

CONSTANTS a1, a2, a3
TwoStarts == {a1, a2}
ThreeStarts == {a1, a2, a3}
=============================================================================
