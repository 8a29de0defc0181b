------------------------------ MODULE MCI8042 ------------------------------
(* One plain and one extended key, a queue of two bytes. *)
EXTENDS I8042Props

CONSTANTS a, up
BothOn == {{"kbd_int", "mouse_int"}}
=============================================================================
