---------------------------- MODULE MCGroupSync ----------------------------
(* A small instance of GroupSync for TLC. *)
EXTENDS GroupSync
CONSTANTS g1, s1, s2
OneGroup == {g1}
TwoSlots == {s1, s2}
OneCommand == [[e \in Events |-> 0] EXCEPT !["command"] = 1, !["any"] = 1]
============================================================================
