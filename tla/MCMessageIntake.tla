--------------------------- MODULE MCMessageIntake ---------------------------
(* A small instance of MessageIntake for TLC. *)
EXTENDS MessageIntake, TLC
CONSTANTS m1, m2
TwoMessages == {m1, m2}
OneLoop == {"reconcile"}
==============================================================================
