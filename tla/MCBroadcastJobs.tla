--------------------------- MODULE MCBroadcastJobs ---------------------------
(* A small instance of BroadcastJobs for TLC. *)
EXTENDS BroadcastJobs
CONSTANTS j1, r1, r2, d1
OneJob == {j1}
TwoRows == {r1, r2}
SameJob == [r \in TwoRows |-> j1]
NoForeign == {}
NoDashboards == {}
OneDashboard == {d1}
OnlyCancel == {"CANCEL"}
==============================================================================
