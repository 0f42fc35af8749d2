-------------------------- MODULE MCEscalationCase --------------------------
(* Small instances of EscalationCase for TLC. *)
EXTENDS EscalationCase, TLC
CONSTANTS c1, c2, g1, m1, a1, d1
OneCase == {c1}
TwoCases == {c1, c2}
OneGroup == {g1}
OneMember == {m1}
OneAdmin == {a1}
AllReachable == {m1, a1}
NoDashboards == {}
OneDashboard == {d1}
PauseAndHurry == {"PAUSE", "RESUME", "ESCALATE"}
NoRequests == {}
============================================================================
