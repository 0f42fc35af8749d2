--------------------------- MODULE MCWorkerQueues ---------------------------
(***************************************************************************)
(* Small instances of GroupSync, EmailOutbox and ParticipantAdds for TLC.  *)
(* The three share no row and no memory, so that their interleavings add   *)
(* nothing: a behaviour picks one of them and leaves the others where they *)
(* start.                                                                  *)
(*                                                                         *)
(* A group list is seen with everything that happens to one group, with a  *)
(* second attempt of its syncs, and with batches of two groups.  The mail  *)
(* is seen with two loops and one settings form, and with one loop and two *)
(* forms.                                                                  *)
(***************************************************************************)
EXTENDS GroupSync, EmailOutboxRefinement, ParticipantAdds, TLC

CONSTANTS g1, g2, one, other, t1, m1, p1, p2, c1, c2, i1

OneGroup == {g1}
(* The slots of a list's syncs, the mail loops, and the dashboards: as a   *)
(* behaviour has only one of the three, they share their names.            *)
OneAndOther == {one, other}
OneOfEach ==
  [resync |-> 1, recovery |-> 1, command |-> 1, drop |-> 0, restart |-> 0, fault |-> 1, any |-> 2]
OneCommand == [[e \in Events |-> 0] EXCEPT !["command"] = 1, !["any"] = 1]
CommandAndFault == [[e \in Events |-> 0] EXCEPT !["command"] = 1, !["fault"] = 1, !["any"] = 2]

TestAndMessage == {t1, m1}
OneTest == {t1}
TwoSavers == {p1, p2}
TwoConnections == {c1, c2}

OneItem == {i1}
EveryAddRequest == {"CONFIRM", "RECHECK", "CANCEL", "RETRY"}

Interchangeable == Permutations(OneAndOther) \cup Permutations(TwoSavers)

Batches == INSTANCE GroupSync WITH Groups <- {g1, g2}, Limit <- CommandAndFault
Retries == INSTANCE GroupSync WITH MaxAttempts <- 2, Limit <- OneCommand

----------------------------------------------------------------------------
VARIABLE part  \* what this behaviour is about
all == <<vars, emailVars, addsVars, part>>

GroupParts == {"groups", "batches", "retries"}
MailParts == {"loops", "forms"}

QueuesInit ==
  /\ part \in GroupParts \cup MailParts \cup {"adds"}
  /\ CASE part = "batches" -> Batches!Init /\ rows[g1] = "ABSENT" /\ rows[g2] # "INACTIVE"
       [] part = "retries" -> Retries!Init /\ rows[g1] = "ACTIVE"
       [] part = "groups" -> Init
       [] OTHER -> Init /\ rows[g1] = "ABSENT"
  /\ EmailInit
  /\ AddsInit
  /\ settings.connection = c1

OneForm == \A p, q \in Savers : saver[p] # NoSave /\ saver[q] # NoSave => p = q
OneLoop == \A v, w \in Workers : worker[v] # NoTick /\ worker[w] # NoTick => v = w

QueuesNext ==
  \/ /\ \/ part = "groups" /\ Next
        \/ part = "batches" /\ Batches!Next
        \/ part = "retries" /\ Retries!Next
     /\ UNCHANGED <<emailVars, addsVars, part>>
  \/ /\ part \in MailParts
     /\ EmailNext
     /\ part = "loops" => OneForm'
     /\ part = "forms" => OneLoop' /\ optedOut' = optedOut /\ crashes' = crashes
     /\ UNCHANGED <<vars, addsVars, part>>
  \/ part = "adds" /\ AddsNext /\ UNCHANGED <<vars, emailVars, part>>

QueuesSpec == QueuesInit /\ [][QueuesNext]_all
----------------------------------------------------------------------------
=============================================================================
