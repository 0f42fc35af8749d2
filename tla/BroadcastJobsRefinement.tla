---------------------- MODULE BroadcastJobsRefinement ----------------------
(***************************************************************************)
(* A broadcast's rows keep the promise of ReplyDelivery, with nobody to    *)
(* vouch for a copy: there is no way back from an unknown outcome.  Unlike *)
(* a reply, a row that was SENT or given up can still become unknown, when *)
(* settling its job throws into the catch that holds the row.              *)
(***************************************************************************)
EXTENDS BroadcastJobs

FateOf(r) ==
  CASE row[r].status = "ABSENT" -> "none"
    [] row[r].status \in Active -> "open"
    [] row[r].status = "SENT" -> "sent"
    [] row[r].status = "FAILED" /\ row[r].uncertain -> "unknown"
    [] OTHER -> "notSent"

Delivery == INSTANCE ReplyDelivery WITH
  Replies <- Rows,
  Losable <- {"open", "sent", "notSent"},
  Underway <- {"open"},
  fate <- [r \in Rows |-> FateOf(r)],
  confirmed <- [r \in Rows |-> 0]

(* Every behaviour of the broadcasts' rows, whatever crashes, cancels,     *)
(* retries and kill switches meet, is one that ReplyDelivery allows.       *)
ImplementsDelivery == Delivery!Spec
============================================================================
