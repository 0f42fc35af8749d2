---------------------- MODULE OutboundQueueRefinement ----------------------
(***************************************************************************)
(* The outbound queue implements ReplyDelivery.  A row's fate is read off  *)
(* its columns alone; the copies and the confirmations are the queue's own *)
(* history variables.                                                      *)
(***************************************************************************)
EXTENDS OutboundQueue

FateOf(r) ==
  CASE row[r].status = "ABSENT" -> "none"
    [] row[r].status \in Queued -> "open"
    [] row[r].status = "SENT" -> "sent"
    [] row[r].status = "FAILED" /\ row[r].uncertain -> "unknown"
    [] OTHER -> "notSent"

Delivery == INSTANCE ReplyDelivery WITH
  Replies <- Rows,
  Losable <- {"open"},
  Underway <- {"open"},
  fate <- [r \in Rows |-> FateOf(r)]

(* Every behaviour of the queue, crashes and dashboard races included, is  *)
(* one that the at-most-once promise allows.                               *)
ImplementsReplyDelivery == Delivery!Spec
============================================================================
