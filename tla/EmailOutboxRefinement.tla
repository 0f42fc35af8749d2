----------------------- MODULE EmailOutboxRefinement -----------------------
(***************************************************************************)
(* The email outbox keeps the promise of ReplyDelivery with nobody to      *)
(* vouch for a copy.  A loop may be so slow that another gives its mail up *)
(* as UNKNOWN before it is handed to SMTP: a copy can leave even then.     *)
(***************************************************************************)
EXTENDS EmailOutbox

FateOfMail(m) ==
  CASE mail[m].status = "NONE" -> "none"
    [] mail[m].status \in {"QUEUED", "SENDING"} -> "open"
    [] mail[m].status = "ACCEPTED" -> "sent"
    [] mail[m].status = "FAILED" -> "notSent"
    [] mail[m].status = "UNKNOWN" -> "unknown"

MailDelivery == INSTANCE ReplyDelivery WITH
  Replies <- Mails,
  Losable <- {"open"},
  Underway <- {"open", "unknown"},
  fate <- [m \in Mails |-> FateOfMail(m)],
  copies <- accepted,
  confirmed <- [m \in Mails |-> 0]

(* Every behaviour of the outbox is one that ReplyDelivery allows: what is *)
(* ACCEPTED, FAILED or UNKNOWN stays so, whichever loop answers late       *)
(* (finish, recoverStuckSends).                                            *)
EmailImplementsDelivery == MailDelivery!Spec
=============================================================================
