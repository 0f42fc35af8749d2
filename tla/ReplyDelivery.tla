--------------------------- MODULE ReplyDelivery ---------------------------
(***************************************************************************)
(* What a queue of outgoing messages promises about one of them (a reply,  *)
(* one group's copy of a broadcast, an email), without its workers,        *)
(* claims, stamps, recovery or dashboard: it arrives at most once unless a *)
(* person vouches that an earlier copy did not, and it is reported as not  *)
(* sent only when no copy is unaccounted for.                              *)
(***************************************************************************)
EXTENDS Naturals

CONSTANTS
  Replies,
  Losable,   \* the fates that can give way to unknown
  Underway   \* the fates under which a copy can still leave

VARIABLES
  fate,      \* none, open, sent, unknown, notSent
  copies,    \* copies the customer may have
  confirmed  \* how often a person vouched that a copy did not arrive

vars == <<fate, copies, confirmed>>

Init ==
  /\ fate = [r \in Replies |-> "none"]
  /\ copies = [r \in Replies |-> 0]
  /\ confirmed = [r \in Replies |-> 0]

BecomeAll(rs, f) == fate' = [r \in Replies |-> IF r \in rs THEN f ELSE fate[r]]
Become(r, f) == BecomeAll({r}, f)
Accounted(r) == copies[r] <= confirmed[r]

Accept(r) ==
  /\ fate[r] = "none"
  /\ Become(r, "open")
  /\ UNCHANGED <<copies, confirmed>>

HandOver(r) ==
  /\ fate[r] \in Underway
  /\ Accounted(r)
  /\ copies' = [copies EXCEPT ![r] = @ + 1]
  /\ UNCHANGED <<fate, confirmed>>

Refused(r) ==
  /\ fate[r] = "open"
  /\ copies[r] > 0
  /\ copies' = [copies EXCEPT ![r] = @ - 1]
  /\ UNCHANGED <<fate, confirmed>>

Sent(r) ==
  /\ fate[r] = "open"
  /\ copies[r] > 0
  /\ Become(r, "sent")
  /\ UNCHANGED <<copies, confirmed>>

(* Several replies can be lost track of, given up or reopened at once.     *)
LoseTrack(rs) ==
  /\ \A r \in rs : fate[r] \in Losable
  /\ BecomeAll(rs, "unknown")
  /\ UNCHANGED <<copies, confirmed>>

GiveUp(rs) ==
  /\ \A r \in rs : fate[r] = "open" /\ Accounted(r)
  /\ BecomeAll(rs, "notSent")
  /\ UNCHANGED <<copies, confirmed>>

(* Sending again what is known not to have arrived needs no one's word.    *)
TryAgain(rs) ==
  /\ \A r \in rs : fate[r] = "notSent"
  /\ BecomeAll(rs, "open")
  /\ UNCHANGED <<copies, confirmed>>

(* Sending again what may have arrived needs a person's.                   *)
VouchAndTryAgain(r) ==
  /\ fate[r] = "unknown"
  /\ Become(r, "open")
  /\ confirmed' = [confirmed EXCEPT ![r] = @ + 1]
  /\ UNCHANGED copies

Next ==
  \/ \E rs \in SUBSET Replies : LoseTrack(rs) \/ GiveUp(rs) \/ TryAgain(rs)
  \/ \E r \in Replies :
       Accept(r) \/ HandOver(r) \/ Refused(r) \/ Sent(r) \/ VouchAndTryAgain(r)

Spec == Init /\ [][Next]_vars
============================================================================
