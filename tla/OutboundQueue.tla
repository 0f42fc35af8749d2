--------------------------- MODULE OutboundQueue ---------------------------
(***************************************************************************)
(* The outbound send queue of the worker                                   *)
(* (apps/worker/src/queue/outboundQueueProcessor.ts) for automatic and     *)
(* manual replies, with the people who act on its rows from the dashboard: *)
(* Failed Replies (apps/web/src/server/actions/failedReplies.ts), the chat *)
(* inbox's cancel button and the kill switch.                              *)
(*                                                                         *)
(* The OutboundMessage row is the only thing the worker and the dashboard  *)
(* share.  The worker is one process; its queue loop never overlaps itself,*)
(* so at most one row is being worked on, but every await of that work is  *)
(* a point where recovery, a person or a crash can act.                    *)
(***************************************************************************)
EXTENDS Naturals

CONSTANTS
  Rows,             \* rows of the OutboundMessage table
  ManualRows,       \* those a person typed (MANUAL_REPLY); the others are AUTO_REPLY
  ForeignRows,      \* rows whose account is missing or belongs to another project
  Operators,        \* dashboard requests that may run at the same time
  MaxAttempts,      \* AutomationSettings.retryMaxAttempts
  MaxDeferrals,     \* MAX_RATE_LIMIT_DEFERRALS
  MaxManualRetries  \* FAILED_REPLY_MAX_MANUAL_RETRIES

ASSUME ConstantsAssumption ==
  /\ ManualRows \subseteq Rows
  /\ ForeignRows \subseteq Rows
  /\ MaxAttempts \in Nat
  /\ MaxDeferrals \in Nat
  /\ MaxManualRetries \in Nat

VARIABLES
  row,         \* the columns of each OutboundMessage row
  worker,      \* the tick in progress: memory, lost in a crash
  automation,  \* AutomationSettings.automationEnabled, the kill switch
  view,        \* what each running dashboard action has read of its row
  copies,      \* history: hand-overs of the row that may reach the customer
  confirmed,   \* history: "I checked the chat" retries of the row
  refusals,    \* history: hand-overs refused since the row was last queued
  leaked       \* history: automatic hand-overs since the last pause

vars == <<row, worker, automation, view, copies, confirmed, refusals, leaked>>
history == <<copies, confirmed, refusals, leaked>>

----------------------------------------------------------------------------
Queued == {"PENDING", "PROCESSING"}
FailedStatuses == {"FAILED", "RATE_LIMITED", "SKIPPED"}
Statuses == Queued \cup FailedStatuses \cup {"ABSENT", "SENT", "CANCELLED"}

(* old: updatedAt is before recovery's cutoff.  Every write refreshes it.  *)
RowRecords ==
  [status: Statuses, stamped: BOOLEAN, uncertain: BOOLEAN, attempts: Nat,
   retries: Nat, resolution: {"NONE", "RESOLVED", "CLOSED"}, old: BOOLEAN]

NewRow ==
  [status |-> "ABSENT", stamped |-> FALSE, uncertain |-> FALSE, attempts |-> 0,
   retries |-> 0, resolution |-> "NONE", old |-> FALSE]

(* Where a tick stands.  Before the stamp: resolve, cancel, checks.  After *)
(* it: handing (nothing handed over yet), inFlight, and the three answers. *)
Unstamped == {"resolve", "cancel", "checks"}
Stamped == {"handing", "inFlight", "accepted", "refused", "unknown"}
Idle == [pc |-> "idle"]
Ticks == [pc: Unstamped \cup Stamped, row: Rows, attempts: Nat]

NoView == [act |-> "NONE"]
Views == [act: {"RETRY", "RESOLVE", "CLOSE", "REOPEN"}, row: Rows,
          status: Statuses, retries: Nat, uncertain: BOOLEAN,
          resolution: {"NONE", "RESOLVED", "CLOSED"}]

IsAuto(r) == r \notin ManualRows
Working(r) == worker.pc # "idle" /\ worker.row = r

(* A tick at pc on row r. *)
At(pc, r) == worker.pc = pc /\ worker.row = r

Init ==
  /\ row = [r \in Rows |-> NewRow]
  /\ worker = Idle
  /\ automation = TRUE
  /\ view = [o \in Operators |-> NoView]
  /\ copies = [r \in Rows |-> 0]
  /\ confirmed = [r \in Rows |-> 0]
  /\ refusals = [r \in Rows |-> 0]
  /\ leaked = 0

(* prisma.outboundMessage.update({where: {id}}): unconditional.            *)
Settle(r, status) ==
  row' = [row EXCEPT ![r].status = status, ![r].old = FALSE]
SettleCharged(r, status, attempts) ==
  row' = [row EXCEPT ![r].status = status, ![r].attempts = attempts,
                     ![r].old = FALSE]

----------------------------------------------------------------------------
(* Producers and the claim.                                                *)

(* A reply is queued once: the idempotency key makes a second insert of    *)
(* the same reply a no-op.                                                 *)
Enqueue(r) ==
  /\ row[r].status = "ABSENT"
  /\ Settle(r, "PENDING")
  /\ UNCHANGED <<worker, automation, view, history>>

(* Only a due row is claimed; being due, and its project being open for    *)
(* business, is the environment's choice.                                  *)
Claim(r) ==
  /\ worker.pc = "idle"
  /\ row[r].status = "PENDING"
  /\ Settle(r, "PROCESSING")
  /\ worker' = [pc |-> "resolve", row |-> r, attempts |-> row[r].attempts]
  /\ UNCHANGED <<automation, view, history>>

----------------------------------------------------------------------------
(* The tick, up to the stamp.                                              *)

RefuseForeign(r) ==
  /\ At("resolve", r)
  /\ r \in ForeignRows
  /\ Settle(r, "FAILED")
  /\ worker' = Idle
  /\ UNCHANGED <<automation, view, history>>

(* The account has no live session in this worker: back to PENDING, and    *)
(* the attempt is not charged.                                             *)
DeferNotHeld(r) ==
  /\ At("resolve", r)
  /\ r \notin ForeignRows
  /\ Settle(r, "PENDING")
  /\ worker' = Idle
  /\ UNCHANGED <<automation, view, history>>

(* Mutant: the tick does not look at the kill switch again.                *)
ReadNoKillSwitch(r) ==
  /\ At("resolve", r)
  /\ r \notin ForeignRows
  /\ worker' = [worker EXCEPT !.pc = "checks"]
  /\ UNCHANGED <<row, automation, view, history>>

ReadKillSwitch(r) ==
  /\ At("resolve", r)
  /\ r \notin ForeignRows
  /\ worker' = [worker EXCEPT
                  !.pc = IF ~automation /\ IsAuto(r) THEN "cancel" ELSE "checks"]
  /\ UNCHANGED <<row, automation, view, history>>

KillSwitchCancel(r) ==
  /\ At("cancel", r)
  /\ Settle(r, "CANCELLED")
  /\ worker' = Idle
  /\ UNCHANGED <<automation, view, history>>

(* Mutant: waiting for a limit is never charged.                           *)
DeferUncharged(r) ==
  /\ At("checks", r)
  /\ r \in ManualRows \/ worker.attempts < MaxDeferrals
  /\ Settle(r, "PENDING")
  /\ worker' = Idle
  /\ UNCHANGED <<automation, view, history>>

(* An account limit is exhausted: a person's reply waits for as long as it *)
(* takes, an automatic one a bounded number of times, charged each time.   *)
DeferForLimit(r) ==
  /\ At("checks", r)
  /\ \/ r \in ManualRows /\ Settle(r, "PENDING")
     \/ /\ IsAuto(r) /\ worker.attempts < MaxDeferrals
        /\ SettleCharged(r, "PENDING", row[r].attempts + 1)
  /\ worker' = Idle
  /\ UNCHANGED <<automation, view, history>>

GiveUpForLimit(r) ==
  /\ At("checks", r)
  /\ IsAuto(r) /\ worker.attempts >= MaxDeferrals
  /\ Settle(r, "RATE_LIMITED")
  /\ worker' = Idle
  /\ UNCHANGED <<automation, view, history>>

CooldownCancel(r) ==
  /\ At("checks", r)
  /\ IsAuto(r)
  /\ Settle(r, "CANCELLED")
  /\ worker' = Idle
  /\ UNCHANGED <<automation, view, history>>

(* The live chat check of a manual reply fails.                            *)
NotInChat(r) ==
  /\ At("checks", r)
  /\ r \in ManualRows
  /\ Settle(r, "SKIPPED")
  /\ worker' = Idle
  /\ UNCHANGED <<automation, view, history>>

QuoteGone(r) ==
  /\ At("checks", r)
  /\ r \in ManualRows
  /\ SettleCharged(r, "FAILED", row[r].attempts + 1)
  /\ worker' = Idle
  /\ UNCHANGED <<automation, view, history>>

(* From here the message may reach WhatsApp.                               *)
Stamp(r) ==
  /\ At("checks", r)
  /\ row' = [row EXCEPT ![r].stamped = TRUE, ![r].old = FALSE]
  /\ worker' = [worker EXCEPT !.pc = "handing"]
  /\ UNCHANGED <<automation, view, history>>

----------------------------------------------------------------------------
(* The hand-over and its answer.                                           *)

(* A poll, file or forward that fails its own re-check is settled at once. *)
RefuseContent(r) ==
  /\ At("handing", r)
  /\ r \in ManualRows
  /\ SettleCharged(r, "FAILED", row[r].attempts + 1)
  /\ worker' = Idle
  /\ UNCHANGED <<automation, view, history>>

HandOver(r) ==
  /\ At("handing", r)
  /\ worker' = [worker EXCEPT !.pc = "inFlight"]
  /\ copies' = [copies EXCEPT ![r] = @ + 1]
  /\ leaked' = IF ~automation /\ IsAuto(r) THEN leaked + 1 ELSE leaked
  /\ UNCHANGED <<row, automation, view, confirmed, refusals>>

AnswerAccepted(r) ==
  /\ At("inFlight", r)
  /\ worker' = [worker EXCEPT !.pc = "accepted"]
  /\ UNCHANGED <<row, automation, view, history>>

(* A returned refusal means nothing was handed over.                       *)
AnswerRefused(r) ==
  /\ At("inFlight", r)
  /\ worker' = [worker EXCEPT !.pc = "refused"]
  /\ copies' = [copies EXCEPT ![r] = @ - 1]
  /\ refusals' = [refusals EXCEPT ![r] = @ + 1]
  /\ UNCHANGED <<row, automation, view, confirmed, leaked>>

(* Mutant: a send that throws is treated as refused.                       *)
LostIsRefused(r) ==
  /\ \E pc \in {"handing", "inFlight", "accepted", "refused"} : At(pc, r)
  /\ worker' = [worker EXCEPT !.pc = "refused"]
  /\ UNCHANGED <<row, automation, view, history>>

(* The call throws or times out, or, before it, preparing the content does,*)
(* or, after it, recording the answer does: all land in one catch.         *)
AnswerLost(r) ==
  /\ \E pc \in {"handing", "inFlight", "accepted", "refused"} : At(pc, r)
  /\ worker' = [worker EXCEPT !.pc = "unknown"]
  /\ UNCHANGED <<row, automation, view, history>>

SettleSent(r) ==
  /\ At("accepted", r)
  /\ SettleCharged(r, "SENT", row[r].attempts + 1)
  /\ worker' = Idle
  /\ UNCHANGED <<automation, view, history>>

(* Mutant: a refused hand-over is not charged.                             *)
RetryUncharged(r) ==
  /\ At("refused", r)
  /\ worker.attempts + 1 < MaxAttempts
  /\ row' = [row EXCEPT ![r].status = "PENDING", ![r].stamped = FALSE,
                        ![r].old = FALSE]
  /\ worker' = Idle
  /\ UNCHANGED <<automation, view, history>>

(* handleSendFailure after a refusal: the tick's own count, read at the    *)
(* claim, decides and is written back.                                     *)
RetryLater(r) ==
  /\ At("refused", r)
  /\ worker.attempts + 1 < MaxAttempts
  /\ row' = [row EXCEPT ![r].status = "PENDING", ![r].stamped = FALSE,
                        ![r].attempts = worker.attempts + 1, ![r].old = FALSE]
  /\ worker' = Idle
  /\ UNCHANGED <<automation, view, history>>

GiveUp(r) ==
  /\ At("refused", r)
  /\ worker.attempts + 1 >= MaxAttempts
  /\ SettleCharged(r, "FAILED", worker.attempts + 1)
  /\ worker' = Idle
  /\ UNCHANGED <<automation, view, history>>

HoldUncertain(r) ==
  /\ At("unknown", r)
  /\ row' = [row EXCEPT ![r].status = "FAILED", ![r].uncertain = TRUE,
                        ![r].attempts = worker.attempts + 1, ![r].old = FALSE]
  /\ worker' = Idle
  /\ UNCHANGED <<automation, view, history>>

----------------------------------------------------------------------------
(* Failures of the worker and the recovery of what they strand.            *)

(* An error no catch of the tick handles: the row stays PROCESSING.        *)
TickThrows ==
  /\ worker.pc \in Unstamped \cup {"unknown"}
  /\ worker' = Idle
  /\ UNCHANGED <<row, automation, view, history>>

Crash ==
  /\ worker.pc # "idle"
  /\ worker' = Idle
  /\ UNCHANGED <<row, automation, view, history>>

(* Mutant: the cutoff is shorter than a send can hang.                     *)
AgeUnderfoot(r) ==
  /\ row[r].status = "PROCESSING" /\ ~row[r].old
  /\ row' = [row EXCEPT ![r].old = TRUE]
  /\ UNCHANGED <<worker, automation, view, history>>

(* The five minutes pass.  They are longer than anything a live tick can   *)
(* spend between two writes of its row, so only an abandoned row ages.     *)
Age(r) ==
  /\ row[r].status = "PROCESSING" /\ ~row[r].old
  /\ ~Working(r)
  /\ row' = [row EXCEPT ![r].old = TRUE]
  /\ UNCHANGED <<worker, automation, view, history>>

Stranded(r) == row[r].status = "PROCESSING" /\ row[r].old

(* recoverStuckOutboundMessages, at boot and every five minutes: one       *)
(* update for rows that may have arrived, one for those that cannot have.  *)
HoldStranded ==
  /\ \E r \in Rows : Stranded(r) /\ row[r].stamped
  /\ row' = [r \in Rows |->
               IF Stranded(r) /\ row[r].stamped
               THEN [row[r] EXCEPT !.status = "FAILED", !.uncertain = TRUE,
                                   !.old = FALSE]
               ELSE row[r]]
  /\ UNCHANGED <<worker, automation, view, history>>

(* Mutant: recovery does not tell a stamped row from an unstamped one.     *)
RequeueAllStranded ==
  /\ \E r \in Rows : Stranded(r)
  /\ row' = [r \in Rows |->
               IF Stranded(r) THEN [row[r] EXCEPT !.status = "PENDING", !.old = FALSE]
               ELSE row[r]]
  /\ UNCHANGED <<worker, automation, view, history>>

RequeueStranded ==
  /\ \E r \in Rows : Stranded(r) /\ ~row[r].stamped
  /\ row' = [r \in Rows |->
               IF Stranded(r) /\ ~row[r].stamped
               THEN [row[r] EXCEPT !.status = "PENDING", !.old = FALSE]
               ELSE row[r]]
  /\ UNCHANGED <<worker, automation, view, history>>

----------------------------------------------------------------------------
(* People.                                                                 *)

Pause ==
  /\ automation
  /\ automation' = FALSE
  /\ leaked' = 0
  /\ UNCHANGED <<row, worker, view, copies, confirmed, refusals>>

Resume ==
  /\ ~automation
  /\ automation' = TRUE
  /\ leaked' = 0
  /\ UNCHANGED <<row, worker, view, copies, confirmed, refusals>>

CancelQueued(r) ==
  /\ r \in ManualRows
  /\ row[r].status = "PENDING"
  /\ Settle(r, "CANCELLED")
  /\ UNCHANGED <<worker, automation, view, history>>

(* failedReplyState: where a row stands on Failed Replies.                 *)
FailedReplyState(r) ==
  CASE row[r].status \notin FailedStatuses /\ row[r].retries = 0 -> "NONE"
    [] row[r].resolution # "NONE" -> row[r].resolution
    [] row[r].status = "SENT" -> "RESOLVED"
    [] row[r].status \in Queued -> "RETRYING"
    [] OTHER -> "FAILED"

(* decideFailedReplyRetry.  The account's connection and the echo of the   *)
(* message can only add refusals; they are the environment's choice.       *)
MayRetry(r) ==
  /\ FailedReplyState(r) = "FAILED"
  /\ row[r].retries < MaxManualRetries
  /\ r \notin ForeignRows
  /\ automation \/ ~IsAuto(r)

MaySettle(r, act) ==
  IF act = "REOPEN" THEN row[r].resolution # "NONE"
  ELSE FailedReplyState(r) = "FAILED"

Read(o, r, act) ==
  view' = [view EXCEPT ![o] =
    [act |-> act, row |-> r, status |-> row[r].status, retries |-> row[r].retries,
     uncertain |-> row[r].uncertain, resolution |-> row[r].resolution]]

(* First half of retryOne: load the row and decide.  An uncertain row goes *)
(* on only with the person's confirmation, so a RETRY view whose uncertain *)
(* is TRUE is a confirmed one.                                             *)
OpenRetry(o, r) ==
  /\ view[o] = NoView
  /\ MayRetry(r)
  /\ Read(o, r, "RETRY")
  /\ UNCHANGED <<row, worker, automation, history>>

(* Mutants: the update is not tied to the retry count, or the resolution,  *)
(* that was read.                                                          *)
StillAsReadAnyCount(v) ==
  row[v.row].status = v.status /\ row[v.row].resolution = "NONE"

StillAsReadAnyResolution(v) ==
  row[v.row].status = v.status /\ row[v.row].retries = v.retries

(* Second half: the conditional update of retryWhatsApp, which does        *)
(* nothing when the row changed meanwhile.                                 *)
StillAsRead(v) ==
  /\ row[v.row].status = v.status
  /\ row[v.row].resolution = "NONE"
  /\ row[v.row].retries = v.retries

(* A fresh life in the queue.                                              *)
Requeued(r) ==
  [row[r] EXCEPT !.status = "PENDING", !.stamped = FALSE, !.uncertain = FALSE,
                 !.attempts = 0, !.retries = row[r].retries + 1, !.old = FALSE]

CommitRetry(o) ==
  LET v == view[o] IN
  /\ v.act = "RETRY"
  /\ StillAsRead(v)
  /\ row' = [row EXCEPT ![v.row] = Requeued(v.row)]
  /\ confirmed' = [confirmed EXCEPT ![v.row] = IF v.uncertain THEN @ + 1 ELSE @]
  /\ refusals' = [refusals EXCEPT ![v.row] = 0]
  /\ view' = [view EXCEPT ![o] = NoView]
  /\ UNCHANGED <<worker, automation, copies, leaked>>

RetryMissed(o) ==
  LET v == view[o] IN
  /\ v.act = "RETRY"
  /\ ~StillAsRead(v)
  /\ view' = [view EXCEPT ![o] = NoView]
  /\ UNCHANGED <<row, worker, automation, history>>

(* settleOne: resolve, close or reopen, read and then written under the    *)
(* status and resolution that were read.                                   *)
OpenSettle(o, r, act) ==
  /\ view[o] = NoView
  /\ MaySettle(r, act)
  /\ Read(o, r, act)
  /\ UNCHANGED <<row, worker, automation, history>>

CommitSettle(o) ==
  LET v == view[o]
      now == CASE v.act = "RESOLVE" -> "RESOLVED"
               [] v.act = "CLOSE" -> "CLOSED"
               [] OTHER -> "NONE" IN
  /\ v.act \in {"RESOLVE", "CLOSE", "REOPEN"}
  /\ row' = IF row[v.row].status = v.status /\ row[v.row].resolution = v.resolution
            THEN [row EXCEPT ![v.row].resolution = now, ![v.row].old = FALSE]
            ELSE row
  /\ view' = [view EXCEPT ![o] = NoView]
  /\ UNCHANGED <<worker, automation, history>>

----------------------------------------------------------------------------
Tick(r) ==
  \/ RefuseForeign(r) \/ DeferNotHeld(r) \/ ReadKillSwitch(r)
  \/ KillSwitchCancel(r) \/ DeferForLimit(r) \/ GiveUpForLimit(r)
  \/ CooldownCancel(r) \/ NotInChat(r) \/ QuoteGone(r) \/ Stamp(r)
  \/ RefuseContent(r) \/ HandOver(r)
  \/ AnswerAccepted(r) \/ AnswerRefused(r) \/ AnswerLost(r)
  \/ SettleSent(r) \/ RetryLater(r) \/ GiveUp(r) \/ HoldUncertain(r)

Person(o) ==
  \/ \E r \in Rows : OpenRetry(o, r)
  \/ CommitRetry(o)
  \/ RetryMissed(o)
  \/ \E r \in Rows, act \in {"RESOLVE", "CLOSE", "REOPEN"} : OpenSettle(o, r, act)
  \/ CommitSettle(o)

Next ==
  \/ \E r \in Rows : Enqueue(r) \/ Claim(r) \/ Tick(r) \/ Age(r) \/ CancelQueued(r)
  \/ TickThrows \/ Crash \/ HoldStranded \/ RequeueStranded
  \/ Pause \/ Resume
  \/ \E o \in Operators : Person(o)

Spec == Init /\ [][Next]_vars

(* The worker keeps ticking and sweeping (setInterval loops of a process   *)
(* that is restarted when it dies).  A row put back in the queue gets a    *)
(* later scheduledAt than the rows waiting, so each row's turn comes       *)
(* (strong fairness of Claim).  The environment does not stop a row at the *)
(* same place every time: the session comes back, the limits clear, the    *)
(* database accepts the write (the other two strong fairness conditions).  *)
(* An automatic reply needs no such patience from its account limits.      *)
PassGate(r) == RefuseForeign(r) \/ ReadKillSwitch(r)
LeaveChecks(r) ==
  \/ KillSwitchCancel(r) \/ Stamp(r)
  \/ IsAuto(r) /\ (DeferForLimit(r) \/ GiveUpForLimit(r))

Fairness ==
  /\ \A r \in Rows :
       /\ WF_vars(Tick(r)) /\ WF_vars(Age(r))
       /\ SF_vars(Claim(r)) /\ SF_vars(PassGate(r)) /\ SF_vars(LeaveChecks(r))
  /\ WF_vars(HoldStranded) /\ WF_vars(RequeueStranded)

FairSpec == Spec /\ Fairness

----------------------------------------------------------------------------
TypeOK ==
  /\ row \in [Rows -> RowRecords]
  /\ worker \in Ticks \cup {Idle}
  /\ automation \in BOOLEAN
  /\ view \in [Operators -> Views \cup {NoView}]
  /\ copies \in [Rows -> Nat]
  /\ confirmed \in [Rows -> Nat]
  /\ refusals \in [Rows -> Nat]
  /\ leaked \in Nat

(* The customer never gets a second copy of a reply unless a person looked *)
(* at the chat and asked for it: whatever crashes, refusals, lost answers  *)
(* and concurrent dashboard actions a row goes through, the number of its  *)
(* hand-overs that can have arrived is at most one more than the confirmed *)
(* retries (sendStartedAt, deliveryUncertain and the conditional retry).   *)
NoUnconfirmedDuplicate == \A r \in Rows : copies[r] <= 1 + confirmed[r]

(* A status tells the truth about delivery: SENT means a hand-over was     *)
(* accepted, and a failure that is not marked uncertain means that nothing *)
(* of this attempt can have arrived, so that retrying it without a check   *)
(* (bulk retry) is safe.                                                   *)
HonestStatus ==
  \A r \in Rows :
    /\ row[r].status = "SENT" => copies[r] > 0
    /\ row[r].status \in FailedStatuses \cup {"CANCELLED"} /\ ~row[r].uncertain
         => copies[r] <= confirmed[r]

(* What a person resolved or closed is not sent behind their back: such a  *)
(* row is never queued, claimed or in the hands of a tick.                 *)
SettledStaysUnsent ==
  \A r \in Rows : row[r].resolution # "NONE" => row[r].status \notin Queued /\ ~Working(r)

(* The kill switch acts at once: after a pause at most one automatic reply,*)
(* the one already past the tick's check, is still handed to WhatsApp.     *)
PauseLeaksAtMostOne == leaked <= 1

(* A first hand-over is free: the attempt is counted after it.             *)
Budget == IF MaxAttempts = 0 THEN 1 ELSE MaxAttempts

(* A reply that keeps being refused is not handed over more often than its *)
(* retry budget, across requeues, crashes and deferrals.                   *)
RetryBudgetRespected ==
  \A r \in Rows : refusals[r] <= Budget

(* Concurrent dashboard actions cannot push a reply past the limit of      *)
(* manual retries, although each checks the limit on a row it read before. *)
ManualRetriesBounded == \A r \in Rows : row[r].retries <= MaxManualRetries

(* Every queued reply is decided in the end: sent, failed, held for a      *)
(* person or cancelled, and none stays PENDING or PROCESSING for ever.     *)
EveryReplySettles ==
  \A r \in Rows : row[r].status \in Queued ~> row[r].status \notin Queued

----------------------------------------------------------------------------
(* The inductive strengthening of the safety properties.                   *)

Settled == FailedStatuses \cup {"CANCELLED"}

(* No hand-over since the last confirmation can have reached the customer. *)
CannotHaveArrived(r) ==
  \/ row[r].status \in Settled \cup {"ABSENT", "PENDING"} /\ ~row[r].uncertain
  \/ row[r].status = "PROCESSING" /\ ~row[r].stamped

RowInv(r) ==
  /\ row[r].uncertain => row[r].status = "FAILED"
  /\ row[r].resolution # "NONE" => row[r].status \in Settled
  /\ row[r].status = "PENDING" => ~row[r].stamped
  /\ row[r].status = "ABSENT" => ~row[r].stamped /\ row[r].retries = 0
  /\ row[r].retries <= MaxManualRetries
  /\ copies[r] <= confirmed[r] + 1
  /\ CannotHaveArrived(r) => copies[r] <= confirmed[r]
  /\ row[r].status = "SENT" => copies[r] > 0

(* What a tick holds is its own row, and its pc says what may have arrived.*)
TickInv ==
  worker.pc # "idle" =>
    LET r == worker.row IN
    /\ row[r].status = "PROCESSING"
    /\ ~row[r].old
    /\ row[r].attempts = worker.attempts
    /\ row[r].stamped <=> worker.pc \in Stamped
    /\ worker.pc \in {"handing", "refused"} => copies[r] <= confirmed[r]
    /\ worker.pc \in {"inFlight", "accepted"} => copies[r] > 0

(* A view that still has the row's retry count has the whole row: only a   *)
(* retry moves a failed row.                                               *)
ViewInv(o) ==
  LET v == view[o] IN
  /\ v.act \in {"RETRY", "RESOLVE", "CLOSE"} => v.status \in Settled
  /\ v.act = "RETRY" =>
       /\ v.retries <= row[v.row].retries
       /\ v.retries < MaxManualRetries
       /\ v.retries = row[v.row].retries =>
            /\ row[v.row].status = v.status
            /\ row[v.row].uncertain = v.uncertain

DeliveryInv ==
  /\ TypeOK
  /\ \A r \in Rows : RowInv(r)
  /\ TickInv
  /\ \A o \in Operators : ViewInv(o)

(* Once a reply has leaked, no automatic one stands between the tick's     *)
(* look at the kill switch and its hand-over.                              *)
PastTheSwitch == worker.pc \in {"checks", "handing"} /\ IsAuto(worker.row)
LeakInv ==
  /\ leaked <= 1
  /\ ~automation /\ leaked = 1 => ~PastTheSwitch

(* As long as a row may yet be handed over without a person's retry, its   *)
(* refusals are among the attempts charged to it, and one more is allowed. *)
MayBeHandedOver(r) ==
  \/ row[r].status \in {"ABSENT", "PENDING"}
  \/ row[r].status = "PROCESSING"
       /\ (~row[r].stamped \/ At("handing", r) \/ At("inFlight", r))
RowBudget(r) ==
  /\ refusals[r] <= Budget
  /\ MayBeHandedOver(r) => refusals[r] <= row[r].attempts /\ refusals[r] < Budget
  /\ At("refused", r) => refusals[r] <= worker.attempts + 1
BudgetInv == \A r \in Rows : RowBudget(r)

(* The invariant the safety properties follow from; it holds initially and *)
(* every step preserves it.                                                *)
IInv == DeliveryInv /\ LeakInv /\ BudgetInv
============================================================================
