------------------------ MODULE OutboundQueueProofs ------------------------
(***************************************************************************)
(* Safety of the outbound queue for any number of replies and of dashboard *)
(* requests, and any attempt, deferral and retry limits.                   *)
(***************************************************************************)
EXTENDS OutboundQueueRefinement, TLAPS

LEMMA InitDelivery == Init => DeliveryInv
<1> SUFFICES ASSUME Init PROVE DeliveryInv
  OBVIOUS
<1>1. TypeOK
  BY DEF Init, TypeOK, RowRecords, Statuses, Queued, FailedStatuses, NewRow,
         Ticks, Idle, NoView, Views
<1>2. ASSUME NEW r \in Rows PROVE RowInv(r)
  <2>1. row[r] = NewRow /\ copies[r] = 0 /\ confirmed[r] = 0
    BY DEF Init
  <2>2. MaxManualRetries \in Nat
    BY ConstantsAssumption
  <2> QED
    BY <2>1, <2>2 DEF NewRow, RowInv
<1>3. TickInv
  BY DEF Init, TickInv, Idle
<1>4. \A o \in Operators : ViewInv(o)
  BY DEF Init, ViewInv, NoView
<1> QED
  BY <1>1, <1>2, <1>3, <1>4 DEF DeliveryInv

(* A tick that is not idle is a record with a row of the table.            *)
LEMMA BusyTick ==
  ASSUME TypeOK, worker.pc # "idle"
  PROVE  worker \in Ticks
  BY DEF TypeOK, Idle

LEMMA OpenView ==
  ASSUME TypeOK, NEW o \in Operators, view[o].act # "NONE"
  PROVE  view[o] \in Views
  BY DEF TypeOK, NoView

(* Views survive every step that leaves them, the settled rows and the     *)
(* retry counts alone.                                                     *)
LEMMA ViewsKept ==
  ASSUME DeliveryInv, UNCHANGED view,
         \A r \in Rows : row'[r].retries = row[r].retries,
         \A r \in Rows : row[r].status \in Settled =>
            row'[r].status = row[r].status /\ row'[r].uncertain = row[r].uncertain
  PROVE  \A o \in Operators : ViewInv(o)'
<1> SUFFICES ASSUME NEW o \in Operators PROVE ViewInv(o)'
  OBVIOUS
<1>1. CASE view[o].act = "NONE"
  BY <1>1 DEF ViewInv
<1>2. CASE view[o].act # "NONE"
  <2>1. view[o].row \in Rows
    BY <1>2, OpenView DEF DeliveryInv, Views
  <2> QED
    BY <2>1 DEF DeliveryInv, ViewInv
<1> QED
  BY <1>1, <1>2

(* A tick on r: what the invariant says of it, with types.                 *)
LEMMA TickFacts ==
  ASSUME DeliveryInv, NEW r \in Rows, worker.pc # "idle", worker.row = r
  PROVE  /\ worker \in Ticks
         /\ row[r] \in RowRecords
         /\ row[r].status = "PROCESSING"
         /\ copies[r] \in Nat /\ confirmed[r] \in Nat /\ refusals[r] \in Nat
  BY BusyTick DEF DeliveryInv, TickInv, TypeOK

(* The steps that end a tick: the row leaves PROCESSING by one write and   *)
(* the worker lets go of it.                                               *)
LEMMA EndOfTick ==
  ASSUME DeliveryInv, NEW r \in Rows, worker.pc # "idle", worker.row = r,
         NEW n \in RowRecords,
         row' = [row EXCEPT ![r] = n], worker' = Idle,
         UNCHANGED <<automation, view, history>>,
         n.retries = row[r].retries, n.resolution = row[r].resolution,
         n.status \in {"PENDING", "SENT", "FAILED", "RATE_LIMITED", "SKIPPED", "CANCELLED"},
         n.uncertain => n.status = "FAILED",
         n.status = "PENDING" => ~n.stamped,
         n.status = "SENT" => copies[r] > 0,
         n.status # "SENT" /\ ~n.uncertain => copies[r] <= confirmed[r]
  PROVE  DeliveryInv'
<1>1. TypeOK'
  BY DEF DeliveryInv, TypeOK, history
<1>2. ASSUME NEW q \in Rows PROVE RowInv(q)'
  <2>1. CASE q = r
    <3>1. row'[q] = n
      BY <2>1 DEF DeliveryInv, TypeOK
    <3>2. row[r].resolution = "NONE" /\ row[r].retries <= MaxManualRetries
          /\ copies[r] <= confirmed[r] + 1
      BY TickFacts DEF DeliveryInv, RowInv, Settled, FailedStatuses
    <3> QED
      BY <2>1, <3>1, <3>2 DEF RowInv, CannotHaveArrived, Settled, FailedStatuses, history
  <2>2. CASE q # r
    <3>1. row'[q] = row[q]
      BY <2>2 DEF DeliveryInv, TypeOK
    <3> QED
      BY <3>1 DEF DeliveryInv, RowInv, CannotHaveArrived, history
  <2> QED
    BY <2>1, <2>2
<1>3. TickInv'
  BY DEF TickInv, Idle
<1>4. \A o \in Operators : ViewInv(o)'
  <2>1. row[r].status = "PROCESSING" /\ row \in [Rows -> RowRecords]
    BY TickFacts DEF DeliveryInv, TypeOK
  <2> QED
    BY <2>1, ViewsKept DEF Settled, FailedStatuses
<1> QED
  BY <1>1, <1>2, <1>3, <1>4 DEF DeliveryInv

(* The steps of a tick that keep its row: only the pc and the history of   *)
(* row r change.                                                           *)
LEMMA MidTick ==
  ASSUME DeliveryInv, NEW r \in Rows, worker.pc # "idle", worker.row = r,
         NEW pc \in Unstamped \cup Stamped,
         worker' = [worker EXCEPT !.pc = pc], UNCHANGED <<row, automation, view>>,
         pc \in Stamped <=> worker.pc \in Stamped,
         copies' \in [Rows -> Nat], refusals' \in [Rows -> Nat],
         confirmed' = confirmed, leaked' \in Nat,
         \A q \in Rows : q # r => copies'[q] = copies[q],
         worker.pc \in Unstamped => copies'[r] = copies[r],
         copies'[r] <= confirmed[r] + 1,
         pc \in {"handing", "refused"} => copies'[r] <= confirmed[r],
         pc \in {"inFlight", "accepted"} => copies'[r] > 0
  PROVE  DeliveryInv'
<1>1. worker' \in Ticks /\ worker'.pc = pc /\ worker'.row = r /\ worker'.attempts = worker.attempts
  BY TickFacts DEF Ticks
<1>2. TypeOK'
  BY <1>1 DEF DeliveryInv, TypeOK
<1>3. ASSUME NEW q \in Rows PROVE RowInv(q)'
  <2>1. CASE q # r
    BY <2>1 DEF DeliveryInv, RowInv, CannotHaveArrived
  <2>2. CASE q = r
    <3>1. row[r].status = "PROCESSING" /\ (row[r].stamped <=> worker.pc \in Stamped)
      BY DEF DeliveryInv, TickInv
    <3>2. worker.pc \in Unstamped \cup Stamped
      BY TickFacts DEF Ticks
    <3>3. CannotHaveArrived(r) => worker.pc \in Unstamped /\ copies[r] <= confirmed[r]
      BY <3>1, <3>2 DEF DeliveryInv, RowInv, CannotHaveArrived, Settled, FailedStatuses
    <3>4. CannotHaveArrived(r)' => CannotHaveArrived(r)
      BY DEF CannotHaveArrived
    <3> QED
      BY <2>2, <3>1, <3>3, <3>4 DEF DeliveryInv, RowInv
  <2> QED
    BY <2>1, <2>2
<1>4. TickInv'
  BY <1>1 DEF DeliveryInv, TickInv
<1>5. \A o \in Operators : ViewInv(o)'
  BY ViewsKept
<1> QED
  BY <1>2, <1>3, <1>4, <1>5 DEF DeliveryInv

LEMMA TickKeepsDelivery ==
  ASSUME DeliveryInv, NEW r \in Rows, Tick(r)
  PROVE  DeliveryInv'
<1>1. worker.pc # "idle" /\ worker.row = r
  BY DEF Tick, At, RefuseForeign, DeferNotHeld, ReadKillSwitch, KillSwitchCancel,
    DeferForLimit, GiveUpForLimit, CooldownCancel, NotInChat, QuoteGone, Stamp,
    RefuseContent, HandOver, AnswerAccepted, AnswerRefused, AnswerLost,
    SettleSent, RetryLater, GiveUp, HoldUncertain
<1>2. /\ worker \in Ticks
      /\ row[r] \in RowRecords
      /\ row[r].status = "PROCESSING"
      /\ copies[r] \in Nat /\ confirmed[r] \in Nat /\ refusals[r] \in Nat
  BY <1>1, TickFacts
<1>3. /\ ~row[r].uncertain
      /\ row[r].attempts + 1 \in Nat /\ worker.attempts + 1 \in Nat
  BY <1>2 DEF DeliveryInv, RowInv, RowRecords, Ticks
<1>4. worker.pc \in Unstamped => ~row[r].stamped /\ copies[r] <= confirmed[r]
  <2>1. worker.pc \in Unstamped => worker.pc \notin Stamped
    BY DEF Unstamped, Stamped
  <2> QED
    BY <1>1, <1>2, <2>1 DEF DeliveryInv, TickInv, RowInv, CannotHaveArrived
<1>5. copies[r] <= confirmed[r] + 1
  BY DEF DeliveryInv, RowInv
<1>6. CASE \/ RefuseForeign(r) \/ DeferNotHeld(r) \/ KillSwitchCancel(r)
           \/ GiveUpForLimit(r) \/ CooldownCancel(r) \/ NotInChat(r)
  <2>1. PICK s \in {"PENDING", "FAILED", "CANCELLED", "RATE_LIMITED", "SKIPPED"} :
          Settle(r, s) /\ worker.pc \in Unstamped
    BY <1>6 DEF RefuseForeign, DeferNotHeld, KillSwitchCancel, GiveUpForLimit,
      CooldownCancel, NotInChat, At, Unstamped
  <2> DEFINE n == [row[r] EXCEPT !.status = s, !.old = FALSE]
  <2>2. row' = [row EXCEPT ![r] = n]
    BY <2>1 DEF Settle, DeliveryInv, TypeOK
  <2>3. n \in RowRecords /\ n.status = s /\ n.uncertain = row[r].uncertain
        /\ n.stamped = row[r].stamped /\ n.retries = row[r].retries
        /\ n.resolution = row[r].resolution
    BY <1>2 DEF RowRecords, Statuses, Queued, FailedStatuses
  <2>4. worker' = Idle /\ UNCHANGED <<automation, view, history>>
    BY <1>6 DEF RefuseForeign, DeferNotHeld, KillSwitchCancel, GiveUpForLimit,
      CooldownCancel, NotInChat
  <2> HIDE DEF n
  <2> QED
    BY <1>1, <1>3, <1>4, <2>1, <2>2, <2>3, <2>4, EndOfTick
<1>7. CASE DeferForLimit(r) \/ QuoteGone(r)
  <2>1. PICK s \in {"PENDING", "FAILED"}, a \in {row[r].attempts, row[r].attempts + 1} :
          row' = [row EXCEPT ![r] = [@ EXCEPT !.status = s, !.attempts = a, !.old = FALSE]]
    <3>1. CASE r \in ManualRows /\ Settle(r, "PENDING")
      BY <1>2, <3>1 DEF Settle, RowRecords, DeliveryInv, TypeOK
    <3>2. CASE SettleCharged(r, "PENDING", row[r].attempts + 1)
      BY <3>2 DEF SettleCharged
    <3>3. CASE SettleCharged(r, "FAILED", row[r].attempts + 1)
      BY <3>3 DEF SettleCharged
    <3> QED
      BY <1>7, <3>1, <3>2, <3>3 DEF DeferForLimit, QuoteGone
  <2> DEFINE n == [row[r] EXCEPT !.status = s, !.attempts = a, !.old = FALSE]
  <2>2. row' = [row EXCEPT ![r] = n]
    BY <2>1 DEF DeliveryInv, TypeOK
  <2>3. n \in RowRecords /\ n.status = s /\ n.uncertain = row[r].uncertain
        /\ n.stamped = row[r].stamped /\ n.retries = row[r].retries
        /\ n.resolution = row[r].resolution
    BY <1>2, <1>3 DEF RowRecords, Statuses, Queued, FailedStatuses
  <2>4. worker' = Idle /\ UNCHANGED <<automation, view, history>> /\ worker.pc \in Unstamped
    BY <1>7 DEF DeferForLimit, QuoteGone, At, Unstamped
  <2> HIDE DEF n
  <2> QED
    BY <1>1, <1>3, <1>4, <2>2, <2>3, <2>4, EndOfTick
<1>8. CASE RefuseContent(r) \/ GiveUp(r) \/ SettleSent(r)
  <2>1. PICK s \in {"FAILED", "SENT"}, a \in {row[r].attempts + 1, worker.attempts + 1} :
          SettleCharged(r, s, a) /\ (s = "SENT" <=> worker.pc = "accepted")
          /\ (s = "FAILED" => worker.pc \in {"handing", "refused"})
    BY <1>8 DEF RefuseContent, GiveUp, SettleSent, At
  <2> DEFINE n == [row[r] EXCEPT !.status = s, !.attempts = a, !.old = FALSE]
  <2>2. row' = [row EXCEPT ![r] = n]
    BY <2>1 DEF SettleCharged, DeliveryInv, TypeOK
  <2>3. n \in RowRecords /\ n.status = s /\ n.uncertain = row[r].uncertain
        /\ n.stamped = row[r].stamped /\ n.retries = row[r].retries
        /\ n.resolution = row[r].resolution
    BY <1>2, <1>3 DEF RowRecords, Statuses, Queued, FailedStatuses
  <2>4. worker' = Idle /\ UNCHANGED <<automation, view, history>>
    BY <1>8 DEF RefuseContent, GiveUp, SettleSent
  <2>5. /\ s = "SENT" => copies[r] > 0
        /\ s = "FAILED" => copies[r] <= confirmed[r]
    BY <1>1, <2>1 DEF DeliveryInv, TickInv
  <2> HIDE DEF n
  <2> QED
    BY <1>1, <1>3, <2>2, <2>3, <2>4, <2>5, EndOfTick
<1>9. CASE RetryLater(r)
  <2> DEFINE n == [row[r] EXCEPT !.status = "PENDING", !.stamped = FALSE,
                                 !.attempts = worker.attempts + 1, !.old = FALSE]
  <2>1. row' = [row EXCEPT ![r] = n]
    BY <1>9 DEF RetryLater, DeliveryInv, TypeOK
  <2>2. n \in RowRecords /\ n.status = "PENDING" /\ n.uncertain = row[r].uncertain
        /\ n.stamped = FALSE /\ n.retries = row[r].retries
        /\ n.resolution = row[r].resolution
    BY <1>2, <1>3 DEF RowRecords, Statuses, Queued
  <2>3. worker' = Idle /\ UNCHANGED <<automation, view, history>> /\ worker.pc = "refused"
    BY <1>9 DEF RetryLater, At
  <2>4. copies[r] <= confirmed[r]
    BY <1>1, <2>3 DEF DeliveryInv, TickInv
  <2> HIDE DEF n
  <2> QED
    BY <1>1, <1>3, <2>1, <2>2, <2>3, <2>4, EndOfTick
<1>10. CASE HoldUncertain(r)
  <2> DEFINE n == [row[r] EXCEPT !.status = "FAILED", !.uncertain = TRUE,
                                 !.attempts = worker.attempts + 1, !.old = FALSE]
  <2>1. row' = [row EXCEPT ![r] = n]
    BY <1>10 DEF HoldUncertain, DeliveryInv, TypeOK
  <2>2. n \in RowRecords /\ n.status = "FAILED" /\ n.uncertain = TRUE
        /\ n.retries = row[r].retries /\ n.resolution = row[r].resolution
    BY <1>2, <1>3 DEF RowRecords, Statuses, FailedStatuses
  <2>3. worker' = Idle /\ UNCHANGED <<automation, view, history>>
    BY <1>10 DEF HoldUncertain
  <2> HIDE DEF n
  <2> QED
    BY <1>1, <2>1, <2>2, <2>3, EndOfTick
<1>11. CASE ReadKillSwitch(r) \/ AnswerAccepted(r) \/ AnswerLost(r)
  <2>1. PICK pc \in Unstamped \cup Stamped :
          /\ worker' = [worker EXCEPT !.pc = pc]
          /\ pc \in Stamped <=> worker.pc \in Stamped
          /\ pc \notin {"handing", "refused", "inFlight"}
          /\ pc = "accepted" => worker.pc = "inFlight"
    BY <1>11 DEF ReadKillSwitch, AnswerAccepted, AnswerLost, At, Unstamped, Stamped
  <2>2. UNCHANGED <<row, automation, view, history>>
    BY <1>11 DEF ReadKillSwitch, AnswerAccepted, AnswerLost
  <2>3. worker.pc = "inFlight" => copies[r] > 0
    BY <1>1 DEF DeliveryInv, TickInv
  <2>4. copies \in [Rows -> Nat] /\ refusals \in [Rows -> Nat] /\ leaked \in Nat
    BY DEF DeliveryInv, TypeOK
  <2> QED
    BY <1>1, <1>5, <2>1, <2>2, <2>3, <2>4, MidTick DEF history
<1>12. CASE HandOver(r)
  <2>1. /\ worker.pc = "handing"
        /\ worker' = [worker EXCEPT !.pc = "inFlight"]
        /\ UNCHANGED <<row, automation, view, confirmed, refusals>>
        /\ copies' = [copies EXCEPT ![r] = @ + 1]
        /\ leaked' \in {leaked, leaked + 1}
    BY <1>12 DEF HandOver, At
  <2>2. copies[r] <= confirmed[r]
    BY <1>1, <2>1 DEF DeliveryInv, TickInv
  <2>3. /\ copies' \in [Rows -> Nat] /\ refusals \in [Rows -> Nat]
        /\ leaked' \in Nat /\ copies'[r] = copies[r] + 1
        /\ \A q \in Rows : q # r => copies'[q] = copies[q]
    BY <2>1 DEF DeliveryInv, TypeOK
  <2>4. copies'[r] > 0 /\ copies'[r] <= confirmed[r] + 1
    BY <1>2, <2>2, <2>3
  <2> QED
    BY <1>1, <2>1, <2>3, <2>4, MidTick DEF Unstamped, Stamped
<1>13. CASE AnswerRefused(r)
  <2>1. /\ worker.pc = "inFlight"
        /\ worker' = [worker EXCEPT !.pc = "refused"]
        /\ UNCHANGED <<row, automation, view, confirmed, leaked>>
        /\ copies' = [copies EXCEPT ![r] = @ - 1]
        /\ refusals' = [refusals EXCEPT ![r] = @ + 1]
    BY <1>13 DEF AnswerRefused, At
  <2>2. copies[r] > 0
    BY <1>1, <2>1 DEF DeliveryInv, TickInv
  <2>3. /\ copies' \in [Rows -> Nat] /\ refusals' \in [Rows -> Nat]
        /\ leaked \in Nat /\ copies'[r] = copies[r] - 1
        /\ \A q \in Rows : q # r => copies'[q] = copies[q]
    BY <2>1, <2>2, <1>2 DEF DeliveryInv, TypeOK
  <2>4. copies'[r] <= confirmed[r]
    BY <1>2, <1>5, <2>3
  <2>5. copies'[r] <= confirmed[r] + 1
    BY <1>2, <2>3, <2>4
  <2> QED
    BY <1>1, <2>1, <2>3, <2>4, <2>5, MidTick DEF Unstamped, Stamped
<1>14. CASE Stamp(r)
  <2>1. /\ worker.pc = "checks"
        /\ worker' = [worker EXCEPT !.pc = "handing"]
        /\ UNCHANGED <<automation, view, history>>
        /\ row' = [row EXCEPT ![r].stamped = TRUE, ![r].old = FALSE]
    BY <1>14 DEF Stamp, At
  <2>2. /\ worker' \in Ticks /\ worker'.pc = "handing" /\ worker'.row = r
        /\ worker'.attempts = worker.attempts
    BY <1>1, <1>2, <2>1 DEF Ticks, Stamped
  <2>3. row' \in [Rows -> RowRecords]
    <3>1. [row[r] EXCEPT !.stamped = TRUE, !.old = FALSE] \in RowRecords
      BY <1>2 DEF RowRecords
    <3>2. row' = [row EXCEPT ![r] = [row[r] EXCEPT !.stamped = TRUE, !.old = FALSE]]
      BY <2>1 DEF DeliveryInv, TypeOK
    <3> QED
      BY <3>1, <3>2 DEF DeliveryInv, TypeOK
  <2>4. TypeOK'
    BY <2>1, <2>2, <2>3 DEF DeliveryInv, TypeOK, history
  <2>5. /\ row'[r].status = "PROCESSING" /\ row'[r].stamped /\ ~row'[r].old
        /\ row'[r].uncertain = row[r].uncertain /\ row'[r].attempts = row[r].attempts
        /\ row'[r].retries = row[r].retries /\ row'[r].resolution = row[r].resolution
        /\ \A q \in Rows : q # r => row'[q] = row[q]
    BY <1>2, <2>1 DEF DeliveryInv, TypeOK, RowRecords
  <2>6. copies[r] <= confirmed[r]
    BY <1>4, <2>1 DEF Unstamped
  <2>7. ASSUME NEW q \in Rows PROVE RowInv(q)'
    <3>1. CASE q = r
      BY <1>2, <1>3, <2>1, <2>5, <2>6, <3>1 DEF DeliveryInv, RowInv, history, CannotHaveArrived
    <3>2. CASE q # r
      BY <2>1, <2>5, <3>2 DEF DeliveryInv, RowInv, CannotHaveArrived, history
    <3> QED
      BY <3>1, <3>2
  <2>8. TickInv'
    BY <1>1, <2>1, <2>2, <2>5, <2>6 DEF DeliveryInv, TickInv, Stamped, history
  <2>9. \A o \in Operators : ViewInv(o)'
    BY <1>2, <2>1, <2>5, ViewsKept DEF Settled, FailedStatuses
  <2> QED
    BY <2>4, <2>7, <2>8, <2>9 DEF DeliveryInv
<1> QED
  BY <1>6, <1>7, <1>8, <1>9, <1>10, <1>11, <1>12, <1>13, <1>14 DEF Tick

(* Enqueue, Claim and CancelQueued write one row, which recovery and the   *)
(* dashboard's views do not hold, with nothing known to have arrived.      *)
LEMMA QueueKeepsDelivery ==
  ASSUME DeliveryInv, NEW r \in Rows, Enqueue(r) \/ Claim(r) \/ CancelQueued(r)
  PROVE  DeliveryInv'
<1>1. PICK s \in {"PENDING", "PROCESSING", "CANCELLED"} :
        /\ Settle(r, s)
        /\ row[r].status \in {"ABSENT", "PENDING"}
        /\ s = "PROCESSING" <=> Claim(r)
  BY DEF Enqueue, Claim, CancelQueued
<1> DEFINE n == [row[r] EXCEPT !.status = s, !.old = FALSE]
<1>2. row[r] \in RowRecords /\ row \in [Rows -> RowRecords]
  BY DEF DeliveryInv, TypeOK
<1>3. /\ n \in RowRecords /\ n.status = s /\ n.uncertain = row[r].uncertain
      /\ n.stamped = row[r].stamped /\ n.retries = row[r].retries
      /\ n.resolution = row[r].resolution /\ n.old = FALSE /\ n.attempts = row[r].attempts
  BY <1>2 DEF RowRecords, Statuses, Queued
<1>4. row' = [row EXCEPT ![r] = n]
  BY <1>1, <1>2 DEF Settle
<1> HIDE DEF n
<1>5. row' \in [Rows -> RowRecords] /\ row'[r] = n /\ \A q \in Rows : q # r => row'[q] = row[q]
  BY <1>2, <1>3, <1>4
<1>6. UNCHANGED <<automation, view, history>>
  BY DEF Enqueue, Claim, CancelQueued
<1>7. /\ ~row[r].stamped /\ ~row[r].uncertain /\ row[r].resolution = "NONE"
      /\ copies[r] <= confirmed[r]
  BY <1>1 DEF DeliveryInv, RowInv, CannotHaveArrived, Settled, FailedStatuses
<1>8. ASSUME NEW q \in Rows PROVE RowInv(q)'
  <2>1. CASE q # r
    BY <1>5, <1>6, <2>1 DEF DeliveryInv, RowInv, CannotHaveArrived, history
  <2>2. CASE q = r
    BY <1>3, <1>5, <1>6, <1>7, <2>2 DEF DeliveryInv, RowInv, CannotHaveArrived, history
  <2> QED
    BY <2>1, <2>2
<1>9. \A o \in Operators : ViewInv(o)'
  BY <1>1, <1>3, <1>5, <1>6, ViewsKept DEF Settled, FailedStatuses
<1>10. CASE Claim(r)
  <2>1. worker' = [pc |-> "resolve", row |-> r, attempts |-> row[r].attempts]
    BY <1>10 DEF Claim
  <2>2. worker' \in Ticks
    BY <1>2, <2>1 DEF Ticks, Unstamped, RowRecords
  <2>3. TypeOK'
    BY <1>5, <1>6, <2>2 DEF DeliveryInv, TypeOK, history
  <2>4. TickInv'
    BY <1>1, <1>3, <1>5, <1>7, <1>10, <2>1 DEF TickInv, Stamped
  <2> QED
    BY <1>8, <1>9, <2>3, <2>4 DEF DeliveryInv
<1>11. CASE ~Claim(r)
  <2>1. UNCHANGED worker
    BY <1>11 DEF Enqueue, CancelQueued
  <2>2. TypeOK'
    BY <1>5, <1>6, <2>1 DEF DeliveryInv, TypeOK, history
  <2>3. worker.pc # "idle" => worker.row \in Rows /\ worker.row # r
    BY <1>1, BusyTick DEF DeliveryInv, TickInv, Ticks
  <2>4. TickInv'
    BY <1>5, <1>6, <2>1, <2>3 DEF DeliveryInv, TickInv, history
  <2> QED
    BY <1>8, <1>9, <2>2, <2>4 DEF DeliveryInv
<1> QED
  BY <1>10, <1>11

LEMMA DropKeepsDelivery ==
  ASSUME DeliveryInv, TickThrows \/ Crash
  PROVE  DeliveryInv'
<1>1. worker' = Idle /\ UNCHANGED <<row, automation, view, history>>
  BY DEF TickThrows, Crash
<1>2. TypeOK'
  BY <1>1 DEF DeliveryInv, TypeOK, history
<1>3. \A r \in Rows : RowInv(r)'
  BY <1>1 DEF DeliveryInv, RowInv, CannotHaveArrived, history
<1>4. TickInv'
  BY <1>1 DEF TickInv, Idle
<1>5. \A o \in Operators : ViewInv(o)'
  BY <1>1 DEF DeliveryInv, ViewInv
<1> QED
  BY <1>2, <1>3, <1>4, <1>5 DEF DeliveryInv

LEMMA SwitchKeepsDelivery ==
  ASSUME DeliveryInv, Pause \/ Resume
  PROVE  DeliveryInv'
<1>1. /\ UNCHANGED <<row, worker, view, copies, confirmed, refusals>>
      /\ automation' \in BOOLEAN /\ leaked' = 0
  BY DEF Pause, Resume
<1>2. TypeOK'
  BY <1>1 DEF DeliveryInv, TypeOK
<1>3. \A r \in Rows : RowInv(r)'
  BY <1>1 DEF DeliveryInv, RowInv, CannotHaveArrived
<1>4. TickInv'
  BY <1>1 DEF DeliveryInv, TickInv
<1>5. \A o \in Operators : ViewInv(o)'
  BY <1>1 DEF DeliveryInv, ViewInv
<1> QED
  BY <1>2, <1>3, <1>4, <1>5 DEF DeliveryInv

(* Aging and recovery: rows no tick holds, changed by the clock or by the  *)
(* two sweeping updates.                                                   *)
LEMMA RecoveryKeepsDelivery ==
  ASSUME DeliveryInv, (\E r \in Rows : Age(r)) \/ HoldStranded \/ RequeueStranded
  PROVE  DeliveryInv'
<1>1. UNCHANGED <<worker, automation, view, history>>
  BY DEF Age, HoldStranded, RequeueStranded
<1>2. row \in [Rows -> RowRecords]
  BY DEF DeliveryInv, TypeOK
<1>3. ASSUME NEW q \in Rows
      PROVE  /\ row'[q] \in RowRecords
             /\ row'[q].retries = row[q].retries
             /\ row'[q].resolution = row[q].resolution
             /\ row'[q] # row[q] => /\ row[q].status = "PROCESSING" /\ ~(Working(q) /\ ~row[q].old)
                /\ \/ /\ row'[q].status = "PROCESSING" /\ row'[q].stamped = row[q].stamped
                      /\ row'[q].uncertain = row[q].uncertain
                   \/ row'[q].status = "FAILED" /\ row'[q].uncertain
                   \/ /\ row'[q].status = "PENDING" /\ ~row'[q].stamped /\ ~row[q].stamped
                      /\ row'[q].uncertain = row[q].uncertain
  <2>1. CASE \E r \in Rows : Age(r)
    <3>1. PICK r \in Rows : Age(r)
      BY <2>1
    <3> QED
      BY <1>2, <3>1 DEF Age, RowRecords
  <2>2. CASE HoldStranded
    BY <1>2, <2>2 DEF HoldStranded, Stranded, RowRecords, Statuses, FailedStatuses
  <2>3. CASE RequeueStranded
    BY <1>2, <2>3 DEF RequeueStranded, Stranded, RowRecords, Statuses, Queued
  <2> QED
    BY <2>1, <2>2, <2>3
<1>4. row' \in [Rows -> RowRecords]
  <2>1. row' = [q \in Rows |-> row'[q]]
    BY <1>2 DEF Age, HoldStranded, RequeueStranded
  <2> QED
    BY <1>3, <2>1
<1>5. TypeOK'
  BY <1>1, <1>4 DEF DeliveryInv, TypeOK, history
<1>6. ASSUME NEW q \in Rows PROVE RowInv(q)'
  <2>1. CASE row'[q] = row[q]
    BY <1>1, <2>1 DEF DeliveryInv, RowInv, CannotHaveArrived, history
  <2>2. CASE row'[q] # row[q]
    BY <1>1, <1>3, <2>2 DEF DeliveryInv, RowInv, CannotHaveArrived, Settled, FailedStatuses, history
  <2> QED
    BY <2>1, <2>2
<1>7. TickInv'
  <2>1. worker.pc # "idle" => worker.row \in Rows /\ row'[worker.row] = row[worker.row]
    BY <1>3, BusyTick DEF DeliveryInv, TickInv, Ticks, Working
  <2> QED
    BY <1>1, <2>1 DEF DeliveryInv, TickInv, history
<1>8. \A o \in Operators : ViewInv(o)'
  BY <1>1, <1>3, ViewsKept DEF Settled, FailedStatuses
<1> QED
  BY <1>5, <1>6, <1>7, <1>8 DEF DeliveryInv

(* A dashboard request reads a row.                                        *)
LEMMA OpenKeepsDelivery ==
  ASSUME DeliveryInv, NEW o \in Operators, NEW r \in Rows,
         NEW act \in {"RETRY", "RESOLVE", "CLOSE", "REOPEN"},
         \/ act = "RETRY" /\ OpenRetry(o, r)
         \/ act # "RETRY" /\ OpenSettle(o, r, act)
  PROVE  DeliveryInv'
<1>1. Read(o, r, act) /\ UNCHANGED <<row, worker, automation, history>>
  BY DEF OpenRetry, OpenSettle
<1> DEFINE v == [act |-> act, row |-> r, status |-> row[r].status,
                 retries |-> row[r].retries, uncertain |-> row[r].uncertain,
                 resolution |-> row[r].resolution]
<1>2. view' = [view EXCEPT ![o] = v]
  BY <1>1 DEF Read
<1>3. v \in Views
  BY DEF Views, DeliveryInv, TypeOK, RowRecords
<1>4. TypeOK'
  BY <1>1, <1>2, <1>3 DEF DeliveryInv, TypeOK, history
<1>5. \A q \in Rows : RowInv(q)'
  BY <1>1 DEF DeliveryInv, RowInv, CannotHaveArrived, history
<1>6. TickInv'
  BY <1>1 DEF DeliveryInv, TickInv, history
<1>7. act # "REOPEN" => FailedReplyState(r) = "FAILED"
  BY DEF OpenRetry, OpenSettle, MayRetry, MaySettle
<1>8. FailedReplyState(r) = "FAILED" => row[r].status \in Settled
  <2>1. row[r] \in RowRecords
    BY DEF DeliveryInv, TypeOK
  <2> QED
    BY <2>1, ConstantsAssumption DEF FailedReplyState, RowRecords, Statuses, Settled,
      Queued, FailedStatuses, DeliveryInv, RowInv
<1>9. ASSUME NEW p \in Operators PROVE ViewInv(p)'
  <2>1. CASE p # o
    <3>1. view'[p] = view[p]
      BY <1>2, <2>1 DEF DeliveryInv, TypeOK
    <3> QED
      BY <1>1, <3>1 DEF DeliveryInv, ViewInv
  <2>2. CASE p = o
    <3>1. view'[p] = v
      BY <1>2, <2>2 DEF DeliveryInv, TypeOK
    <3>2. act = "RETRY" => row[r].retries < MaxManualRetries
      BY DEF OpenRetry, OpenSettle, MayRetry
    <3>3. row[r].retries <= row[r].retries
      BY DEF DeliveryInv, TypeOK, RowRecords
    <3> QED
      BY <1>1, <1>7, <1>8, <3>1, <3>2, <3>3 DEF ViewInv
  <2> QED
    BY <2>1, <2>2
<1> QED
  BY <1>4, <1>5, <1>6, <1>9 DEF DeliveryInv

(* A dashboard request that changes nothing but its own view.              *)
LEMMA CloseKeepsDelivery ==
  ASSUME DeliveryInv, NEW o \in Operators, view' = [view EXCEPT ![o] = NoView],
         UNCHANGED <<row, worker, automation, history>>
  PROVE  DeliveryInv'
<1>1. TypeOK'
  BY DEF DeliveryInv, TypeOK, history
<1>2. \A q \in Rows : RowInv(q)'
  BY DEF DeliveryInv, RowInv, CannotHaveArrived, history
<1>3. TickInv'
  BY DEF DeliveryInv, TickInv, history
<1>4. ASSUME NEW p \in Operators PROVE ViewInv(p)'
  <2>1. view'[p] = view[p] \/ view'[p] = NoView
    BY DEF DeliveryInv, TypeOK
  <2> QED
    BY <2>1 DEF DeliveryInv, ViewInv, NoView
<1> QED
  BY <1>1, <1>2, <1>3, <1>4 DEF DeliveryInv

(* The conditional update of a retry: only the row that was read goes back *)
(* to the queue, with the confirmation its uncertainty asked for.          *)
LEMMA CommitRetryKeepsDelivery ==
  ASSUME DeliveryInv, NEW o \in Operators, CommitRetry(o)
  PROVE  DeliveryInv'
<1> DEFINE v == view[o]
           r == v.row
           n == Requeued(r)
<1>1. /\ v \in Views /\ r \in Rows /\ row[r] \in RowRecords
      /\ row \in [Rows -> RowRecords]
      /\ copies[r] \in Nat /\ confirmed[r] \in Nat
  BY OpenView DEF CommitRetry, DeliveryInv, TypeOK, Views
<1>2. /\ row[r].status = v.status /\ v.status \in Settled
      /\ row[r].retries = v.retries /\ v.retries < MaxManualRetries
      /\ row[r].uncertain = v.uncertain /\ row[r].resolution = "NONE"
  BY DEF CommitRetry, StillAsRead, DeliveryInv, ViewInv
<1>3. /\ row' = [row EXCEPT ![r] = n]
      /\ confirmed' = [confirmed EXCEPT ![r] = IF v.uncertain THEN @ + 1 ELSE @]
      /\ refusals' = [refusals EXCEPT ![r] = 0]
      /\ view' = [view EXCEPT ![o] = NoView]
      /\ UNCHANGED <<worker, automation, copies, leaked>>
  BY <1>1 DEF CommitRetry
<1>4. /\ n \in RowRecords /\ n.status = "PENDING" /\ ~n.stamped /\ ~n.uncertain
      /\ n.retries = row[r].retries + 1 /\ n.resolution = row[r].resolution
  <2>1. row[r].retries + 1 \in Nat
    BY <1>1 DEF RowRecords
  <2> QED
    BY <1>1, <2>1 DEF Requeued, RowRecords, Statuses, Queued
<1> HIDE DEF v, r, n
<1>5. /\ row' \in [Rows -> RowRecords] /\ row'[r] = n
      /\ \A q \in Rows : q # r => row'[q] = row[q] /\ confirmed'[q] = confirmed[q]
  BY <1>1, <1>3, <1>4 DEF DeliveryInv, TypeOK
<1>6. copies[r] <= confirmed'[r] /\ confirmed'[r] \in Nat
  <2>1. v.uncertain => confirmed'[r] = confirmed[r] + 1
    BY <1>1, <1>3 DEF DeliveryInv, TypeOK
  <2>2. ~v.uncertain => confirmed'[r] = confirmed[r]
    BY <1>1, <1>3 DEF DeliveryInv, TypeOK
  <2>3. copies[r] <= confirmed[r] + 1
    BY <1>1 DEF DeliveryInv, RowInv
  <2>4. ~v.uncertain => copies[r] <= confirmed[r]
    BY <1>1, <1>2 DEF DeliveryInv, RowInv, CannotHaveArrived
  <2> QED
    BY <1>1, <2>1, <2>2, <2>3, <2>4
<1>7. TypeOK'
  <2>1. confirmed' \in [Rows -> Nat]
    BY <1>3, <1>5, <1>6 DEF DeliveryInv, TypeOK
  <2>2. refusals' \in [Rows -> Nat] /\ view' \in [Operators -> Views \cup {NoView}]
    BY <1>1, <1>3 DEF DeliveryInv, TypeOK
  <2> QED
    BY <1>3, <1>5, <2>1, <2>2 DEF DeliveryInv, TypeOK
<1>8. ASSUME NEW q \in Rows PROVE RowInv(q)'
  <2>1. CASE q # r
    BY <1>3, <1>5, <2>1 DEF DeliveryInv, RowInv, CannotHaveArrived
  <2>2. CASE q = r
    <3>1. n.retries <= MaxManualRetries
      BY <1>1, <1>2, <1>4, ConstantsAssumption DEF RowRecords
    <3>2. copies[r] <= confirmed'[r] + 1
      BY <1>1, <1>6
    <3> QED
      BY <1>2, <1>3, <1>4, <1>5, <1>6, <2>2, <3>1, <3>2 DEF RowInv
  <2> QED
    BY <2>1, <2>2
<1>9. TickInv'
  <2>1. worker.pc # "idle" => worker.row \in Rows /\ worker.row # r
    BY <1>2, BusyTick DEF DeliveryInv, TickInv, Ticks, Settled, FailedStatuses
  <2> QED
    BY <1>3, <1>5, <2>1 DEF DeliveryInv, TickInv
<1>10. ASSUME NEW p \in Operators PROVE ViewInv(p)'
  <2>1. CASE p = o
    BY <1>3, <2>1 DEF ViewInv, NoView, DeliveryInv, TypeOK
  <2>2. CASE p # o
    <3>1. view'[p] = view[p]
      BY <1>3, <2>2 DEF DeliveryInv, TypeOK
    <3>2. CASE view[p].act # "RETRY"
      BY <3>1, <3>2 DEF DeliveryInv, ViewInv
    <3>3. CASE view[p].act = "RETRY"
      <4>1. view[p] \in Views /\ view[p].row \in Rows /\ view[p].retries \in Nat
        BY <3>3, OpenView DEF DeliveryInv, Views
      <4>2. CASE view[p].row # r
        BY <1>5, <3>1, <4>1, <4>2 DEF DeliveryInv, ViewInv
      <4>3. CASE view[p].row = r
        <5>1. view[p].retries <= row[r].retries
          BY <3>3, <4>3 DEF DeliveryInv, ViewInv
        <5>2. row'[r].retries = row[r].retries + 1 /\ row[r].retries \in Nat
          BY <1>1, <1>4, <1>5 DEF RowRecords
        <5>3. view[p].retries <= row'[r].retries /\ view[p].retries # row'[r].retries
          BY <4>1, <5>1, <5>2
        <5> QED
          BY <3>1, <3>3, <4>3, <5>3 DEF DeliveryInv, ViewInv
      <4> QED
        BY <4>2, <4>3
    <3> QED
      BY <3>2, <3>3
  <2> QED
    BY <2>1, <2>2
<1> QED
  BY <1>7, <1>8, <1>9, <1>10 DEF DeliveryInv

(* Resolve, close, reopen: only the resolution of a row at rest changes.   *)
LEMMA CommitSettleKeepsDelivery ==
  ASSUME DeliveryInv, NEW o \in Operators, CommitSettle(o)
  PROVE  DeliveryInv'
<1> DEFINE v == view[o]
           r == v.row
<1>1. /\ v \in Views /\ r \in Rows /\ row[r] \in RowRecords
      /\ row \in [Rows -> RowRecords]
  BY OpenView DEF CommitSettle, DeliveryInv, TypeOK, Views
<1>2. /\ view' = [view EXCEPT ![o] = NoView]
      /\ UNCHANGED <<worker, automation, history>>
  BY DEF CommitSettle
<1>3. CASE row' = row
  BY <1>2, <1>3, CloseKeepsDelivery
<1>4. CASE row' # row
  <2>1. PICK s \in {"NONE", "RESOLVED", "CLOSED"} :
          /\ row' = [row EXCEPT ![r].resolution = s, ![r].old = FALSE]
          /\ row[r].status = v.status
          /\ s # "NONE" => v.status \in Settled
    BY <1>4 DEF CommitSettle, DeliveryInv, ViewInv
  <2> DEFINE n == [row[r] EXCEPT !.resolution = s, !.old = FALSE]
  <2>2. row' = [row EXCEPT ![r] = n]
    BY <1>1, <2>1
  <2>3. /\ n \in RowRecords /\ n.status = row[r].status /\ n.stamped = row[r].stamped
        /\ n.uncertain = row[r].uncertain /\ n.retries = row[r].retries
        /\ n.attempts = row[r].attempts /\ n.resolution = s /\ n.old = FALSE
    BY <1>1 DEF RowRecords
  <2> HIDE DEF n, v, r
  <2>4. /\ row' \in [Rows -> RowRecords] /\ row'[r] = n
        /\ \A q \in Rows : q # r => row'[q] = row[q]
    BY <1>1, <2>2, <2>3
  <2>5. TypeOK'
    BY <1>2, <2>4 DEF DeliveryInv, TypeOK, history
  <2>6. ASSUME NEW q \in Rows PROVE RowInv(q)'
    <3>1. CASE q = r
      BY <1>2, <2>1, <2>3, <2>4, <3>1 DEF DeliveryInv, RowInv, CannotHaveArrived, history
    <3>2. CASE q # r
      BY <1>2, <2>4, <3>2 DEF DeliveryInv, RowInv, CannotHaveArrived, history
    <3> QED
      BY <3>1, <3>2
  <2>7. TickInv'
    <3>1. CASE worker.pc = "idle"
      BY <1>2, <3>1 DEF TickInv
    <3>2. CASE worker.pc # "idle"
      <4>1. worker.row \in Rows
        BY <3>2, BusyTick DEF DeliveryInv, Ticks
      <4>2. /\ row'[worker.row].status = row[worker.row].status
            /\ row'[worker.row].stamped = row[worker.row].stamped
            /\ row'[worker.row].attempts = row[worker.row].attempts
            /\ ~row[worker.row].old => ~row'[worker.row].old
        BY <2>3, <2>4, <4>1
      <4> QED
        BY <1>2, <3>2, <4>2 DEF DeliveryInv, TickInv, history
    <3> QED
      BY <3>1, <3>2
  <2>8. ASSUME NEW p \in Operators PROVE ViewInv(p)'
    <3>1. view'[p] = view[p] \/ view'[p] = NoView
      BY <1>2 DEF DeliveryInv, TypeOK
    <3>2. CASE view'[p] = NoView
      BY <3>2 DEF ViewInv, NoView
    <3>3. CASE view'[p] = view[p] /\ view[p].act # "NONE"
      <4>1. view[p].row \in Rows
        BY <3>3, OpenView DEF DeliveryInv, Views
      <4>2. /\ row'[view[p].row].status = row[view[p].row].status
            /\ row'[view[p].row].uncertain = row[view[p].row].uncertain
            /\ row'[view[p].row].retries = row[view[p].row].retries
        BY <2>3, <2>4, <4>1
      <4> QED
        BY <3>3, <4>2 DEF DeliveryInv, ViewInv
    <3>4. CASE view'[p] = view[p] /\ view[p].act = "NONE"
      BY <3>4 DEF ViewInv
    <3> QED
      BY <3>1, <3>2, <3>3, <3>4
  <2> QED
    BY <2>5, <2>6, <2>7, <2>8 DEF DeliveryInv
<1> QED
  BY <1>3, <1>4

(* Every step of the queue keeps what the delivery properties rest on.     *)
LEMMA DeliveryInductive == DeliveryInv /\ [Next]_vars => DeliveryInv'
<1> SUFFICES ASSUME DeliveryInv, [Next]_vars PROVE DeliveryInv'
  OBVIOUS
<1>1. CASE UNCHANGED vars
  <2>1. TypeOK'
    BY <1>1 DEF vars, DeliveryInv, TypeOK
  <2>2. \A r \in Rows : RowInv(r)'
    BY <1>1 DEF vars, DeliveryInv, RowInv, CannotHaveArrived
  <2>3. TickInv'
    BY <1>1 DEF vars, DeliveryInv, TickInv
  <2>4. \A o \in Operators : ViewInv(o)'
    BY <1>1 DEF vars, DeliveryInv, ViewInv
  <2> QED
    BY <2>1, <2>2, <2>3, <2>4 DEF DeliveryInv
<1>2. ASSUME NEW r \in Rows, Enqueue(r) \/ Claim(r) \/ CancelQueued(r) PROVE DeliveryInv'
  BY <1>2, QueueKeepsDelivery
<1>3. ASSUME NEW r \in Rows, Tick(r) PROVE DeliveryInv'
  BY <1>3, TickKeepsDelivery
<1>4. CASE (\E r \in Rows : Age(r)) \/ HoldStranded \/ RequeueStranded
  BY <1>4, RecoveryKeepsDelivery
<1>5. CASE TickThrows \/ Crash
  BY <1>5, DropKeepsDelivery
<1>6. CASE Pause \/ Resume
  BY <1>6, SwitchKeepsDelivery
<1>7. ASSUME NEW o \in Operators, Person(o) PROVE DeliveryInv'
  <2>1. ASSUME NEW r \in Rows, OpenRetry(o, r) PROVE DeliveryInv'
    BY <2>1, OpenKeepsDelivery
  <2>2. ASSUME NEW r \in Rows, NEW act \in {"RESOLVE", "CLOSE", "REOPEN"},
               OpenSettle(o, r, act)
        PROVE DeliveryInv'
    BY <2>2, OpenKeepsDelivery
  <2>3. CASE CommitRetry(o)
    BY <2>3, CommitRetryKeepsDelivery
  <2>4. CASE RetryMissed(o)
    BY <2>4, CloseKeepsDelivery DEF RetryMissed
  <2>5. CASE CommitSettle(o)
    BY <2>5, CommitSettleKeepsDelivery
  <2> QED
    BY <1>7, <2>1, <2>2, <2>3, <2>4, <2>5 DEF Person
<1> QED
  BY <1>1, <1>2, <1>3, <1>4, <1>5, <1>6, <1>7 DEF Next

----------------------------------------------------------------------------
(* The kill switch and the retry budget, on top of it.                     *)

LEMMA InitLeakBudget == Init => LeakInv /\ BudgetInv
<1> SUFFICES ASSUME Init PROVE LeakInv /\ BudgetInv
  OBVIOUS
<1>1. LeakInv
  BY DEF Init, LeakInv, PastTheSwitch, Idle
<1>2. Budget \in Nat /\ 0 < Budget
  BY ConstantsAssumption DEF Budget
<1>3. ASSUME NEW r \in Rows
      PROVE  refusals[r] = 0 /\ row[r].attempts = 0 /\ ~At("refused", r)
  BY DEF Init, NewRow, At, Idle
<1>4. ASSUME NEW r \in Rows PROVE RowBudget(r)
  <2>1. refusals[r] = 0 /\ row[r].attempts = 0 /\ ~At("refused", r)
    BY <1>3
  <2> QED
    BY <1>2, <2>1 DEF RowBudget
<1> QED
  BY <1>1, <1>4 DEF BudgetInv

(* A tick gets past the kill switch with an automatic reply only while the *)
(* switch is on, and a reply leaks only at a hand-over.                    *)
LEMMA LeakInductive ==
  ASSUME DeliveryInv, LeakInv, [Next]_vars
  PROVE  LeakInv'
<1>1. leaked \in Nat /\ automation \in BOOLEAN /\ (worker \in Ticks \/ worker = Idle)
  BY DEF DeliveryInv, TypeOK
<1>2. CASE Pause \/ Resume
  BY <1>2 DEF Pause, Resume, LeakInv
<1>3. CASE /\ UNCHANGED <<leaked, automation>>
           /\ worker'.pc \in {"checks", "handing"} => worker' = worker
  BY <1>3 DEF LeakInv, PastTheSwitch
<1>4. ASSUME NEW r \in Rows, ReadKillSwitch(r) PROVE LeakInv'
  <2>1. UNCHANGED <<leaked, automation>> /\ At("resolve", r)
        /\ worker' = [worker EXCEPT !.pc = IF ~automation /\ IsAuto(r) THEN "cancel" ELSE "checks"]
    BY <1>4 DEF ReadKillSwitch, history
  <2>2. worker'.row = r /\ (~automation /\ IsAuto(r) => worker'.pc = "cancel")
    BY <1>1, <2>1 DEF At, Ticks, Idle
  <2> QED
    BY <2>1, <2>2 DEF LeakInv, PastTheSwitch
<1>5. ASSUME NEW r \in Rows, Stamp(r) PROVE LeakInv'
  <2>1. UNCHANGED <<leaked, automation>> /\ At("checks", r)
        /\ worker' = [worker EXCEPT !.pc = "handing"]
    BY <1>5 DEF Stamp, history
  <2>2. worker'.row = worker.row
    BY <1>1, <2>1 DEF At, Ticks, Idle
  <2> QED
    BY <2>1, <2>2 DEF LeakInv, PastTheSwitch, At
<1>6. ASSUME NEW r \in Rows, HandOver(r) PROVE LeakInv'
  <2>1. UNCHANGED automation /\ At("handing", r)
        /\ leaked' = (IF ~automation /\ IsAuto(r) THEN leaked + 1 ELSE leaked)
        /\ worker' = [worker EXCEPT !.pc = "inFlight"]
    BY <1>6 DEF HandOver
  <2>2. worker'.pc = "inFlight"
    BY <1>1, <2>1 DEF At, Ticks, Idle
  <2>3. ~automation /\ IsAuto(r) => leaked = 0
    BY <1>1, <2>1 DEF LeakInv, PastTheSwitch, At
  <2> QED
    BY <2>1, <2>2, <2>3 DEF LeakInv, PastTheSwitch
<1>7. ASSUME NEW r \in Rows, Tick(r) PROVE LeakInv'
  <2>1. CASE ReadKillSwitch(r) \/ Stamp(r) \/ HandOver(r)
    BY <1>4, <1>5, <1>6, <2>1
  <2>2. CASE AnswerAccepted(r) \/ AnswerRefused(r) \/ AnswerLost(r)
    <3>1. UNCHANGED <<leaked, automation>> /\ worker.pc # "idle"
          /\ \E pc \in {"accepted", "refused", "unknown"} : worker' = [worker EXCEPT !.pc = pc]
      BY <2>2 DEF AnswerAccepted, AnswerRefused, AnswerLost, At, history
    <3>2. worker'.pc \notin {"checks", "handing"}
      BY <1>1, <3>1 DEF Ticks, Idle
    <3> QED
      BY <1>3, <3>1, <3>2
  <2>3. CASE worker' = Idle /\ UNCHANGED <<leaked, automation>>
    BY <1>3, <2>3 DEF Idle
  <2> QED
    BY <1>7, <2>1, <2>2, <2>3 DEF Tick, RefuseForeign, DeferNotHeld, KillSwitchCancel,
      DeferForLimit, GiveUpForLimit, CooldownCancel, NotInChat, QuoteGone, RefuseContent,
      SettleSent, RetryLater, GiveUp, HoldUncertain, history
<1>8. ASSUME NEW r \in Rows, Claim(r) PROVE LeakInv'
  BY <1>3, <1>8 DEF Claim, history
<1>9. CASE TickThrows \/ Crash
  BY <1>3, <1>9 DEF TickThrows, Crash, Idle, history
<1>10. CASE UNCHANGED <<leaked, automation, worker>>
  BY <1>3, <1>10
<1> QED
  BY <1>2, <1>7, <1>8, <1>9, <1>10 DEF Next, vars, Enqueue, Age, CancelQueued, HoldStranded,
    RequeueStranded, Person, OpenRetry, CommitRetry, RetryMissed, OpenSettle, CommitSettle,
    history

(* What a step has to leave alone for a row to stay within its budget.     *)
Uncharged(q) ==
  /\ refusals'[q] = refusals[q]
  /\ row'[q].attempts >= row[q].attempts
  /\ MayBeHandedOver(q)' => MayBeHandedOver(q)
  /\ At("refused", q)' => At("refused", q) /\ worker' = worker

LEMMA UnchargedKeepsBudget ==
  ASSUME DeliveryInv, DeliveryInv', NEW q \in Rows, RowBudget(q), Uncharged(q)
  PROVE  RowBudget(q)'
<1>1. refusals[q] \in Nat /\ row[q].attempts \in Nat /\ row'[q].attempts \in Nat
  BY DEF DeliveryInv, TypeOK, RowRecords
<1> QED
  BY <1>1 DEF RowBudget, Uncharged, Budget

(* A step of a tick on r says nothing of any other row.                    *)
LEMMA OtherRowUncharged ==
  ASSUME DeliveryInv, DeliveryInv', NEW r \in Rows, NEW q \in Rows, q # r,
         row'[q] = row[q], refusals'[q] = refusals[q],
         worker' = Idle \/ worker'.row = r
  PROVE  Uncharged(q)
<1>1. row[q].attempts \in Nat
  BY DEF DeliveryInv, TypeOK, RowRecords
<1>2. ~At("handing", q)' /\ ~At("inFlight", q)' /\ ~At("refused", q)'
  BY DEF At, Idle
<1> QED
  BY <1>1, <1>2 DEF Uncharged, MayBeHandedOver

LEMMA TickKeepsBudget ==
  ASSUME DeliveryInv, DeliveryInv', BudgetInv, NEW r \in Rows, Tick(r)
  PROVE  BudgetInv'
<1>1. worker.pc # "idle" /\ worker.row = r
  BY DEF Tick, At, RefuseForeign, DeferNotHeld, ReadKillSwitch, KillSwitchCancel,
    DeferForLimit, GiveUpForLimit, CooldownCancel, NotInChat, QuoteGone, Stamp,
    RefuseContent, HandOver, AnswerAccepted, AnswerRefused, AnswerLost,
    SettleSent, RetryLater, GiveUp, HoldUncertain
<1>2. /\ worker \in Ticks /\ row[r] \in RowRecords /\ row \in [Rows -> RowRecords]
      /\ row[r].status = "PROCESSING" /\ row[r].attempts = worker.attempts
      /\ row[r].stamped <=> worker.pc \in Stamped
      /\ refusals \in [Rows -> Nat] /\ row[r].attempts \in Nat
  BY <1>1, TickFacts DEF DeliveryInv, TickInv, TypeOK, RowRecords
<1>3. /\ \A q \in Rows : q # r => row'[q] = row[q] /\ refusals'[q] = refusals[q]
      /\ worker' = Idle \/ worker'.row = r
  BY <1>1, <1>2 DEF Tick, At, RefuseForeign, DeferNotHeld, ReadKillSwitch, KillSwitchCancel,
    DeferForLimit, GiveUpForLimit, CooldownCancel, NotInChat, QuoteGone, Stamp,
    RefuseContent, HandOver, AnswerAccepted, AnswerRefused, AnswerLost,
    SettleSent, RetryLater, GiveUp, HoldUncertain, Settle, SettleCharged, history, Ticks
<1>4. ASSUME NEW q \in Rows, q # r PROVE RowBudget(q)'
  <2>1. Uncharged(q)
    BY <1>3, <1>4, OtherRowUncharged
  <2> QED
    BY <2>1, UnchargedKeepsBudget DEF BudgetInv
<1>5. RowBudget(r)
  BY DEF BudgetInv
<1>6. Uncharged(r) => RowBudget(r)'
  BY <1>5, UnchargedKeepsBudget
<1>7. ASSUME \/ RefuseForeign(r) \/ DeferNotHeld(r) \/ KillSwitchCancel(r)
             \/ GiveUpForLimit(r) \/ CooldownCancel(r) \/ NotInChat(r)
             \/ DeferForLimit(r) \/ QuoteGone(r)
      PROVE  RowBudget(r)'
  <2>1. worker.pc \in Unstamped /\ worker' = Idle /\ UNCHANGED refusals
    BY <1>7 DEF RefuseForeign, DeferNotHeld, KillSwitchCancel, GiveUpForLimit,
      CooldownCancel, NotInChat, DeferForLimit, QuoteGone, At, Unstamped, history
  <2>2. row'[r].attempts \in {row[r].attempts, row[r].attempts + 1}
    BY <1>2, <1>7 DEF RefuseForeign, DeferNotHeld, KillSwitchCancel, GiveUpForLimit,
      CooldownCancel, NotInChat, DeferForLimit, QuoteGone, Settle, SettleCharged, RowRecords
  <2>3. MayBeHandedOver(r)
    BY <1>2, <2>1 DEF MayBeHandedOver, Unstamped, Stamped
  <2> QED
    BY <1>2, <1>6, <2>1, <2>2, <2>3 DEF Uncharged, At, Idle
<1>8. ASSUME RefuseContent(r) \/ GiveUp(r) \/ SettleSent(r) \/ HoldUncertain(r)
      PROVE  RowBudget(r)'
  <2>1. worker' = Idle /\ UNCHANGED refusals
    BY <1>8 DEF RefuseContent, GiveUp, SettleSent, HoldUncertain, history
  <2>2. row'[r].status \in {"FAILED", "SENT"} /\ row'[r].attempts = row[r].attempts + 1
    BY <1>2, <1>8 DEF RefuseContent, GiveUp, SettleSent, HoldUncertain, SettleCharged, RowRecords
  <2>3. ~MayBeHandedOver(r)'
    BY <2>2 DEF MayBeHandedOver
  <2> QED
    BY <1>2, <1>6, <2>1, <2>2, <2>3 DEF Uncharged, At, Idle
<1>9. ASSUME RetryLater(r) PROVE RowBudget(r)'
  <2>1. /\ At("refused", r) /\ worker' = Idle /\ UNCHANGED refusals
        /\ worker.attempts + 1 < MaxAttempts /\ row'[r].attempts = worker.attempts + 1
    BY <1>2, <1>9 DEF RetryLater, history, RowRecords
  <2>2. refusals[r] <= worker.attempts + 1
    BY <1>5, <2>1 DEF RowBudget
  <2>3. Budget = MaxAttempts /\ MaxAttempts \in Nat
    BY <1>2, <2>1, ConstantsAssumption DEF Budget
  <2>4. refusals[r] < Budget
    BY <1>2, <2>1, <2>2, <2>3
  <2> QED
    BY <1>2, <2>1, <2>2, <2>3, <2>4 DEF RowBudget, At, Idle, Budget
<1>10. ASSUME \/ ReadKillSwitch(r) \/ AnswerAccepted(r) \/ AnswerLost(r)
              \/ HandOver(r) \/ Stamp(r)
       PROVE  RowBudget(r)'
  <2>1. /\ UNCHANGED refusals /\ row'[r].attempts = row[r].attempts
        /\ row'[r].status = row[r].status
    BY <1>2, <1>10 DEF ReadKillSwitch, AnswerAccepted, AnswerLost, HandOver, Stamp, history,
      RowRecords
  <2>2. worker'.pc \in {"cancel", "checks", "handing", "inFlight", "accepted", "unknown"}
    BY <1>2, <1>10 DEF ReadKillSwitch, AnswerAccepted, AnswerLost, HandOver, Stamp, Ticks
  <2>3. MayBeHandedOver(r)' => MayBeHandedOver(r)
    <3>1. CASE ReadKillSwitch(r)
      BY <1>2, <3>1 DEF ReadKillSwitch, MayBeHandedOver, At, Stamped
    <3>2. CASE AnswerAccepted(r) \/ AnswerLost(r)
      BY <1>2, <3>2 DEF AnswerAccepted, AnswerLost, MayBeHandedOver, At, Ticks
    <3>3. CASE HandOver(r)
      BY <1>2, <3>3 DEF HandOver, MayBeHandedOver, At
    <3>4. CASE Stamp(r)
      BY <1>2, <3>4 DEF Stamp, MayBeHandedOver, At, Stamped
    <3> QED
      BY <1>10, <3>1, <3>2, <3>3, <3>4
  <2> QED
    BY <1>2, <1>6, <2>1, <2>2, <2>3 DEF Uncharged, At
<1>11. ASSUME AnswerRefused(r) PROVE RowBudget(r)'
  <2>1. /\ At("inFlight", r) /\ UNCHANGED row /\ refusals'[r] = refusals[r] + 1
        /\ worker'.pc = "refused" /\ worker'.attempts = worker.attempts
    BY <1>2, <1>11 DEF AnswerRefused, Ticks
  <2>2. refusals[r] <= row[r].attempts /\ refusals[r] < Budget
    BY <1>2, <1>5, <2>1 DEF RowBudget, MayBeHandedOver
  <2>3. ~MayBeHandedOver(r)'
    BY <1>2, <2>1 DEF MayBeHandedOver, At, Stamped
  <2>4. Budget \in Nat /\ Budget' = Budget
    BY ConstantsAssumption DEF Budget
  <2>5. refusals'[r] <= Budget /\ refusals'[r] <= worker'.attempts + 1
    BY <1>2, <2>1, <2>2, <2>4
  <2> QED
    BY <2>3, <2>4, <2>5 DEF RowBudget
<1>12. RowBudget(r)'
  BY <1>7, <1>8, <1>9, <1>10, <1>11 DEF Tick
<1> QED
  BY <1>4, <1>12 DEF BudgetInv

LEMMA BudgetInductive ==
  ASSUME DeliveryInv, DeliveryInv', BudgetInv, [Next]_vars
  PROVE  BudgetInv'
<1>1. /\ row \in [Rows -> RowRecords] /\ row' \in [Rows -> RowRecords]
      /\ refusals \in [Rows -> Nat]
      /\ \A q \in Rows : row[q].attempts \in Nat
      /\ \A q \in Rows : row[q].status = "PENDING" => ~row[q].stamped
  BY DEF DeliveryInv, TypeOK, RowRecords, RowInv
<1>2. (\A q \in Rows : Uncharged(q)) => BudgetInv'
  BY UnchargedKeepsBudget DEF BudgetInv
<1>3. CASE UNCHANGED vars
  BY <1>1, <1>2, <1>3 DEF vars, Uncharged, MayBeHandedOver, At
<1>4. ASSUME NEW r \in Rows, Enqueue(r) \/ CancelQueued(r) PROVE BudgetInv'
  <2>1. UNCHANGED <<worker, refusals>> /\ row[r].status \in {"ABSENT", "PENDING"}
        /\ \E s \in Statuses : row' = [row EXCEPT ![r].status = s, ![r].old = FALSE]
    BY <1>4 DEF Enqueue, CancelQueued, Settle, history, Statuses, Queued
  <2>2. ASSUME NEW q \in Rows
        PROVE row'[q].attempts = row[q].attempts /\ (q # r => row'[q] = row[q])
    BY <1>1, <2>1 DEF RowRecords
  <2> QED
    BY <1>1, <1>2, <2>1, <2>2 DEF Uncharged, MayBeHandedOver, At
<1>5. ASSUME NEW r \in Rows, Claim(r) PROVE BudgetInv'
  <2>1. UNCHANGED refusals /\ row[r].status = "PENDING" /\ worker'.pc = "resolve"
        /\ row' = [row EXCEPT ![r].status = "PROCESSING", ![r].old = FALSE]
    BY <1>5 DEF Claim, Settle, history
  <2>2. ASSUME NEW q \in Rows
        PROVE row'[q].attempts = row[q].attempts /\ (q # r => row'[q] = row[q])
    BY <1>1, <2>1 DEF RowRecords
  <2> QED
    BY <1>1, <1>2, <2>1, <2>2 DEF Uncharged, MayBeHandedOver, At
<1>6. ASSUME NEW r \in Rows, Tick(r) PROVE BudgetInv'
  BY <1>6, TickKeepsBudget
<1>7. CASE (\E r \in Rows : Age(r)) \/ HoldStranded \/ RequeueStranded
  <2>1. UNCHANGED <<worker, refusals>>
    BY <1>7 DEF Age, HoldStranded, RequeueStranded, history
  <2>2. ASSUME NEW q \in Rows
        PROVE  /\ row'[q].attempts = row[q].attempts
               /\ MayBeHandedOver(q)' => MayBeHandedOver(q)
    <3>1. CASE \E r \in Rows : Age(r)
      <4>1. PICK r \in Rows : Age(r)
        BY <3>1
      <4>2. /\ row'[q].attempts = row[q].attempts /\ row'[q].status = row[q].status
            /\ row'[q].stamped = row[q].stamped
        BY <1>1, <4>1 DEF Age, RowRecords
      <4> QED
        BY <2>1, <4>2 DEF MayBeHandedOver, At
    <3>2. CASE HoldStranded
      <4>1. \/ row'[q] = row[q]
            \/ /\ row'[q].status = "FAILED"
               /\ row'[q].attempts = row[q].attempts
        BY <1>1, <3>2 DEF HoldStranded, RowRecords
      <4> QED
        BY <2>1, <4>1 DEF MayBeHandedOver, At
    <3>3. CASE RequeueStranded
      <4>1. CASE row[q].status = "PROCESSING" /\ ~row[q].stamped
        <5>1. row'[q].attempts = row[q].attempts
          BY <1>1, <3>3 DEF RequeueStranded, RowRecords
        <5> QED
          BY <4>1, <5>1 DEF MayBeHandedOver
      <4>2. CASE ~(row[q].status = "PROCESSING" /\ ~row[q].stamped)
        <5>1. row'[q] = row[q]
          BY <3>3, <4>2 DEF RequeueStranded, Stranded
        <5> QED
          BY <2>1, <5>1 DEF MayBeHandedOver, At
      <4> QED
        BY <4>1, <4>2
    <3> QED
      BY <1>7, <3>1, <3>2, <3>3
  <2> QED
    BY <1>1, <1>2, <2>1, <2>2 DEF Uncharged, At
<1>8. CASE TickThrows \/ Crash
  BY <1>1, <1>2, <1>8 DEF TickThrows, Crash, history, Uncharged, MayBeHandedOver, At, Idle
<1>9. CASE Pause \/ Resume
  BY <1>1, <1>2, <1>9 DEF Pause, Resume, Uncharged, MayBeHandedOver, At
<1>10. ASSUME NEW o \in Operators, Person(o) PROVE BudgetInv'
  <2>1. CASE UNCHANGED <<row, worker, refusals>>
    BY <1>1, <1>2, <2>1 DEF Uncharged, MayBeHandedOver, At
  <2>2. CASE CommitSettle(o)
    <3>1. UNCHANGED <<worker, refusals>>
      BY <2>2 DEF CommitSettle, history
    <3>2. ASSUME NEW q \in Rows
          PROVE  /\ row'[q].attempts = row[q].attempts /\ row'[q].status = row[q].status
                 /\ row'[q].stamped = row[q].stamped
      BY <1>1, <2>2 DEF CommitSettle, RowRecords
    <3> QED
      BY <1>1, <1>2, <3>1, <3>2 DEF Uncharged, MayBeHandedOver, At
  <2>3. CASE CommitRetry(o)
    <3>1. PICK r \in Rows : /\ r = view[o].row /\ row[r].status \in Settled
                           /\ row' = [row EXCEPT ![r] = Requeued(r)]
                           /\ refusals' = [refusals EXCEPT ![r] = 0]
                           /\ UNCHANGED worker
      BY <2>3, OpenView DEF CommitRetry, StillAsRead, DeliveryInv, ViewInv, Views
    <3>2. ASSUME NEW q \in Rows, q # r PROVE RowBudget(q)'
      <4>1. row'[q] = row[q] /\ refusals'[q] = refusals[q]
        BY <1>1, <3>1, <3>2
      <4>2. Uncharged(q)
        BY <1>1, <3>1, <4>1 DEF Uncharged, MayBeHandedOver, At
      <4> QED
        BY <4>2, UnchargedKeepsBudget DEF BudgetInv
    <3>3. RowBudget(r)'
      <4>1. refusals'[r] = 0 /\ row'[r].attempts \in Nat
        BY <1>1, <3>1 DEF RowRecords
      <4>2. ~At("refused", r)
        BY <3>1 DEF At, DeliveryInv, TickInv, Settled, FailedStatuses
      <4>3. ~At("refused", r)'
        BY <3>1, <4>2 DEF At
      <4>4. Budget \in Nat /\ 0 < Budget /\ Budget' = Budget
        BY ConstantsAssumption DEF Budget
      <4> QED
        BY <4>1, <4>3, <4>4 DEF RowBudget
    <3> QED
      BY <3>2, <3>3 DEF BudgetInv
  <2> QED
    BY <1>10, <2>1, <2>2, <2>3 DEF Person, OpenRetry, OpenSettle, RetryMissed, history
<1> QED
  BY <1>3, <1>4, <1>5, <1>6, <1>7, <1>8, <1>9, <1>10 DEF Next

----------------------------------------------------------------------------
LEMMA InitIInv == Init => IInv
  BY InitDelivery, InitLeakBudget DEF IInv

(* Every step of the queue keeps the invariant.                            *)
THEOREM Inductive == IInv /\ [Next]_vars => IInv'
<1> SUFFICES ASSUME IInv, [Next]_vars PROVE IInv'
  OBVIOUS
<1>1. DeliveryInv'
  BY DeliveryInductive DEF IInv
<1>2. LeakInv'
  BY LeakInductive DEF IInv
<1>3. BudgetInv'
  BY <1>1, BudgetInductive DEF IInv
<1> QED
  BY <1>1, <1>2, <1>3 DEF IInv

LEMMA SafetyFromIInv ==
  ASSUME IInv
  PROVE  TypeOK /\ NoUnconfirmedDuplicate /\ HonestStatus /\ SettledStaysUnsent
         /\ ManualRetriesBounded /\ PauseLeaksAtMostOne /\ RetryBudgetRespected
<1>1. TypeOK /\ PauseLeaksAtMostOne /\ RetryBudgetRespected
  BY DEF IInv, DeliveryInv, LeakInv, BudgetInv, RowBudget, PauseLeaksAtMostOne,
    RetryBudgetRespected
<1>2. ASSUME NEW r \in Rows
      PROVE  /\ copies[r] <= 1 + confirmed[r]
             /\ row[r].status = "SENT" => copies[r] > 0
             /\ row[r].status \in FailedStatuses \cup {"CANCELLED"} /\ ~row[r].uncertain
                  => copies[r] <= confirmed[r]
             /\ row[r].resolution # "NONE" => row[r].status \notin Queued
             /\ row[r].retries <= MaxManualRetries
  <2>1. copies[r] \in Nat /\ confirmed[r] \in Nat
    BY DEF IInv, DeliveryInv, TypeOK
  <2> QED
    BY <2>1 DEF IInv, DeliveryInv, RowInv, CannotHaveArrived, Settled, FailedStatuses, Queued
<1>3. ASSUME NEW r \in Rows, row[r].resolution # "NONE" PROVE ~Working(r)
  BY <1>2, <1>3 DEF IInv, DeliveryInv, TickInv, Working, Queued
<1> QED
  BY <1>1, <1>2, <1>3 DEF NoUnconfirmedDuplicate, HonestStatus, SettledStaysUnsent,
    ManualRetriesBounded

(* The invariant is one: it holds in every state of every behaviour.       *)
THEOREM Invariance == Spec => []IInv
  BY InitIInv, Inductive, PTL DEF Spec

(* Every variable keeps its type, whatever the size of the queue.          *)
THEOREM TypeCorrect == Spec => []TypeOK
<1>1. IInv => TypeOK
  BY SafetyFromIInv
<1> QED
  BY <1>1, Invariance, PTL

(* No customer receives a second copy without a person's confirmation.     *)
THEOREM AtMostOneCopy == Spec => []NoUnconfirmedDuplicate
<1>1. IInv => NoUnconfirmedDuplicate
  BY SafetyFromIInv
<1> QED
  BY <1>1, Invariance, PTL

(* SENT means accepted, and an unmarked failure means not sent.            *)
THEOREM StatusIsHonest == Spec => []HonestStatus
<1>1. IInv => HonestStatus
  BY SafetyFromIInv
<1> QED
  BY <1>1, Invariance, PTL

(* What a person settled is never in the queue or in a tick's hands.       *)
THEOREM SettledIsFinal == Spec => []SettledStaysUnsent
<1>1. IInv => SettledStaysUnsent
  BY SafetyFromIInv
<1> QED
  BY <1>1, Invariance, PTL

(* Racing retries never exceed the limit.                                  *)
THEOREM ManualRetryLimit == Spec => []ManualRetriesBounded
<1>1. IInv => ManualRetriesBounded
  BY SafetyFromIInv
<1> QED
  BY <1>1, Invariance, PTL

(* After a pause at most one automatic reply is still handed over.         *)
THEOREM PauseHolds == Spec => []PauseLeaksAtMostOne
<1>1. IInv => PauseLeaksAtMostOne
  BY SafetyFromIInv
<1> QED
  BY <1>1, Invariance, PTL

(* Refusals stay within the retry budget, whatever requeues a row.         *)
THEOREM BudgetHolds == Spec => []RetryBudgetRespected
<1>1. IInv => RetryBudgetRespected
  BY SafetyFromIInv
<1> QED
  BY <1>1, Invariance, PTL
----------------------------------------------------------------------------
(* The queue implements the abstract promise of ReplyDelivery: each step   *)
(* is one of its steps or leaves it unchanged.                             *)

LEMMA SameColumnsSameFate ==
  ASSUME NEW q \in Rows,
         row'[q].status = row[q].status \/ {row[q].status, row'[q].status} \subseteq Queued,
         row'[q].uncertain = row[q].uncertain
  PROVE  FateOf(q)' = FateOf(q)
  BY DEF FateOf, Queued

LEMMA FatesKept ==
  ASSUME \A q \in Rows : FateOf(q)' = FateOf(q), UNCHANGED <<copies, confirmed>>
  PROVE  UNCHANGED Delivery!vars
  BY DEF Delivery!vars

(* A step that rewrites the columns of one row moves the fate of that row. *)
LEMMA OneFate ==
  ASSUME NEW r \in Rows, NEW f, FateOf(r)' = f,
         \A q \in Rows : q # r => row'[q] = row[q]
  PROVE  Delivery!Become(r, f)
<1>1. \A q \in Rows : q # r => FateOf(q)' = FateOf(q)
  BY DEF FateOf
<1> QED
  BY <1>1 DEF Delivery!Become, Delivery!BecomeAll

LEMMA InitRefines == Init => Delivery!Init
<1> SUFFICES ASSUME Init PROVE Delivery!Init
  OBVIOUS
<1>1. ASSUME NEW r \in Rows PROVE FateOf(r) = "none"
  <2>1. row[r].status = "ABSENT"
    BY DEF Init, NewRow
  <2> QED
    BY <2>1 DEF FateOf, Queued
<1> QED
  BY <1>1 DEF Init, Delivery!Init

LEMMA TickRefines ==
  ASSUME DeliveryInv, NEW r \in Rows, Tick(r)
  PROVE  Delivery!Next \/ UNCHANGED Delivery!vars
<1>1. worker.pc # "idle" /\ worker.row = r
  BY DEF Tick, At, RefuseForeign, DeferNotHeld, ReadKillSwitch, KillSwitchCancel,
    DeferForLimit, GiveUpForLimit, CooldownCancel, NotInChat, QuoteGone, Stamp,
    RefuseContent, HandOver, AnswerAccepted, AnswerRefused, AnswerLost,
    SettleSent, RetryLater, GiveUp, HoldUncertain
<1>2. /\ worker \in Ticks /\ row[r] \in RowRecords /\ row \in [Rows -> RowRecords]
      /\ row[r].status = "PROCESSING" /\ ~row[r].uncertain
      /\ row[r].stamped <=> worker.pc \in Stamped
      /\ copies \in [Rows -> Nat] /\ confirmed \in [Rows -> Nat]
  BY <1>1, TickFacts DEF DeliveryInv, TickInv, TypeOK, RowInv
<1>3. FateOf(r) = "open"
  BY <1>2 DEF FateOf, Queued
<1>4. worker.pc \in Unstamped \cup {"handing", "refused"} => copies[r] <= confirmed[r]
  BY <1>1, <1>2 DEF DeliveryInv, RowInv, CannotHaveArrived, TickInv, Unstamped, Stamped
<1>5. worker.pc \in {"inFlight", "accepted"} => copies[r] > 0
  BY <1>1 DEF DeliveryInv, TickInv
<1>6. ASSUME UNCHANGED <<copies, confirmed>>, \A q \in Rows : q # r => row'[q] = row[q],
             row'[r].status \in Queued, row'[r].uncertain = row[r].uncertain
      PROVE  UNCHANGED Delivery!vars
  BY <1>2, <1>6, SameColumnsSameFate, FatesKept DEF Queued
<1>7. ASSUME \/ DeferNotHeld(r) \/ DeferForLimit(r) \/ ReadKillSwitch(r) \/ Stamp(r)
             \/ AnswerAccepted(r) \/ AnswerLost(r) \/ RetryLater(r)
      PROVE  UNCHANGED Delivery!vars
  <2>1. UNCHANGED <<copies, confirmed>> /\ \A q \in Rows : q # r => row'[q] = row[q]
    BY <1>2, <1>7 DEF DeferNotHeld, DeferForLimit, ReadKillSwitch, Stamp, AnswerAccepted,
      AnswerLost, RetryLater, Settle, SettleCharged, history
  <2>2. row'[r].status \in Queued /\ row'[r].uncertain = row[r].uncertain
    BY <1>2, <1>7 DEF DeferNotHeld, DeferForLimit, ReadKillSwitch, Stamp, AnswerAccepted,
      AnswerLost, RetryLater, Settle, SettleCharged, RowRecords, Queued
  <2> QED
    BY <1>6, <2>1, <2>2
<1>8. ASSUME \/ RefuseForeign(r) \/ KillSwitchCancel(r) \/ GiveUpForLimit(r)
             \/ CooldownCancel(r) \/ NotInChat(r) \/ QuoteGone(r)
             \/ RefuseContent(r) \/ GiveUp(r)
      PROVE  Delivery!GiveUp({r})
  <2>1. /\ UNCHANGED <<copies, confirmed>> /\ \A q \in Rows : q # r => row'[q] = row[q]
        /\ worker.pc \in Unstamped \cup {"handing", "refused"}
    BY <1>2, <1>8 DEF RefuseForeign, KillSwitchCancel, GiveUpForLimit, CooldownCancel,
      NotInChat, QuoteGone, RefuseContent, GiveUp, Settle, SettleCharged, history, At, Unstamped
  <2>2. row'[r].status \in Settled /\ row'[r].uncertain = row[r].uncertain
    BY <1>2, <1>8 DEF RefuseForeign, KillSwitchCancel, GiveUpForLimit, CooldownCancel,
      NotInChat, QuoteGone, RefuseContent, GiveUp, Settle, SettleCharged, RowRecords,
      Settled, FailedStatuses
  <2>3. FateOf(r)' = "notSent"
    BY <1>2, <2>2 DEF FateOf, Queued, Settled, FailedStatuses
  <2> QED
    BY <1>3, <1>4, <2>1, <2>3, OneFate DEF Delivery!Become, Delivery!GiveUp, Delivery!Accounted
<1>9. ASSUME HandOver(r) \/ AnswerRefused(r)
      PROVE  Delivery!HandOver(r) \/ Delivery!Refused(r)
  <2>1. UNCHANGED <<row, confirmed>>
    BY <1>9 DEF HandOver, AnswerRefused, history
  <2>2. [q \in Rows |-> FateOf(q)]' = [q \in Rows |-> FateOf(q)]
    BY <2>1 DEF FateOf
  <2>3. CASE HandOver(r)
    BY <1>3, <1>4, <2>1, <2>2, <2>3 DEF HandOver, At, Delivery!HandOver, Delivery!Accounted
  <2>4. CASE AnswerRefused(r)
    BY <1>3, <1>5, <2>1, <2>2, <2>4 DEF AnswerRefused, At, Delivery!Refused
  <2> QED
    BY <1>9, <2>3, <2>4
<1>10. ASSUME SettleSent(r) PROVE Delivery!Sent(r)
  <2>1. /\ UNCHANGED <<copies, confirmed>> /\ \A q \in Rows : q # r => row'[q] = row[q]
        /\ row'[r].status = "SENT" /\ worker.pc = "accepted"
    BY <1>2, <1>10 DEF SettleSent, SettleCharged, history, At, RowRecords
  <2>2. FateOf(r)' = "sent"
    BY <2>1 DEF FateOf, Queued
  <2> QED
    BY <1>3, <1>5, <2>1, <2>2, OneFate DEF Delivery!Sent
<1>11. ASSUME HoldUncertain(r) PROVE Delivery!LoseTrack({r})
  <2>1. /\ UNCHANGED <<copies, confirmed>> /\ \A q \in Rows : q # r => row'[q] = row[q]
        /\ row'[r].status = "FAILED" /\ row'[r].uncertain
    BY <1>2, <1>11 DEF HoldUncertain, history, RowRecords
  <2>2. FateOf(r)' = "unknown" /\ \A q \in Rows : q # r => FateOf(q)' = FateOf(q)
    BY <2>1 DEF FateOf, Queued
  <2> QED
    BY <1>3, <2>1, <2>2 DEF Delivery!LoseTrack, Delivery!BecomeAll
<1> QED
  BY <1>7, <1>8, <1>9, <1>10, <1>11 DEF Tick, Delivery!Next

(* A retry reopens a row whose fate is the one its view carries: known not *)
(* to have arrived, or unknown and vouched for.                            *)
LEMMA RetryRefines ==
  ASSUME DeliveryInv, NEW o \in Operators, CommitRetry(o)
  PROVE  Delivery!Next
<1>1. PICK r \in Rows :
        /\ r = view[o].row /\ row[r].status \in Settled
        /\ row[r].uncertain = view[o].uncertain
        /\ row' = [row EXCEPT ![r] = Requeued(r)]
        /\ confirmed' = [confirmed EXCEPT ![r] = IF view[o].uncertain THEN @ + 1 ELSE @]
        /\ UNCHANGED copies
  BY OpenView DEF CommitRetry, StillAsRead, DeliveryInv, ViewInv, Views
<1>2. /\ row \in [Rows -> RowRecords] /\ row[r] \in RowRecords
      /\ confirmed \in [Rows -> Nat] /\ (row[r].uncertain => row[r].status = "FAILED")
  BY DEF DeliveryInv, TypeOK, RowInv
<1>3. /\ row'[r].status = "PENDING" /\ \A q \in Rows : q # r => row'[q] = row[q]
  BY <1>1, <1>2 DEF Requeued, RowRecords
<1>4. FateOf(r)' = "open"
  BY <1>3 DEF FateOf, Queued
<1>5. Delivery!Become(r, "open")
  BY <1>3, <1>4, OneFate
<1>6. CASE row[r].uncertain
  <2>1. FateOf(r) = "unknown"
    BY <1>2, <1>6 DEF FateOf, Queued
  <2> QED
    BY <1>1, <1>2, <1>5, <1>6, <2>1 DEF Delivery!VouchAndTryAgain, Delivery!Next
<1>7. CASE ~row[r].uncertain
  <2>1. FateOf(r) = "notSent"
    BY <1>1, <1>7 DEF FateOf, Queued, Settled, FailedStatuses
  <2>2. confirmed' = confirmed
    BY <1>1, <1>2, <1>7
  <2> QED
    BY <1>1, <1>5, <2>1, <2>2 DEF Delivery!Become, Delivery!TryAgain, Delivery!Next
<1> QED
  BY <1>2, <1>6, <1>7 DEF RowRecords

LEMMA StepRefines ==
  ASSUME DeliveryInv, [Next]_vars
  PROVE  [Delivery!Next]_(Delivery!vars)
<1>1. row \in [Rows -> RowRecords] /\ \A q \in Rows : RowInv(q)
  BY DEF DeliveryInv, TypeOK
<1>2. ASSUME UNCHANGED <<row, copies, confirmed>> PROVE UNCHANGED Delivery!vars
  BY <1>2, FatesKept DEF FateOf
<1>3. ASSUME NEW r \in Rows, Enqueue(r) PROVE Delivery!Next
  <2>1. /\ UNCHANGED <<copies, confirmed>> /\ \A q \in Rows : q # r => row'[q] = row[q]
        /\ row[r].status = "ABSENT" /\ row'[r].status = "PENDING"
    BY <1>1, <1>3 DEF Enqueue, Settle, history, RowRecords
  <2>2. FateOf(r) = "none" /\ FateOf(r)' = "open"
    BY <2>1 DEF FateOf, Queued
  <2> QED
    BY <2>1, <2>2, OneFate DEF Delivery!Accept, Delivery!Next
<1>4. ASSUME NEW r \in Rows, CancelQueued(r) PROVE Delivery!Next
  <2>1. /\ UNCHANGED <<copies, confirmed>> /\ \A q \in Rows : q # r => row'[q] = row[q]
        /\ row[r].status = "PENDING" /\ row'[r].status = "CANCELLED"
        /\ row'[r].uncertain = row[r].uncertain
    BY <1>1, <1>4 DEF CancelQueued, Settle, history, RowRecords
  <2>2. copies[r] <= confirmed[r]
    BY <1>1, <2>1 DEF RowInv, CannotHaveArrived
  <2>3. FateOf(r) = "open" /\ FateOf(r)' = "notSent"
    BY <2>1 DEF FateOf, Queued
  <2>4. Delivery!GiveUp({r})
    BY <2>1, <2>2, <2>3, OneFate DEF Delivery!Become, Delivery!GiveUp, Delivery!Accounted
  <2> QED
    BY <2>4 DEF Delivery!Next
<1>5. ASSUME NEW r \in Rows, Claim(r) \/ Age(r) PROVE UNCHANGED Delivery!vars
  <2>1. /\ UNCHANGED <<copies, confirmed>> /\ \A q \in Rows : q # r => row'[q] = row[q]
        /\ {row[r].status, row'[r].status} \subseteq Queued
        /\ row'[r].uncertain = row[r].uncertain
    BY <1>1, <1>5 DEF Claim, Age, Settle, history, RowRecords, Queued
  <2> QED
    BY <2>1, SameColumnsSameFate, FatesKept
<1>6. CASE RequeueStranded
  <2>1. UNCHANGED <<copies, confirmed>>
    BY <1>6 DEF RequeueStranded, history
  <2>2. ASSUME NEW q \in Rows PROVE FateOf(q)' = FateOf(q)
    <3>1. \/ row'[q] = row[q]
          \/ /\ {row[q].status, row'[q].status} \subseteq Queued
             /\ row'[q].uncertain = row[q].uncertain
      BY <1>1, <1>6 DEF RequeueStranded, Stranded, RowRecords, Queued
    <3> QED
      BY <3>1, SameColumnsSameFate
  <2> QED
    BY <2>1, <2>2, FatesKept
<1>7. CASE HoldStranded
  <2> DEFINE lost == {r \in Rows : Stranded(r) /\ row[r].stamped}
  <2>1. /\ UNCHANGED <<copies, confirmed>>
        /\ row' = [r \in Rows |-> IF r \in lost
             THEN [row[r] EXCEPT !.status = "FAILED", !.uncertain = TRUE, !.old = FALSE]
             ELSE row[r]]
    BY <1>7 DEF HoldStranded, history
  <2>2. ASSUME NEW q \in Rows
        PROVE  /\ q \in lost => FateOf(q) = "open" /\ FateOf(q)' = "unknown"
               /\ q \notin lost => FateOf(q)' = FateOf(q)
    <3>1. CASE q \in lost
      <4>1. /\ row[q].status = "PROCESSING" /\ row'[q].status = "FAILED"
            /\ row'[q].uncertain
        BY <1>1, <2>1, <3>1 DEF Stranded, RowRecords
      <4> QED
        BY <3>1, <4>1 DEF FateOf, Queued
    <3>2. CASE q \notin lost
      <4>1. row'[q] = row[q]
        BY <2>1, <3>2
      <4> QED
        BY <3>2, <4>1, SameColumnsSameFate
    <3> QED
      BY <3>1, <3>2
  <2>3. lost \in SUBSET Rows
    OBVIOUS
  <2> HIDE DEF lost
  <2>4. Delivery!LoseTrack(lost)
    BY <2>1, <2>2, <2>3 DEF Delivery!LoseTrack, Delivery!BecomeAll
  <2> QED
    BY <2>3, <2>4 DEF Delivery!Next
<1>8. ASSUME NEW o \in Operators, CommitSettle(o) PROVE UNCHANGED Delivery!vars
  <2>1. UNCHANGED <<copies, confirmed>>
    BY <1>8 DEF CommitSettle, history
  <2>2. ASSUME NEW q \in Rows
        PROVE row'[q].status = row[q].status /\ row'[q].uncertain = row[q].uncertain
    BY <1>1, <1>8 DEF CommitSettle, RowRecords
  <2> QED
    BY <2>1, <2>2, SameColumnsSameFate, FatesKept
<1>9. ASSUME NEW o \in Operators, Person(o)
      PROVE  Delivery!Next \/ UNCHANGED Delivery!vars
  BY <1>2, <1>8, <1>9, RetryRefines DEF Person, OpenRetry, OpenSettle, RetryMissed, history
<1>10. CASE UNCHANGED vars \/ TickThrows \/ Crash \/ Pause \/ Resume
  BY <1>2, <1>10 DEF vars, TickThrows, Crash, Pause, Resume, history
<1>11. ASSUME NEW r \in Rows, Tick(r)
       PROVE  Delivery!Next \/ UNCHANGED Delivery!vars
  BY <1>11, TickRefines
<1> QED
  BY <1>3, <1>4, <1>5, <1>6, <1>7, <1>9, <1>10, <1>11 DEF Next

(* Every behaviour of the queue, crashes and dashboard races included, is  *)
(* one that the at-most-once promise of ReplyDelivery allows.              *)
THEOREM QueueImplementsDelivery == Spec => ImplementsReplyDelivery
<1>1. IInv /\ [Next]_vars => [Delivery!Next]_(Delivery!vars)
  BY StepRefines DEF IInv
<1> QED
  BY <1>1, InitRefines, Invariance, PTL DEF Spec, ImplementsReplyDelivery, Delivery!Spec
============================================================================
