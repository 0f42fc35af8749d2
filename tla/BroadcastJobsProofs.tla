------------------------- MODULE BroadcastJobsProofs -------------------------
(***************************************************************************)
(* Safety of group broadcasts for any number of jobs, rows and dashboard   *)
(* requests, any retry limit and any number of faults.                     *)
(***************************************************************************)
EXTENDS BroadcastJobsRefinement, TLAPS

LEMMA InitIInv == Init => IInv
<1> SUFFICES ASSUME Init PROVE IInv
  OBVIOUS
<1>1. TypeOK
  BY BroadcastConstants DEF Init, TypeOK, JobRecords, JobStatuses, StopStatuses, NewJob,
    RowRecords, RowStatuses, Active, NewRow, Idle, NoRequest
<1>2. ASSUME NEW r \in Rows PROVE RowInv(r)
  <2>1. row[r] = NewRow /\ copies[r] = 0
    BY DEF Init
  <2> QED
    BY <2>1 DEF NewRow, RowInv
<1>3. TickInv
  BY DEF Init, TickInv, Idle, Unstamped, Undecided
<1>4. LateInv
  BY DEF Init, LateInv
<1> QED
  BY <1>1, <1>2, <1>3, <1>4 DEF IInv

(* A row record that says the truth about a row with c possible copies.    *)
Truthful(n, c) ==
  /\ n.uncertain => n.status = "FAILED"
  /\ n.status \in {"ABSENT", "PENDING"} => ~n.stamped
  /\ \/ n.status \notin Active \cup {"SENT"} /\ ~n.uncertain
     \/ n.status = "PENDING"
     \/ n.status = "PROCESSING" /\ ~n.stamped
     => c = 0
  /\ n.status = "SENT" => c = 1

(* Rows stay as the invariant has them when each that changes is truthful. *)
LEMMA RowsKept ==
  ASSUME IInv, UNCHANGED copies,
         \A r \in Rows : row'[r] = row[r] \/ Truthful(row'[r], copies[r])
  PROVE  \A r \in Rows : RowInv(r)'
  BY DEF IInv, RowInv, CannotHaveArrived, Truthful

(* No step but Stop makes a job stopped, and a tick passes the check of    *)
(* its job only while that is not stopped: then late hand-overs stay as    *)
(* they are bounded.                                                       *)
LEMMA LateKept ==
  ASSUME IInv, UNCHANGED late,
         \A j \in Jobs : Stopped(j)' => Stopped(j),
         \A j \in Jobs : PastTheCheck(j)' => PastTheCheck(j) \/ ~Stopped(j)
  PROVE  LateInv'
  BY DEF IInv, LateInv

LEMMA StopFacts ==
  ASSUME IInv, NEW js \in SUBSET Jobs, NEW status \in StopStatuses, NEW except,
         Stop(js, status, except),
         \A j \in Jobs : PastTheCheck(j)' => PastTheCheck(j)
  PROVE  /\ LateInv' /\ job' \in [Jobs -> JobRecords] /\ late' \in [Jobs -> Nat]
         /\ firm' \subseteq Jobs
<1>1. job' \in [Jobs -> JobRecords]
  BY DEF Stop, IInv, TypeOK, JobRecords, JobStatuses, StopStatuses
<1>2. late' \in [Jobs -> Nat]
  BY DEF Stop, IInv, TypeOK
<1>3. ASSUME NEW j \in Jobs
      PROVE  late'[j] <= 1 /\ (Stopped(j)' /\ late'[j] = 1 => ~PastTheCheck(j)')
  <2>1. \/ job'[j] = job[j] /\ late'[j] = late[j]
        \/ late'[j] = 0
    BY DEF Stop
  <2> QED
    BY <2>1 DEF IInv, LateInv, Stopped
<1>4. firm' \subseteq Jobs
  BY DEF Stop, IInv, TypeOK
<1> QED
  BY <1>1, <1>2, <1>3, <1>4 DEF LateInv

(* The last write a tick makes to its row: from here on the row is not in  *)
(* the tick's hands.                                                       *)
LEMMA RowSettled ==
  ASSUME IInv, NEW r \in Rows, NEW n \in RowRecords,
         row' = [row EXCEPT ![r] = n], Truthful(n, copies[r]),
         worker' \in Ticks \cup {Idle},
         worker'.pc \in Settling \cup {"idle"},
         UNCHANGED <<job, request, automation, faults, history>>
  PROVE  IInv'
<1>1. /\ row' \in [Rows -> RowRecords]
      /\ row'[r] = n /\ \A q \in Rows \ {r} : row'[q] = row[q]
  BY DEF IInv, TypeOK
<1>2. TypeOK'
  BY <1>1 DEF IInv, TypeOK, history
<1>3. \A q \in Rows : RowInv(q)'
  BY <1>1, RowsKept DEF history
<1>4. TickInv'
  BY DEF TickInv, Settling, Unstamped, Undecided
<1>5. LateInv'
  BY LateKept DEF history, PastTheCheck, Stopped, Settling
<1> QED
  BY <1>2, <1>3, <1>4, <1>5 DEF IInv

(* A step of somebody else, or the end of a tick: it touches no row that a *)
(* tick which goes on still holds.                                         *)
LEMMA Bystander ==
  ASSUME IInv, row' \in [Rows -> RowRecords], job' \in [Jobs -> JobRecords],
         request' \in [Dashboards -> JobRequests \cup KillRequests \cup {NoRequest}],
         automation' \in BOOLEAN, faults' \in 0 .. MaxFaults, late' \in [Jobs -> Nat],
         firm' \subseteq Jobs, UNCHANGED copies, LateInv', worker' \in {worker, Idle},
         \A r \in Rows : row'[r] = row[r] \/ Truthful(row'[r], copies[r]),
         worker' = worker =>
           \A r \in Rows : Working(r) /\ row[r].status = "PROCESSING" /\ ~row[r].old
                             => row'[r] = row[r]
  PROVE  IInv'
<1>1. TypeOK'
  BY DEF IInv, TypeOK
<1>2. \A r \in Rows : RowInv(r)'
  BY RowsKept
<1>3. TickInv'
  <2>1. CASE worker' = Idle
    BY <2>1 DEF TickInv, Idle, Unstamped, Undecided
  <2>2. CASE worker' = worker
    <3>1. SUFFICES ASSUME worker.pc \in Unstamped \cup Undecided PROVE TickInv'
      BY <2>2 DEF TickInv
    <3>2. worker.pc # "idle" /\ worker.row \in Rows
      BY <3>1 DEF IInv, TypeOK, Ticks, Idle, Unstamped, Undecided
    <3>3. row'[worker.row] = row[worker.row]
      BY <2>2, <3>1, <3>2 DEF IInv, TickInv, Working
    <3> QED
      BY <2>2, <3>1, <3>3 DEF IInv, TickInv
  <2> QED
    BY <2>1, <2>2
<1> QED
  BY <1>1, <1>2, <1>3 DEF IInv

(* What the invariant says of a tick on r, with types.                     *)
LEMMA TickFacts ==
  ASSUME IInv, NEW r \in Rows, worker.pc # "idle", worker.row = r
  PROVE  /\ worker \in Ticks /\ worker.attempts + 1 \in Nat
         /\ row \in [Rows -> RowRecords] /\ row[r] \in RowRecords
         /\ row[r].attempts + 1 \in Nat
         /\ copies \in [Rows -> Nat] /\ copies[r] \in {0, 1}
         /\ JobOf[r] \in Jobs
         /\ worker.pc \in Unstamped \cup Undecided =>
              row[r].status = "PROCESSING" /\ ~row[r].uncertain
         /\ worker.pc \in Unstamped => ~row[r].stamped /\ copies[r] = 0
         /\ worker.pc = "refused" => copies[r] = 0
         /\ worker.pc = "accepted" => copies[r] = 1
<1>1. worker \in Ticks /\ worker.attempts + 1 \in Nat
  BY DEF IInv, TypeOK, Idle, Ticks
<1>2. row \in [Rows -> RowRecords] /\ row[r] \in RowRecords /\ row[r].attempts + 1 \in Nat
  BY DEF IInv, TypeOK, RowRecords
<1>3. copies \in [Rows -> Nat] /\ copies[r] \in {0, 1}
  BY DEF IInv, TypeOK, RowInv
<1>4. JobOf[r] \in Jobs
  BY BroadcastConstants
<1>5. worker.pc \in Unstamped \cup Undecided =>
        row[r].status = "PROCESSING" /\ ~row[r].uncertain
  BY DEF IInv, TickInv, RowInv
<1>6. worker.pc \in Unstamped => ~row[r].stamped /\ copies[r] = 0
  <2>1. worker.pc \in Unstamped => worker.pc \notin Undecided
    BY DEF Unstamped, Undecided
  <2> QED
    BY <2>1 DEF IInv, TickInv, RowInv, CannotHaveArrived
<1>7. /\ worker.pc = "refused" => copies[r] = 0
      /\ worker.pc = "accepted" => copies[r] = 1
  BY DEF IInv, TickInv, Undecided
<1> QED
  BY <1>1, <1>2, <1>3, <1>4, <1>5, <1>6, <1>7

(* The steps of a tick that write a final or a queued status to its row.   *)
LEMMA SettlingKeepsIInv ==
  ASSUME IInv, NEW r \in Rows, worker.pc # "idle", worker.row = r,
         \/ RefuseForeign(r) \/ DeferNotHeld(r) \/ KillSwitchCancel(r)
         \/ StoppedCancel(r) \/ DeferForJobCap(r) \/ GiveUpForLimit(r)
         \/ SkipNotMember(r) \/ SettleSent(r) \/ RetryLater(r) \/ GiveUp(r)
         \/ HoldUncertain(r)
  PROVE  IInv'
<1>1. CASE \/ RefuseForeign(r) \/ DeferNotHeld(r) \/ KillSwitchCancel(r)
           \/ StoppedCancel(r) \/ DeferForJobCap(r) \/ GiveUpForLimit(r)
           \/ SkipNotMember(r)
  <2>1. PICK s \in {"PENDING", "FAILED", "CANCELLED", "RATE_LIMITED", "SKIPPED"} :
          Settle(r, s) /\ worker.pc \in Unstamped
    BY <1>1 DEF RefuseForeign, DeferNotHeld, KillSwitchCancel, StoppedCancel,
      DeferForJobCap, GiveUpForLimit, SkipNotMember, At, Unstamped
  <2> DEFINE n == [row[r] EXCEPT !.status = s, !.old = FALSE]
  <2>2. row' = [row EXCEPT ![r] = n]
    BY <2>1, TickFacts DEF Settle
  <2>3. n \in RowRecords /\ Truthful(n, copies[r])
    BY <2>1, TickFacts DEF RowRecords, RowStatuses, Active, Truthful
  <2>4. \/ worker' = Idle
        \/ \E pc \in Settling : worker' = [worker EXCEPT !.pc = pc, !.caught = FALSE]
    BY <1>1 DEF RefuseForeign, DeferNotHeld, KillSwitchCancel, StoppedCancel,
      DeferForJobCap, GiveUpForLimit, SkipNotMember, GotoSettling, Settling
  <2>5. worker' \in Ticks \cup {Idle} /\ worker'.pc \in Settling \cup {"idle"}
    <3>1. CASE worker' = Idle
      BY <3>1 DEF Idle
    <3>2. ASSUME NEW pc \in Settling, worker' = [worker EXCEPT !.pc = pc, !.caught = FALSE]
          PROVE  worker' \in Ticks /\ worker'.pc = pc
      BY <3>2, TickFacts DEF Ticks
    <3> QED
      BY <2>4, <3>1, <3>2
  <2>6. UNCHANGED <<job, request, automation, faults, history>>
    BY <1>1 DEF RefuseForeign, DeferNotHeld, KillSwitchCancel, StoppedCancel,
      DeferForJobCap, GiveUpForLimit, SkipNotMember
  <2> HIDE DEF n
  <2> QED
    BY <2>2, <2>3, <2>5, <2>6, RowSettled
<1>2. CASE SettleSent(r)
  <2> DEFINE n == [row[r] EXCEPT !.status = "SENT", !.attempts = @ + 1, !.old = FALSE]
  <2>1. row' = [row EXCEPT ![r] = n]
    BY <1>2, TickFacts DEF SettleSent
  <2>2. n \in RowRecords /\ Truthful(n, copies[r])
    BY <1>2, TickFacts DEF SettleSent, At, RowRecords, RowStatuses, Active, Truthful, Undecided
  <2>3. /\ worker' \in Ticks \cup {Idle} /\ worker'.pc \in Settling \cup {"idle"}
        /\ UNCHANGED <<job, request, automation, faults, history>>
    BY <1>2, TickFacts DEF SettleSent, GotoSettling, Settling, Ticks
  <2> HIDE DEF n
  <2> QED
    BY <2>1, <2>2, <2>3, RowSettled
<1>3. CASE RetryLater(r)
  <2> DEFINE n == [row[r] EXCEPT !.status = "PENDING", !.stamped = FALSE,
                                 !.attempts = worker.attempts + 1, !.old = FALSE]
  <2>1. row' = [row EXCEPT ![r] = n]
    BY <1>3, TickFacts DEF RetryLater
  <2>2. n \in RowRecords /\ Truthful(n, copies[r])
    BY <1>3, TickFacts DEF RetryLater, At, RowRecords, RowStatuses, Active, Truthful, Undecided
  <2>3. /\ worker' \in Ticks \cup {Idle} /\ worker'.pc \in Settling \cup {"idle"}
        /\ UNCHANGED <<job, request, automation, faults, history>>
    BY <1>3 DEF RetryLater, Idle
  <2> HIDE DEF n
  <2> QED
    BY <2>1, <2>2, <2>3, RowSettled
<1>4. CASE GiveUp(r)
  <2> DEFINE n == [row[r] EXCEPT !.status = "FAILED", !.attempts = worker.attempts + 1,
                                 !.old = FALSE]
  <2>1. row' = [row EXCEPT ![r] = n]
    BY <1>4, TickFacts DEF GiveUp
  <2>2. n \in RowRecords /\ Truthful(n, copies[r])
    BY <1>4, TickFacts DEF GiveUp, At, RowRecords, RowStatuses, Active, Truthful, Undecided
  <2>3. /\ worker' \in Ticks \cup {Idle} /\ worker'.pc \in Settling \cup {"idle"}
        /\ UNCHANGED <<job, request, automation, faults, history>>
    BY <1>4, TickFacts DEF GiveUp, GotoSettling, Settling, Ticks
  <2> HIDE DEF n
  <2> QED
    BY <2>1, <2>2, <2>3, RowSettled
<1>5. CASE HoldUncertain(r)
  <2> DEFINE n == [row[r] EXCEPT !.status = "FAILED", !.uncertain = TRUE,
                                 !.attempts = worker.attempts + 1, !.old = FALSE]
  <2>1. row' = [row EXCEPT ![r] = n]
    BY <1>5, TickFacts DEF HoldUncertain
  <2>2. n \in RowRecords /\ Truthful(n, copies[r])
    BY TickFacts DEF RowRecords, RowStatuses, Active, Truthful
  <2>3. /\ worker' \in Ticks \cup {Idle} /\ worker'.pc \in Settling \cup {"idle"}
        /\ UNCHANGED <<job, request, automation, faults, history>>
    BY <1>5, TickFacts DEF HoldUncertain, GotoSettling, Settling, Ticks
  <2> HIDE DEF n
  <2> QED
    BY <2>1, <2>2, <2>3, RowSettled
<1> QED
  BY <1>1, <1>2, <1>3, <1>4, <1>5

(* The steps of a tick that only move it on.                               *)
LEMMA MovingKeepsIInv ==
  ASSUME IInv, NEW r \in Rows, worker.pc # "idle", worker.row = r,
         \/ ReadKillSwitch(r) \/ ReadJob(r) \/ AnswerAccepted(r)
         \/ AnswerLost(r) \/ LookAtJob(r) \/ CountActive(r)
  PROVE  IInv'
<1>1. UNCHANGED <<job, row, request, automation, faults, history>>
  BY DEF ReadKillSwitch, ReadJob, AnswerAccepted, AnswerLost, LookAtJob, CountActive
<1>2. \/ worker' = Idle
      \/ \E pc \in Unstamped \cup Undecided \cup Settling \cup {"unknown"} :
           /\ worker' = [worker EXCEPT !.pc = pc]
           /\ pc \in Unstamped => worker.pc \in Unstamped
           /\ pc \in Undecided => pc = "accepted" /\ worker.pc = "inFlight"
           /\ pc = "limits" => ~Stopped(JobOf[r])
           /\ pc # "member"
  BY DEF ReadKillSwitch, ReadJob, AnswerAccepted, AnswerLost, LookAtJob, CountActive,
    Goto, At, Unstamped, Undecided, Settling
<1>3. TypeOK'
  <2>1. worker' \in Ticks \cup {Idle}
    BY <1>2, TickFacts DEF Ticks
  <2> QED
    BY <1>1, <2>1 DEF IInv, TypeOK, history
<1>4. \A q \in Rows : RowInv(q)'
  BY <1>1, RowsKept DEF history
<1>5. TickInv'
  <2>1. CASE worker' = Idle
    BY <2>1 DEF TickInv, Idle, Unstamped, Undecided
  <2>2. CASE worker' # Idle
    <3>1. PICK pc \in Unstamped \cup Undecided \cup Settling \cup {"unknown"} :
            /\ worker' = [worker EXCEPT !.pc = pc]
            /\ pc \in Unstamped => worker.pc \in Unstamped
            /\ pc \in Undecided => pc = "accepted" /\ worker.pc = "inFlight"
      BY <1>2, <2>2
    <3>2. worker'.pc = pc /\ worker'.row = r
      BY <3>1, TickFacts DEF Ticks
    <3>3. CASE pc \in Unstamped
      <4>1. pc \notin Undecided /\ worker.pc \notin Undecided
        BY <3>1, <3>3 DEF Unstamped, Undecided
      <4>2. pc \notin {"handing", "refused", "inFlight", "accepted"}
        BY <3>3 DEF Unstamped
      <4> QED
        BY <1>1, <3>1, <3>2, <3>3, <4>1, <4>2 DEF IInv, TickInv
    <3>4. CASE pc \in Undecided
      BY <1>1, <3>1, <3>2, <3>4 DEF IInv, TickInv, Undecided, history
    <3>5. CASE pc \notin Unstamped \cup Undecided
      BY <3>2, <3>5 DEF TickInv
    <3> QED
      BY <3>3, <3>4, <3>5
  <2> QED
    BY <2>1, <2>2
<1>6. LateInv'
  <2>1. \A j \in Jobs : PastTheCheck(j)' => PastTheCheck(j) \/ ~Stopped(j)
    BY <1>2, TickFacts DEF PastTheCheck, Idle, Ticks, Unstamped, Undecided, Settling
  <2>2. \A j \in Jobs : Stopped(j)' => Stopped(j)
    BY <1>1 DEF Stopped
  <2> QED
    BY <1>1, <2>1, <2>2, LateKept DEF history
<1> QED
  BY <1>3, <1>4, <1>5, <1>6 DEF IInv

(* Stamping the row, handing it over, and a refusal.                       *)
LEMMA HandingKeepsIInv ==
  ASSUME IInv, NEW r \in Rows, worker.pc # "idle", worker.row = r,
         Stamp(r) \/ HandOver(r) \/ AnswerRefused(r)
  PROVE  IInv'
<1>1. PICK pc \in {"handing", "inFlight", "refused"} :
        /\ worker' = [worker EXCEPT !.pc = pc]
        /\ pc = "handing" => worker.pc = "member"
        /\ pc # "handing" => worker.pc \in Undecided
  BY DEF Stamp, HandOver, AnswerRefused, Goto, At, Undecided
<1>2. worker' \in Ticks /\ worker'.pc = pc /\ worker'.row = r
  BY <1>1, TickFacts DEF Ticks, Undecided
<1>3. CASE Stamp(r)
  <2> DEFINE n == [row[r] EXCEPT !.stamped = TRUE, !.old = FALSE]
  <2>1. row' = [row EXCEPT ![r] = n] /\ UNCHANGED <<job, request, automation, faults, history>>
    BY <1>3, TickFacts DEF Stamp
  <2>2. worker.pc \in Unstamped /\ worker.pc = "member" /\ pc = "handing"
    BY <1>2, <1>3, TickFacts DEF Stamp, At, Unstamped, Goto, Ticks
  <2>3. /\ n \in RowRecords /\ n.status = "PROCESSING" /\ n.stamped /\ ~n.old
        /\ Truthful(n, copies[r])
    BY <2>2, TickFacts DEF RowRecords, Active, Truthful
  <2> HIDE DEF n
  <2>4. row' \in [Rows -> RowRecords] /\ row'[r] = n /\ \A q \in Rows \ {r} : row'[q] = row[q]
    BY <2>1, <2>3, TickFacts
  <2>5. TypeOK'
    BY <1>2, <2>1, <2>4 DEF IInv, TypeOK, history
  <2>6. \A q \in Rows : RowInv(q)'
    BY <2>1, <2>3, <2>4, RowsKept DEF history
  <2>7. TickInv'
    BY <1>2, <2>1, <2>2, <2>3, <2>4, TickFacts DEF TickInv, Undecided, history
  <2>8. LateInv'
    BY <1>2, <2>1, <2>2, LateKept DEF PastTheCheck, Stopped, history
  <2> QED
    BY <2>5, <2>6, <2>7, <2>8 DEF IInv
<1>4. CASE HandOver(r)
  <2>1. /\ worker.pc = "handing" /\ pc = "inFlight"
        /\ UNCHANGED <<job, row, request, automation, faults, firm>>
        /\ copies' = [copies EXCEPT ![r] = @ + 1]
        /\ late' = IF Stopped(JobOf[r]) THEN [late EXCEPT ![JobOf[r]] = @ + 1] ELSE late
    BY <1>2, <1>4, TickFacts DEF HandOver, At, Goto, Ticks
  <2>2. copies[r] = 0 /\ row[r].status = "PROCESSING" /\ row[r].stamped /\ ~row[r].old
    BY <2>1 DEF IInv, TickInv, Undecided
  <2>3. copies' \in [Rows -> Nat] /\ copies'[r] = 1 /\ \A q \in Rows \ {r} : copies'[q] = copies[q]
    BY <2>1, <2>2, TickFacts
  <2>4. Stopped(JobOf[r]) => late[JobOf[r]] = 0
    <3>1. PastTheCheck(JobOf[r])
      BY <2>1 DEF PastTheCheck
    <3>2. late[JobOf[r]] \in Nat /\ late[JobOf[r]] <= 1
      BY TickFacts DEF IInv, TypeOK, LateInv
    <3> QED
      BY <3>1, <3>2, TickFacts DEF IInv, LateInv
  <2>5. /\ late' \in [Jobs -> Nat]
        /\ \A j \in Jobs : late'[j] = late[j] \/ late'[j] = 1
    BY <2>1, <2>4, TickFacts DEF IInv, TypeOK
  <2>6. TypeOK'
    BY <1>2, <2>1, <2>3, <2>5 DEF IInv, TypeOK
  <2>7. ASSUME NEW q \in Rows PROVE RowInv(q)'
    <3>1. ~row[r].uncertain
      BY <2>2 DEF IInv, RowInv
    <3> QED
      BY <2>1, <2>2, <2>3, <3>1 DEF IInv, RowInv, CannotHaveArrived, Active
  <2>8. TickInv'
    BY <1>2, <2>1, <2>2, <2>3 DEF TickInv, Undecided
  <2>9. LateInv'
    <3>1. \A j \in Jobs : ~PastTheCheck(j)'
      BY <1>2, <2>1 DEF PastTheCheck
    <3>2. \A j \in Jobs : late'[j] <= 1
      BY <2>5 DEF IInv, LateInv
    <3> QED
      BY <3>1, <3>2 DEF LateInv
  <2> QED
    BY <2>6, <2>7, <2>8, <2>9 DEF IInv
<1>5. CASE AnswerRefused(r)
  <2>1. /\ worker.pc = "inFlight" /\ pc = "refused"
        /\ UNCHANGED <<job, row, request, automation, faults, late, firm>>
        /\ copies' = [copies EXCEPT ![r] = @ - 1]
    BY <1>2, <1>5, TickFacts DEF AnswerRefused, At, Goto, Ticks
  <2>2. copies[r] = 1 /\ row[r].status = "PROCESSING" /\ row[r].stamped /\ ~row[r].old
    BY <2>1 DEF IInv, TickInv, Undecided
  <2>3. copies' \in [Rows -> Nat] /\ copies'[r] = 0 /\ \A q \in Rows \ {r} : copies'[q] = copies[q]
    BY <2>1, <2>2, TickFacts
  <2>4. TypeOK'
    BY <1>2, <2>1, <2>3 DEF IInv, TypeOK
  <2>5. ASSUME NEW q \in Rows PROVE RowInv(q)'
    BY <2>1, <2>2, <2>3 DEF IInv, RowInv, CannotHaveArrived
  <2>6. TickInv'
    BY <1>2, <2>1, <2>2, <2>3 DEF TickInv, Undecided
  <2>7. LateInv'
    BY <1>2, <2>1, LateKept DEF PastTheCheck, Stopped
  <2> QED
    BY <2>4, <2>5, <2>6, <2>7 DEF IInv
<1> QED
  BY <1>3, <1>4, <1>5

(* The three writes a tick makes to its job.                               *)
LEMMA JobStepKeepsIInv ==
  ASSUME IInv, NEW r \in Rows, worker.pc # "idle", worker.row = r,
         MarkStopped(r) \/ StartJob(r) \/ CompleteJob(r)
  PROVE  IInv'
<1>1. UNCHANGED <<row, request, automation, faults, copies>>
  BY DEF MarkStopped, StartJob, CompleteJob, history
<1>2. \A q \in Rows : RowInv(q)'
  BY <1>1, RowsKept
<1>3. CASE MarkStopped(r)
  <2>1. worker' = [worker EXCEPT !.pc = "settled"] /\ Stop({JobOf[r]}, "STOPPED_KILL_SWITCH", StopStatuses)
    BY <1>3 DEF MarkStopped, Goto
  <2>2. worker' \in Ticks /\ worker'.pc = "settled"
    BY <2>1, TickFacts DEF Ticks, Settling
  <2>3. /\ LateInv' /\ job' \in [Jobs -> JobRecords] /\ late' \in [Jobs -> Nat]
        /\ firm' \subseteq Jobs
    <3>1. \A j \in Jobs : ~PastTheCheck(j)'
      BY <2>2 DEF PastTheCheck
    <3>2. {JobOf[r]} \in SUBSET Jobs
      BY TickFacts
    <3> QED
      BY <2>1, <3>1, <3>2, StopFacts DEF StopStatuses
  <2>4. TickInv'
    BY <2>2 DEF TickInv, Unstamped, Undecided
  <2> QED
    BY <1>1, <1>2, <2>2, <2>3, <2>4 DEF IInv, TypeOK
<1>4. CASE StartJob(r)
  <2>1. /\ worker.pc = "limits" /\ worker' = [worker EXCEPT !.pc = "member"]
        /\ UNCHANGED <<late, firm>>
        /\ \/ job' = job
           \/ job' = [job EXCEPT ![JobOf[r]].started = TRUE, ![JobOf[r]].status = "RUNNING"]
    BY <1>4 DEF StartJob, Goto, At, history
  <2>2. worker' \in Ticks /\ worker'.pc = "member" /\ worker'.row = r
    BY <2>1, TickFacts DEF Ticks, Unstamped
  <2>3. job' \in [Jobs -> JobRecords] /\ \A j \in Jobs : Stopped(j)' => Stopped(j)
    <3>1. JobOf[r] \in Jobs /\ job \in [Jobs -> JobRecords]
      BY TickFacts DEF IInv, TypeOK
    <3>2. CASE job' = job
      BY <3>1, <3>2 DEF Stopped
    <3>3. CASE job' = [job EXCEPT ![JobOf[r]].started = TRUE, ![JobOf[r]].status = "RUNNING"]
      <4>1. job'[JobOf[r]] \in JobRecords /\ job'[JobOf[r]].status = "RUNNING"
        BY <3>1, <3>3 DEF JobRecords, JobStatuses
      <4>2. job' \in [Jobs -> JobRecords] /\ \A j \in Jobs \ {JobOf[r]} : job'[j] = job[j]
        BY <3>1, <3>3, <4>1
      <4> QED
        BY <4>1, <4>2 DEF Stopped, StopStatuses
    <3> QED
      BY <2>1, <3>2, <3>3
  <2>4. TickInv'
    <3>1. worker'.pc \in Unstamped /\ worker'.pc \notin Undecided
          /\ worker.pc \in Unstamped /\ worker.pc \notin Undecided
      BY <2>1, <2>2 DEF Unstamped, Undecided
    <3> QED
      BY <1>1, <2>2, <3>1 DEF IInv, TickInv
  <2>5. LateInv'
    BY <2>1, <2>2, <2>3, LateKept DEF PastTheCheck
  <2> QED
    BY <1>1, <1>2, <2>1, <2>2, <2>3, <2>4, <2>5 DEF IInv, TypeOK
<1>5. CASE CompleteJob(r)
  <2>1. /\ worker' = Idle /\ UNCHANGED <<late, firm>>
        /\ job' = [job EXCEPT ![JobOf[r]].status = "COMPLETED", ![JobOf[r]].completed = TRUE]
    BY <1>5 DEF CompleteJob, history
  <2>2. job' \in [Jobs -> JobRecords] /\ \A j \in Jobs : Stopped(j)' => Stopped(j)
    BY <2>1, TickFacts DEF IInv, TypeOK, JobRecords, JobStatuses, StopStatuses, Stopped
  <2>3. TickInv' /\ \A j \in Jobs : ~PastTheCheck(j)'
    BY <2>1 DEF TickInv, Unstamped, Undecided, Idle, PastTheCheck
  <2>4. LateInv'
    BY <2>1, <2>2, <2>3, LateKept
  <2> QED
    BY <1>1, <1>2, <2>1, <2>2, <2>3, <2>4 DEF IInv, TypeOK
<1> QED
  BY <1>3, <1>4, <1>5

(* A step of the tick on r is one of a tick that is on r.                  *)
LEMMA TickOnRow ==
  ASSUME NEW r \in Rows, Tick(r)
  PROVE  worker.pc # "idle" /\ worker.row = r
BY DEF Tick, At, RefuseForeign, DeferNotHeld, ReadKillSwitch, KillSwitchCancel,
  MarkStopped, ReadJob, StoppedCancel, DeferForJobCap, GiveUpForLimit, StartJob,
  SkipNotMember, Stamp, HandOver, AnswerAccepted, AnswerRefused, AnswerLost,
  SettleSent, RetryLater, GiveUp, HoldUncertain, LookAtJob, CountActive,
  CompleteJob, Undecided, Settling

LEMMA TickKeepsIInv ==
  ASSUME IInv, NEW r \in Rows, Tick(r)
  PROVE  IInv'
BY TickOnRow, SettlingKeepsIInv, MovingKeepsIInv, HandingKeepsIInv, JobStepKeepsIInv DEF Tick

(* A step that leaves jobs and the history alone and at most ends a tick   *)
(* keeps the late hand-overs bounded.                                      *)
LEMMA LateUntouched ==
  ASSUME IInv, UNCHANGED <<job, late>>, worker' \in {worker, Idle}
  PROVE  LateInv'
<1>1. \A j \in Jobs : PastTheCheck(j)' => PastTheCheck(j)
  BY DEF PastTheCheck, Idle
<1>2. \A j \in Jobs : Stopped(j)' => Stopped(j)
  BY DEF Stopped
<1> QED
  BY <1>1, <1>2, LateKept

(* Jobs and rows come into being, and a row is claimed.                    *)
LEMMA QueueKeepsIInv ==
  ASSUME IInv,
         \/ \E j \in Jobs : CreateJob(j)
         \/ \E r \in Rows : InsertRow(r) \/ Claim(r)
  PROVE  IInv'
<1>1. /\ row \in [Rows -> RowRecords] /\ job \in [Jobs -> JobRecords]
      /\ request \in [Dashboards -> JobRequests \cup KillRequests \cup {NoRequest}]
      /\ automation \in BOOLEAN /\ faults \in 0 .. MaxFaults /\ late \in [Jobs -> Nat] /\ firm \subseteq Jobs
  BY DEF IInv, TypeOK
<1>2. ASSUME NEW j \in Jobs, CreateJob(j) PROVE IInv'
  <2>1. /\ job' = [job EXCEPT ![j].status = "QUEUED"]
        /\ UNCHANGED <<row, worker, request, automation, faults, copies, late, firm>>
    BY <1>2 DEF CreateJob, history
  <2>2. job'[j] \in JobRecords /\ job'[j].status = "QUEUED"
    BY <1>1, <2>1 DEF JobRecords, JobStatuses
  <2>3. job' \in [Jobs -> JobRecords] /\ \A i \in Jobs \ {j} : job'[i] = job[i]
    BY <1>1, <2>1, <2>2
  <2>4. LateInv'
    <3>1. \A i \in Jobs : Stopped(i)' => Stopped(i)
      BY <2>2, <2>3 DEF Stopped, StopStatuses
    <3>2. \A i \in Jobs : PastTheCheck(i)' => PastTheCheck(i)
      BY <2>1 DEF PastTheCheck
    <3> QED
      BY <2>1, <3>1, <3>2, LateKept
  <2> QED
    BY <1>1, <2>1, <2>3, <2>4, Bystander
<1>3. ASSUME NEW r \in Rows, NEW s \in {"PENDING", "PROCESSING"}, Settle(r, s),
             row[r].status = IF s = "PENDING" THEN "ABSENT" ELSE "PENDING"
      PROVE  /\ row' \in [Rows -> RowRecords]
             /\ \A q \in Rows \ {r} : row'[q] = row[q]
             /\ Truthful(row'[r], copies[r])
             /\ row'[r].status = s /\ ~row'[r].old /\ ~row'[r].stamped
  <2> DEFINE n == [row[r] EXCEPT !.status = s, !.old = FALSE]
  <2>1. row' = [row EXCEPT ![r] = n]
    BY <1>1, <1>3 DEF Settle
  <2>2. ~row[r].uncertain /\ ~row[r].stamped /\ copies[r] = 0
    BY <1>3 DEF IInv, RowInv, CannotHaveArrived, Active
  <2>3. n \in RowRecords /\ Truthful(n, copies[r]) /\ n.status = s /\ ~n.old /\ ~n.stamped
    BY <1>1, <2>2 DEF RowRecords, RowStatuses, Active, Truthful
  <2> HIDE DEF n
  <2> QED
    BY <1>1, <2>1, <2>3
<1>4. ASSUME NEW r \in Rows, InsertRow(r) PROVE IInv'
  <2>1. /\ row[r].status = "ABSENT" /\ Settle(r, "PENDING")
        /\ UNCHANGED <<job, worker, request, automation, faults, copies, late, firm>>
    BY <1>4 DEF InsertRow, history
  <2>2. /\ row' \in [Rows -> RowRecords] /\ Truthful(row'[r], copies[r])
        /\ \A q \in Rows \ {r} : row'[q] = row[q]
    BY <1>3, <2>1
  <2> QED
    BY <1>1, <2>1, <2>2, LateUntouched, Bystander
<1>5. ASSUME NEW r \in Rows, Claim(r) PROVE IInv'
  <2>1. /\ row[r].status = "PENDING" /\ Settle(r, "PROCESSING")
        /\ worker' = [pc |-> "resolve", row |-> r, attempts |-> row[r].attempts,
                      caught |-> FALSE]
        /\ UNCHANGED <<job, request, automation, faults, copies, late, firm>>
    BY <1>5 DEF Claim, history
  <2>2. /\ row' \in [Rows -> RowRecords] /\ Truthful(row'[r], copies[r])
        /\ \A q \in Rows \ {r} : row'[q] = row[q]
        /\ row'[r].status = "PROCESSING" /\ ~row'[r].old /\ ~row'[r].stamped
    BY <1>3, <2>1
  <2>3. worker' \in Ticks
    <3>1. row[r].attempts \in Nat
      BY <1>1 DEF RowRecords
    <3> QED
      BY <2>1, <3>1 DEF Ticks, Unstamped
  <2>4. TypeOK'
    BY <2>1, <2>2, <2>3 DEF IInv, TypeOK
  <2>5. \A q \in Rows : RowInv(q)'
    BY <2>1, <2>2, RowsKept
  <2>6. TickInv'
    BY <2>1, <2>2 DEF TickInv, Undecided
  <2>7. LateInv'
    BY <2>1, LateKept DEF PastTheCheck, Stopped
  <2> QED
    BY <2>4, <2>5, <2>6, <2>7 DEF IInv
<1> QED
  BY <1>2, <1>4, <1>5

(* Faults drop a tick or a request; recovery and time touch rows no tick   *)
(* works on.                                                               *)
LEMMA FaultKeepsIInv ==
  ASSUME IInv, TickThrows \/ Crash \/ \E d \in Dashboards : RequestDies(d)
  PROVE  IInv'
<1>1. UNCHANGED <<job, row, automation, copies, late, firm>> /\ worker' \in {worker, Idle}
  BY DEF TickThrows, Crash, RequestDies, history
<1>2. faults' \in 0 .. MaxFaults
  BY BroadcastConstants DEF TickThrows, Crash, RequestDies, Fault, IInv, TypeOK
<1>3. request' \in [Dashboards -> JobRequests \cup KillRequests \cup {NoRequest}]
  BY DEF TickThrows, Crash, RequestDies, IInv, TypeOK
<1> QED
  BY <1>1, <1>2, <1>3, LateUntouched, Bystander DEF IInv, TypeOK

LEMMA RecoveryKeepsIInv ==
  ASSUME IInv, (\E r \in Rows : Age(r)) \/ HoldStranded \/ RequeueStranded
  PROVE  IInv'
<1>1. /\ row \in [Rows -> RowRecords]
      /\ UNCHANGED <<job, worker, request, automation, faults, copies, late, firm>>
  BY DEF Age, HoldStranded, RequeueStranded, history, IInv, TypeOK
<1>2. ASSUME NEW r \in Rows
      PROVE  \/ row'[r] = row[r]
             \/ /\ row[r].status = "PROCESSING"
                /\ row[r].old \/ ~Working(r)
                /\ \/ row'[r] = [row[r] EXCEPT !.old = TRUE]
                   \/ row'[r] = [row[r] EXCEPT !.status = "FAILED", !.uncertain = TRUE, !.old = FALSE]
                   \/ ~row[r].stamped /\ row'[r] = [row[r] EXCEPT !.status = "PENDING", !.old = FALSE]
  BY <1>1 DEF Age, HoldStranded, RequeueStranded, Stranded
<1>3. ASSUME NEW r \in Rows
      PROVE  row'[r] \in RowRecords /\ (row'[r] = row[r] \/ Truthful(row'[r], copies[r]))
  <2>1. row[r] \in RowRecords
    BY <1>1
  <2>2. /\ row[r].uncertain => row[r].status = "FAILED"
        /\ row[r].status = "PROCESSING" /\ ~row[r].stamped => copies[r] = 0
    BY DEF IInv, RowInv, CannotHaveArrived
  <2>3. CASE row'[r] = row[r]
    BY <2>1, <2>3
  <2>4. CASE row[r].status = "PROCESSING" /\ row'[r] = [row[r] EXCEPT !.old = TRUE]
    BY <2>1, <2>2, <2>4 DEF RowRecords, Active, Truthful
  <2>5. CASE row'[r] = [row[r] EXCEPT !.status = "FAILED", !.uncertain = TRUE, !.old = FALSE]
    BY <2>1, <2>5 DEF RowRecords, RowStatuses, Active, Truthful
  <2>6. CASE /\ row[r].status = "PROCESSING" /\ ~row[r].stamped
             /\ row'[r] = [row[r] EXCEPT !.status = "PENDING", !.old = FALSE]
    BY <2>1, <2>2, <2>6 DEF RowRecords, RowStatuses, Active, Truthful
  <2> QED
    BY <1>2, <2>3, <2>4, <2>5, <2>6
<1>4. row' \in [Rows -> RowRecords]
  <2>1. \E f : row' = [r \in Rows |-> f[r]]
    BY <1>1 DEF Age, HoldStranded, RequeueStranded
  <2> QED
    BY <1>3, <2>1
<1>5. \A r \in Rows : Working(r) /\ row[r].status = "PROCESSING" /\ ~row[r].old
                        => row'[r] = row[r]
  BY <1>2
<1> QED
  BY <1>1, <1>3, <1>4, <1>5, LateUntouched, Bystander DEF IInv, TypeOK

(* Cancelling what is pending tells the truth and leaves a tick's row.     *)
LEMMA CancelPendingFacts ==
  ASSUME IInv, NEW rs, CancelPending(rs)
  PROVE  /\ row' \in [Rows -> RowRecords]
         /\ \A r \in Rows : row'[r] = row[r] \/ Truthful(row'[r], copies[r])
         /\ \A r \in Rows : row[r].status = "PROCESSING" => row'[r] = row[r]
<1>1. row \in [Rows -> RowRecords]
  BY DEF IInv, TypeOK
<1>2. ASSUME NEW r \in Rows
      PROVE  /\ row'[r] \in RowRecords
             /\ row'[r] = row[r] \/ Truthful(row'[r], copies[r])
             /\ row[r].status = "PROCESSING" => row'[r] = row[r]
  <2>1. CASE row'[r] = row[r]
    BY <1>1, <2>1
  <2>2. CASE row'[r] # row[r]
    <3>1. /\ row[r].status = "PENDING"
          /\ row'[r] = [row[r] EXCEPT !.status = "CANCELLED", !.old = FALSE]
      BY <2>2 DEF CancelPending
    <3>2. copies[r] = 0 /\ ~row[r].uncertain
      BY <3>1 DEF IInv, RowInv, CannotHaveArrived
    <3>3. /\ row'[r] \in RowRecords
          /\ row'[r].status = "CANCELLED" /\ row'[r].uncertain = row[r].uncertain
      BY <1>1, <3>1 DEF RowRecords, RowStatuses
    <3>4. Truthful(row'[r], copies[r])
      BY <3>2, <3>3 DEF Active, Truthful
    <3> QED
      BY <3>1, <3>3, <3>4
  <2> QED
    BY <2>1, <2>2
<1>3. row' \in [Rows -> RowRecords]
  BY <1>2 DEF CancelPending
<1> QED
  BY <1>2, <1>3

(* Every statement of every dashboard request.                             *)
LEMMA DashboardKeepsIInv ==
  ASSUME IInv, NEW d \in Dashboards, Dashboard(d)
  PROVE  IInv'
<1>1. /\ row \in [Rows -> RowRecords] /\ job \in [Jobs -> JobRecords]
      /\ request \in [Dashboards -> JobRequests \cup KillRequests \cup {NoRequest}]
      /\ automation \in BOOLEAN /\ faults \in 0 .. MaxFaults /\ late \in [Jobs -> Nat] /\ firm \subseteq Jobs
  BY DEF IInv, TypeOK
<1>2. ASSUME NEW req \in JobRequests \cup KillRequests \cup {NoRequest}, Proceed(d, req)
      PROVE  request' \in [Dashboards -> JobRequests \cup KillRequests \cup {NoRequest}]
  BY <1>1, <1>2 DEF Proceed
<1>3. ASSUME Done(d)
      PROVE  request' \in [Dashboards -> JobRequests \cup KillRequests \cup {NoRequest}]
  BY <1>2, <1>3 DEF Done
<1>4. request[d].act \in {"CANCEL_JOB", "RETRY_ROWS", "REVIVE"} => request[d] \in JobRequests
  BY <1>1 DEF KillRequests, NoRequest
<1>5. request[d].act \in {"KILL_FIND", "KILL_ROWS", "KILL_JOBS"} => request[d] \in KillRequests
  BY <1>1 DEF JobRequests, NoRequest
<1>6. ASSUME NEW j \in Jobs, CancelRows(d, j) PROVE IInv'
  <2>1. /\ CancelPending(RowsOf(j))
        /\ Proceed(d, [act |-> "CANCEL_JOB", job |-> j, status |-> job[j].status])
        /\ UNCHANGED <<job, worker, automation, faults, copies, late, firm>>
    BY <1>6 DEF CancelRows, history
  <2>2. [act |-> "CANCEL_JOB", job |-> j, status |-> job[j].status] \in JobRequests
    BY <1>1 DEF JobRequests, JobRecords
  <2> QED
    BY <1>1, <1>2, <2>1, <2>2, CancelPendingFacts, LateUntouched, Bystander
<1>7. CASE CancelJob(d)
  <2>1. /\ Stop({request[d].job}, "CANCELLED", StopStatuses \cup {"COMPLETED"})
        /\ Done(d) /\ request[d] \in JobRequests
        /\ UNCHANGED <<row, worker, automation, faults, copies>>
    BY <1>4, <1>7 DEF CancelJob
  <2>2. /\ LateInv' /\ job' \in [Jobs -> JobRecords] /\ late' \in [Jobs -> Nat]
        /\ firm' \subseteq Jobs
    <3>1. {request[d].job} \in SUBSET Jobs
      BY <2>1 DEF JobRequests
    <3>2. \A j \in Jobs : PastTheCheck(j)' => PastTheCheck(j)
      BY <2>1 DEF PastTheCheck
    <3> QED
      BY <2>1, <3>1, <3>2, StopFacts DEF StopStatuses
  <2> QED
    BY <1>1, <1>3, <2>1, <2>2, Bystander
<1>8. ASSUME NEW j \in Jobs, RetryRead(d, j) PROVE IInv'
  <2>1. /\ Proceed(d, [act |-> "RETRY_ROWS", job |-> j, status |-> job[j].status])
        /\ UNCHANGED <<job, row, worker, automation, faults, copies, late, firm>>
    BY <1>8 DEF RetryRead, history
  <2>2. [act |-> "RETRY_ROWS", job |-> j, status |-> job[j].status] \in JobRequests
    BY <1>1 DEF JobRequests, JobRecords
  <2> QED
    BY <1>1, <1>2, <2>1, <2>2, LateUntouched, Bystander
<1>9. CASE RetryRows(d)
  <2> DEFINE q == request[d]
             n == [NewRow EXCEPT !.status = "PENDING"]
  <2>1. /\ row' = [r \in Rows |-> IF r \in Retryable(q.job) THEN n ELSE row[r]]
        /\ UNCHANGED <<job, worker, automation, faults, copies, late, firm>>
        /\ q \in JobRequests
    BY <1>4, <1>9 DEF RetryRows, history
  <2>2. request' \in [Dashboards -> JobRequests \cup KillRequests \cup {NoRequest}]
    <3>1. [q EXCEPT !.act = "REVIVE"] \in JobRequests
      BY <2>1 DEF JobRequests
    <3> QED
      BY <1>2, <1>9, <3>1 DEF RetryRows
  <2>3. n \in RowRecords /\ n.status = "PENDING" /\ ~n.stamped /\ ~n.uncertain
    BY DEF NewRow, RowRecords, RowStatuses, Active
  <2>4. ASSUME NEW r \in Rows, r \in Retryable(q.job)
        PROVE  row[r].status = "FAILED" /\ Truthful(n, copies[r])
    BY <2>3, <2>4 DEF Retryable, IInv, RowInv, CannotHaveArrived, Active, Truthful
  <2> HIDE DEF n, q
  <2>5. row' \in [Rows -> RowRecords]
    BY <1>1, <2>1, <2>3
  <2> QED
    BY <1>1, <2>1, <2>2, <2>4, <2>5, LateUntouched, Bystander
<1>10. CASE ReviveJob(d)
  <2> DEFINE j == request[d].job
  <2>1. /\ job' = [job EXCEPT ![j].status = "RUNNING", ![j].completed = FALSE]
        /\ Done(d) /\ j \in Jobs
        /\ UNCHANGED <<row, worker, automation, faults, copies, late, firm>>
    BY <1>4, <1>10 DEF ReviveJob, JobRequests, history
  <2> HIDE DEF j
  <2>2. job'[j] \in JobRecords /\ job'[j].status = "RUNNING"
    BY <1>1, <2>1 DEF JobRecords, JobStatuses
  <2>3. job' \in [Jobs -> JobRecords] /\ \A i \in Jobs \ {j} : job'[i] = job[i]
    BY <1>1, <2>1, <2>2
  <2>4. LateInv'
    <3>1. \A i \in Jobs : Stopped(i)' => Stopped(i)
      BY <2>2, <2>3 DEF Stopped, StopStatuses
    <3>2. \A i \in Jobs : PastTheCheck(i)' => PastTheCheck(i)
      BY <2>1 DEF PastTheCheck
    <3> QED
      BY <2>1, <3>1, <3>2, LateKept
  <2> QED
    BY <1>1, <1>3, <2>1, <2>3, <2>4, Bystander
<1>11. CASE KillSwitch(d)
  <2>1. /\ automation' = FALSE /\ Proceed(d, [act |-> "KILL_FIND", jobs |-> {}])
        /\ UNCHANGED <<job, row, worker, faults, copies, late, firm>>
    BY <1>11 DEF KillSwitch, history
  <2>2. [act |-> "KILL_FIND", jobs |-> {}] \in KillRequests
    BY DEF KillRequests
  <2> QED
    BY <1>1, <1>2, <2>1, <2>2, LateUntouched, Bystander
<1>12. CASE KillFind(d)
  <2> DEFINE js == {JobOf[r] : r \in {q \in Rows : row[q].status = "PENDING"}}
  <2>1. /\ Proceed(d, [act |-> "KILL_ROWS", jobs |-> js])
        /\ UNCHANGED <<job, row, worker, automation, faults, copies, late, firm>>
    BY <1>12 DEF KillFind, history
  <2>2. [act |-> "KILL_ROWS", jobs |-> js] \in KillRequests
    <3>1. js \in SUBSET Jobs
      BY BroadcastConstants
    <3> QED
      BY <3>1 DEF KillRequests
  <2> QED
    BY <1>1, <1>2, <2>1, <2>2, LateUntouched, Bystander
<1>13. CASE KillRows(d)
  <2>1. /\ CancelPending(Rows) /\ Proceed(d, [request[d] EXCEPT !.act = "KILL_JOBS"])
        /\ request[d] \in KillRequests
        /\ UNCHANGED <<job, worker, automation, faults, copies, late, firm>>
    BY <1>5, <1>13 DEF KillRows, history
  <2>2. [request[d] EXCEPT !.act = "KILL_JOBS"] \in KillRequests
    BY <2>1 DEF KillRequests
  <2> QED
    BY <1>1, <1>2, <2>1, <2>2, CancelPendingFacts, LateUntouched, Bystander
<1>14. CASE KillJobs(d)
  <2>1. /\ Stop(request[d].jobs, "STOPPED_KILL_SWITCH", StopStatuses)
        /\ Done(d) /\ request[d] \in KillRequests
        /\ UNCHANGED <<row, worker, automation, faults, copies>>
    BY <1>5, <1>14 DEF KillJobs
  <2>2. /\ LateInv' /\ job' \in [Jobs -> JobRecords] /\ late' \in [Jobs -> Nat]
        /\ firm' \subseteq Jobs
    <3>1. request[d].jobs \in SUBSET Jobs
      BY <2>1 DEF KillRequests
    <3>2. \A j \in Jobs : PastTheCheck(j)' => PastTheCheck(j)
      BY <2>1 DEF PastTheCheck
    <3> QED
      BY <2>1, <3>1, <3>2, StopFacts DEF StopStatuses
  <2> QED
    BY <1>1, <1>3, <2>1, <2>2, Bystander
<1>15. CASE RequestDies(d)
  BY <1>15, FaultKeepsIInv
<1> QED
  BY <1>6, <1>7, <1>8, <1>9, <1>10, <1>11, <1>12, <1>13, <1>14, <1>15 DEF Dashboard, Carry

(* The invariant is inductive.                                             *)
LEMMA Inductive == IInv /\ [Next]_vars => IInv'
<1> SUFFICES ASSUME IInv, [Next]_vars PROVE IInv'
  OBVIOUS
<1>1. CASE UNCHANGED vars
  BY <1>1, LateUntouched, Bystander DEF vars, IInv, TypeOK
<1>2. CASE \/ \E j \in Jobs : CreateJob(j)
           \/ \E r \in Rows : InsertRow(r) \/ Claim(r)
  BY <1>2, QueueKeepsIInv
<1>3. CASE \E r \in Rows : Tick(r)
  BY <1>3, TickKeepsIInv
<1>4. CASE (\E r \in Rows : Age(r)) \/ HoldStranded \/ RequeueStranded
  BY <1>4, RecoveryKeepsIInv
<1>5. CASE TickThrows \/ Crash
  BY <1>5, FaultKeepsIInv
<1>6. CASE Resume
  BY <1>6, LateUntouched, Bystander DEF Resume, IInv, TypeOK, history
<1>7. CASE \E d \in Dashboards : Dashboard(d)
  BY <1>7, DashboardKeepsIInv
<1> QED
  BY <1>1, <1>2, <1>3, <1>4, <1>5, <1>6, <1>7 DEF Next

LEMMA SafetyFromIInv ==
  ASSUME IInv
  PROVE  TypeOK /\ GroupGetsItOnce /\ HonestOutcome
  BY DEF IInv, RowInv, CannotHaveArrived, GroupGetsItOnce, HonestOutcome, Active

(* The invariant holds in every state of every behaviour.                  *)
THEOREM Invariance == Spec => []IInv
  BY InitIInv, Inductive, PTL DEF Spec

(* Every variable keeps its type, whatever the number of jobs and rows.    *)
THEOREM TypeCorrect == Spec => []TypeOK
<1>1. IInv => TypeOK
  BY SafetyFromIInv
<1> QED
  BY <1>1, Invariance, PTL

(* No group receives a broadcast message twice.                            *)
THEOREM OnceOnly == Spec => []GroupGetsItOnce
<1>1. IInv => GroupGetsItOnce
  BY SafetyFromIInv
<1> QED
  BY <1>1, Invariance, PTL

(* What a row's status says of the group having got the message is true.   *)
THEOREM OutcomeIsHonest == Spec => []HonestOutcome
<1>1. IInv => HonestOutcome
  BY SafetyFromIInv
<1> QED
  BY <1>1, Invariance, PTL
----------------------------------------------------------------------------
(* The rows implement ReplyDelivery: each step is one of its steps or      *)
(* leaves it unchanged.                                                    *)

(* What a tick works on exists, even when the row is anybody's by now.     *)
TickHasRow == worker.pc # "idle" => row[worker.row].status # "ABSENT"

(* The steps of a tick that do not write its row.                          *)
Quiet(r) ==
  \/ ReadKillSwitch(r) \/ MarkStopped(r) \/ ReadJob(r) \/ StartJob(r)
  \/ AnswerAccepted(r) \/ AnswerLost(r) \/ LookAtJob(r) \/ CountActive(r)
  \/ CompleteJob(r)

(* The steps that put the row back and those that end it without a copy,   *)
(* with what they make of the row.                                         *)
Waits(r) == DeferNotHeld(r) \/ DeferForJobCap(r) \/ RetryLater(r) \/ Stamp(r)
Ends(r) ==
  \/ RefuseForeign(r) \/ KillSwitchCancel(r) \/ StoppedCancel(r)
  \/ GiveUpForLimit(r) \/ SkipNotMember(r) \/ GiveUp(r)

LEMMA TickKinds ==
  ASSUME NEW r \in Rows, Tick(r)
  PROVE  \/ Quiet(r) \/ Waits(r) \/ Ends(r) \/ HandOver(r) \/ AnswerRefused(r)
         \/ SettleSent(r) \/ HoldUncertain(r)
BY DEF Tick, Quiet, Waits, Ends

LEMMA TickStaysOnRow ==
  ASSUME IInv, NEW r \in Rows, Tick(r)
  PROVE  worker' = Idle \/ worker'.row = r
<1>1. worker \in Ticks /\ worker.row = r
  BY TickOnRow, TickFacts
<1>2. \/ worker' = Idle
      \/ \E pc : Goto(pc)
      \/ \E pc, caught : GotoSettling(pc, caught)
  <2>1. CASE Quiet(r)
    BY <2>1 DEF Quiet, ReadKillSwitch, MarkStopped, ReadJob, StartJob, AnswerAccepted,
      AnswerLost, LookAtJob, CountActive, CompleteJob
  <2>2. CASE Waits(r) \/ Ends(r)
    BY <2>2 DEF Waits, Ends, DeferNotHeld, DeferForJobCap, RetryLater, Stamp,
      RefuseForeign, KillSwitchCancel, StoppedCancel, GiveUpForLimit, SkipNotMember, GiveUp
  <2>3. CASE HandOver(r) \/ AnswerRefused(r) \/ SettleSent(r) \/ HoldUncertain(r)
    BY <2>3 DEF HandOver, AnswerRefused, SettleSent, HoldUncertain
  <2> QED
    BY <2>1, <2>2, <2>3, TickKinds
<1> QED
  BY <1>1, <1>2 DEF Goto, GotoSettling, Ticks

(* What each kind of step does to the columns of its row.                  *)
LEMMA TickWrites ==
  ASSUME IInv, NEW r \in Rows, Tick(r)
  PROVE  /\ \A q \in Rows : q # r => row'[q] = row[q]
         /\ Quiet(r) \/ HandOver(r) \/ AnswerRefused(r) => row' = row
         /\ Waits(r) =>
              row'[r].status \in Active /\ row'[r].uncertain = row[r].uncertain
         /\ Ends(r) =>
              /\ row'[r].status \notin Active \cup {"ABSENT", "SENT"}
              /\ row'[r].uncertain = row[r].uncertain
         /\ SettleSent(r) => row'[r].status = "SENT"
         /\ HoldUncertain(r) => row'[r].status = "FAILED" /\ row'[r].uncertain
<1>1. row \in [Rows -> RowRecords] /\ row[r] \in RowRecords
  BY DEF IInv, TypeOK
<1>2. ASSUME NEW s, Settle(r, s)
      PROVE  /\ row'[r].status = s /\ row'[r].uncertain = row[r].uncertain
             /\ \A q \in Rows : q # r => row'[q] = row[q]
  BY <1>1, <1>2 DEF Settle, RowRecords
<1>3. Quiet(r) \/ HandOver(r) \/ AnswerRefused(r) => row' = row
  BY DEF Quiet, ReadKillSwitch, MarkStopped, ReadJob, StartJob, AnswerAccepted,
    AnswerLost, LookAtJob, CountActive, CompleteJob, HandOver, AnswerRefused
<1>4. ASSUME Waits(r)
      PROVE  /\ row'[r].status \in Active /\ row'[r].uncertain = row[r].uncertain
             /\ \A q \in Rows : q # r => row'[q] = row[q]
  <2>1. CASE DeferNotHeld(r) \/ DeferForJobCap(r)
    <3>1. Settle(r, "PENDING")
      BY <2>1 DEF DeferNotHeld, DeferForJobCap
    <3> QED
      BY <1>2, <3>1 DEF Active
  <2>2. CASE RetryLater(r)
    BY <1>1, <2>2 DEF RetryLater, RowRecords, Active
  <2>3. CASE Stamp(r)
    <3>1. row[r].status = "PROCESSING"
      BY <2>3, TickOnRow, TickFacts DEF Stamp, At, Unstamped
    <3> QED
      BY <1>1, <2>3, <3>1 DEF Stamp, RowRecords, Active
  <2> QED
    BY <1>4, <2>1, <2>2, <2>3 DEF Waits
<1>5. ASSUME Ends(r)
      PROVE  /\ row'[r].status \notin Active \cup {"ABSENT", "SENT"}
             /\ row'[r].uncertain = row[r].uncertain
             /\ \A q \in Rows : q # r => row'[q] = row[q]
  <2>1. CASE GiveUp(r)
    BY <1>1, <2>1 DEF GiveUp, RowRecords, Active
  <2>2. CASE ~GiveUp(r)
    <3>1. PICK s \in {"FAILED", "CANCELLED", "RATE_LIMITED", "SKIPPED"} : Settle(r, s)
      BY <1>5, <2>2 DEF Ends, RefuseForeign, KillSwitchCancel, StoppedCancel,
        GiveUpForLimit, SkipNotMember
    <3> QED
      BY <1>2, <3>1 DEF Active
  <2> QED
    BY <2>1, <2>2
<1>6. ASSUME SettleSent(r)
      PROVE  row'[r].status = "SENT" /\ \A q \in Rows : q # r => row'[q] = row[q]
  BY <1>1, <1>6 DEF SettleSent, RowRecords
<1>7. ASSUME HoldUncertain(r)
      PROVE  /\ row'[r].status = "FAILED" /\ row'[r].uncertain
             /\ \A q \in Rows : q # r => row'[q] = row[q]
  BY <1>1, <1>7 DEF HoldUncertain, RowRecords
<1> QED
  BY <1>3, <1>4, <1>5, <1>6, <1>7, TickKinds

LEMMA TickNeverLosesRow == IInv /\ TickHasRow /\ [Next]_vars => TickHasRow'
<1> SUFFICES ASSUME IInv, TickHasRow, [Next]_vars PROVE TickHasRow'
  OBVIOUS
<1>1. row \in [Rows -> RowRecords] /\ worker \in Ticks \cup {Idle}
  BY DEF IInv, TypeOK
<1>2. ASSUME NEW r \in Rows, Tick(r) PROVE TickHasRow'
  <2>1. row[r].status # "ABSENT"
    BY <1>2, TickOnRow DEF TickHasRow
  <2>2. row'[r].status # "ABSENT"
    BY <1>2, <2>1, TickKinds, TickWrites DEF Active
  <2> QED
    BY <1>2, <2>2, TickStaysOnRow DEF TickHasRow, Idle
<1>3. ASSUME worker' \in {worker, Idle},
             \A r \in Rows : row'[r].status = "ABSENT" => row[r].status = "ABSENT"
      PROVE  TickHasRow'
  BY <1>1, <1>3 DEF TickHasRow, Idle, Ticks
<1>4. ASSUME UNCHANGED row, worker' \in {worker, Idle} PROVE TickHasRow'
  BY <1>3, <1>4
<1>5. CASE \E r \in Rows : InsertRow(r) \/ Claim(r) \/ Age(r)
  <2>1. PICK r \in Rows : InsertRow(r) \/ Claim(r) \/ Age(r)
    BY <1>5
  <2>2. CASE InsertRow(r) \/ Age(r)
    BY <1>1, <1>3, <2>2 DEF InsertRow, Age, Settle, RowRecords
  <2>3. CASE Claim(r)
    BY <1>1, <2>3 DEF Claim, Settle, RowRecords, TickHasRow
  <2> QED
    BY <2>1, <2>2, <2>3
<1>6. CASE HoldStranded \/ RequeueStranded
  <2>1. ASSUME NEW r \in Rows, row'[r].status = "ABSENT" PROVE row[r].status = "ABSENT"
    <3>1. \/ row'[r] = row[r]
          \/ row'[r] = [row[r] EXCEPT !.status = "FAILED", !.uncertain = TRUE, !.old = FALSE]
          \/ row'[r] = [row[r] EXCEPT !.status = "PENDING", !.old = FALSE]
      BY <1>6 DEF HoldStranded, RequeueStranded
    <3> QED
      BY <1>1, <2>1, <3>1 DEF RowRecords
  <2> QED
    BY <1>3, <1>6, <2>1 DEF HoldStranded, RequeueStranded
<1>7. ASSUME NEW d \in Dashboards, Dashboard(d) PROVE TickHasRow'
  <2>1. worker' = worker
    BY <1>7 DEF Dashboard, Carry, CancelRows, CancelJob, RetryRead, RetryRows, ReviveJob,
      KillSwitch, KillFind, KillRows, KillJobs, RequestDies
  <2>2. ASSUME NEW rs, CancelPending(rs), NEW r \in Rows, row'[r].status = "ABSENT"
        PROVE  row[r].status = "ABSENT"
    BY <1>1, <2>2 DEF CancelPending, RowRecords
  <2>3. ASSUME RetryRows(d), NEW r \in Rows, row'[r].status = "ABSENT"
        PROVE  row[r].status = "ABSENT"
    BY <2>3 DEF RetryRows, NewRow
  <2>4. \/ UNCHANGED row \/ RetryRows(d) \/ \E rs : CancelPending(rs)
    BY <1>7 DEF Dashboard, Carry, CancelRows, CancelJob, RetryRead, ReviveJob,
      KillSwitch, KillFind, KillRows, KillJobs, RequestDies
  <2> QED
    BY <1>3, <2>1, <2>2, <2>3, <2>4
<1>8. CASE \/ UNCHANGED vars \/ TickThrows \/ Crash \/ Resume
           \/ \E j \in Jobs : CreateJob(j)
  BY <1>4, <1>8 DEF vars, TickThrows, Crash, Resume, CreateJob
<1> QED
  BY <1>2, <1>5, <1>6, <1>7, <1>8 DEF Next

LEMMA SameColumnsSameFate ==
  ASSUME NEW q \in Rows,
         row'[q].status = row[q].status \/ {row[q].status, row'[q].status} \subseteq Active,
         row'[q].uncertain = row[q].uncertain
  PROVE  FateOf(q)' = FateOf(q)
  BY DEF FateOf, Active

LEMMA FatesKept ==
  ASSUME \A q \in Rows : FateOf(q)' = FateOf(q), UNCHANGED copies
  PROVE  UNCHANGED Delivery!vars
  BY DEF Delivery!vars

(* A step that rewrites the columns of some rows moves their fates alone.  *)
LEMMA FatesMove ==
  ASSUME NEW rs \in SUBSET Rows, NEW f, \A q \in rs : FateOf(q)' = f,
         \A q \in Rows : q \notin rs => row'[q] = row[q]
  PROVE  Delivery!BecomeAll(rs, f)
<1>1. \A q \in Rows : q \notin rs => FateOf(q)' = FateOf(q)
  BY DEF FateOf
<1> QED
  BY <1>1 DEF Delivery!BecomeAll

LEMMA OneFate ==
  ASSUME NEW r \in Rows, NEW f, FateOf(r)' = f,
         \A q \in Rows : q # r => row'[q] = row[q]
  PROVE  Delivery!BecomeAll({r}, f)
<1>1. {r} \in SUBSET Rows
  OBVIOUS
<1> QED
  BY <1>1, FatesMove

LEMMA InitRefines == Init => Delivery!Init
<1> SUFFICES ASSUME Init PROVE Delivery!Init
  OBVIOUS
<1>1. ASSUME NEW r \in Rows PROVE FateOf(r) = "none"
  <2>1. row[r].status = "ABSENT"
    BY DEF Init, NewRow
  <2> QED
    BY <2>1 DEF FateOf, Active
<1> QED
  BY <1>1 DEF Init, Delivery!Init

(* The steps of a tick.  Before its row is settled the row is open, and    *)
(* the pc says whether a copy has left; after that it is anybody's.        *)
LEMMA TickRefines ==
  ASSUME IInv, TickHasRow, NEW r \in Rows, Tick(r)
  PROVE  Delivery!Next \/ UNCHANGED Delivery!vars
<1>1. /\ worker.pc # "idle" /\ worker.row = r
      /\ \A q \in Rows : q # r => row'[q] = row[q]
  BY TickOnRow, TickWrites
<1>2. /\ copies \in [Rows -> Nat] /\ copies[r] \in Nat
      /\ row[r].uncertain => row[r].status = "FAILED"
  BY DEF IInv, TypeOK, RowInv
<1>3. /\ worker.pc \in Unstamped \cup Undecided => FateOf(r) = "open"
      /\ worker.pc \in Unstamped \cup {"refused", "handing"} => copies[r] = 0
      /\ worker.pc \in {"inFlight", "accepted"} => copies[r] = 1
  <2>1. worker.pc \in Unstamped \cup Undecided => row[r].status = "PROCESSING"
    BY <1>1, TickFacts
  <2>2. worker.pc \in {"refused", "handing"} => copies[r] = 0
    BY <1>1 DEF IInv, TickInv, Undecided
  <2>3. worker.pc \in {"inFlight", "accepted"} => copies[r] = 1
    BY <1>1 DEF IInv, TickInv, Undecided
  <2> QED
    BY <1>1, <2>1, <2>2, <2>3, TickFacts DEF FateOf, Active
<1>4. CASE Quiet(r)
  <2>1. UNCHANGED <<row, copies>>
    BY <1>4, TickWrites DEF Quiet, ReadKillSwitch, MarkStopped, ReadJob, StartJob,
      AnswerAccepted, AnswerLost, LookAtJob, CountActive, CompleteJob, history
  <2> QED
    BY <2>1, FatesKept DEF FateOf
<1>5. CASE Waits(r)
  <2>1. UNCHANGED copies
    BY <1>5 DEF Waits, DeferNotHeld, DeferForJobCap, RetryLater, Stamp, history
  <2>2. worker.pc \in Unstamped \cup Undecided
    BY <1>5 DEF Waits, DeferNotHeld, DeferForJobCap, RetryLater, Stamp, At, Unstamped,
      Undecided
  <2>3. row[r].status \in Active
    BY <1>1, <2>2, TickFacts DEF Active
  <2>4. FateOf(r)' = FateOf(r)
    BY <1>5, <2>3, TickWrites, SameColumnsSameFate
  <2> QED
    BY <1>1, <2>1, <2>4, FatesKept DEF FateOf
<1>6. CASE Ends(r)
  <2>1. UNCHANGED copies /\ worker.pc \in Unstamped \cup {"refused"}
    BY <1>6 DEF Ends, RefuseForeign, KillSwitchCancel, StoppedCancel, GiveUpForLimit,
      SkipNotMember, GiveUp, At, Unstamped, history
  <2>2. worker.pc \in Unstamped \cup Undecided
    BY <2>1 DEF Undecided
  <2>3. /\ row'[r].status \notin Active \cup {"ABSENT", "SENT"}
        /\ ~row'[r].uncertain
    BY <1>1, <1>6, <2>2, TickWrites, TickFacts
  <2>4. FateOf(r)' = "notSent"
    BY <2>3 DEF FateOf
  <2>5. Delivery!GiveUp({r})
    BY <1>1, <1>3, <2>1, <2>2, <2>4, OneFate DEF Delivery!GiveUp, Delivery!Accounted
  <2> QED
    BY <2>5 DEF Delivery!Next
<1>7. CASE HandOver(r) \/ AnswerRefused(r)
  <2>1. UNCHANGED row
    BY <1>7, TickWrites
  <2>2. [q \in Rows |-> FateOf(q)]' = [q \in Rows |-> FateOf(q)]
    BY <2>1 DEF FateOf
  <2>3. CASE HandOver(r)
    <3>1. FateOf(r) = "open" /\ copies[r] = 0 /\ copies' = [copies EXCEPT ![r] = @ + 1]
      BY <1>3, <2>3 DEF HandOver, At, Undecided
    <3>2. Delivery!HandOver(r)
      BY <2>2, <3>1 DEF Delivery!HandOver, Delivery!Accounted
    <3> QED
      BY <3>2 DEF Delivery!Next
  <2>4. CASE AnswerRefused(r)
    <3>1. FateOf(r) = "open" /\ copies[r] = 1 /\ copies' = [copies EXCEPT ![r] = @ - 1]
      BY <1>3, <2>4 DEF AnswerRefused, At, Undecided
    <3>2. Delivery!Refused(r)
      BY <2>2, <3>1 DEF Delivery!Refused
    <3> QED
      BY <3>2 DEF Delivery!Next
  <2> QED
    BY <1>7, <2>3, <2>4
<1>8. CASE SettleSent(r)
  <2>1. UNCHANGED copies /\ FateOf(r) = "open" /\ copies[r] = 1
    BY <1>3, <1>8 DEF SettleSent, At, Undecided, history
  <2>2. FateOf(r)' = "sent"
    BY <1>8, TickWrites DEF FateOf, Active
  <2>3. Delivery!Sent(r)
    BY <1>1, <2>1, <2>2, OneFate DEF Delivery!Sent, Delivery!Become
  <2> QED
    BY <2>3 DEF Delivery!Next
<1>9. CASE HoldUncertain(r)
  <2>1. UNCHANGED copies /\ FateOf(r)' = "unknown"
    BY <1>9, TickWrites DEF HoldUncertain, history, FateOf, Active
  <2>2. CASE row[r].uncertain
    <3>1. FateOf(r) = "unknown"
      BY <1>2, <2>2 DEF FateOf, Active
    <3> QED
      BY <1>1, <2>1, <3>1, FatesKept DEF FateOf
  <2>3. CASE ~row[r].uncertain
    <3>1. FateOf(r) \in {"open", "sent", "notSent"}
      BY <1>1, <2>3 DEF TickHasRow, FateOf
    <3>2. Delivery!LoseTrack({r})
      BY <1>1, <2>1, <3>1, OneFate DEF Delivery!LoseTrack
    <3> QED
      BY <3>2 DEF Delivery!Next
  <2> QED
    BY <2>2, <2>3
<1> QED
  BY <1>4, <1>5, <1>6, <1>7, <1>8, <1>9, TickKinds

LEMMA RecoveryRefines ==
  ASSUME IInv, (\E r \in Rows : Age(r)) \/ HoldStranded \/ RequeueStranded
  PROVE  Delivery!Next \/ UNCHANGED Delivery!vars
<1>1. /\ row \in [Rows -> RowRecords]
      /\ UNCHANGED copies
  BY DEF Age, HoldStranded, RequeueStranded, history, IInv, TypeOK
<1>2. CASE (\E r \in Rows : Age(r)) \/ RequeueStranded
  <2>1. ASSUME NEW q \in Rows
        PROVE  \/ row'[q] = row[q]
               \/ /\ {row[q].status, row'[q].status} \subseteq Active
                  /\ row'[q].uncertain = row[q].uncertain
    <3>1. \/ row'[q] = row[q]
          \/ /\ row[q].status = "PROCESSING"
             /\ \/ row'[q] = [row[q] EXCEPT !.old = TRUE]
                \/ row'[q] = [row[q] EXCEPT !.status = "PENDING", !.old = FALSE]
      BY <1>1, <1>2 DEF Age, RequeueStranded, Stranded
    <3> QED
      BY <1>1, <3>1 DEF RowRecords, Active
  <2>2. \A q \in Rows : FateOf(q)' = FateOf(q)
    BY <2>1, SameColumnsSameFate
  <2> QED
    BY <1>1, <2>2, FatesKept
<1>3. CASE HoldStranded
  <2> DEFINE lost == {r \in Rows : Stranded(r) /\ row[r].stamped}
  <2>1. row' = [r \in Rows |-> IF r \in lost
          THEN [row[r] EXCEPT !.status = "FAILED", !.uncertain = TRUE, !.old = FALSE]
          ELSE row[r]]
    BY <1>3 DEF HoldStranded
  <2>2. ASSUME NEW q \in lost PROVE FateOf(q) = "open" /\ FateOf(q)' = "unknown"
    <3>1. /\ row[q].status = "PROCESSING" /\ row'[q].status = "FAILED"
          /\ row'[q].uncertain
      BY <1>1, <2>1 DEF Stranded, RowRecords
    <3> QED
      BY <3>1 DEF FateOf, Active
  <2>3. lost \in SUBSET Rows /\ \A q \in Rows : q \notin lost => row'[q] = row[q]
    BY <2>1
  <2> HIDE DEF lost
  <2>4. Delivery!LoseTrack(lost)
    BY <1>1, <2>2, <2>3, FatesMove DEF Delivery!LoseTrack
  <2> QED
    BY <2>3, <2>4 DEF Delivery!Next
<1> QED
  BY <1>2, <1>3

(* What is pending has not arrived: cancelling it gives it up.             *)
LEMMA CancelRefines ==
  ASSUME IInv, NEW rs, CancelPending(rs), UNCHANGED copies
  PROVE  Delivery!Next
<1> DEFINE gone == {r \in Rows : r \in rs /\ row[r].status = "PENDING"}
<1>1. row' = [r \in Rows |-> IF r \in gone
        THEN [row[r] EXCEPT !.status = "CANCELLED", !.old = FALSE] ELSE row[r]]
  BY DEF CancelPending
<1>2. ASSUME NEW q \in gone
      PROVE  FateOf(q) = "open" /\ FateOf(q)' = "notSent" /\ copies[q] = 0
  <2>1. row[q].status = "PENDING" /\ row'[q].status = "CANCELLED"
    BY <1>1 DEF IInv, TypeOK, RowRecords
  <2>2. copies[q] = 0
    BY <2>1 DEF IInv, RowInv, CannotHaveArrived
  <2> QED
    BY <2>1, <2>2 DEF FateOf, Active
<1>3. gone \in SUBSET Rows /\ \A q \in Rows : q \notin gone => row'[q] = row[q]
  BY <1>1
<1> HIDE DEF gone
<1>4. Delivery!GiveUp(gone)
  BY <1>2, <1>3, FatesMove DEF Delivery!GiveUp, Delivery!Accounted
<1> QED
  BY <1>3, <1>4 DEF Delivery!Next

(* Retry reopens rows that failed for certain.                             *)
LEMMA RetryRefines ==
  ASSUME IInv, NEW d \in Dashboards, RetryRows(d)
  PROVE  Delivery!Next
<1> DEFINE rs == Retryable(request[d].job)
<1>1. /\ row' = [r \in Rows |-> IF r \in rs
                   THEN [NewRow EXCEPT !.status = "PENDING"] ELSE row[r]]
      /\ UNCHANGED copies
  BY DEF RetryRows, history
<1>2. rs \in SUBSET Rows
      /\ \A q \in rs : row[q].status = "FAILED" /\ ~row[q].uncertain
  BY DEF Retryable, RowsOf
<1> HIDE DEF rs
<1>3. ASSUME NEW q \in rs PROVE FateOf(q) = "notSent" /\ FateOf(q)' = "open"
  <2>1. row'[q].status = "PENDING"
    BY <1>1, <1>2 DEF NewRow
  <2> QED
    BY <1>2, <2>1 DEF FateOf, Active
<1>4. Delivery!TryAgain(rs)
  BY <1>1, <1>2, <1>3, FatesMove DEF Delivery!TryAgain
<1> QED
  BY <1>2, <1>4 DEF Delivery!Next

LEMMA StepRefines ==
  ASSUME IInv, TickHasRow, [Next]_vars
  PROVE  [Delivery!Next]_(Delivery!vars)
<1>1. row \in [Rows -> RowRecords] /\ \A q \in Rows : RowInv(q)
  BY DEF IInv, TypeOK
<1>2. ASSUME UNCHANGED <<row, copies>> PROVE UNCHANGED Delivery!vars
  BY <1>2, FatesKept DEF FateOf
<1>3. ASSUME NEW r \in Rows, InsertRow(r) PROVE Delivery!Next
  <2>1. /\ UNCHANGED copies /\ \A q \in Rows : q # r => row'[q] = row[q]
        /\ row[r].status = "ABSENT" /\ row'[r].status = "PENDING"
    BY <1>1, <1>3 DEF InsertRow, Settle, history, RowRecords
  <2>2. FateOf(r) = "none" /\ FateOf(r)' = "open"
    BY <2>1 DEF FateOf, Active
  <2>3. Delivery!Accept(r)
    BY <2>1, <2>2, OneFate DEF Delivery!Accept, Delivery!Become
  <2> QED
    BY <2>3 DEF Delivery!Next
<1>4. ASSUME NEW r \in Rows, Claim(r) PROVE UNCHANGED Delivery!vars
  <2>1. /\ UNCHANGED copies /\ \A q \in Rows : q # r => row'[q] = row[q]
        /\ {row[r].status, row'[r].status} \subseteq Active
        /\ row'[r].uncertain = row[r].uncertain
    BY <1>1, <1>4 DEF Claim, Settle, history, RowRecords, Active
  <2> QED
    BY <2>1, SameColumnsSameFate, FatesKept
<1>5. ASSUME NEW d \in Dashboards, Dashboard(d)
      PROVE  Delivery!Next \/ UNCHANGED Delivery!vars
  <2>1. CASE RetryRows(d)
    BY <2>1, RetryRefines
  <2>2. CASE KillRows(d) \/ \E j \in Jobs : CancelRows(d, j)
    <3>1. UNCHANGED copies /\ \E rs : CancelPending(rs)
      BY <2>2 DEF KillRows, CancelRows, history
    <3> QED
      BY <3>1, CancelRefines
  <2>3. CASE ~RetryRows(d) /\ ~KillRows(d) /\ ~\E j \in Jobs : CancelRows(d, j)
    BY <1>2, <1>5, <2>3 DEF Dashboard, Carry, CancelJob, RetryRead, ReviveJob,
      KillSwitch, KillFind, KillJobs, RequestDies, history
  <2> QED
    BY <2>1, <2>2, <2>3
<1>6. CASE \/ UNCHANGED vars \/ TickThrows \/ Crash \/ Resume
           \/ \E j \in Jobs : CreateJob(j)
  BY <1>2, <1>6 DEF vars, TickThrows, Crash, Resume, CreateJob, history
<1>7. CASE (\E r \in Rows : Age(r)) \/ HoldStranded \/ RequeueStranded
  BY <1>7, RecoveryRefines
<1>8. ASSUME NEW r \in Rows, Tick(r)
      PROVE  Delivery!Next \/ UNCHANGED Delivery!vars
  BY <1>8, TickRefines
<1> QED
  BY <1>3, <1>4, <1>5, <1>6, <1>7, <1>8 DEF Next

(* A tick never works on a row that does not exist.                        *)
THEOREM TickRowExists == Spec => []TickHasRow
<1>1. Init => TickHasRow
  BY DEF Init, Idle, TickHasRow
<1> QED
  BY <1>1, TickNeverLosesRow, Invariance, PTL DEF Spec

(* Every behaviour of the broadcasts' rows is one that the at-most-once    *)
(* promise of ReplyDelivery allows with nobody to vouch for a copy.        *)
THEOREM BroadcastsImplementDelivery == Spec => ImplementsDelivery
<1>1. IInv /\ TickHasRow /\ [Next]_vars => [Delivery!Next]_(Delivery!vars)
  BY StepRefines
<1> QED
  BY <1>1, InitRefines, Invariance, TickRowExists, PTL
  DEF Spec, ImplementsDelivery, Delivery!Spec

----------------------------------------------------------------------------
(* A stop that nothing is about to undo stands.                            *)

(* Nothing that may undo a stop begins while it stands, and nothing that   *)
(* cannot undo it makes the job leave it.                                  *)
LEMMA FirmKept ==
  ASSUME NEW j \in Jobs, Stopped(j), ~MayBeUndone(j),
         job'[j].started = job[j].started, job'[j].status \in StopStatuses,
         worker'.pc \in {"count", "complete"} /\ JobOf[worker'.row] = j =>
           worker.pc \in {"count", "complete"} /\ JobOf[worker.row] = j,
         \A d \in Dashboards :
           request'[d].act \in {"RETRY_ROWS", "REVIVE"} /\ request'[d].job = j =>
             request[d].act \in {"RETRY_ROWS", "REVIVE"} /\ request[d].job = j
  PROVE  (Stopped(j) /\ ~MayBeUndone(j))'
  BY DEF Stopped, MayBeUndone

LEMMA FirmTick ==
  ASSUME IInv, NEW r \in Rows, Tick(r), NEW j \in Jobs, Stopped(j), ~MayBeUndone(j)
  PROVE  (Stopped(j) /\ ~MayBeUndone(j))'
<1>1. worker \in Ticks /\ worker.row = r /\ worker.pc # "idle" /\ JobOf[r] \in Jobs
  BY TickOnRow, TickFacts
<1>2. job \in [Jobs -> JobRecords]
  BY DEF IInv, TypeOK
<1>3. /\ ~LookAtJob(r) /\ ~CountActive(r) /\ ~CompleteJob(r) =>
           worker' = Idle \/ worker'.pc \notin {"count", "complete"}
      /\ LookAtJob(r) => worker' = Idle \/ (worker'.row = r /\ ~Stopped(JobOf[r]))
      /\ CountActive(r) => worker.pc = "count"
      /\ CompleteJob(r) => worker.pc = "complete"
  <2>1. CASE LookAtJob(r) \/ CountActive(r) \/ CompleteJob(r)
    BY <1>1, <2>1 DEF LookAtJob, CountActive, CompleteJob, At, Goto, Ticks
  <2>2. CASE ~LookAtJob(r) /\ ~CountActive(r) /\ ~CompleteJob(r)
    <3>1. \/ worker' = Idle
          \/ \E pc \in (Unstamped \cup Undecided \cup Settling \cup {"unknown"}) \ {"count", "complete"} :
               Goto(pc) \/ \E caught : GotoSettling(pc, caught)
      BY <2>2 DEF Tick, RefuseForeign, DeferNotHeld, ReadKillSwitch, KillSwitchCancel, MarkStopped,
        ReadJob, StoppedCancel, DeferForJobCap, GiveUpForLimit, StartJob, SkipNotMember, Stamp,
        HandOver, AnswerAccepted, AnswerRefused, AnswerLost, SettleSent, RetryLater, GiveUp,
        HoldUncertain, Unstamped, Undecided, Settling
    <3> QED
      BY <1>1, <2>2, <3>1 DEF Goto, GotoSettling, Ticks
  <2> QED
    BY <2>1, <2>2
<1>4. request' = request
  BY DEF Tick, RefuseForeign, DeferNotHeld, ReadKillSwitch, KillSwitchCancel, MarkStopped,
    ReadJob, StoppedCancel, DeferForJobCap, GiveUpForLimit, StartJob, SkipNotMember, Stamp,
    HandOver, AnswerAccepted, AnswerRefused, AnswerLost, SettleSent, RetryLater, GiveUp,
    HoldUncertain, LookAtJob, CountActive, CompleteJob
<1>5. job'[j].started = job[j].started /\ job'[j].status \in StopStatuses
  <2>1. CASE MarkStopped(r)
    BY <1>1, <1>2, <2>1 DEF MarkStopped, Stop, Stopped, JobRecords
  <2>2. CASE StartJob(r)
    <3>1. job[j].started
      BY DEF MayBeUndone
    <3> QED
      BY <1>1, <1>2, <2>2, <3>1 DEF StartJob, Stopped
  <2>3. CASE CompleteJob(r)
    <3>1. JobOf[r] # j
      BY <1>1, <1>3, <2>3 DEF MayBeUndone
    <3> QED
      BY <1>1, <1>2, <2>3, <3>1 DEF CompleteJob, Stopped
  <2>4. CASE ~MarkStopped(r) /\ ~StartJob(r) /\ ~CompleteJob(r)
    <3>1. job' = job
      BY <2>4 DEF Tick, RefuseForeign, DeferNotHeld, ReadKillSwitch, KillSwitchCancel,
        ReadJob, StoppedCancel, DeferForJobCap, GiveUpForLimit, SkipNotMember, Stamp,
        HandOver, AnswerAccepted, AnswerRefused, AnswerLost, SettleSent, RetryLater, GiveUp,
        HoldUncertain, LookAtJob, CountActive
    <3> QED
      BY <3>1 DEF Stopped
  <2> QED
    BY <2>1, <2>2, <2>3, <2>4
<1>6. worker'.pc \in {"count", "complete"} /\ JobOf[worker'.row] = j =>
        worker.pc \in {"count", "complete"} /\ JobOf[worker.row] = j
  <2>1. CASE LookAtJob(r)
    BY <1>3, <2>1 DEF Idle
  <2>2. CASE CountActive(r) \/ CompleteJob(r)
    BY <1>1, <1>3, <2>2, TickStaysOnRow DEF Idle
  <2> QED
    BY <1>3, <2>1, <2>2 DEF Idle
<1> QED
  BY <1>4, <1>5, <1>6, FirmKept

LEMMA FirmDashboard ==
  ASSUME IInv, NEW d \in Dashboards, Dashboard(d), NEW j \in Jobs, Stopped(j), ~MayBeUndone(j)
  PROVE  (Stopped(j) /\ ~MayBeUndone(j))'
<1>1. /\ job \in [Jobs -> JobRecords]
      /\ request \in [Dashboards -> JobRequests \cup KillRequests \cup {NoRequest}]
  BY DEF IInv, TypeOK
<1>2. ~(request[d].act \in {"RETRY_ROWS", "REVIVE"} /\ request[d].job = j)
  BY DEF MayBeUndone
<1>3. worker' = worker
  BY DEF Dashboard, Carry, CancelRows, CancelJob, RetryRead, RetryRows, ReviveJob,
    KillSwitch, KillFind, KillRows, KillJobs, RequestDies
<1>4. job'[j].started = job[j].started /\ job'[j].status \in StopStatuses
  <2>1. CASE CancelJob(d)
    BY <1>1, <2>1 DEF CancelJob, Stop, Stopped, JobRecords
  <2>2. CASE KillJobs(d)
    BY <1>1, <2>2 DEF KillJobs, Stop, Stopped, StopStatuses, JobRecords
  <2>3. CASE ReviveJob(d)
    BY <1>1, <1>2, <2>3 DEF ReviveJob, Stopped
  <2>4. CASE ~CancelJob(d) /\ ~KillJobs(d) /\ ~ReviveJob(d)
    <3>1. job' = job
      BY <2>4 DEF Dashboard, Carry, CancelRows, RetryRead, RetryRows, KillSwitch, KillFind,
        KillRows, RequestDies
    <3> QED
      BY <3>1 DEF Stopped
  <2> QED
    BY <2>1, <2>2, <2>3, <2>4
<1>5. ~(request'[d].act \in {"RETRY_ROWS", "REVIVE"} /\ request'[d].job = j)
  <2>1. ASSUME NEW i \in Jobs, RetryRead(d, i) PROVE <1>5
    BY <1>1, <2>1 DEF RetryRead, Proceed
  <2>2. CASE RetryRows(d)
    <3>1. request[d] \in JobRequests /\ request[d].job # j
      BY <1>1, <1>2, <2>2 DEF RetryRows, KillRequests, NoRequest
    <3>2. request'[d] = NoRequest \/ request'[d] = [request[d] EXCEPT !.act = "REVIVE"]
      BY <1>1, <2>2 DEF RetryRows, Proceed
    <3> QED
      BY <3>1, <3>2 DEF NoRequest, JobRequests
  <2>3. CASE KillRows(d)
    <3>1. request[d] \in KillRequests
      BY <1>1, <2>3 DEF KillRows, JobRequests, NoRequest
    <3> QED
      BY <1>1, <2>3, <3>1 DEF KillRows, Proceed, KillRequests
  <2>4. CASE \/ \E i \in Jobs : CancelRows(d, i)
             \/ KillSwitch(d) \/ CancelJob(d) \/ ReviveJob(d) \/ KillFind(d) \/ KillJobs(d)
             \/ RequestDies(d)
    BY <1>1, <2>4 DEF CancelRows, KillSwitch, CancelJob, ReviveJob, KillFind, KillJobs,
      RequestDies, Done, Proceed, NoRequest
  <2> QED
    BY <2>1, <2>2, <2>3, <2>4 DEF Dashboard, Carry
<1>6. \A e \in Dashboards \ {d} : request'[e] = request[e]
  BY <1>1 DEF Dashboard, Carry, CancelRows, CancelJob, RetryRead, RetryRows, ReviveJob,
    KillSwitch, KillFind, KillRows, KillJobs, RequestDies, Done, Proceed
<1> QED
  BY <1>3, <1>4, <1>5, <1>6, FirmKept

(* A step that stops jobs leaves behind what makes it worth calling the    *)
(* stop firm: the rest of the step undoes nothing.                         *)
LEMMA FirmStop ==
  ASSUME IInv, FirmInv, NEW js \in SUBSET Jobs, NEW status \in StopStatuses, NEW except,
         Stop(js, status, except),
         \A j \in Jobs : Stopped(j) /\ ~MayBeUndone(j) => (Stopped(j) /\ ~MayBeUndone(j))',
         worker' = worker \/ worker'.pc \notin {"count", "complete"},
         \A d \in Dashboards : request'[d] = request[d] \/ request'[d] = NoRequest
  PROVE  FirmInv'
<1>1. job \in [Jobs -> JobRecords] /\ firm \subseteq Jobs
  BY DEF IInv, TypeOK
<1> SUFFICES ASSUME NEW j \in firm' PROVE (Stopped(j) /\ ~MayBeUndone(j))'
  BY DEF FirmInv
<1>2. CASE j \in firm
  BY <1>1, <1>2 DEF FirmInv
<1>3. CASE j \notin firm
  <2>1. j \in js /\ job[j].status \notin except /\ ~MayBeUndone(j)
    BY <1>3 DEF Stop
  <2>2. job'[j].status = status /\ job'[j].started = job[j].started
    BY <1>1, <2>1 DEF Stop, JobRecords
  <2> QED
    BY <2>1, <2>2 DEF Stopped, MayBeUndone, NoRequest
<1> QED
  BY <1>2, <1>3

LEMMA FirmInductive == IInv /\ FirmInv /\ [Next]_vars => FirmInv'
<1> SUFFICES ASSUME IInv, FirmInv, [Next]_vars PROVE FirmInv'
  OBVIOUS
<1>1. /\ job \in [Jobs -> JobRecords] /\ firm \subseteq Jobs
      /\ request \in [Dashboards -> JobRequests \cup KillRequests \cup {NoRequest}]
      /\ row \in [Rows -> RowRecords]
  BY DEF IInv, TypeOK
<1>2. \A j \in Jobs : Stopped(j) /\ ~MayBeUndone(j) => (Stopped(j) /\ ~MayBeUndone(j))'
  <2> SUFFICES ASSUME NEW j \in Jobs, Stopped(j), ~MayBeUndone(j)
               PROVE  (Stopped(j) /\ ~MayBeUndone(j))'
    OBVIOUS
  <2>1. ASSUME NEW r \in Rows, Tick(r) PROVE (Stopped(j) /\ ~MayBeUndone(j))'
    BY <2>1, FirmTick
  <2>2. ASSUME NEW d \in Dashboards, Dashboard(d) PROVE (Stopped(j) /\ ~MayBeUndone(j))'
    BY <2>2, FirmDashboard
  <2>3. ASSUME NEW i \in Jobs, CreateJob(i) PROVE (Stopped(j) /\ ~MayBeUndone(j))'
    <3>1. i # j
      BY <2>3 DEF CreateJob, Stopped, StopStatuses
    <3> QED
      BY <1>1, <2>3, <3>1, FirmKept DEF CreateJob, Stopped
  <2>4. CASE \E r \in Rows : Claim(r)
    BY <2>4, FirmKept DEF Claim, Stopped
  <2>5. CASE \/ UNCHANGED vars \/ TickThrows \/ Crash \/ HoldStranded \/ RequeueStranded \/ Resume
             \/ \E r \in Rows : InsertRow(r) \/ Age(r)
    <3>1. job' = job /\ request' = request /\ worker' \in {worker, Idle}
      BY <2>5 DEF vars, TickThrows, Crash, HoldStranded, RequeueStranded, Resume, InsertRow, Age
    <3> QED
      BY <3>1, FirmKept DEF Stopped, Idle
  <2> QED
    BY <2>1, <2>2, <2>3, <2>4, <2>5 DEF Next
<1>3. ASSUME NEW r \in Rows, MarkStopped(r) PROVE FirmInv'
  <2>1. Tick(r)
    BY <1>3 DEF Tick
  <2>2. worker'.pc \notin {"count", "complete"}
    BY <1>3, <2>1, TickOnRow, TickFacts DEF MarkStopped, Goto, Ticks
  <2>3. {JobOf[r]} \in SUBSET Jobs
    BY <2>1, TickOnRow, TickFacts
  <2> QED
    BY <1>2, <1>3, <2>2, <2>3, FirmStop DEF MarkStopped, StopStatuses
<1>4. ASSUME NEW d \in Dashboards, CancelJob(d) \/ KillJobs(d) PROVE FirmInv'
  <2>1. worker' = worker /\ \A e \in Dashboards : request'[e] = request[e] \/ request'[e] = NoRequest
    BY <1>1, <1>4 DEF CancelJob, KillJobs, Done, Proceed
  <2>2. CASE CancelJob(d)
    <3>1. {request[d].job} \in SUBSET Jobs
      BY <1>1, <2>2 DEF CancelJob, JobRequests, KillRequests, NoRequest
    <3> QED
      BY <1>2, <2>1, <2>2, <3>1, FirmStop DEF CancelJob, StopStatuses
  <2>3. CASE KillJobs(d)
    <3>1. request[d].jobs \in SUBSET Jobs
      BY <1>1, <2>3 DEF KillJobs, JobRequests, KillRequests, NoRequest
    <3> QED
      BY <1>2, <2>1, <2>3, <3>1, FirmStop DEF KillJobs, StopStatuses
  <2> QED
    BY <1>4, <2>2, <2>3
<1>5. CASE firm' = firm
  BY <1>1, <1>2, <1>5 DEF FirmInv
<1>6. \/ firm' = firm
      \/ \E r \in Rows : MarkStopped(r)
      \/ \E d \in Dashboards : CancelJob(d) \/ KillJobs(d)
  BY DEF Next, vars, history, CreateJob, InsertRow, Claim, Age, TickThrows, Crash, HoldStranded,
    RequeueStranded, Resume, Dashboard, Carry, CancelRows, RetryRead, RetryRows, ReviveJob,
    KillSwitch, KillFind, KillRows, RequestDies, Tick, RefuseForeign, DeferNotHeld,
    ReadKillSwitch, KillSwitchCancel, ReadJob, StoppedCancel, DeferForJobCap, GiveUpForLimit,
    StartJob, SkipNotMember, Stamp, HandOver, AnswerAccepted, AnswerRefused, AnswerLost,
    SettleSent, RetryLater, GiveUp, HoldUncertain, LookAtJob, CountActive, CompleteJob
<1> QED
  BY <1>3, <1>4, <1>5, <1>6

(* While a stop stands at most one row of its job is handed over; and it   *)
(* stands for good unless, when it was made, the job's start mark, a       *)
(* completion or a retry that had looked at the job was still to come.     *)
THEOREM StopHolds == Spec => []StopLeaksAtMostOne
<1>1. Init => StopInv
  BY InitIInv DEF Init, StopInv, FirmInv
<1>2. StopInv /\ [Next]_vars => StopInv'
  BY Inductive, FirmInductive DEF StopInv
<1>3. StopInv => StopLeaksAtMostOne
  BY DEF StopInv, FirmInv, IInv, LateInv, StopLeaksAtMostOne
<1> QED
  BY <1>1, <1>2, <1>3, PTL DEF Spec
============================================================================
