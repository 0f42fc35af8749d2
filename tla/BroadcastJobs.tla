---------------------------- MODULE BroadcastJobs ----------------------------
(***************************************************************************)
(* Group broadcasts: a GroupBroadcastJob and the GROUP_BROADCAST rows it   *)
(* puts in the outbound queue.  The worker moves the job along as its rows *)
(* settle (apps/worker/src/queue/groupBroadcastQueue.ts and the broadcast  *)
(* branches of outboundQueueProcessor.ts); people cancel it, retry its     *)
(* failed rows (apps/web/src/server/actions/groupBroadcast.ts) or throw    *)
(* the kill switch (settings.ts).  No two of these statements share a      *)
(* transaction, so each is a step of its own here.                         *)
(***************************************************************************)
EXTENDS Naturals, FiniteSets

CONSTANTS
  Jobs,         \* GroupBroadcastJob rows
  Rows,         \* their OutboundMessage rows
  JobOf,        \* the job each row belongs to (broadcastJobId)
  ForeignRows,  \* rows whose account is missing or belongs to another project
  Dashboards,   \* dashboard requests that may run at the same time
  Requests,     \* the kinds of request they make: CANCEL, RETRY, KILL
  MaxAttempts,  \* GroupBroadcastSettings.retryMaxAttempts
  MaxFaults     \* bound: crashes, aborted ticks and aborted requests in a run

ASSUME BroadcastConstants ==
  /\ JobOf \in [Rows -> Jobs]
  /\ ForeignRows \subseteq Rows
  /\ Requests \subseteq {"CANCEL", "RETRY", "KILL"}
  /\ MaxAttempts \in Nat
  /\ MaxFaults \in Nat

VARIABLES
  job,         \* the columns of each job
  row,         \* the columns of each row
  worker,      \* the tick in progress: memory, lost in a crash
  request,     \* the dashboard requests in progress
  automation,  \* AutomationSettings.automationEnabled, the kill switch
  faults,      \* how many faults have happened
  copies,      \* history: hand-overs of the row that may reach the group
  late,        \* history: hand-overs of the job since it was stopped
  firm         \* history: jobs stopped when nothing was about to undo it

vars == <<job, row, worker, request, automation, faults, copies, late, firm>>
history == <<copies, late, firm>>

----------------------------------------------------------------------------
Active == {"PENDING", "PROCESSING"}
RowStatuses ==
  Active \cup {"ABSENT", "SENT", "FAILED", "RATE_LIMITED", "SKIPPED", "CANCELLED"}
RowRecords ==
  [status: RowStatuses, stamped: BOOLEAN, uncertain: BOOLEAN, attempts: Nat,
   old: BOOLEAN]
NewRow ==
  [status |-> "ABSENT", stamped |-> FALSE, uncertain |-> FALSE, attempts |-> 0,
   old |-> FALSE]

StopStatuses == {"CANCELLED", "STOPPED_KILL_SWITCH"}
JobStatuses == StopStatuses \cup {"ABSENT", "QUEUED", "RUNNING", "COMPLETED"}
JobRecords == [status: JobStatuses, started: BOOLEAN, completed: BOOLEAN]
NewJob == [status |-> "ABSENT", started |-> FALSE, completed |-> FALSE]

RowsOf(j) == {r \in Rows : JobOf[r] = j}
ActiveRows(j) == {r \in RowsOf(j) : row[r].status \in Active}
Stopped(j) == job[j].status \in StopStatuses

(* Where a tick stands: before the stamp, with the hand-over, and after    *)
(* the row's last write, while maybeCompleteBroadcastJob looks at the job. *)
(* caught: an error from here on is caught and held as an unknown outcome. *)
Unstamped == {"resolve", "killed", "gate", "stopped", "limits", "member"}
Undecided == {"handing", "inFlight", "accepted", "refused"}
Settling == {"markStopped", "settled", "count", "complete"}
Idle == [pc |-> "idle"]
Ticks == [pc: Unstamped \cup Undecided \cup Settling \cup {"unknown"},
          row: Rows, attempts: Nat, caught: BOOLEAN]
Working(r) == worker.pc # "idle" /\ worker.row = r
At(pc, r) == worker.pc = pc /\ worker.row = r

NoRequest == [act |-> "NONE"]
JobRequests == [act: {"CANCEL_JOB", "RETRY_ROWS", "REVIVE"}, job: Jobs, status: JobStatuses]
KillRequests == [act: {"KILL_FIND", "KILL_ROWS", "KILL_JOBS"}, jobs: SUBSET Jobs]

Init ==
  /\ job = [j \in Jobs |-> NewJob]
  /\ row = [r \in Rows |-> NewRow]
  /\ worker = Idle
  /\ request = [d \in Dashboards |-> NoRequest]
  /\ automation = TRUE
  /\ faults = 0
  /\ copies = [r \in Rows |-> 0]
  /\ late = [j \in Jobs |-> 0]
  /\ firm = {}

Settle(r, status) ==
  row' = [row EXCEPT ![r].status = status, ![r].old = FALSE]
Goto(pc) == worker' = [worker EXCEPT !.pc = pc]
GotoSettling(pc, caught) == worker' = [worker EXCEPT !.pc = pc, !.caught = caught]

(* What may overwrite a stop: the start mark, a completion or a retry that *)
(* looked at the job before.                                               *)
MayBeUndone(j) ==
  \/ ~job[j].started
  \/ worker.pc \in {"count", "complete"} /\ JobOf[worker.row] = j
  \/ \E d \in Dashboards : request[d].act \in {"RETRY_ROWS", "REVIVE"} /\ request[d].job = j

(* The jobs of js whose status is not excepted get the stop status; their  *)
(* late hand-overs are counted afresh.                                     *)
Stop(js, status, except) ==
  LET now == {j \in js : job[j].status \notin except} IN
  /\ job' = [j \in Jobs |-> IF j \in now THEN [job[j] EXCEPT !.status = status] ELSE job[j]]
  /\ late' = [j \in Jobs |-> IF j \in now THEN 0 ELSE late[j]]
  /\ firm' = firm \cup {j \in now : ~MayBeUndone(j)}

----------------------------------------------------------------------------
(* createGroupBroadcastJob: the job, then its rows one by one.             *)

CreateJob(j) ==
  /\ job[j].status = "ABSENT"
  /\ job' = [job EXCEPT ![j].status = "QUEUED"]
  /\ UNCHANGED <<row, worker, request, automation, faults, history>>

InsertRow(r) ==
  /\ job[JobOf[r]].status # "ABSENT"
  /\ row[r].status = "ABSENT"
  /\ Settle(r, "PENDING")
  /\ UNCHANGED <<job, worker, request, automation, faults, history>>

----------------------------------------------------------------------------
(* The tick, up to the stamp.                                              *)

Claim(r) ==
  /\ worker.pc = "idle"
  /\ row[r].status = "PENDING"
  /\ Settle(r, "PROCESSING")
  /\ worker' = [pc |-> "resolve", row |-> r, attempts |-> row[r].attempts, caught |-> FALSE]
  /\ UNCHANGED <<job, request, automation, faults, history>>

(* The row is settled; the job is not looked at.                           *)
RefuseForeign(r) ==
  /\ At("resolve", r)
  /\ r \in ForeignRows
  /\ Settle(r, "FAILED")
  /\ worker' = Idle
  /\ UNCHANGED <<job, request, automation, faults, history>>

DeferNotHeld(r) ==
  /\ At("resolve", r)
  /\ r \notin ForeignRows
  /\ Settle(r, "PENDING")
  /\ worker' = Idle
  /\ UNCHANGED <<job, request, automation, faults, history>>

ReadKillSwitch(r) ==
  /\ At("resolve", r)
  /\ r \notin ForeignRows
  /\ Goto(IF automation THEN "gate" ELSE "killed")
  /\ UNCHANGED <<job, row, request, automation, faults, history>>

KillSwitchCancel(r) ==
  /\ At("killed", r)
  /\ Settle(r, "CANCELLED")
  /\ GotoSettling("markStopped", FALSE)
  /\ UNCHANGED <<job, request, automation, faults, history>>

MarkStopped(r) ==
  /\ At("markStopped", r)
  /\ Stop({JobOf[r]}, "STOPPED_KILL_SWITCH", StopStatuses)
  /\ Goto("settled")
  /\ UNCHANGED <<row, request, automation, faults, copies>>

(* Mutant: the tick does not look whether its job was stopped.             *)
GateIgnoresStop(r) ==
  /\ At("gate", r)
  /\ Goto("limits")
  /\ UNCHANGED <<job, row, request, automation, faults, history>>

(* handleBroadcastPreSendChecks reads the job.                             *)
ReadJob(r) ==
  /\ At("gate", r)
  /\ Goto(IF Stopped(JobOf[r]) THEN "stopped" ELSE "limits")
  /\ UNCHANGED <<job, row, request, automation, faults, history>>

(* Mutant: a row of a stopped job waits instead of being cancelled.        *)
StoppedWaits(r) ==
  /\ At("stopped", r)
  /\ Settle(r, "PENDING")
  /\ worker' = Idle
  /\ UNCHANGED <<job, request, automation, faults, history>>

StoppedCancel(r) ==
  /\ At("stopped", r)
  /\ Settle(r, "CANCELLED")
  /\ GotoSettling("settled", FALSE)
  /\ UNCHANGED <<job, request, automation, faults, history>>

(* The job's own cap per minute is used up.                                *)
DeferForJobCap(r) ==
  /\ At("limits", r)
  /\ Settle(r, "PENDING")
  /\ worker' = Idle
  /\ UNCHANGED <<job, request, automation, faults, history>>

GiveUpForLimit(r) ==
  /\ At("limits", r)
  /\ Settle(r, "RATE_LIMITED")
  /\ GotoSettling("settled", FALSE)
  /\ UNCHANGED <<job, request, automation, faults, history>>

(* markJobStartedIfNeeded: conditional on startedAt, not on the status.    *)
StartJob(r) ==
  LET j == JobOf[r] IN
  /\ At("limits", r)
  /\ job' = IF job[j].started THEN job
            ELSE [job EXCEPT ![j].started = TRUE, ![j].status = "RUNNING"]
  /\ Goto("member")
  /\ UNCHANGED <<row, request, automation, faults, history>>

SkipNotMember(r) ==
  /\ At("member", r)
  /\ Settle(r, "SKIPPED")
  /\ GotoSettling("settled", FALSE)
  /\ UNCHANGED <<job, request, automation, faults, history>>

Stamp(r) ==
  /\ At("member", r)
  /\ row' = [row EXCEPT ![r].stamped = TRUE, ![r].old = FALSE]
  /\ Goto("handing")
  /\ UNCHANGED <<job, request, automation, faults, history>>

----------------------------------------------------------------------------
(* The hand-over and its answer.                                           *)

HandOver(r) ==
  LET j == JobOf[r] IN
  /\ At("handing", r)
  /\ Goto("inFlight")
  /\ copies' = [copies EXCEPT ![r] = @ + 1]
  /\ late' = IF Stopped(j) THEN [late EXCEPT ![j] = @ + 1] ELSE late
  /\ UNCHANGED <<job, row, request, automation, faults, firm>>

AnswerAccepted(r) ==
  /\ At("inFlight", r)
  /\ Goto("accepted")
  /\ UNCHANGED <<job, row, request, automation, faults, history>>

AnswerRefused(r) ==
  /\ At("inFlight", r)
  /\ Goto("refused")
  /\ copies' = [copies EXCEPT ![r] = @ - 1]
  /\ UNCHANGED <<job, row, request, automation, faults, late, firm>>

(* Mutant: a send that throws is treated as refused.                       *)
LostIsRefused(r) ==
  /\ worker.pc \in Undecided /\ worker.row = r
  /\ Goto("refused")
  /\ UNCHANGED <<job, row, request, automation, faults, history>>

(* One catch for everything after the stamp: the call itself, recording    *)
(* its answer, and settling the job once the row is SENT or given up.      *)
AnswerLost(r) ==
  /\ \/ worker.pc \in Undecided
     \/ worker.pc \in Settling /\ worker.caught
  /\ worker.row = r
  /\ Goto("unknown")
  /\ UNCHANGED <<job, row, request, automation, faults, history>>

SettleSent(r) ==
  /\ At("accepted", r)
  /\ row' = [row EXCEPT ![r].status = "SENT", ![r].attempts = @ + 1, ![r].old = FALSE]
  /\ GotoSettling("settled", TRUE)
  /\ UNCHANGED <<job, request, automation, faults, history>>

RetryLater(r) ==
  /\ At("refused", r)
  /\ worker.attempts + 1 < MaxAttempts
  /\ row' = [row EXCEPT ![r].status = "PENDING", ![r].stamped = FALSE,
                        ![r].attempts = worker.attempts + 1, ![r].old = FALSE]
  /\ worker' = Idle
  /\ UNCHANGED <<job, request, automation, faults, history>>

GiveUp(r) ==
  /\ At("refused", r)
  /\ worker.attempts + 1 >= MaxAttempts
  /\ row' = [row EXCEPT ![r].status = "FAILED", ![r].attempts = worker.attempts + 1,
                        ![r].old = FALSE]
  /\ GotoSettling("settled", TRUE)
  /\ UNCHANGED <<job, request, automation, faults, history>>

HoldUncertain(r) ==
  /\ At("unknown", r)
  /\ row' = [row EXCEPT ![r].status = "FAILED", ![r].uncertain = TRUE,
                        ![r].attempts = worker.attempts + 1, ![r].old = FALSE]
  /\ GotoSettling("settled", FALSE)
  /\ UNCHANGED <<job, request, automation, faults, history>>

----------------------------------------------------------------------------
(* maybeCompleteBroadcastJob: read the job, count its rows, write it.      *)

LookAtJob(r) ==
  LET j == JobOf[r] IN
  /\ At("settled", r)
  /\ IF job[j].completed \/ Stopped(j) THEN worker' = Idle ELSE Goto("count")
  /\ UNCHANGED <<job, row, request, automation, faults, history>>

CountActive(r) ==
  /\ At("count", r)
  /\ IF ActiveRows(JobOf[r]) = {} THEN Goto("complete") ELSE worker' = Idle
  /\ UNCHANGED <<job, row, request, automation, faults, history>>

CompleteJob(r) ==
  /\ At("complete", r)
  /\ job' = [job EXCEPT ![JobOf[r]].status = "COMPLETED", ![JobOf[r]].completed = TRUE]
  /\ worker' = Idle
  /\ UNCHANGED <<row, request, automation, faults, history>>

----------------------------------------------------------------------------
(* Faults and recovery.                                                    *)

Fault == faults < MaxFaults /\ faults' = faults + 1

(* An error outside the catch: the tick ends where it stands.              *)
TickThrows ==
  /\ Fault
  /\ \/ worker.pc \in Unstamped \cup {"unknown"}
     \/ worker.pc \in Settling /\ ~worker.caught
  /\ worker' = Idle
  /\ UNCHANGED <<job, row, request, automation, history>>

Crash ==
  /\ Fault
  /\ worker.pc # "idle"
  /\ worker' = Idle
  /\ UNCHANGED <<job, row, request, automation, history>>

RequestDies(d) ==
  /\ Fault
  /\ request[d] # NoRequest
  /\ request' = [request EXCEPT ![d] = NoRequest]
  /\ UNCHANGED <<job, row, worker, automation, history>>

(* Only a row no live tick works on is ever past recovery's cutoff.        *)
Age(r) ==
  /\ row[r].status = "PROCESSING" /\ ~row[r].old
  /\ ~Working(r)
  /\ row' = [row EXCEPT ![r].old = TRUE]
  /\ UNCHANGED <<job, worker, request, automation, faults, history>>

Stranded(r) == row[r].status = "PROCESSING" /\ row[r].old

(* Recovery settles a stamped row; the job is not looked at.               *)
HoldStranded ==
  /\ \E r \in Rows : Stranded(r) /\ row[r].stamped
  /\ row' = [r \in Rows |->
               IF Stranded(r) /\ row[r].stamped
               THEN [row[r] EXCEPT !.status = "FAILED", !.uncertain = TRUE, !.old = FALSE]
               ELSE row[r]]
  /\ UNCHANGED <<job, worker, request, automation, faults, history>>

(* Mutant: recovery does not tell a stamped row from an unstamped one.     *)
RequeueAllStranded ==
  /\ \E r \in Rows : Stranded(r)
  /\ row' = [r \in Rows |->
               IF Stranded(r) THEN [row[r] EXCEPT !.status = "PENDING", !.old = FALSE]
               ELSE row[r]]
  /\ UNCHANGED <<job, worker, request, automation, faults, history>>

RequeueStranded ==
  /\ \E r \in Rows : Stranded(r) /\ ~row[r].stamped
  /\ row' = [r \in Rows |->
               IF Stranded(r) /\ ~row[r].stamped
               THEN [row[r] EXCEPT !.status = "PENDING", !.old = FALSE]
               ELSE row[r]]
  /\ UNCHANGED <<job, worker, request, automation, faults, history>>

----------------------------------------------------------------------------
(* Dashboard requests, one statement at a time.                            *)

Asks(d, kind) == request[d] = NoRequest /\ kind \in Requests
Proceed(d, req) == request' = [request EXCEPT ![d] = req]
Done(d) == Proceed(d, NoRequest)

CancelPending(rs) ==
  row' = [r \in Rows |-> IF r \in rs /\ row[r].status = "PENDING"
                         THEN [row[r] EXCEPT !.status = "CANCELLED", !.old = FALSE]
                         ELSE row[r]]

(* cancelBroadcastJob                                                      *)
CancelRows(d, j) ==
  /\ Asks(d, "CANCEL") /\ job[j].status # "ABSENT"
  /\ CancelPending(RowsOf(j))
  /\ Proceed(d, [act |-> "CANCEL_JOB", job |-> j, status |-> job[j].status])
  /\ UNCHANGED <<job, worker, automation, faults, history>>

CancelJob(d) ==
  /\ request[d].act = "CANCEL_JOB"
  /\ Stop({request[d].job}, "CANCELLED", StopStatuses \cup {"COMPLETED"})
  /\ Done(d)
  /\ UNCHANGED <<row, worker, automation, faults, copies>>

(* retryFailedBroadcastMessages                                            *)
RetryRead(d, j) ==
  /\ Asks(d, "RETRY") /\ job[j].status # "ABSENT"
  /\ ~Stopped(j)
  /\ Proceed(d, [act |-> "RETRY_ROWS", job |-> j, status |-> job[j].status])
  /\ UNCHANGED <<job, row, worker, automation, faults, history>>

Retryable(j) == {r \in RowsOf(j) : row[r].status = "FAILED" /\ ~row[r].uncertain}

(* Mutant: uncertain rows are retried like any other failed row.           *)
RetryableUnchecked(j) == {r \in RowsOf(j) : row[r].status = "FAILED"}
RetryRowsUnchecked(d) ==
  LET q == request[d] IN
  /\ q.act = "RETRY_ROWS"
  /\ row' = [r \in Rows |-> IF r \in RetryableUnchecked(q.job)
                            THEN [NewRow EXCEPT !.status = "PENDING"] ELSE row[r]]
  /\ Proceed(d, IF q.status = "COMPLETED" /\ RetryableUnchecked(q.job) # {}
              THEN [q EXCEPT !.act = "REVIVE"] ELSE NoRequest)
  /\ UNCHANGED <<job, worker, automation, faults, history>>

RetryRows(d) ==
  LET q == request[d] IN
  /\ q.act = "RETRY_ROWS"
  /\ row' = [r \in Rows |-> IF r \in Retryable(q.job)
                            THEN [NewRow EXCEPT !.status = "PENDING"] ELSE row[r]]
  /\ Proceed(d, IF q.status = "COMPLETED" /\ Retryable(q.job) # {}
              THEN [q EXCEPT !.act = "REVIVE"] ELSE NoRequest)
  /\ UNCHANGED <<job, worker, automation, faults, history>>

(* Unconditional, on a status read two statements ago.                     *)
ReviveJob(d) ==
  LET j == request[d].job IN
  /\ request[d].act = "REVIVE"
  /\ job' = [job EXCEPT ![j].status = "RUNNING", ![j].completed = FALSE]
  /\ Done(d)
  /\ UNCHANGED <<row, worker, automation, faults, history>>

(* setAutomationEnabled(false)                                             *)
KillSwitch(d) ==
  /\ Asks(d, "KILL")
  /\ automation' = FALSE
  /\ Proceed(d, [act |-> "KILL_FIND", jobs |-> {}])
  /\ UNCHANGED <<job, row, worker, faults, history>>

KillFind(d) ==
  /\ request[d].act = "KILL_FIND"
  /\ Proceed(d, [act |-> "KILL_ROWS",
               jobs |-> {JobOf[r] : r \in {q \in Rows : row[q].status = "PENDING"}}])
  /\ UNCHANGED <<job, row, worker, automation, faults, history>>

KillRows(d) ==
  /\ request[d].act = "KILL_ROWS"
  /\ CancelPending(Rows)
  /\ Proceed(d, [request[d] EXCEPT !.act = "KILL_JOBS"])
  /\ UNCHANGED <<job, worker, automation, faults, history>>

KillJobs(d) ==
  /\ request[d].act = "KILL_JOBS"
  /\ Stop(request[d].jobs, "STOPPED_KILL_SWITCH", StopStatuses)
  /\ Done(d)
  /\ UNCHANGED <<row, worker, automation, faults, copies>>

Resume ==
  /\ ~automation
  /\ automation' = TRUE
  /\ UNCHANGED <<job, row, worker, request, faults, history>>

----------------------------------------------------------------------------
Tick(r) ==
  \/ RefuseForeign(r) \/ DeferNotHeld(r) \/ ReadKillSwitch(r)
  \/ KillSwitchCancel(r) \/ MarkStopped(r) \/ ReadJob(r) \/ StoppedCancel(r)
  \/ DeferForJobCap(r) \/ GiveUpForLimit(r) \/ StartJob(r) \/ SkipNotMember(r)
  \/ Stamp(r) \/ HandOver(r) \/ AnswerAccepted(r) \/ AnswerRefused(r)
  \/ AnswerLost(r) \/ SettleSent(r) \/ RetryLater(r) \/ GiveUp(r)
  \/ HoldUncertain(r) \/ LookAtJob(r) \/ CountActive(r) \/ CompleteJob(r)

(* The rest of a request that has begun.                                   *)
Carry(d) ==
  \/ CancelJob(d) \/ RetryRows(d) \/ ReviveJob(d)
  \/ KillFind(d) \/ KillRows(d) \/ KillJobs(d)

Dashboard(d) ==
  \/ \E j \in Jobs : CancelRows(d, j) \/ RetryRead(d, j)
  \/ KillSwitch(d) \/ Carry(d) \/ RequestDies(d)

Next ==
  \/ \E j \in Jobs : CreateJob(j)
  \/ \E r \in Rows : InsertRow(r) \/ Claim(r) \/ Tick(r) \/ Age(r)
  \/ TickThrows \/ Crash \/ HoldStranded \/ RequeueStranded \/ Resume
  \/ \E d \in Dashboards : Dashboard(d)

Spec == Init /\ [][Next]_vars

(* As for the queue: fair loops, and an environment that does not hold the *)
(* same row back for ever.  A request that has begun finishes or dies.     *)
PassGate(r) == RefuseForeign(r) \/ ReadKillSwitch(r)
LeaveLimits(r) == GiveUpForLimit(r) \/ StartJob(r)

Fairness ==
  /\ \A r \in Rows :
       /\ WF_vars(InsertRow(r)) /\ WF_vars(Tick(r)) /\ WF_vars(Age(r))
       /\ SF_vars(Claim(r)) /\ SF_vars(PassGate(r)) /\ SF_vars(LeaveLimits(r))
  /\ \A d \in Dashboards : WF_vars(Carry(d))
  /\ WF_vars(HoldStranded) /\ WF_vars(RequeueStranded)

FairSpec == Spec /\ Fairness

----------------------------------------------------------------------------
TypeOK ==
  /\ job \in [Jobs -> JobRecords]
  /\ row \in [Rows -> RowRecords]
  /\ worker \in Ticks \cup {Idle}
  /\ request \in [Dashboards -> JobRequests \cup KillRequests \cup {NoRequest}]
  /\ automation \in BOOLEAN
  /\ faults \in 0 .. MaxFaults
  /\ copies \in [Rows -> Nat]
  /\ late \in [Jobs -> Nat]
  /\ firm \subseteq Jobs

(* No group ever gets a broadcast message twice, whatever crashes, lost    *)
(* answers and Retry clicks its row goes through (sendStartedAt in         *)
(* recovery, deliveryUncertain in retryFailedBroadcastMessages).           *)
GroupGetsItOnce == \A r \in Rows : copies[r] <= 1

(* The outcome a job page shows is true: a row it calls SENT was sent, and *)
(* a row it calls failed, skipped or cancelled without a warning was not.  *)
(* Holds although the catch may overwrite a SENT row as uncertain.         *)
HonestOutcome ==
  \A r \in Rows :
    /\ row[r].status = "SENT" => copies[r] = 1
    /\ row[r].status \notin Active \cup {"SENT"} /\ ~row[r].uncertain => copies[r] = 0

(* A stopped job stops: while the stop stands at most one of its rows, the *)
(* one already past the tick's check, is still handed over, including rows *)
(* inserted or put back in the queue after it                              *)
(* (handleBroadcastPreSendChecks).  And the stop stands for good, unless   *)
(* it came before the job's start mark or beside a completion or a retry   *)
(* that had looked at the job already: those overwrite it                  *)
(* (StopsAreSticky), and from then on nothing bounds what is sent.         *)
StopLeaksAtMostOne ==
  \A j \in Jobs :
    /\ late[j] <= 1
    /\ j \in firm => Stopped(j)

(* "Never overwrites CANCELLED/STOPPED_KILL_SWITCH: those are sticky": no  *)
(* step takes a stopped job out of its status.                             *)
StopsAreSticky ==
  [][\A j \in Jobs : Stopped(j) => job'[j].status = job[j].status]_vars

(* A job that was queued is over in the end: completed or stopped.         *)
EveryJobFinishes ==
  \A j \in Jobs :
    job[j].status \in {"QUEUED", "RUNNING"} ~> job[j].status \in StopStatuses \cup {"COMPLETED"}

(* What a stopped job still has in the queue is taken out of it in the     *)
(* end, rows that arrived after the stop included.                         *)
StoppedJobDrains ==
  \A j \in Jobs : Stopped(j) ~> ActiveRows(j) = {} \/ ~Stopped(j)
----------------------------------------------------------------------------
(* The inductive strengthening of the safety properties.                   *)

CannotHaveArrived(r) ==
  \/ row[r].status \notin Active \cup {"SENT"} /\ ~row[r].uncertain
  \/ row[r].status = "PENDING"
  \/ row[r].status = "PROCESSING" /\ ~row[r].stamped

RowInv(r) ==
  /\ row[r].uncertain => row[r].status = "FAILED"
  /\ row[r].status \in {"ABSENT", "PENDING"} => ~row[r].stamped
  /\ copies[r] <= 1
  /\ CannotHaveArrived(r) => copies[r] = 0
  /\ row[r].status = "SENT" => copies[r] = 1

(* Until its row is settled a tick holds it, and its pc says what may have *)
(* arrived.  Afterwards the row is anybody's.                              *)
TickInv ==
  worker.pc \in Unstamped \cup Undecided =>
    LET r == worker.row IN
    /\ row[r].status = "PROCESSING"
    /\ ~row[r].old
    /\ row[r].stamped <=> worker.pc \in Undecided
    /\ worker.pc \in {"handing", "refused"} => copies[r] = 0
    /\ worker.pc \in {"inFlight", "accepted"} => copies[r] = 1

(* The tick has read its job as not stopped and has not handed over yet.   *)
PastTheCheck(j) ==
  worker.pc \in {"limits", "member", "handing"} /\ JobOf[worker.row] = j

LateInv ==
  \A j \in Jobs :
    /\ late[j] <= 1
    /\ Stopped(j) /\ late[j] = 1 => ~PastTheCheck(j)

FirmInv == \A j \in firm : Stopped(j) /\ ~MayBeUndone(j)

IInv ==
  /\ TypeOK
  /\ \A r \in Rows : RowInv(r)
  /\ TickInv
  /\ LateInv

(* What StopLeaksAtMostOne needs besides.                                  *)
StopInv == IInv /\ FirmInv
============================================================================
