-------------------------- MODULE ParticipantAdds --------------------------
(***************************************************************************)
(* A job that adds people to WhatsApp groups, one item per number and      *)
(* group.  A check loop reads the rosters, a person confirms what to add,  *)
(* an add loop adds it (apps/worker/src/queue/groupParticipantCheck-       *)
(* Processor.ts, groupParticipantAddProcessor.ts, groupParticipantAdd-     *)
(* Queue.ts; apps/web/src/server/actions/groupParticipantAdd.ts).  The two *)
(* loops and the people's requests share no transaction: each statement is *)
(* a step of its own.                                                      *)
(***************************************************************************)
EXTENDS Integers

CONSTANTS
  Items,          \* the job's GroupParticipantAddItem rows
  Dashboards,     \* dashboard requests that may run at the same time
  Requests,       \* what they ask: CONFIRM, RECHECK, CANCEL, RETRY
  AddMaxAttempts, \* GroupParticipantAddSettings.retryMaxAttempts
  MaxRequests,    \* bound: requests and turns of the kill switch
  MaxFaults       \* bound: worker crashes

ASSUME ParticipantAddsConstants ==
  /\ Requests \subseteq {"CONFIRM", "RECHECK", "CANCEL", "RETRY"}
  /\ AddMaxAttempts \in Nat \ {0}
  /\ MaxRequests \in Nat
  /\ MaxFaults \in Nat

VARIABLES
  job,         \* GroupParticipantAddJob: status, startedAt, completedAt
  item,        \* GroupParticipantAddItem: status, attemptCount
  adder,       \* the add loop's tick: memory
  checker,     \* the check loop's tick: memory
  request,     \* the dashboard requests in progress
  automation,  \* the kill switch
  member,      \* WhatsApp: the number is in the group
  asked,       \* how many requests there have been
  faults,      \* how many crashes
  addCalls,    \* history: addGroupParticipant calls for the item
  allowed,     \* history: calls that approvals and retries have allowed it
  lateAdds,    \* history: calls since the job was stopped
  firm         \* history: the job was stopped when nothing was about to undo it

database == <<job, item>>
loops == <<adder, checker>>
addsHistory == <<addCalls, allowed, lateAdds, firm>>
addsVars == <<job, item, adder, checker, request, automation, member, asked, faults, addsHistory>>

----------------------------------------------------------------------------
Stops == {"CANCELLED", "STOPPED_KILL_SWITCH"}
JobStates == Stops \cup {"CHECKING", "AWAITING_REVIEW", "QUEUED", "RUNNING", "COMPLETED"}
Selectable == {"READY", "CANNOT_VERIFY"}
(* BARRED: NO_PERMISSION, GROUP_UNAVAILABLE and CHECK_FAILED; MEMBER:      *)
(* ALREADY_MEMBER, INVALID_NUMBER and NOT_ON_WHATSAPP.                     *)
CheckVerdicts == Selectable \cup {"BARRED", "MEMBER"}
ToCheck == {"PENDING_CHECK", "CHECKING"}
Active == {"PENDING", "PROCESSING"}
Rechecked == {"FAILED", "BARRED", "CANNOT_VERIFY", "NOT_SELECTED"}
ItemStates ==
  CheckVerdicts \cup ToCheck \cup Active
    \cup {"NOT_SELECTED", "ADDED", "SKIPPED_ALREADY_MEMBER", "FAILED", "CANCELLED"}

Idle == [pc |-> "idle"]
(* seen: attemptCount when the item was claimed.                           *)
Adding ==
  [pc: {"switch", "gate", "start", "add", "refused", "markStopped", "settled", "count",
        "complete"}, item: Items, seen: Nat]
Checking == [pc: {"claim", "read", "settle"}, items: SUBSET Items]
NoRequest == [act |-> "NONE"]
Asking ==
  [act: {"CONFIRM_PICK"}]
    \cup [act: {"CONFIRM_ITEMS", "CONFIRM_REST", "CONFIRM_JOB"}, left: SUBSET Items,
          picked: SUBSET Items]
    \cup [act: {"RECHECK_JOB", "CANCEL_JOB"}]
    \cup [act: {"RETRY_ITEMS", "REVIVE"}, saw: JobStates]

Stopped == job.status \in Stops
With(states) == {i \in Items : item[i].status \in states}
Set(from, to) ==
  item' = [i \in Items |-> IF i \in from THEN [item[i] EXCEPT !.status = to] ELSE item[i]]
(* The budget of attempts of these items starts over.                      *)
Allow(from, calls) ==
  allowed' = [i \in Items |-> IF i \in from THEN allowed[i] + calls ELSE allowed[i]]
StartOver(from, to) ==
  /\ item' = [i \in Items |-> IF i \in from THEN [status |-> to, attempts |-> 0] ELSE item[i]]
  /\ Allow(from, AddMaxAttempts)

(* What may overwrite a stop: the start mark, a completion, or a person's  *)
(* request that looked at the job before, or never looks.                  *)
MayBeUndone ==
  \/ ~job.started
  \/ adder.pc \in {"count", "complete"}
  \/ \E d \in Dashboards : request[d].act \notin {"NONE", "CANCEL_JOB"}

(* Late adds are counted afresh from a stop.                               *)
Stop(status) ==
  /\ job' = [job EXCEPT !.status = status]
  /\ lateAdds' = 0
  /\ firm' = ~MayBeUndone

AddsInit ==
  /\ job = [status |-> "CHECKING", started |-> FALSE, completed |-> FALSE]
  /\ item = [i \in Items |-> [status |-> "PENDING_CHECK", attempts |-> 0]]
  /\ adder = Idle
  /\ checker = Idle
  /\ request = [d \in Dashboards |-> NoRequest]
  /\ automation = TRUE
  /\ member = [i \in Items |-> FALSE]
  /\ asked = 0
  /\ faults = 0
  /\ addCalls = [i \in Items |-> 0]
  /\ allowed = [i \in Items |-> AddMaxAttempts]
  /\ lateAdds = 0
  /\ firm = FALSE

----------------------------------------------------------------------------
(* The check loop: checkOneJob of a CHECKING job.                          *)

CheckBegins ==
  /\ checker = Idle
  /\ job.status = "CHECKING"
  /\ checker' = LET found == With({"PENDING_CHECK"}) IN
                [pc |-> IF found = {} THEN "settle" ELSE "claim", items |-> found]
  /\ UNCHANGED <<database, adder, request, automation, member, asked, faults, addsHistory>>

ClaimChecks ==
  /\ checker.pc = "claim"
  /\ Set(checker.items, "CHECKING")
  /\ checker' = [checker EXCEPT !.pc = "read"]
  /\ UNCHANGED <<job, adder, request, automation, member, asked, faults, addsHistory>>

(* The verdicts are written one by one, by id; an item of a group beyond   *)
(* MAX_GROUPS_PER_TICK goes back.                                          *)
WriteVerdict(i, verdict) ==
  /\ checker.pc = "read"
  /\ i \in checker.items
  /\ Set({i}, verdict)
  /\ checker' = LET left == checker.items \ {i} IN
                [pc |-> IF left = {} THEN "settle" ELSE "read", items |-> left]
  /\ UNCHANGED <<job, adder, request, automation, member, asked, faults, addsHistory>>

SettleCheck ==
  /\ checker.pc = "settle"
  /\ job' = IF With(ToCheck) = {} /\ job.status = "CHECKING"
            THEN [job EXCEPT !.status = "AWAITING_REVIEW"] ELSE job
  /\ checker' = Idle
  /\ UNCHANGED <<item, adder, request, automation, member, asked, faults, addsHistory>>

----------------------------------------------------------------------------
(* The add loop: processClaimedItem.                                       *)

AdderAt(pc) == adder.pc = pc
Goto(pc) == adder' = [adder EXCEPT !.pc = pc]

ClaimItem(i) ==
  /\ adder = Idle
  /\ item[i].status = "PENDING"
  /\ Set({i}, "PROCESSING")
  /\ adder' = [pc |-> "switch", item |-> i, seen |-> item[i].attempts]
  /\ UNCHANGED <<job, checker, request, automation, member, asked, faults, addsHistory>>

(* No session, a lost connection, the limit per minute.                    *)
Defer ==
  /\ adder.pc \in {"switch", "start"}
  /\ Set({adder.item}, "PENDING")
  /\ adder' = Idle
  /\ UNCHANGED <<job, checker, request, automation, member, asked, faults, addsHistory>>

ReadKillSwitch ==
  /\ AdderAt("switch")
  /\ IF automation THEN item' = item /\ Goto("gate")
     ELSE Set({adder.item}, "CANCELLED") /\ Goto("markStopped")
  /\ UNCHANGED <<job, checker, request, automation, member, asked, faults, addsHistory>>

MarkStopped ==
  /\ AdderAt("markStopped")
  /\ IF Stopped THEN UNCHANGED <<job, lateAdds, firm>> ELSE Stop("STOPPED_KILL_SWITCH")
  /\ Goto("settled")
  /\ UNCHANGED <<item, checker, request, automation, member, asked, faults, addCalls, allowed>>

(* Mutant: the job is not looked at before an add.                         *)
GateAlwaysOpen ==
  /\ AdderAt("gate")
  /\ Goto("start")
  /\ UNCHANGED <<database, checker, request, automation, member, asked, faults, addsHistory>>
(* handlePreAddChecks                                                      *)
Gate ==
  /\ AdderAt("gate")
  /\ IF Stopped THEN Set({adder.item}, "CANCELLED") /\ Goto("settled")
     ELSE item' = item /\ Goto("start")
  /\ UNCHANGED <<job, checker, request, automation, member, asked, faults, addsHistory>>

(* markJobStartedIfNeeded: conditional on startedAt, not on the status.    *)
StartJob ==
  /\ AdderAt("start")
  /\ job' = IF job.started THEN job ELSE [job EXCEPT !.started = TRUE, !.status = "RUNNING"]
  /\ Goto("add")
  /\ UNCHANGED <<item, checker, request, automation, member, asked, faults, addsHistory>>

(* The group is gone or this account has left it: FAILED.  The number is   *)
(* in the group already, as far as the roster tells: skipped.              *)
NotToAdd(status) ==
  /\ AdderAt("add")
  /\ status = "FAILED" \/ (status = "SKIPPED_ALREADY_MEMBER" /\ member[adder.item])
  /\ item' = [item EXCEPT ![adder.item] =
       [status |-> status, attempts |-> IF status = "FAILED" THEN @.attempts + 1 ELSE @.attempts]]
  /\ Goto("settled")
  /\ UNCHANGED <<job, checker, request, automation, member, asked, faults, addsHistory>>

(* addGroupParticipant.  lost: it was done, and the answer is an error.    *)
Add(outcome) ==
  LET i == adder.item IN
  /\ AdderAt("add")
  /\ outcome \in {"done", "lost"} => ~member[i]
  /\ addCalls' = [addCalls EXCEPT ![i] = @ + 1]
  /\ lateAdds' = IF Stopped THEN lateAdds + 1 ELSE lateAdds
  /\ member' = IF outcome = "refused" THEN member ELSE [member EXCEPT ![i] = TRUE]
  /\ IF outcome = "done"
     THEN /\ item' = [item EXCEPT ![i] = [status |-> "ADDED", attempts |-> @.attempts + 1]]
          /\ Goto("settled")
     ELSE item' = item /\ Goto("refused")
  /\ UNCHANGED <<job, checker, request, automation, asked, faults, allowed, firm>>

(* Mutant: a refusal is not counted.                                       *)
RefusedUncounted ==
  /\ AdderAt("refused")
  /\ item' = [item EXCEPT ![adder.item] = [status |-> "PENDING", attempts |-> adder.seen]]
  /\ adder' = Idle
  /\ UNCHANGED <<job, checker, request, automation, member, asked, faults, addsHistory>>
(* handleAddFailure: WhatsApp says the number is in the group, the budget  *)
(* is used up, or another attempt.                                         *)
AddRefused ==
  LET i == adder.item
      n == adder.seen + 1
      status == IF member[i] THEN {"SKIPPED_ALREADY_MEMBER", "PENDING"} ELSE {"PENDING"} IN
  /\ AdderAt("refused")
  /\ \E s \in status :
       /\ item' = [item EXCEPT ![i] =
            [status |-> IF s = "PENDING" /\ n >= AddMaxAttempts THEN "FAILED" ELSE s,
             attempts |-> n]]
       /\ IF s = "PENDING" /\ n < AddMaxAttempts THEN adder' = Idle ELSE Goto("settled")
  /\ UNCHANGED <<job, checker, request, automation, member, asked, faults, addsHistory>>

(* maybeCompleteParticipantAddJob: read the job, count, write.             *)
LookAtJob ==
  /\ AdderAt("settled")
  /\ IF job.completed \/ Stopped THEN adder' = Idle ELSE Goto("count")
  /\ UNCHANGED <<database, checker, request, automation, member, asked, faults, addsHistory>>

CountItems ==
  /\ AdderAt("count")
  /\ IF With(Active) = {} THEN Goto("complete") ELSE adder' = Idle
  /\ UNCHANGED <<database, checker, request, automation, member, asked, faults, addsHistory>>

CompleteJob ==
  /\ AdderAt("complete")
  /\ job' = [job EXCEPT !.status = "COMPLETED", !.completed = TRUE]
  /\ adder' = Idle
  /\ UNCHANGED <<item, checker, request, automation, member, asked, faults, addsHistory>>

----------------------------------------------------------------------------
(* The dashboard.                                                          *)

Ask(d, next) ==
  /\ request[d] = NoRequest
  /\ asked < MaxRequests
  /\ asked' = asked + 1
  /\ request' = [request EXCEPT ![d] = next]
Proceed(d, next) == request' = [request EXCEPT ![d] = next]

(* confirmParticipantAddSelection: the job is read, the eligible items are *)
(* read, each is queued by id, the rest marked, and the job set QUEUED.    *)
Confirm(d) ==
  /\ "CONFIRM" \in Requests
  /\ job.status = "AWAITING_REVIEW"
  /\ Ask(d, [act |-> "CONFIRM_PICK"])
  /\ UNCHANGED <<database, loops, automation, member, faults, addsHistory>>

ConfirmPick(d, picked) ==
  /\ request[d].act = "CONFIRM_PICK"
  /\ picked # {}
  /\ picked \subseteq With(Selectable)
  /\ Proceed(d, [act |-> "CONFIRM_ITEMS", left |-> picked, picked |-> picked])
  /\ UNCHANGED <<database, loops, automation, member, asked, faults, addsHistory>>

NothingToConfirm(d) ==
  /\ request[d].act = "CONFIRM_PICK"
  /\ Proceed(d, NoRequest)
  /\ UNCHANGED <<database, loops, automation, member, asked, faults, addsHistory>>

(* attemptCount is left as it is: an item whose budget is used up gets one *)
(* call more.                                                              *)
ConfirmItem(d, i) ==
  /\ request[d].act = "CONFIRM_ITEMS"
  /\ i \in request[d].left
  /\ Set({i}, "PENDING")
  /\ Allow({i}, 1)
  /\ Proceed(d, [request[d] EXCEPT !.left = @ \ {i},
                 !.act = IF request[d].left = {i} THEN "CONFIRM_REST" ELSE @])
  /\ UNCHANGED <<job, loops, automation, member, asked, faults, addCalls, lateAdds, firm>>

ConfirmRest(d) ==
  /\ request[d].act = "CONFIRM_REST"
  /\ Set(With(Selectable) \ request[d].picked, "NOT_SELECTED")
  /\ Proceed(d, [request[d] EXCEPT !.act = "CONFIRM_JOB"])
  /\ UNCHANGED <<job, loops, automation, member, asked, faults, addsHistory>>

ConfirmJob(d) ==
  /\ request[d].act = "CONFIRM_JOB"
  /\ job' = [job EXCEPT !.status = "QUEUED"]
  /\ Proceed(d, NoRequest)
  /\ UNCHANGED <<item, loops, automation, member, asked, faults, addsHistory>>

(* recheckParticipantAddItems takes a job out of any status, a stop too.   *)
Recheck(d) ==
  /\ "RECHECK" \in Requests
  /\ With(Rechecked) # {}
  /\ Ask(d, [act |-> "RECHECK_JOB"])
  /\ StartOver(With(Rechecked), "PENDING_CHECK")
  /\ firm' = FALSE
  /\ UNCHANGED <<job, loops, automation, member, faults, addCalls, lateAdds>>

RecheckJob(d) ==
  /\ request[d].act = "RECHECK_JOB"
  /\ job' = [job EXCEPT !.status = "CHECKING", !.completed = FALSE]
  /\ Proceed(d, NoRequest)
  /\ UNCHANGED <<item, loops, automation, member, asked, faults, addsHistory>>

(* cancelParticipantAddJob                                                 *)
CancelAdds(d) ==
  /\ "CANCEL" \in Requests
  /\ Ask(d, [act |-> "CANCEL_JOB"])
  /\ Set(With({"PENDING"}), "CANCELLED")
  /\ UNCHANGED <<job, loops, automation, member, faults, addsHistory>>

CancelJob(d) ==
  /\ request[d].act = "CANCEL_JOB"
  /\ IF job.status \in Stops \cup {"COMPLETED"} THEN UNCHANGED <<job, lateAdds, firm>>
     ELSE Stop("CANCELLED")
  /\ Proceed(d, NoRequest)
  /\ UNCHANGED <<item, loops, automation, member, asked, faults, addCalls, allowed>>

(* retryFailedParticipantAddItems                                          *)
Retry(d) ==
  /\ "RETRY" \in Requests
  /\ ~Stopped
  /\ Ask(d, [act |-> "RETRY_ITEMS", saw |-> job.status])
  /\ UNCHANGED <<database, loops, automation, member, faults, addsHistory>>

RetryItems(d) ==
  LET failed == With({"FAILED"}) IN
  /\ request[d].act = "RETRY_ITEMS"
  /\ StartOver(failed, "PENDING")
  /\ Proceed(d, IF failed # {} /\ request[d].saw = "COMPLETED"
              THEN [request[d] EXCEPT !.act = "REVIVE"] ELSE NoRequest)
  /\ UNCHANGED <<job, loops, automation, member, asked, faults, addCalls, lateAdds, firm>>

Revive(d) ==
  /\ request[d].act = "REVIVE"
  /\ job' = [job EXCEPT !.status = "RUNNING", !.completed = FALSE]
  /\ Proceed(d, NoRequest)
  /\ UNCHANGED <<item, loops, automation, member, asked, faults, addsHistory>>

TurnKillSwitch ==
  /\ asked < MaxRequests
  /\ asked' = asked + 1
  /\ automation' = ~automation
  /\ UNCHANGED <<database, loops, request, member, faults, addsHistory>>

----------------------------------------------------------------------------
(* The worker dies; at boot and later stranded claims go back.  Five       *)
(* minutes outlast an add, two minutes need not outlast a check.           *)
LoopsDie ==
  /\ faults < MaxFaults
  /\ adder # Idle \/ checker # Idle
  /\ faults' = faults + 1
  /\ adder' = Idle
  /\ checker' = Idle
  /\ UNCHANGED <<database, request, automation, member, asked, addsHistory>>

RecoverStuck(i) ==
  /\ \/ item[i].status = "PROCESSING" /\ ~(adder # Idle /\ adder.item = i)
     \/ item[i].status = "CHECKING"
  /\ Set({i}, IF item[i].status = "CHECKING" THEN "PENDING_CHECK" ELSE "PENDING")
  /\ UNCHANGED <<job, loops, request, automation, member, asked, faults, addsHistory>>

CheckLoop ==
  \/ CheckBegins
  \/ ClaimChecks
  \/ \E i \in Items, verdict \in CheckVerdicts \cup {"PENDING_CHECK"} : WriteVerdict(i, verdict)
  \/ SettleCheck

AddLoop ==
  \/ \E i \in Items : ClaimItem(i)
  \/ Defer
  \/ ReadKillSwitch
  \/ MarkStopped
  \/ Gate
  \/ StartJob
  \/ \E status \in ItemStates : NotToAdd(status)
  \/ \E outcome \in {"done", "lost", "refused"} : Add(outcome)
  \/ AddRefused
  \/ LookAtJob
  \/ CountItems
  \/ CompleteJob

AddsRequest(d) ==
  \/ Confirm(d)
  \/ \E picked \in SUBSET Items : ConfirmPick(d, picked)
  \/ NothingToConfirm(d)
  \/ \E i \in Items : ConfirmItem(d, i)
  \/ ConfirmRest(d)
  \/ ConfirmJob(d)
  \/ Recheck(d)
  \/ RecheckJob(d)
  \/ CancelAdds(d)
  \/ CancelJob(d)
  \/ Retry(d)
  \/ RetryItems(d)
  \/ Revive(d)

AddsNext ==
  \/ CheckLoop
  \/ AddLoop
  \/ \E d \in Dashboards : AddsRequest(d)
  \/ TurnKillSwitch
  \/ LoopsDie
  \/ \E i \in Items : RecoverStuck(i)

AddsSpec == AddsInit /\ [][AddsNext]_addsVars

----------------------------------------------------------------------------
AddsTypeOK ==
  /\ job \in [status: JobStates, started: BOOLEAN, completed: BOOLEAN]
  /\ item \in [Items -> [status: ItemStates, attempts: Nat]]
  /\ adder \in Adding \cup {Idle}
  /\ checker \in Checking \cup {Idle}
  /\ request \in [Dashboards -> Asking \cup {NoRequest}]
  /\ automation \in BOOLEAN
  /\ member \in [Items -> BOOLEAN]
  /\ asked \in 0 .. MaxRequests
  /\ faults \in 0 .. MaxFaults
  /\ addCalls \in [Items -> Nat]
  /\ allowed \in [Items -> Nat]
  /\ lateAdds \in Nat
  /\ firm \in BOOLEAN

(* "The single operation WhatsApp punishes hardest" is asked for no more   *)
(* often than somebody allowed: MaxAttempts at first and for every retry   *)
(* and re-check, one for each further approval, and one for each crash     *)
(* that forgot an attempt (handleAddFailure).                              *)
AttemptsWithinAllowance ==
  \A i \in Items : addCalls[i] <= allowed[i] + faults

(* While a stop stands at most one more add is made, the one whose tick    *)
(* was past the gate (handlePreAddChecks).  And the stop stands until      *)
(* somebody asks for a re-check, unless it came before the job's start     *)
(* mark, or beside a completion or a request that had begun: those         *)
(* overwrite it unconditionally, and from then on nothing bounds what is   *)
(* added (markJobStartedIfNeeded; "those are sticky" says                  *)
(* maybeCompleteParticipantAddJob).                                        *)
StopLeaksOneAdd ==
  /\ lateAdds <= 1
  /\ firm => Stopped
----------------------------------------------------------------------------
(* The inductive strengthening of the safety properties.                   *)

(* The add loop has an item before its call, and has called but not yet    *)
(* counted.                                                                *)
BeforeCall(i) == adder.pc \in {"switch", "gate", "start", "add"} /\ adder.item = i
Uncounted(i) == adder.pc = "refused" /\ adder.item = i

(* How many calls the item may still see if nobody allows it more.         *)
StillDue(i) ==
  LET left == AddMaxAttempts - item[i].attempts IN
  CASE Uncounted(i) -> IF left > 1 THEN left - 1 ELSE 0
    [] ~Uncounted(i) /\ (BeforeCall(i) \/ item[i].status \in Active) ->
         IF left > 1 THEN left ELSE 1
    [] OTHER -> IF left > 0 THEN left ELSE 0

AllowanceInv ==
  \A i \in Items :
    /\ addCalls[i] + StillDue(i) <= allowed[i] + faults
    /\ BeforeCall(i) \/ Uncounted(i) => item[i].attempts <= adder.seen

(* A tick past the gate of a stopped job has not called yet.               *)
StopInv ==
  /\ lateAdds <= 1
  /\ Stopped /\ adder.pc \in {"start", "add"} => lateAdds = 0

AddsIInv == AddsTypeOK /\ AllowanceInv /\ StopInv

(* What StopLeaksOneAdd needs besides.                                     *)
FirmInv == firm => Stopped /\ ~MayBeUndone
=============================================================================
