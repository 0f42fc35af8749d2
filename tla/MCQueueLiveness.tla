--------------------------- MODULE MCQueueLiveness ---------------------------
(***************************************************************************)
(* What the send loops and the escalation loop bring to an end, on         *)
(* instances of OutboundQueue, BroadcastJobs and EscalationCase small      *)
(* enough for TLC's liveness check.                                        *)
(*                                                                         *)
(* They share no row and no memory here, so that their interleavings add   *)
(* nothing: a behaviour picks one of them and leaves the others where they *)
(* start.                                                                  *)
(***************************************************************************)
EXTENDS BroadcastJobs, TLC

CONSTANTS auto, manual, j1, r1, r2, d1, c1, p1, a1

OneJob == {j1}
TwoRows == {r1, r2}
SameJob == [r \in TwoRows |-> j1]
OneForeign == {r2}
OneDashboard == {d1}
CancelAndRetry == {"CANCEL", "RETRY"}

VARIABLES
  part,  \* the component this behaviour is about
  qRow, qWorker, qAutomation, qView, qCopies, qConfirmed, qRefusals, qLeaked,
  cCase, cFired, cWorker, cReplying, cRequest, cFaults, cRings, cWorked

queueVars == <<qRow, qWorker, qAutomation, qView, qCopies, qConfirmed, qRefusals, qLeaked>>
caseVars == <<cCase, cFired, cWorker, cReplying, cRequest, cFaults, cRings, cWorked>>
all == <<queueVars, vars, caseVars, part>>

Queue == INSTANCE OutboundQueue WITH
  Rows <- {auto, manual}, ManualRows <- {manual}, ForeignRows <- {}, Operators <- {},
  MaxAttempts <- 2, MaxDeferrals <- 1, MaxManualRetries <- 1,
  row <- qRow, worker <- qWorker, automation <- qAutomation, view <- qView,
  copies <- qCopies, confirmed <- qConfirmed, refusals <- qRefusals, leaked <- qLeaked

Ladder == INSTANCE EscalationCase WITH
  Cases <- {c1}, Groups <- {}, Members <- {p1}, Admins <- {a1}, Reachable <- {p1, a1},
  Nobody <- "nobody", CanMute <- FALSE, Dashboards <- {}, Requests <- {}, MaxEscalations <- 5,
  MaxCaseFaults <- 1,
  case <- cCase, fired <- cFired, caseWorker <- cWorker, replying <- cReplying,
  request <- cRequest, caseFaults <- cFaults, rings <- cRings, worked <- cWorked

----------------------------------------------------------------------------
Replies(step) == part = "replies" /\ step /\ UNCHANGED <<vars, caseVars, part>>
Groupcast(step) == part = "broadcast" /\ step /\ UNCHANGED <<queueVars, caseVars, part>>
Escalation(step) == part = "case" /\ step /\ UNCHANGED <<queueVars, vars, part>>

QueuesInit ==
  /\ Queue!Init
  /\ Init
  /\ Ladder!CaseInit
  /\ part \in {"replies", "broadcast", "case"}

QueuesNext ==
  \/ Replies(Queue!Next)
  \/ Groupcast(Next)
  \/ Escalation(Ladder!CaseNext)

(* Queue!Fairness, Fairness and Ladder!CaseFairness, each condition of     *)
(* one joined with one of the others: as a behaviour is about one of them, *)
(* the joined condition says what each says alone, and TLC's work doubles  *)
(* with every strong condition.                                            *)
QueuesFairness ==
  /\ \A pair \in {<<auto, r1>>, <<manual, r2>>} :
       LET q == pair[1]
           b == pair[2] IN
       /\ WF_all(Replies(Queue!Tick(q)) \/ Groupcast(Tick(b)))
       /\ WF_all(Replies(Queue!Age(q)) \/ Groupcast(Age(b)))
       /\ WF_all(Groupcast(InsertRow(b)))
       /\ SF_all(Replies(Queue!Claim(q)) \/ Groupcast(Claim(b))
                   \/ Escalation(Ladder!FindDueCase(c1)))
       /\ SF_all(Replies(Queue!PassGate(q)) \/ Groupcast(PassGate(b))
                   \/ Escalation(Ladder!WorkTier(c1)))
       /\ SF_all(Replies(Queue!LeaveChecks(q)) \/ Groupcast(LeaveLimits(b)))
  /\ WF_all(Replies(Queue!HoldStranded) \/ Groupcast(HoldStranded)
              \/ Escalation(Ladder!BecomeDue(c1)))
  /\ WF_all(Replies(Queue!RequeueStranded) \/ Groupcast(RequeueStranded)
              \/ Escalation(Ladder!CaseTick(c1)))
  /\ WF_all(Groupcast(Carry(d1)))

QueuesSpec == QueuesInit /\ [][QueuesNext]_all /\ QueuesFairness

----------------------------------------------------------------------------
(* Every queued reply is decided in the end: sent, failed, held for a      *)
(* person or cancelled (queue/outboundQueue.ts).                           *)
EveryReplySettles == Queue!EveryReplySettles

(* A case nobody closes climbs to the end of its ladder                    *)
(* (escalation/escalationQueue.ts).                                        *)
EveryOpenCaseClimbs == Ladder!EveryOpenCaseClimbs
==============================================================================
