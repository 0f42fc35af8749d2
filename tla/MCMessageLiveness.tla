-------------------------- MODULE MCMessageLiveness --------------------------
(***************************************************************************)
(* What becomes of a message and of a group sync in the end, on instances  *)
(* of MessageIntake, MessagePipeline and GroupSync small enough for TLC's  *)
(* liveness check.                                                         *)
(*                                                                         *)
(* They share no row and no memory here, so that their interleavings add   *)
(* nothing: a behaviour picks one of them and leaves the others where they *)
(* start.                                                                  *)
(***************************************************************************)
EXTENDS MessagePipeline, MessageIntake, TLC

CONSTANTS msg, r1, g1, s1, None

OneMessage == {msg}
OneRule == {r1}
TagReplyNotify == [r \in OneRule |-> <<"TAG", "AUTO_REPLY", "NOTIFY">>]
OneLoop == {"reconcile"}

VARIABLES
  part,  \* the component this behaviour is about
  gRows, gAccount, gSession, gGeneration, gSyncInFlight, gPendingFull, gSync, gPass,
  gWatch, gCommand, gSpent, gLate

groupVars ==
  <<gRows, gAccount, gSession, gGeneration, gSyncInFlight, gPendingFull, gSync, gPass,
    gWatch, gCommand, gSpent, gLate>>
all == <<vars, intakeVars, groupVars, part>>

OneOf ==
  [resync |-> 1, recovery |-> 1, command |-> 0, drop |-> 1, restart |-> 1, fault |-> 1, any |-> 1]
ResyncAndRecovery ==
  [resync |-> 1, recovery |-> 1, command |-> 0, drop |-> 0, restart |-> 0, fault |-> 0, any |-> 2]

(* Arrival passes after a connect, one attempt each; or none, and two      *)
(* attempts.                                                               *)
Arrivals == INSTANCE GroupSync WITH
  Groups <- {g1}, Syncs <- {s1}, Watched <- TRUE, MaxAttempts <- 1, StableReads <- 1,
  HoldMin <- 1, HoldPerCent <- 10, Limit <- OneOf,
  rows <- gRows, account <- gAccount, session <- gSession, generation <- gGeneration,
  syncInFlight <- gSyncInFlight, pendingFull <- gPendingFull, sync <- gSync, pass <- gPass,
  watch <- gWatch, command <- gCommand, spent <- gSpent, late <- gLate

Attempts == INSTANCE GroupSync WITH
  Groups <- {g1}, Syncs <- {s1}, Watched <- FALSE, MaxAttempts <- 2, StableReads <- 1,
  HoldMin <- 1, HoldPerCent <- 10, Limit <- ResyncAndRecovery,
  rows <- gRows, account <- gAccount, session <- gSession, generation <- gGeneration,
  syncInFlight <- gSyncInFlight, pendingFull <- gPendingFull, sync <- gSync, pass <- gPass,
  watch <- gWatch, command <- gCommand, spent <- gSpent, late <- gLate

----------------------------------------------------------------------------
Pipeline(step) == part = "pipeline" /\ step /\ UNCHANGED <<intakeVars, groupVars, part>>
Intake(step) == part = "intake" /\ step /\ UNCHANGED <<vars, groupVars, part>>
GroupList(arrivals, attempts) ==
  /\ \/ part = "arrivals" /\ arrivals
     \/ part = "attempts" /\ attempts
  /\ UNCHANGED <<vars, intakeVars, part>>

MessageInit ==
  /\ Init
  /\ IntakeInit
  /\ part \in {"pipeline", "intake", "arrivals", "attempts"}
  /\ IF part = "attempts" THEN Attempts!Init ELSE Arrivals!Init
  /\ part # "intake" => checkpoint = 0
  /\ part \notin {"arrivals", "attempts"} => gRows = [g \in {g1} |-> "ABSENT"]

MessageNext ==
  \/ Pipeline(Next)
  \/ Intake(IntakeNext)
  \/ GroupList(Arrivals!Next, Attempts!Next)

(* The Fairness of each, every condition of one joined with one of the     *)
(* others: a behaviour is about one of them.                               *)
MessageFairness ==
  /\ WF_all(Pipeline(\E m \in Messages : Step(msg, m)) \/ Intake(WorkStep(msg))
              \/ GroupList(Arrivals!SyncStep(s1), Attempts!SyncStep(s1)))
  /\ WF_all(Pipeline(\E m \in Messages : Step(Sweep, m)) \/ Intake(WorkStep(CatchUp))
              \/ GroupList(Arrivals!PassStep(s1, 1), Attempts!PassStep(s1, 1)))
  /\ WF_all(Pipeline(age[msg] = "YOUNG" /\ Age(msg)) \/ Intake(WorkStep("reconcile"))
              \/ GroupList(Arrivals!PendingRuns, Attempts!PendingRuns))
  /\ WF_all(Pipeline(SweepStep) \/ Intake(PassStep("reconcile"))
              \/ GroupList(Arrivals!CommandStep, Attempts!CommandStep))
  /\ WF_all(GroupList(FALSE, Attempts!PassStep(s1, 2)))

MessageSpec == MessageInit /\ [][MessageNext]_all /\ MessageFairness

----------------------------------------------------------------------------
(* A full sync that waits behind another pass is not forgotten: it starts, *)
(* joins one that runs, or its session was taken away                      *)
(* (commands/commandProcessor.ts, queueFullAfterAddOnly).                  *)
QueuedSyncRuns == Attempts!QueuedSyncRuns

(* Whatever becomes of a sync, cancelled, timed out or failed, it gives    *)
(* the account's entry up (commands/commandProcessor.ts, releaseInFlight). *)
EverySyncReleases == Attempts!EverySyncReleases
==============================================================================
