--------------------------- MODULE MessageIntake ---------------------------
(***************************************************************************)
(* How a WhatsApp message reaches the database.  It is pushed while the    *)
(* session is up; what was missed is read back by a sweep that runs after  *)
(* the group sync of each connect and starts from the account's            *)
(* ProcessingCheckpoint, and by loops that compare the last half hour with *)
(* what is stored (apps/worker/src/pipeline: processIncomingMessage,       *)
(* retryFailedMessage, catchUpMissedMessages, reconcileRecentMessages;     *)
(* health/collectionGaps).  They run side by side; only the Message row's  *)
(* unique key is between them.                                             *)
(***************************************************************************)
EXTENDS Integers

CONSTANTS
  Inbound,     \* messages sent to the account
  CatchUp,     \* the catch-up sweep
  Loops,       \* the reconcile pass and the store sweep
  MinGap,      \* MIN_GAP_MS, in units of the clock, like the next three
  MaxLookback, \* MAX_LOOKBACK_MS
  Automation,  \* AUTOMATION_WINDOW_MS
  Window,      \* MESSAGE_RECONCILE_LOOKBACK_MINUTES
  Retries,     \* RETRY_DELAYS_MS.length
  MaxTime,     \* bound: the clock
  MaxOutages,  \* bound: times the session is lost or the worker dies
  MaxIntakeFaults  \* bound: failing statements, undelivered events, partial reads

ASSUME MessageIntakeConstants ==
  /\ CatchUp \notin Loops
  /\ (Loops \cup {CatchUp}) \cap Inbound = {}
  /\ {MinGap, MaxLookback, Automation, Window, Retries, MaxOutages, MaxIntakeFaults}
       \subseteq Nat
  /\ MaxTime \in Nat \ {0}

VARIABLES
  sent,        \* when WhatsApp took each message, 0 before that
  messageRow,  \* processingStatus of the Message row, ABSENT if there is none
  checkpoint,  \* ProcessingCheckpoint.lastProcessedTimestampWa, 0 for null
  gap,         \* recoveryStatus of the account's latest CollectionGap
  session,     \* whether the account is connected
  clock,
  work,        \* what each reader is working on: memory
  sweep,       \* the catch-up after the last connect: memory
  loop,        \* the pass of each of Loops: memory
  outages,     \* how many outages
  intakeFaults, \* how many faults
  missed,      \* history: messages sent since the session was lost
  handled      \* history: how often each message was handed to the automation

database == <<messageRow, checkpoint, gap>>
outside == <<sent, session, clock, outages>>
intakeVars ==
  <<sent, messageRow, checkpoint, gap, session, clock, work, sweep, loop, outages,
    intakeFaults, missed, handled>>

----------------------------------------------------------------------------
Readers == Inbound \cup Loops \cup {CatchUp}  \* a message is its own live delivery
Times == 0 .. MaxTime
Rows == {"ABSENT", "PENDING", "PROCESSED", "IGNORED", "FAILED"}
Recoveries == {"NULL", "NOT_ATTEMPTED", "RECOVERED", "PARTIAL", "FAILED"}

(* automate: processIncomingMessage, or storeMissedMessage if not.         *)
NoWork == [pc |-> "idle"]
Works ==
  {NoWork} \cup [pc: {"persist", "automate", "checkpoint", "retry"}, message: Inbound,
                 automate: BOOLEAN, tries: 0 .. Retries]
NoSweep == [pc |-> "idle"]
Sweeps ==
  {NoSweep} \cup [pc: {"syncing"}] \cup [pc: {"probe"}, since: Int, now: Times, cut: BOOLEAN]
    \cup [pc: {"recover", "advance", "report"}, left: SUBSET Inbound, now: Times,
          newest: Times, whole: BOOLEAN, result: Recoveries]
NoPass == [pc |-> "idle"]
LoopPasses == {NoPass} \cup [pc: {"recover"}, left: SUBSET Inbound, now: Times]

IntakeFault == intakeFaults < MaxIntakeFaults /\ intakeFaults' = intakeFaults + 1
Held(since) == {m \in Inbound : sent[m] # 0 /\ sent[m] >= since}
Oldest(left, m) == m \in left /\ \A n \in left : sent[m] <= sent[n]

(* shouldAutomateRecoveredMessage                                          *)
Automates(m, now) == sent[m] >= now - Automation

Work(r, m, automate, tries) ==
  [work EXCEPT ![r] = [pc |-> "persist", message |-> m, automate |-> automate,
                       tries |-> tries]]

IntakeInit ==
  /\ sent = [m \in Inbound |-> 0]
  /\ messageRow = [m \in Inbound |-> "ABSENT"]
  /\ checkpoint \in {0, 1}
  /\ gap = "NULL"
  /\ session = "UP"
  /\ clock = 1
  /\ work = [r \in Readers |-> NoWork]
  /\ sweep = NoSweep
  /\ loop = [l \in Loops |-> NoPass]
  /\ outages = 0
  /\ intakeFaults = 0
  /\ missed = {}
  /\ handled = [m \in Inbound |-> 0]

----------------------------------------------------------------------------
(* The outside.                                                            *)

TimePasses ==
  /\ clock < MaxTime
  /\ clock' = clock + 1
  /\ UNCHANGED <<sent, database, session, work, sweep, loop, outages, intakeFaults, missed,
                 handled>>

(* A message that arrives while nobody listens is never pushed; of one     *)
(* that does the event may be lost.                                        *)
Arrive(m, pushed) ==
  /\ sent[m] = 0
  /\ sent' = [sent EXCEPT ![m] = clock]
  /\ IF session = "UP"
     THEN /\ IF pushed THEN work' = Work(m, m, TRUE, 0) /\ intakeFaults' = intakeFaults
             ELSE work' = work /\ IntakeFault
          /\ missed' = missed
     ELSE ~pushed /\ missed' = missed \cup {m} /\ UNCHANGED <<work, intakeFaults>>
  /\ UNCHANGED <<database, session, clock, sweep, loop, outages, handled>>

(* openCollectionGap: the gap that is open stays open.                     *)
Drop ==
  /\ session = "UP"
  /\ outages < MaxOutages
  /\ outages' = outages + 1
  /\ session' = "DOWN"
  /\ gap' = "NULL"
  /\ missed' = {}
  /\ UNCHANGED <<sent, messageRow, checkpoint, clock, work, sweep, loop, intakeFaults, handled>>

(* Timers and passes are lost with the worker.                             *)
WorkerCrashes ==
  /\ outages < MaxOutages
  /\ outages' = outages + 1
  /\ session' = "DOWN"
  /\ gap' = IF session = "UP" THEN "NULL" ELSE gap
  /\ missed' = IF session = "UP" THEN {} ELSE missed
  /\ work' = [r \in Readers |-> NoWork]
  /\ sweep' = NoSweep
  /\ loop' = [l \in Loops |-> NoPass]
  /\ UNCHANGED <<sent, messageRow, checkpoint, clock, intakeFaults, handled>>

(* The handlers are wired before the connect, so messages come in at once; *)
(* the sweep waits for the group sync (resyncAndCatchUpAfterConnect).      *)
Connect ==
  /\ session = "DOWN"
  /\ sweep = NoSweep
  /\ session' = "UP"
  /\ sweep' = [pc |-> "syncing"]
  /\ UNCHANGED <<sent, database, clock, work, loop, outages, intakeFaults, missed, handled>>

----------------------------------------------------------------------------
(* One message: processIncomingMessage or storeMissedMessage.              *)

WorkAt(r, pc) == work[r].pc = pc
Done(r) == work' = [work EXCEPT ![r] = NoWork]

Create(r, m) ==
  IF work[r].automate
  THEN /\ messageRow' = [messageRow EXCEPT ![m] = "PENDING"]
       /\ work' = [work EXCEPT ![r].pc = "automate"]
  ELSE messageRow' = [messageRow EXCEPT ![m] = "IGNORED"] /\ Done(r)

(* Mutant: no unique key; what is there already is written again.          *)
PersistAnyway(r) ==
  LET m == work[r].message IN
  /\ WorkAt(r, "persist")
  /\ Create(r, m)
  /\ UNCHANGED <<checkpoint, gap, outside, sweep, loop, intakeFaults, missed, handled>>
(* persistIncomingMessage: a second copy meets the unique key and ends the *)
(* work.                                                                   *)
Persist(r) ==
  LET m == work[r].message IN
  /\ WorkAt(r, "persist")
  /\ IF messageRow[m] # "ABSENT" THEN Done(r) /\ messageRow' = messageRow
     ELSE Create(r, m)
  /\ UNCHANGED <<checkpoint, gap, outside, sweep, loop, intakeFaults, missed, handled>>

(* runAutomationStage settles the row, as PROCESSED or IGNORED.            *)
Automate(r) ==
  LET m == work[r].message IN
  /\ WorkAt(r, "automate")
  /\ messageRow' = [messageRow EXCEPT ![m] = "PROCESSED"]
  /\ handled' = [handled EXCEPT ![m] = @ + 1]
  /\ work' = [work EXCEPT ![r].pc = "checkpoint"]
  /\ UNCHANGED <<checkpoint, gap, outside, sweep, loop, intakeFaults, missed>>

(* The upsert is unconditional: the checkpoint may move back.              *)
MoveCheckpoint(r) ==
  /\ WorkAt(r, "checkpoint")
  /\ checkpoint' = sent[work[r].message]
  /\ Done(r)
  /\ UNCHANGED <<messageRow, gap, outside, sweep, loop, intakeFaults, missed, handled>>

(* A throw.  A stored row becomes FAILED.  A live delivery tries again,    *)
(* the readers go on to the next message.                                  *)
WorkFails(r) ==
  LET m == work[r].message IN
  /\ work[r].pc \in {"persist", "automate", "checkpoint"}
  /\ IntakeFault
  /\ messageRow' = IF WorkAt(r, "automate") THEN [messageRow EXCEPT ![m] = "FAILED"] ELSE messageRow
  /\ handled' = IF WorkAt(r, "automate") THEN [handled EXCEPT ![m] = @ + 1] ELSE handled
  /\ IF r = m /\ work[r].tries < Retries THEN work' = [work EXCEPT ![r].pc = "retry"]
     ELSE Done(r)
  /\ UNCHANGED <<checkpoint, gap, outside, sweep, loop, missed>>

(* processWithRetry: the timer runs on without a session.                  *)
RetryWork(r) ==
  /\ WorkAt(r, "retry")
  /\ work' = Work(r, work[r].message, TRUE, work[r].tries + 1)
  /\ UNCHANGED <<database, outside, sweep, loop, intakeFaults, missed, handled>>

----------------------------------------------------------------------------
(* The sweep after a connect: catchUpMissedMessages.                       *)

(* recordGapRecovery: on the gap that waits for a result.                  *)
Report(result) == gap' = IF gap = "NULL" THEN result ELSE gap

(* resolveSweepWindow                                                      *)
ReadCheckpoint ==
  LET since == IF checkpoint >= clock - MaxLookback THEN checkpoint ELSE clock - MaxLookback IN
  /\ sweep.pc = "syncing"
  /\ IF checkpoint = 0 THEN sweep' = NoSweep /\ Report("NOT_ATTEMPTED")
     ELSE IF clock - since < MinGap THEN sweep' = NoSweep /\ Report("RECOVERED")
     ELSE /\ sweep' = [pc |-> "probe", since |-> since, now |-> clock, cut |-> since > checkpoint]
          /\ gap' = gap
  /\ UNCHANGED <<messageRow, checkpoint, outside, work, loop, intakeFaults, missed, handled>>

Probe(found) ==
  /\ sweep.pc = "probe"
  /\ session = "UP"
  /\ found \subseteq Held(sweep.since)
  /\ IF found = Held(sweep.since) THEN intakeFaults' = intakeFaults ELSE IntakeFault
  /\ LET whole == found = Held(sweep.since)
         result == IF sweep.cut \/ ~whole THEN "PARTIAL" ELSE "RECOVERED" IN
     sweep' = [pc |-> IF found = {} THEN "report" ELSE "recover", left |-> found,
               now |-> sweep.now, newest |-> 0, whole |-> whole, result |-> result]
  /\ UNCHANGED <<database, outside, work, loop, missed, handled>>

ProbeFails ==
  /\ sweep.pc = "probe"
  /\ IF session = "UP" THEN IntakeFault ELSE intakeFaults' = intakeFaults
  /\ sweep' = NoSweep
  /\ Report("FAILED")
  /\ UNCHANGED <<messageRow, checkpoint, outside, work, loop, missed, handled>>

(* Oldest first, one at a time.                                            *)
SweepNext(m) ==
  /\ sweep.pc = "recover"
  /\ work[CatchUp] = NoWork
  /\ Oldest(sweep.left, m)
  /\ work' = Work(CatchUp, m, Automates(m, sweep.now), 0)
  /\ sweep' = [sweep EXCEPT !.left = @ \ {m}, !.newest = sent[m]]
  /\ UNCHANGED <<database, outside, loop, intakeFaults, missed, handled>>

SweepDone ==
  /\ sweep.pc = "recover"
  /\ work[CatchUp] = NoWork
  /\ sweep.left = {}
  /\ sweep' = [sweep EXCEPT !.pc = IF sweep.whole THEN "advance" ELSE "report"]
  /\ UNCHANGED <<database, outside, work, loop, intakeFaults, missed, handled>>

(* Conditional: never back, and never past what was not read.              *)
AdvanceCheckpoint ==
  /\ sweep.pc = "advance"
  /\ checkpoint' = IF checkpoint < sweep.newest THEN sweep.newest ELSE checkpoint
  /\ sweep' = [sweep EXCEPT !.pc = "report"]
  /\ UNCHANGED <<messageRow, gap, outside, work, loop, intakeFaults, missed, handled>>

ReportRecovery ==
  /\ sweep.pc = "report"
  /\ Report(sweep.result)
  /\ sweep' = NoSweep
  /\ UNCHANGED <<messageRow, checkpoint, outside, work, loop, intakeFaults, missed, handled>>

----------------------------------------------------------------------------
(* The loops: reconcileInProject, sweepInProject.  What the session holds  *)
(* of the window, without what is stored, is recovered like the sweep's.   *)

(* Mutant: the pass starts where the account's checkpoint is.              *)
PassFromCheckpoint(l, found) ==
  LET held == Held(checkpoint + 1) IN
  /\ loop[l] = NoPass
  /\ session = "UP"
  /\ found \subseteq held
  /\ IF found = held THEN intakeFaults' = intakeFaults ELSE IntakeFault
  /\ LET missing == {m \in found : messageRow[m] = "ABSENT"} IN
     /\ missing # {}
     /\ loop' = [loop EXCEPT ![l] = [pc |-> "recover", left |-> missing, now |-> clock]]
  /\ UNCHANGED <<database, outside, work, sweep, missed, handled>>
PassBegins(l, found) ==
  LET held == Held(clock - Window) IN
  /\ loop[l] = NoPass
  /\ session = "UP"
  /\ found \subseteq held
  /\ IF found = held THEN intakeFaults' = intakeFaults ELSE IntakeFault
  /\ LET missing == {m \in found : messageRow[m] = "ABSENT"} IN
     /\ missing # {}
     /\ loop' = [loop EXCEPT ![l] = [pc |-> "recover", left |-> missing, now |-> clock]]
  /\ UNCHANGED <<database, outside, work, sweep, missed, handled>>

PassNext(l, m) ==
  /\ loop[l].pc = "recover"
  /\ work[l] = NoWork
  /\ Oldest(loop[l].left, m)
  /\ work' = Work(l, m, Automates(m, loop[l].now), 0)
  /\ loop' = [loop EXCEPT ![l].left = @ \ {m}]
  /\ UNCHANGED <<database, outside, sweep, intakeFaults, missed, handled>>

PassDone(l) ==
  /\ loop[l].pc = "recover"
  /\ work[l] = NoWork
  /\ loop[l].left = {}
  /\ loop' = [loop EXCEPT ![l] = NoPass]
  /\ UNCHANGED <<database, outside, work, sweep, intakeFaults, missed, handled>>

----------------------------------------------------------------------------
WorkStep(r) == Persist(r) \/ Automate(r) \/ MoveCheckpoint(r) \/ RetryWork(r)

CatchUpStep ==
  \/ ReadCheckpoint
  \/ \E found \in SUBSET Inbound : Probe(found)
  \/ ProbeFails
  \/ \E m \in Inbound : SweepNext(m)
  \/ SweepDone
  \/ AdvanceCheckpoint
  \/ ReportRecovery

PassStep(l) ==
  \/ \E found \in SUBSET Inbound : PassBegins(l, found)
  \/ \E m \in Inbound : PassNext(l, m)
  \/ PassDone(l)

Outside ==
  \/ TimePasses
  \/ \E m \in Inbound, pushed \in BOOLEAN : Arrive(m, pushed)
  \/ Drop
  \/ WorkerCrashes
  \/ Connect

IntakeNext ==
  \/ \E r \in Readers : WorkStep(r) \/ WorkFails(r)
  \/ CatchUpStep
  \/ \E l \in Loops : PassStep(l)
  \/ Outside

IntakeSpec == IntakeInit /\ [][IntakeNext]_intakeVars

(* Timers fire and awaits end.                                             *)
IntakeFairness ==
  /\ \A r \in Readers : WF_intakeVars(WorkStep(r))
  /\ \A l \in Loops : WF_intakeVars(PassStep(l))
IntakeFairSpec == IntakeSpec /\ IntakeFairness

----------------------------------------------------------------------------
IntakeTypeOK ==
  /\ sent \in [Inbound -> Times]
  /\ messageRow \in [Inbound -> Rows]
  /\ checkpoint \in Times
  /\ gap \in Recoveries
  /\ session \in {"UP", "DOWN"}
  /\ clock \in Times
  /\ work \in [Readers -> Works]
  /\ sweep \in Sweeps
  /\ loop \in [Loops -> LoopPasses]
  /\ outages \in 0 .. MaxOutages
  /\ intakeFaults \in 0 .. MaxIntakeFaults
  /\ missed \subseteq Inbound
  /\ handled \in [Inbound -> Nat]

(* However many readers offer a message, and however often it is tried     *)
(* again, the automation gets it once (persistIncomingMessage's P2002).    *)
HandledOnce == \A m \in Inbound : handled[m] <= 1

(* A message that the session holds is stored, whatever was lost on the    *)
(* way, unless the session is lost or half an hour is over                 *)
(* (reconcileRecentMessages).                                              *)
HeldMessagesAreStored ==
  \A m \in Inbound :
    (sent[m] # 0 /\ messageRow[m] = "ABSENT" /\ session = "UP")
      ~> (messageRow[m] # "ABSENT" \/ session # "UP" \/ sent[m] < clock - Window)

(* catchUpMissedMessages: a gap it calls RECOVERED misses nothing that the *)
(* loops would not still find.                                             *)
RecoveredMeansNothingMissed ==
  [][gap' = "RECOVERED" /\ gap # "RECOVERED"
       => \A m \in missed : messageRow[m] # "ABSENT" \/ sent[m] >= clock - Window]_intakeVars
----------------------------------------------------------------------------
(* The inductive strengthening of HandledOnce: the reader that created the *)
(* row is the only one that hands the message to the automation.           *)
HandlingInv ==
  \A m \in Inbound :
    /\ handled[m] <= 1
    /\ messageRow[m] = "ABSENT" => handled[m] = 0
    /\ \A r \in Readers :
         work[r].pc = "automate" /\ work[r].message = m =>
           /\ messageRow[m] # "ABSENT"
           /\ handled[m] = 0
           /\ \A q \in Readers :
                work[q].pc = "automate" /\ work[q].message = m => q = r

(* Another try is only waited for while one is left.                       *)
TriesInv == \A r \in Readers : work[r].pc = "retry" => work[r].tries < Retries

IntakeIInv == IntakeTypeOK /\ HandlingInv /\ TriesInv
=============================================================================
