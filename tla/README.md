# Verification of the support automation platform

TLA+ modules that model the concurrent core of this repository, TLC
configurations that check them on small instances, and proofs that TLAPS checks
for every value of the constants. Paths below are relative to the repository.

* [The system](#the-system)
* [Components](#components)
* [Modules and how they follow the code](#modules)
* [Runs](#runs) · [Bounds](#bounds) · [Fairness](#fairness)
* [Proofs](#proofs)
* [What the checks say about the code](#what-the-checks-say-about-the-code)
* [Left out of the models](#left-out-of-the-models)
* [Plan](#plan)

## The system

The product answers the customers of several businesses ("projects") on WhatsApp
and other channels. It is two Node processes and a PostgreSQL database:

* `apps/worker`: one process with some thirty `setInterval` loops, none of which
  overlaps itself. It holds the WhatsApp Web sessions, stores incoming messages,
  decides automatic replies, drains the queues and supervises itself.
* `apps/web`: the Next.js dashboard. Its server actions read and write the same
  rows.
* `packages/*`: the schema (`db`), shared rules (`shared`), the rule engine
  (`engine`), clients of outside services.

Web and worker never call each other. Every interaction is a row: one side
writes it and the other claims it. It may be a queue row, a command, a settings
row such as the kill switch, or a job record. Almost nothing is in a transaction
that spans two of these. The hard behaviours are therefore all of one family:

* a read, an `await`, and a write based on the read, with somebody else's write
  in between;
* a crash between two writes that belong together, and a recovery sweep that has
  to guess from one row what happened;
* a claim that outlives its owner, or an owner that is slow and not dead;
* an answer of the provider that is lost after the effect took place.

The code's own means against these are unique keys (`idempotencyKey`,
`AiFallbackDecision.messageId`, the escalation event key), conditional
`updateMany` claims, stamps written before an effect (`sendStartedAt`) and marks
for outcomes nobody knows (`deliveryUncertain`). The models ask whether these
suffice.

## Components

| component | state | operations | correct when | here |
|---|---|---|---|---|
| Outbound reply queue (`worker/queue/outboundQueueProcessor.ts`, `worker/pipeline/enqueueOutbound.ts`, `worker/recovery.ts`) | `OutboundMessage` rows; the tick | enqueue, claim, gates, stamp, send, three answers, retry, deferral, recovery | no second copy without a person's word; honest statuses; every row decided | OutboundQueue |
| Failed Replies (`web/server/actions/failedReplies.ts`) | the same rows | retry, resolve, close, reopen; single and bulk | nothing settled is sent; the retry limit holds under races | OutboundQueue |
| Group broadcasts (`worker/queue/groupBroadcastQueue.ts`, `web/server/actions/groupBroadcast.ts`) | `GroupBroadcastJob`, its rows | create, drain, cancel, stop, retry, complete | a group gets it once; stops stop; jobs end | BroadcastJobs |
| Kill switch (`web/server/actions/settings.ts`) | `automationEnabled` | pause, resume | one row at most leaks after it | OutboundQueue, BroadcastJobs, ParticipantAdds |
| Support escalation (`worker/escalation/*`, `web/server/actions/supportEscalation.ts`) | case, events | open, tick, alert, reply, pause … resolve | nobody alerted twice for a tier; no tier skipped; climbs while open, stops when answered | EscalationCase |
| Incoming message pipeline (`worker/pipeline/processIncomingMessage.ts`, `messageRecovery.ts`, `retryFailedMessage.ts`) | `Message.processingStatus`, keyed rows | store, automation stage, settle, sweep | no message left undecided; a second pass repeats nothing | MessagePipeline |
| AI fallback handover (`worker/aiFallback/runAiFallback.ts`) | `AiFallbackDecision` | answer, claim, alert, holding reply, mention | handed over once; a recorded reply exists | MessagePipeline |
| Message intake (`catchUpMissedMessages.ts`, `reconcileRecentMessages.ts`, the insert of `processIncomingMessage.ts`) | `ProcessingCheckpoint`, `CollectionGap` | deliver, retry in memory, catch up, reconcile | automated once; nothing the session holds is missed; a gap says what happened | MessageIntake |
| Commands and group sync (`worker/commands/*`, `worker/provider/ProviderRegistry.ts`) | `WhatsAppGroup` rows, `groupSyncStatus`; generation, entry and queue in memory | sync, arrival pass, recovery, cancel, Logout, Reconnect | one sync per session; a cancelled one stops writing; none is forgotten or stuck | GroupSync (other commands: no) |
| Participant adds (`worker/queue/groupParticipant*.ts`, `web/server/actions/groupParticipantAdd.ts`) | job and items | check, confirm, add, retry, recheck, cancel, recover | asked no more often than allowed; stops stop | ParticipantAdds |
| Channel conversations (`worker/channels/*`, `web/server/channels/*`) | `ChannelMessage`, inbound events | queue, send, sweep, resend, echo, receipt | no copy nobody asked for; true statuses; own echoes recognised | ChannelThread |
| E-mail outbox (`worker/email/outboxProcessor.ts`, `web/server/actions/emailSettings.ts`) | `EmailOutbox`, `EmailSettings` | claim, send, record, test, save settings | accepted once; limits hold; verified means tested | EmailOutbox |
| Reply admission (`pipeline/safety.ts`, `queue/cooldown.ts`, `queue/rateLimiter.ts`) | counts of sent rows | check, check again at send | limits hold over both checks | planned |
| Notifications (`worker/notifications/*`) | `Notification` rows | enqueue, claim, send, release | delivered, rarely twice | planned |
| AI eligibility and takeover | suppression times | recorded by replies, read before the model call | no automatic answer over a person | planned |
| Media, mood, admin promotions, assignment, CSAT, inbox lifecycle, worker lifecycle, billing | their rows | claim/process/recover loops | one effect per row, no row stuck | planned |
| Rule engine, knowledge, forge, provider page scripting, dashboard pages | none, or outside services | | | not modelled; see `PROJECT.json` |

How they meet: intake hands a stored message to the pipeline; the pipeline
queues replies (OutboundQueue) and opens escalation cases (EscalationCase);
broadcasts put their rows into the outbound queue; escalations, the handover and
rules create notifications; the kill switch is read by every sender; a connect
starts a group sync and then the catch-up; recovery sweeps act on every queue's
rows.

## Modules

Each module has a variable for the rows, one for the memory of every process
that works on them (lost in a crash), and history variables that only record
(copies handed over, alerts rung); no guard reads a history variable. One action
is the code between two points at which another actor can act: as a rule,
one awaited statement. Names follow the source.

### OutboundQueue

`processOneViaRegistry`, `processClaimedMessage`, `handleSendFailure` and the
stuck-row recovery for automatic and manual replies, with the dashboard's
actions on their rows.

| state | code |
|---|---|
| `row` | `OutboundMessage`: status, sendStartedAt, deliveryUncertain, attemptCount, manualRetryCount, replyResolution, and updatedAt against the recovery cutoff |
| `worker` | the local variables of the tick in progress |
| `automation` | `AutomationSettings.automationEnabled` |
| `view` | what a running server action has read of its row |
| `copies`, `confirmed`, `refusals`, `leaked` | history |

`Claim` is the conditional update; `RefuseForeign`, `ReadKillSwitch`,
`KillSwitchCancel`, `DeferForLimit`, `CooldownCancel`, … are the gates in their
order; `Stamp` writes `sendStartedAt`; `HandOver` is the provider's call and
`AnswerAccepted`, `AnswerRefused`, `AnswerLost` its outcomes; `SettleSent`,
`RetryLater`, `GiveUp`, `HoldUncertain` the writes that follow. `OpenRetry` and
`CommitRetry` are a server action's read and its conditional write.

`ReplyDelivery` is the abstract promise: a reply and its fate, without worker,
stamps or recovery. Three queues implement it, each in a module ending in
`Refinement` that reads the fate off a row's columns. Two constants say where
they differ: in which fates a copy may leave (`Underway`) and of which fates
track may be lost (`Losable`).

| queue | `Underway` | `Losable` | why |
|---|---|---|---|
| replies (`OutboundQueueRefinement`) | open | open | only they can be tried again from unknown, with a person's word |
| broadcasts (`BroadcastJobsRefinement`) | open | open, sent, notSent | a throw while the job is settled reaches the catch block, which holds a row that was SENT or given up already |
| e-mails (`EmailOutboxRefinement`) | open, unknown | open | another worker may give a slow send up before it reaches SMTP |

### BroadcastJobs

The broadcast half of the same processor, with the job. `MarkStopped`,
`ReadJob`, `StoppedCancel`, `StartJob` are `handleBroadcastPreSendChecks` and
`markJobStartedIfNeeded`; `LookAtJob`, `CountActive`, `CompleteJob` are the
three statements of `maybeCompleteBroadcastJob`; `InsertRow` is creation's
row-by-row insert. `CancelJob`/`CancelRows`, `RetryRead`/`RetryRows`/`ReviveJob`
and `KillSwitch`/`KillFind`/`KillRows`/`KillJobs` are the server actions,
statement by statement. `caught` says whether an error at this point meets the
processor's catch block, which holds the row as uncertain.

### EscalationCase

The cases of one chat. `FindDueCase`, `Lease`, `ReadCase` are `claimNextDueCase`
(`LoseLease` when the optimistic `updatedAt` no longer matches);
`WorkTier`, `RingRecipient`/`AlreadyAlerted`/`Muted`, `MoveOn` are `processClaimedCase`, one
recipient at a time; `DeferUnavailable`, `DeferExhausted`, `LeaveAlone` its
other exits. `HumanReply` and `NoteReply` are the two statements of
`markHumanReplied`. Dashboard actions check the status when they start (`Asks`,
`Refused`) and write later. `fired` is the set of unique event keys.

### MessagePipeline

Everything after a customer message's row exists. `pass` holds one automation
pass per message (the first) and one for the sweep; both run the same actions:

| actions | code |
|---|---|
| `Receive`, `StoreMissed`, `ReceiveThrows` | `processIncomingMessage`, `storeMissedMessage`, a throw after the insert |
| `NotOperating`, `Operating`, `NotPrimary`, `Evaluate` | `runAutomationStageInProject` up to the verdict |
| `NotEligible` … `Mention`, `FallbackThrows` | `runAiFallback`, in the order of its writes |
| `QueueReply`, `Notify`, `NotifyMuted`, `Refuse`, `Mark` | `executeAction`, one action of the rule at a time; `enqueueNotification` writes nothing for a muted event and the action counts as carried out |
| `RecordExecution`, `Settle` | the upsert and the status |
| `StageThrows`, `NotPrimaryThrows`, `MarkFailed`, `MarkLost`, `Crash` | a throw before a write or between two, the catch block, its failure, the end of the process |
| `Find`, `SettleLate`, `Rerun`, `SkipThrowing` | `recoverStrandedMessages` |

The verdict, the model and the safety checks may come out differently in each
pass: rules and settings change between two of them. The sweep may meet a first
pass that is only slow. It reads its batch once, looks at no row again, and
nothing stops it from overlapping the pass: a row is stranded after five
minutes, while several model calls of up to 120 s each, the lookup of knowledge
and a busy database can take a live pass longer.

### MessageIntake

How a message gets its row. `work` is what each reader of messages has in hand:
a message is its own live delivery (`processIncomingMessage`, with
`retryFailedMessage`'s timers in memory), the catch-up of a connect is another
reader, each reconciliation loop one more. `Persist` is the insert behind the
unique key, after which only the inserting reader goes on to `Automate` and
`MoveCheckpoint`. `ReadCheckpoint`, `Probe`, `SweepNext`, `SweepDone`,
`AdvanceCheckpoint`, `ReportRecovery` are the statements of
`catchUpMissedMessages`, which starts when the group sync of the connect has
ended; `PassBegins`, `PassNext`, `PassDone` those of the loops. `gap` is the
latest `CollectionGap`. Time is coarse: one unit stands for less than any of the
code's windows. What a message becomes after `Automate` is MessagePipeline's.

### GroupSync

One account. `sync` holds syncs, `pass` their attempts: an attempt that timed
out stays in its place and goes on reading and writing beside the next one, as
`withTimeout` leaves it. A pass writes in batches, and `Checkpoint` (which
compares generations and sends the first statement) is a step apart from their
arrival, so that a cancel can come in between: `CreateBatch` has a checkpoint
for each batch, `SaveOne` saves a failed batch row by row without one
(`BatchFails`), `StampBatch` has one before its first batch, `SweepBatch` one
for each. `CallFull` is `syncGroupsWithTimeoutAndRetry` with its three cases
(join, queue, start), and registers; `ReadsGeneration` is the read of the
generation behind the await of the account's project (`asked` is the generation
at registration, `gen` the one the sync goes by); `RunBegins`, `StatusRecorded`, `FullEnds`, `FullTimesOut`, `FullResumes`
are `runSyncWithRetry`; `ArrivalEnds`, `ArrivalContinues`, `ArrivalSettles`,
`WatchPass`, `WatchStops`, `FollowUp` are `watchGroupListArrival`;
`RecoveryStarts`, `RecoveryEnds` are `checkGroupRecovery`; `Release` is
`releaseInFlight`. `CommandStarts` … `SwitchOff`, `ReconnectSucceeds`,
`ReconnectFails` are the LOGOUT and RECONNECT commands with `cancelGroupSync` at
their head.

### EmailOutbox

A tick of each worker: `TickBegins` with the recovery of stuck rows,
`ReadSettings`, `Claim` (the count under the rate lock and the conditional
update are one transaction), `Check`, `HandOver` with one of six answers,
`RecordAnswer`, `RecordTest`. People save settings (`SaveReads` compares,
`SaveWrites` writes), switch the feature, queue mail and withdraw consent
meanwhile. A claim counts with the time its tick began, which the model keeps
(`now`).

### ParticipantAdds

The add loop (`adder`), the check loop (`checker`) and dashboard requests, one
statement per step: `confirm` is three updates, `cancel`, `retry` and `recheck`
two or more. `allowed` counts what a person granted: the maximum of attempts
for a retry or recheck, one more for an approval. `firm` records, as in
BroadcastJobs, that the job was stopped when nothing was about to undo it.

### ChannelThread

One Messenger or Instagram conversation. `sender` is the outbound loop between
claim and `markSent`, which is two steps (`MarkLooks`, `MarkWrites`); `reader`
is the inbound loop inside one event: an echo (`EchoBegins`, `EchoMatches`,
`EchoAttaches`, `EchoCreates`, `EchoPauses`) or a receipt (`ReceiptBegins`,
`ReceiptMoves`, row by row). `desk` is `retryChannelReply` between its read and
its conditional write. Meta's part is external: it echoes what it took, in any
order against its answer, and lets people write elsewhere. What it refuses, an
HTTP 5xx included, it is assumed not to have taken; only a lost answer leaves
that open.

## Runs

| run | question | answer |
|---|---|---|
| `inbox_races` | Two people retry and settle failed WhatsApp replies while the worker, crashes and recovery act on them: an automatic reply or one a person wrote, beside one of a foreign account. Or a person does to an escalation case what the dashboard offers while the worker climbs. | `NoUnconfirmedDuplicate`, `HonestStatus`, `SettledStaysUnsent`, `ManualRetriesBounded`, `PauseLeaksAtMostOne`, `RetryBudgetRespected`, `ImplementsReplyDelivery`; `AlertedOnce`, `NoTierSkipped` hold |
| `thread_races` | Two requests cancel, retry and kill a broadcast job of two rows while the worker sends them, or one does and something fails. Or two requests resend in a channel conversation while the loops work on it. | `GroupGetsItOnce`, `HonestOutcome`, `StopLeaksAtMostOne`, `ImplementsDelivery`; `CopiesAreConfirmed`, `StatusIsTrue`, `OwnEchoIsRecognised` hold |
| `worker_queues` | Group sync under Logout, Reconnect, failures and time-outs; the outbox with two workers and one settings form, or one worker and two forms; adds with two requests and both loops. | `OneSyncPerGeneration`, `CancelStopsWrites`; `AcceptedAtMostOnce`, `HonestOutcome`, `WithinLimit`, `VerifiedWasTested`, `EmailImplementsDelivery`; `AttemptsWithinAllowance`, `StopLeaksOneAdd` hold |
| `queue_liveness` | Do replies, stopped broadcasts and open cases get to their end? | `EveryReplySettles`, `StoppedJobDrains`, `EveryOpenCaseClimbs` hold |
| `message_liveness` | Do messages and group syncs get to theirs, with passes that overlap, throw and die? | `EveryStoredMessageSettles`, `HeldMessagesAreStored`, `QueuedSyncRuns`, `EverySyncReleases` hold, and `HandedOverOnce`, `RepliedMeansQueued`, `RecordedMeansDone`, `HandledOnce` |
| `broadcast_sticky` | Do stops stick, as the comment says? | no: `StopsAreSticky` fails |
| `broadcast_stuck` | Does every job finish? | no: `EveryJobFinishes` fails |
| `escalation_for_good` | Does a reply stop escalation for good? | no: `StopsForGood` fails |
| `escalation_one_open` | Is there one open case per chat? | no: `OneOpenCasePerChat` fails |
| `pipeline_handover` | Does every recorded handover reach the team? | no: `HandoverReachesThePeople` fails |
| `intake_gap` | Does a RECOVERED gap miss nothing? | no: `RecoveredMeansNothingMissed` fails |
| `group_sync_take_over` | Is there only one read of the group list at a time, and does a cancel stop a sync? | no: `OneReadAtATime` fails |

Three runs also check the inductive invariant a proof rests on, the type
invariant included: `IInv` of OutboundQueue and of MessagePipeline, and
`ThreadIInv`. Those of the other modules were checked the same way before they
were proved.
For every property of a passing run `PROJECT.json` names a mutant: an operator
kept beside the one it replaces ("Mutant: …"), with which TLC finds the property
violated. For example, recovery that also requeues stamped rows sends twice, and
a pass that looks at the generation once writes after it was cancelled.

`inbox_races`, `thread_races`, `worker_queues`, `queue_liveness` and
`message_liveness` each hold several components. These share no row and no
memory, so that interleaving them would add states and no behaviour: a variable
(`part`, or `about` where it also names the messages) says which of them a
behaviour is about, and the others stay where they start. The state space is the
sum of theirs, not the product, and what a property says of one component is
checked as if it were alone.

### Bounds

`MaxAttempts`, `MaxDeferrals`, `MaxManualRetries`, `MaxEscalations`,
`SendMaxAttempts`, … are settings or constants of the product, chosen small but
so that the limit is reached and an alternation of two paths is possible.
`MaxFaults`, `MaxMishaps`, `MaxCrashes`, `MaxOutages`, `MaxIntakeFaults`,
`Limit` and `MaxRequests` bound what goes wrong and what people ask for; in
OutboundQueue they are unbounded, and its counters stay finite by themselves.

* Replies: rows share the single tick, the kill switch and recovery's updates
  only, so a behaviour of `inbox_races` about replies queues two of its three
  rows: the foreign one and either the automatic or the manual one. Two requests suffice
  for a lost update; a third only repeats one of them. One manual retry is
  enough for two requests to race for it.
* Broadcasts: one job, two rows (the last row completes, the one before does
  not; in `queue_liveness` one is of a foreign account), both of which can be
  sent, so that a second row could leak past a stop. A behaviour of `thread_races`
  has two requests at once, each of any kind, or one at a time and a fault; the
  two together are in the proof. Jobs share nothing but the tick.
* Escalation: two cases where the question is about two; one otherwise, as cases
  share the tick only. A ceiling of five reaches a follow-up that is followed by
  another; `inbox_races`, which asks about the rungs alone, does with two.
* Pipeline: one message, three faults: the first pass dies, the sweep's pass
  fails, a third runs. Messages share only the sweep, which works on one after
  the other; what its waiting adds for a message is that the row and its age
  move on between `Find` and `Rerun`, and that happens with one. The rule's
  list has a marker, a keyed and an unkeyed action.
* Intake: one message with all its readers for the safety and liveness
  properties (readers meet over one row); two for `intake_gap`, one missed and
  one that moves the checkpoint.
* Group sync: two slots in `worker_queues` (a cancelled sync and its successor)
  and any two events of those `Limit` counts. Three instances: one group with
  every event; two groups with a command and a fault, so that a batch may fail
  and be saved row by row, and stamps and sweeps come in several statements; one
  group with two attempts and a command, so that the next attempt runs beside
  one that timed out. Liveness has one slot, once with arrival passes and once
  with two attempts. Groups meet otherwise only in what a list shows or hides of
  all of them, which is a choice.
* E-mail: a test and a message; two workers and one settings form at a time, or
  one worker and two forms open at once; two connections, two versions. The
  limit is one, which two claims try to pass.
* Channels: two of three messages in a behaviour, the two replies or one of them
  beside what a person wrote in Meta's apps, which says what the first reply
  says; two requests to resend. Two mishaps where one reply is at work, so that a
  death can be followed by a resend, and one where two are.
* Adds: one item, two requests of all four kinds and the kill switch, three in
  all. Items share the job's row, which the requests and loops contend for.
* Channels: two replies with different texts and a message from elsewhere with
  the text of one of them.

### Fairness

The loops are timers of a process that is restarted when it dies, and each
awaited call has a deadline: weak fairness of a tick's next step, of each pass's
and each sync's next step, of the sweeps and loops, of a command once begun, and
of the passing of time that a stranded row needs.

Strong fairness is asked for where a step is enabled again and again but not all
the time: `Claim` and `FindDueCase`, because the queries order by `scheduledAt`
and `nextCheckAt` and every put-off row goes behind those that wait; and
`PassGate`, `LeaveChecks`, `LeaveLimits`, `WorkTier`, which say that the
environment (session, limits, database, settings) does not stop the same row at
the same place for ever. A request that has begun finishes or dies (`Carry`).
Nothing is assumed of people, of the network or of the recovery tick: no
property needs a retry, a resume, a cancel or a reconnect to happen.
`EveryStoredMessageSettles` excepts a row that becomes history (six hours)
before a sweep reaches it, and `HeldMessagesAreStored` a message whose session
is lost or whose half hour is over, as the code does.

In the two liveness runs each fairness condition of one component is joined with
one of the others (`WF(A \/ B)`). As a behaviour is about one component and the
other's steps are never enabled in it, the joined condition says of that
behaviour what the component's own `Fairness` says.

## Proofs

The modules ending in `Proofs` prove, for any rows, requests, recipients,
messages, groups, slots, workers and limits, from the named assumption of each
module alone (finiteness of some of its sets is the strongest of these), that
the specification implies type correctness and the safety properties below.
Faults stay bounded where the model bounds them, by any number.

| module | theorems |
|---|---|
| OutboundQueueProofs | `AtMostOneCopy`, `StatusIsHonest`, `SettledIsFinal`, `ManualRetryLimit`, `PauseHolds`, `BudgetHolds`, `QueueImplementsDelivery`, `TypeCorrect`, `Invariance` |
| BroadcastJobsProofs | `OnceOnly`, `OutcomeIsHonest`, `StopHolds`, `BroadcastsImplementDelivery`, `TickRowExists`, `TypeCorrect`, `Invariance` |
| EscalationCaseProofs | `TierOnce`, `RungByRung`, `TypeCorrect`, `Invariance` |
| MessageProofs (MessagePipeline and MessageIntake) | `HandoverOnce`, `RepliedIsQueued`, `RecordIsTrue`, `TypeCorrect`, `PipelineInvariant`; `AutomationGetsItOnce`, `IntakeTypeCorrect`, `IntakeInvariant` |
| ChannelThreadProofs | `CopiesStayConfirmed`, `StatusStaysTrue`, `OwnEchoStaysRecognised`, `ThreadTypeCorrect`, `ThreadInvariant` |
| GroupSyncProofs | `OneSyncAtATime`, `CancelledPassesStop`, `GroupSyncTypeCorrect`, `GroupSyncInvariant` |
| EmailOutboxProofs | `NoMailTwice`, `OutcomesAreHonest`, `LimitHolds`, `OnlyProvenIsVerified`, `OutboxImplementsDelivery`, `EmailTypeCorrect`, `EmailInvariant` |
| ParticipantAddsProofs | `AddsStayWithinAllowance`, `StoppingLeaksOneAdd`, `AddsTypeCorrect`, `AddsInvariant` |

Hardly one of the properties is inductive. What each invariant adds:

* *OutboundQueue*: what the place of the tick says about the copies (nothing of
  this attempt has arrived before `HandOver`, something may have after), that a
  tick's row is stamped exactly past `Stamp` and is never old, and that a
  request whose retry count still matches has seen the whole row, which is why
  the conditional write on that one column suffices. `LeakInv`: once a reply has
  leaked past a pause, no automatic row stands between the tick's look at the
  switch and the hand-over. `BudgetInv`: while a row may yet be handed over its
  refusals are among the attempts charged to it. `QueueImplementsDelivery` is a
  step simulation under the same invariant: `FateOf` reads the fate off the
  columns, a step that changes no fate, copy or confirmation stutters, and for
  each other step one lemma names the step of ReplyDelivery it is (`HandOver`
  is accounted for because nothing of this attempt has left; `LoseTrack` is
  recovery holding several stamped rows at once).
* *BroadcastJobs*: the same until the row is settled; afterwards the tick only
  touches the job. For `StopLeaksAtMostOne`: once one row has leaked, no tick
  stands between the stop check and the hand-over of that job (`LateInv`); and a
  job that was stopped firmly has been started, and neither a completion nor a
  retry that has looked at it is under way, nor can one begin, as both look
  first (`FirmInv`). The step
  simulation of `BroadcastsImplementDelivery` sorts the steps of the tick into
  those that leave the row's fate alone, those that wait and those that end it;
  it needs `TickRowExists` besides, as a row whose insert is still due has no
  fate to give up.
* *EscalationCase*: a status is earned by the tier below it, in the row, in the
  tick's copy and in a resume that has read the events and not written yet;
  with it the stale overwrite cannot skip a tier. Alerts equal keys because each
  is created in the transaction of its key.
* *MessagePipeline*: of all passes over a message at most one stands between
  claim and alert, and then the decision is its claim and no alert exists; a
  pass about to write "AI replied" has the reply's row behind it; what a pass
  remembers to have carried out is in the database, whichever pass put it there,
  but for a notification whose event was muted when the pass came to it.
* *MessageIntake*: a reader that is about to hand a message to the automation
  created its row, is the only such reader, and the message was not handed over.
* *GroupSync*: generations only grow, and who runs for the present one, and did
  not take it over, holds the account's entry, so two such syncs are one;
  attempts a sync has not come to have left nothing behind; as long as its
  generation is the present one none of a pass's writes has come late, and what
  has come late is of the kind the pass is at, which it leaves only through a
  checkpoint. The proof goes slot by slot: a step moves one slot or the
  generation of all; `PassCreates` and `PassStampsOrSweeps` cover the writes,
  `BatchFallsBack` and `CreatesInBatches` the two ways a batch is saved,
  `SyncReadsGeneration` the late read of the generation.
* *EmailOutbox*: a worker between claim and record holds its mail alone, the
  row is SENDING, or UNKNOWN if another gave it up meanwhile, and its answer
  agrees with what the server took; a test in SMTP's hands carries the version
  it was read with, and as long as no save has changed the connection and kept
  the version, settings read with the present version have the present
  connection. `LimitHolds` counts: a claim adds one mail to each window
  that ends between its time and a minute later, and the claim's own window
  contains what such a window already holds. `OutboxImplementsDelivery` is a
  step simulation under this invariant: an answer settles only a row that is
  still SENDING, so a late one stutters.
* *ParticipantAdds*: the calls an item has seen and those still due to it
  (`StillDue`, from its attempts and where the tick stands) stay within what was
  allowed; a tick past the gate of a stopped job has not called since the stop;
  a job that was stopped firmly has been started, and no completion and no
  request other than a cancel is under way.
* *ChannelThread*: nobody but the send at work on it moves a SENDING row, and
  where the send stands says whether a copy of this round has left (`SenderInv`);
  an id on a row is of a message with the row's text that Meta took (`Fits`),
  which an id never loses because messages only ever leave (`PostsGrow`); so an
  id that reaches an UNKNOWN row proves that its text arrived. A reply that was
  sent once and whose text nobody else wrote holds its own id, which keeps an
  echo from making a second row of it (`OneRowInv`); and on Messenger, where the
  row is known by name, no event about our own send comes to a row or a pause
  (`ReaderInv`). `EchoAttachesKeeps` is the point where these meet: the row it
  writes may be one that is SENT by then. `OldestIsOne` rests on the natural
  numbers being well-founded.

Each proof has one lemma per group of actions that disturb the same conjuncts,
lemmas for what all of them share (a tick that ends, a step that leaves a
component alone), and the temporal theorems from the initial states, the
inductive step and the implication.

Every safety property of a passing run is proved. Only model-checked: liveness
under fairness, which this prover cannot state, and the seven violations, which
are counterexamples of small instances.

## What the checks say about the code

Disagreements between the code and what its comments say, each shown by a run:

* `broadcast_sticky`: a cancel that commits between the stop check and
  `markJobStartedIfNeeded` is overwritten by RUNNING
  (`worker/src/queue/groupBroadcastQueue.ts:47-49, 65`).
* `broadcast_stuck`: rows that recovery or the project check settles, and a tick
  that ends early, settle no job; it stays RUNNING
  (`outboundQueueProcessor.ts:83, 377`).
* `escalation_for_good`: the tick's last update overwrites a human reply that
  came while it was alerting (`escalationQueue.ts:140, 420`).
* `escalation_one_open`: a case opened while another is paused, then a resume
  (`escalationQueue.ts:75`, `supportEscalation.ts:141`).
* `pipeline_handover`: claimed first, alerted second; a failure in between is
  never made good (`runAiFallback.ts:150-152`).
* `intake_gap`: a live message moves the checkpoint between the connect and the
  catch-up, which then finds nothing to do and calls the gap RECOVERED
  (`catchUpMissedMessages.ts:136`, `processIncomingMessage.ts:518`). The loops
  still find what is younger than half an hour; the run's message is older.
* `group_sync_take_over`: a full sync registers before it reads its generation.
  A cancel in between gives it the new one: it is not stopped, and runs beside
  the sync of the reconnect (`commandProcessor.ts:131, 501, 603-623`).

More, which the models contain and the properties of the passing runs except in
so many words:

* `groupParticipantAddQueue.ts:53-56` calls CANCELLED and STOPPED_KILL_SWITCH
  sticky; `markJobStartedIfNeeded` (77-82) writes RUNNING over them on the sole
  condition that the job was not started, a completion on a status read before,
  and a confirmation, a re-check and a revived retry without a look.
  `StopLeaksOneAdd`, like `StopLeaksAtMostOne` of the broadcasts, therefore
  bounds what leaks while a stop stands, and says when it stands.
* `outboxProcessor.ts:226-228` says that a test of old settings never verifies
  new ones. Of two settings forms open at once the second compares with what it
  read (`emailSettings.ts:62, 76, 91`) and may change the connection without
  moving the version; a verdict given for the old connection then stands for the
  new one. `VerifiedWasTested` excepts this save (`stale`) until the next one
  that moves the version.
* `markSent` says a message's id is taken over from its echo's row "so the thread
  shows it once" (`outboundProcessor.ts:260-264`). On Instagram an echo stored
  between its two statements (268, 277) makes the second one throw; the sweep
  holds the row as UNKNOWN and the thread shows the message twice.
  `OwnEchoIsRecognised` speaks of Instagram rows that did get the mark.
* A NOTIFY action records "Queued for delivery" although the event is muted and
  nothing was written (`processIncomingMessage.ts:1102-1147`,
  `enqueueNotification.ts:34-40`). `RecordedMeansDone` says so.

* Instagram reports a read by message id, and `applyReceipt` takes it for all
  messages before that one, UNKNOWN ones included (`inboundProcessor.ts:412-420`);
  `packages/shared/src/channels.ts:581` says a receipt proves that a message
  arrived. `StatusIsTrue` therefore speaks of Messenger where it speaks of
  receipts.
* `docs/GROUP_SYNC.md` says of a Logout that nothing is written and every group
  stays off; a recovery tick between `cancelGroupSync` and the provider's logout
  starts a sync of the new generation, which still finds the session connected.
  GroupSync has the order (`CommandBumps`, `RecoveryStarts`, `SwitchOff`).

Behaviour the models contain that breaks no stated promise, worth knowing:

* A deferral for an account limit is charged to `attemptCount`, the retry budget.
* A broadcast job may be COMPLETED while a late row is still to be sent (the
  count is older than the write); the row is still sent once.
* `resumeCase` derives the status from the latest event, so a case paused early
  resumes where its last alert left it.
* `resetEscalation` leaves the event keys: the case climbs again silently.
* `escalateNow` during a tick is lost to the tick's last write.
* NOTIFY actions have no key; a re-run notifies again, although the stage is
  described as safe to re-run because every write is keyed
  (`processIncomingMessage.ts:144`).
* A re-run after the answer was queued but not yet recorded may decide to hand
  over: the customer gets the answer and the team an alert.
* FAILED rows are not run again by anything; `retryFailedMessage.ts:17` counts
  on PENDING ones only.
* The catch-up moves the checkpoint past messages whose own recovery threw, and
  `MoveCheckpoint` may also move it back.
* A confirmation of participant adds writes QUEUED on a status read before: a
  cancel in between is undone, and a confirmation grants an item that was added
  meanwhile another turn.
* The limit per minute counts a mail at the time its worker's tick began. A tick
  that is slow to claim sends later than its row says, so that the sends of two
  workers may lie closer together than the rows; `WithinLimit` speaks of the
  rows.
* The job is settled inside the try of a send: a throw there marks a row that
  was SENT as uncertain (`outboundQueueProcessor.ts:536`). No property tells such
  a row from one nobody knows about.
* An echo of a message written in Meta's apps that is stored and then fails is
  found stored at its next try; the AI is not paused for it.
* While one of our sends is under way, an echo on Instagram is told by its text:
  a person's message with the same words takes the row's place.

## Left out of the models

* What decides a gate: send windows, counts, text safety, group membership,
  rule evaluation, knowledge, the model's draft. Each is a choice of the
  environment, so the properties hold however it falls.
* Outbound replies: sessions coming and going (a choice at the gate), test mode.
* Recovery's two updates are independent steps; the code runs one after the
  other. A row is enqueued once (its key).
* Escalation: the status MONITORING, which nothing writes; policies and working
  hours; one `markHumanReplied` at a time; bulk actions, which repeat the single
  one; `pausedAt` and the PAUSED/RESUMED events' text, which nothing reads.
* Pipeline: own and revoked messages, the hooks with error handling of their own
  (escalation, activity, attendance, mood), linking ids back to the decision,
  the research queue.
* Intake: one catch-up at a time, although two connects close together start
  two; the history import; edits and revocations.
* Escalation's ceiling: that the level stays below it is what `WorkTier`'s guard
  says, and no property repeats it.
* Group sync: names, descriptions and participants of a group; the size of a
  batch (any); the chain of a connect, whose sync is asked for in the step that
  connects; the row of a
  RESYNC command and who waits for it; a queued sync's look at the shutdown
  flag; more syncs at once than there are slots. A watch is armed by the connect
  and not by the end of the connect's sync; an automatic connect waits until the
  watch before it has noticed; a pass of a watch starts after its interval, so
  a queued sync has started by then. Promises and timers are otherwise
  unordered.
* Channels, in the run: one mishap, so that a send that dies, the sweep and a
  resend together are in the proof only; a lost answer and a resend are in both.
* E-mail: batches, the limit per day (the same rule over a longer window),
  settings that miss a field.
* Adds: admin promotions, the upload of the list, an account of another project,
  and a throw after the item was written ADDED, which sends it back to PENDING
  where the next tick finds the number a member.
* Channels: customers' messages and the AI's loop over them, Telegram and
  website chat, reply windows and tags (a choice of `SenderRefuses`), the
  conversation's preview. An event is tried again without end; the code stops
  after its maximum of attempts, which is more than the run's mishaps.
* Several worker processes: the deployment runs one. EmailOutbox has several, as
  the claim is written for that.

Not modelled at all, with the reasons in `PROJECT.json`: the rule engine and
text generation compute on strings and hold no state; the WhatsApp Web provider
drives a browser page; dashboard pages render and check access. The rest of the
worker's loops are claim queues of shapes that are modelled here.

## Plan

Done: OutboundQueue with ReplyDelivery, BroadcastJobs, EscalationCase,
MessagePipeline, MessageIntake, GroupSync, EmailOutbox, ParticipantAdds,
ChannelThread, with a proof of every safety property the runs check and of the
three refinements.

Next, in this order:

1. Action properties (a message never loses its record, a status never goes
   back). Channel replies as a fourth implementation of ReplyDelivery, which
   needs a step of its own: a receipt that turns an unknown copy into one that
   arrived.
2. Notifications: claim, release of alerts in flight, retry. `RingRecipient` of
   EscalationCase and `Alert` of MessagePipeline are its enqueue.
3. The command rows: one executor, the stuck-command sweep, what a command's
   end says of what it did.
4. Eligibility, human takeover and suppression around the model call, which
   refine the choices of MessagePipeline; reply admission over the rows of
   OutboundQueue.
5. MessageIntake composed with MessagePipeline (its `Automate` is the first pass)
   against one abstract specification: stored once, automated when young.
6. Media, mood, assignment, CSAT, inbox lifecycle, admin promotions, billing, as
   far as each has a question that the shapes above do not answer.
