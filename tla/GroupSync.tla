----------------------------- MODULE GroupSync -----------------------------
(***************************************************************************)
(* The group list of one WhatsApp account: what the phone lists is copied  *)
(* into the WhatsAppGroup rows by full syncs, arrival passes and recovery  *)
(* passes, while Logout and Reconnect take the session away                *)
(* (apps/worker/src/commands/commandProcessor.ts, groupRecovery.ts).       *)
(*                                                                         *)
(* A pass reads the list, reads the rows, and then writes: new rows in     *)
(* batches, stamps, the sweep.  The account's generation is checked before *)
(* some of the statements, never when one arrives.  A full sync reads its  *)
(* generation only after it has registered, and one that times out starts  *)
(* its next attempt beside the pass it gave up on, which goes on.          *)
(***************************************************************************)
EXTENDS Naturals, FiniteSets

CONSTANTS
  Groups,       \* the groups the number is or was in
  Syncs,        \* slots for syncs that exist at the same time
  None,         \* no sync
  Watched,      \* whether arrival passes follow a connect
  MaxAttempts,  \* GROUP_SYNC_RETRY_DELAYS_MS.length + 1
  StableReads,  \* GROUP_ARRIVAL_SETTINGS.stableReads
  HoldMin,      \* SWEEP_HOLD_MIN_GROUPS
  HoldPerCent,  \* SWEEP_HOLD_FRACTION, in per cent
  Limit         \* bound: how many of each of Events happen, and of any

SyncKinds == {"FULL", "ARRIVAL", "RECOVERY"}
Events == {"resync", "recovery", "command", "drop", "restart", "fault", "any"}

ASSUME GroupSyncConstants ==
  /\ IsFiniteSet(Groups)
  /\ None \notin Syncs
  /\ Watched \in BOOLEAN
  /\ MaxAttempts \in Nat \ {0}
  /\ StableReads \in Nat
  /\ HoldMin \in Nat
  /\ HoldPerCent \in Nat
  /\ Limit \in [Events -> Nat]

VARIABLES
  rows,          \* WhatsAppGroup rows: absent, isActive or not
  account,       \* WhatsAppAccount: groupSyncStatus; a number is linked
  session,       \* the provider: connected, dropped, or without a browser
  generation,    \* syncGeneration of the account: memory
  syncInFlight,  \* the account's entry: memory
  pendingFull,   \* the queued full sync: memory
  sync,          \* the syncs that run: memory
  pass,          \* the attempts of each: memory
  watch,         \* watchGroupListArrival since the last connect: memory
  command,       \* the Logout or Reconnect in progress: memory
  spent,         \* how many of Events have happened
  late           \* history: the writes of a pass that came after its generation

store == <<rows, account>>
queue == <<syncInFlight, pendingFull>>
vars == <<store, session, generation, queue, sync, pass, watch, command, spent, late>>

----------------------------------------------------------------------------
Statuses == {"NULL", "RUNNING", "COMPLETED", "PARTIAL", "FAILED", "CANCELLED"}
RowStates == {"ABSENT", "ACTIVE", "INACTIVE"}
Attempts == 1 .. MaxAttempts
Ids == Syncs \X Attempts
Writes == {"create", "stamp", "sweep"}

(* A sync.  asked: the generation when it registered; gen: the one it goes *)
(* by.  after: afterConnect.  retry: a recovery pass in RETRY mode.        *)
(* write: a status on its way to the row.  then: the attempt to start when *)
(* it has arrived, 0 for none.                                             *)
NoSync == [pc |-> "idle"]
Running ==
  [pc: {"called", "begin", "attempt", "backoff", "recording", "deciding"}, kind: SyncKinds,
   asked: Nat, gen: Nat, after: BOOLEAN, retry: BOOLEAN, attempt: Attempts, write: Statuses,
   then: Attempts \cup {0}]

(* A pass carries the kind and the generation of its sync; one that its    *)
(* sync has given up on keeps the sync's slot until it ends.  todo: what   *)
(* it still has to write of the kind it is at; ones: the rows of a failed  *)
(* batch, saved one at a time.                                             *)
NoPass == [pc |-> "idle"]
Reading == [pc: {"reading"}, kind: SyncKinds, gen: Nat, after: BOOLEAN]
Working ==
  [pc: {"listed", "save", "creating", "single", "stamp", "stamping", "sweep", "sweeping"},
   kind: SyncKinds, gen: Nat, after: BOOLEAN, list: SUBSET Groups,
   known: [Groups -> RowStates], failed: SUBSET Groups, todo: SUBSET Groups,
   ones: SUBSET Groups]
Verdicts == {"OK", "PARTIAL", "EMPTY", "LOADING", "UNAVAILABLE", "ERROR", "CANCELLED"}
Ended == [pc: {"ended"}, verdict: Verdicts, grew: BOOLEAN]

NoCommand == [pc |-> "idle"]
Commands ==
  [pc: {"asked", "cancelling", "cut", "connecting", "unlink", "off"},
   type: {"LOGOUT", "RECONNECT"}, saw: Statuses]
NoPending == [on |-> "nothing"]
Pendings ==
  {NoPending} \cup [on: {"a sync", "its release"}, sync: Syncs, after: BOOLEAN, gen: Nat]
Watches == [gen: Nat, due: BOOLEAN, marked: BOOLEAN, still: Nat, followUp: BOOLEAN]

Current(s) == sync[s].gen = generation
(* A sync between its start and the end of its last attempt.               *)
Live(s) ==
  \/ sync[s].pc \in {"called", "begin", "attempt", "backoff"}
  \/ sync[s].pc = "recording" /\ sync[s].then # 0
(* It read a generation newer than the one it registered for.              *)
TookOver(s) == sync[s].asked # sync[s].gen
Free(s) == sync[s].pc = "idle" /\ \A n \in Attempts : pass[s][n].pc = "idle"
Spend(e) ==
  /\ spent[e] < Limit[e]
  /\ spent["any"] < Limit["any"]
  /\ spent' = [spent EXCEPT ![e] = @ + 1, !["any"] = @ + 1]

Init ==
  /\ rows \in [Groups -> RowStates]
  /\ account = [status |-> "NULL", linked |-> TRUE]
  /\ session = "GONE"
  /\ generation = 0
  /\ syncInFlight = None
  /\ pendingFull = NoPending
  /\ sync = [s \in Syncs |-> NoSync]
  /\ pass = [s \in Syncs |-> [n \in Attempts |-> NoPass]]
  /\ watch = [gen |-> 0, due |-> FALSE, marked |-> FALSE, still |-> 0, followUp |-> FALSE]
  /\ command = NoCommand
  /\ spent = [e \in Events |-> 0]
  /\ late = [i \in Ids |-> {}]

----------------------------------------------------------------------------
(* Starting a sync.                                                        *)

NewSync(kind, gen, after, retry) ==
  [pc |-> IF kind = "FULL" THEN "called" ELSE "attempt", kind |-> kind, asked |-> gen,
   gen |-> gen, after |-> after, retry |-> retry, attempt |-> 1, write |-> "RUNNING", then |-> 0]

NewPass(new) ==
  [pc |-> "reading", kind |-> new.kind, gen |-> new.gen, after |-> new.after]

Start(s, new) ==
  /\ Free(s)
  /\ sync' = [sync EXCEPT ![s] = new]
  /\ pass' = IF new.kind = "FULL" THEN pass ELSE [pass EXCEPT ![s][1] = NewPass(new)]
  /\ syncInFlight' = s
  /\ late' = [i \in Ids |-> IF i[1] = s THEN {} ELSE late[i]]

(* queueFullAfterAddOnly                                                   *)
Queue(after, pending) ==
  IF pending = NoPending
  THEN [on |-> "a sync", sync |-> syncInFlight, after |-> after, gen |-> generation]
  ELSE [pending EXCEPT !.after = @ /\ after]

(* syncGroupsWithTimeoutAndRetry: join a full sync, queue behind another   *)
(* one, or start.  pending is what is queued already.                      *)
CallFull(after, pending) ==
  \/ /\ syncInFlight # None
     /\ sync[syncInFlight].kind = "FULL"
     /\ pendingFull' = pending
     /\ UNCHANGED <<syncInFlight, sync, pass, late>>
  \/ /\ syncInFlight # None
     /\ sync[syncInFlight].kind # "FULL"
     /\ pendingFull' = Queue(after, pending)
     /\ UNCHANGED <<syncInFlight, sync, pass, late>>
  \/ /\ syncInFlight = None
     /\ pendingFull' = pending
     /\ \E s \in Syncs : Start(s, NewSync("FULL", generation, after, FALSE))

(* A RESYNC_GROUPS command; commands are carried out one after the other,  *)
(* but this one is not waited for.                                         *)
Resync ==
  /\ command = NoCommand
  /\ Spend("resync")
  /\ CallFull(FALSE, pendingFull)
  /\ UNCHANGED <<store, session, generation, watch, command>>

PendingRuns ==
  /\ pendingFull.on = "its release"
  /\ IF pendingFull.gen = generation
     THEN CallFull(pendingFull.after, NoPending)
     ELSE pendingFull' = NoPending /\ UNCHANGED <<syncInFlight, sync, pass, late>>
  /\ UNCHANGED <<store, session, generation, watch, command, spent>>

(* checkGroupRecovery: the status it starts from decides whether the pass  *)
(* may record one.                                                         *)
RecoveryStarts(s) ==
  /\ Spend("recovery")
  /\ account.linked
  /\ session = "CONNECTED"
  /\ syncInFlight = None
  /\ Start(s, NewSync("RECOVERY", generation, FALSE, account.status \in {"FAILED", "PARTIAL"}))
  /\ UNCHANGED <<store, session, generation, pendingFull, watch, command>>

----------------------------------------------------------------------------
(* One pass: syncGroupsInProject.                                          *)

At(s, n, pc) == pass[s][n].pc = pc
Stays(s, n) == pass[s][n].gen = generation
ToPass(s, n, p) == pass' = [pass EXCEPT ![s][n] = p]
Step(s, n, pc) == ToPass(s, n, [pass[s][n] EXCEPT !.pc = pc])

(* Its sync learns of the end unless it has given up on the pass.          *)
EndPass(s, n, verdict, grew) ==
  ToPass(s, n, IF sync[s].pc = "attempt" /\ sync[s].attempt = n
               THEN [pc |-> "ended", verdict |-> verdict, grew |-> grew]
               ELSE NoPass)

(* A row write arrives.                                                    *)
Arrives(s, n, write) ==
  late' = [late EXCEPT ![<<s, n>>] = IF Stays(s, n) THEN @ ELSE @ \cup {write}]

Fresh(p) == {g \in p.list : p.known[g] = "ABSENT"}
Back(p) == {g \in p.list : p.known[g] = "INACTIVE"}
Missing(p) == {g \in Groups \ p.list : p.known[g] = "ACTIVE"}
Seen(p) == p.list \ p.failed
ToStamp(p) == IF p.kind = "FULL" THEN Seen(p) ELSE Back(p) \cap Seen(p)

(* shouldHoldDeactivationSweep                                             *)
Held(p) ==
  LET before == Cardinality({g \in Groups : p.known[g] = "ACTIVE"} \cup Back(p)
                              \cup (Fresh(p) \ p.failed))
      gone == Cardinality(Missing(p))
  IN gone > HoldMin /\ 100 * gone > HoldPerCent * before
Sweeps(p) == p.kind = "FULL" /\ p.list # {} /\ Missing(p) # {} /\ ~Held(p)

Verdict(p) ==
  IF p.list = {}
  THEN CASE p.kind # "FULL" -> "EMPTY"
         [] p.after -> "LOADING"
         [] \A g \in Groups : p.known[g] = "ABSENT" -> "OK"
         [] OTHER -> "UNAVAILABLE"
  ELSE IF \/ p.failed # {}
          \/ p.kind = "FULL" /\ Held(p)
          \/ p.kind # "FULL" /\ Missing(p) # {}
       THEN "PARTIAL" ELSE "OK"
Finish(s, n, p) == EndPass(s, n, Verdict(p), Back(p) \cup (Fresh(p) \ p.failed) # {})

(* A list may be partial.                                                  *)
ReadList(s, n, list) ==
  /\ At(s, n, "reading")
  /\ session = "CONNECTED" \/ (session = "DROPPED" /\ pass[s][n].kind # "RECOVERY")
  /\ IF Stays(s, n)
     THEN ToPass(s, n, [pc |-> "listed", kind |-> pass[s][n].kind, gen |-> generation,
                        after |-> pass[s][n].after, list |-> list, failed |-> {},
                        todo |-> {}, ones |-> {},
                        known |-> [g \in Groups |-> "ABSENT"]])
     ELSE EndPass(s, n, "CANCELLED", FALSE)
  /\ UNCHANGED <<store, session, generation, queue, sync, watch, command, spent, late>>

ListUnavailable(s, n) ==
  /\ At(s, n, "reading")
  /\ session = "GONE" \/ (session = "DROPPED" /\ pass[s][n].kind = "RECOVERY")
  /\ EndPass(s, n, "UNAVAILABLE", FALSE)
  /\ UNCHANGED <<store, session, generation, queue, sync, watch, command, spent, late>>

(* The read has its own time limit, but for an ordinary full sync.         *)
StillLoading(s, n) ==
  /\ At(s, n, "reading")
  /\ pass[s][n].kind # "FULL" \/ pass[s][n].after
  /\ EndPass(s, n, "LOADING", FALSE)
  /\ UNCHANGED <<store, session, generation, queue, sync, watch, command, spent, late>>

ReadRows(s, n) ==
  /\ At(s, n, "listed")
  /\ LET p == [pass[s][n] EXCEPT !.known = rows] IN
     ToPass(s, n, [p EXCEPT !.pc = IF Fresh(p) = {} THEN "stamp" ELSE "save",
                            !.todo = Fresh(p)])
  /\ UNCHANGED <<store, session, generation, queue, sync, watch, command, spent, late>>

(* The first stamp, the first sweep.                                       *)
ToStamping(s, n) ==
  LET p == pass[s][n] IN
  ToPass(s, n, IF ToStamp(p) = {} THEN [p EXCEPT !.pc = "sweep", !.todo = Missing(p)]
               ELSE [p EXCEPT !.pc = "stamping", !.todo = ToStamp(p)])
ToSweeping(s, n) ==
  IF Sweeps(pass[s][n]) THEN Step(s, n, "sweeping") ELSE Finish(s, n, pass[s][n])

(* Mutant: one checkpoint for a pass, before its first write.              *)
CheckpointOnce(s, n) ==
  /\ pass[s][n].pc \in {"save", "stamp", "sweep"}
  /\ CASE pass[s][n].pc = "save" ->
            IF Stays(s, n) THEN Step(s, n, "creating") ELSE EndPass(s, n, "CANCELLED", FALSE)
       [] pass[s][n].pc = "stamp" -> ToStamping(s, n)
       [] pass[s][n].pc = "sweep" -> ToSweeping(s, n)
  /\ UNCHANGED <<store, session, generation, queue, sync, watch, command, spent, late>>

(* checkpoint(), and the statement is sent.                                *)
Checkpoint(s, n) ==
  /\ pass[s][n].pc \in {"save", "stamp", "sweep"}
  /\ CASE ~Stays(s, n) -> EndPass(s, n, "CANCELLED", FALSE)
       [] Stays(s, n) /\ pass[s][n].pc = "save" -> Step(s, n, "creating")
       [] Stays(s, n) /\ pass[s][n].pc = "stamp" -> ToStamping(s, n)
       [] Stays(s, n) /\ pass[s][n].pc = "sweep" -> ToSweeping(s, n)
  /\ UNCHANGED <<store, session, generation, queue, sync, watch, command, spent, late>>

(* Batches are of any size here.  createMany with skipDuplicates: each     *)
(* batch has a checkpoint of its own ...                                   *)
Created(on) ==
  rows' = [g \in Groups |-> IF g \in on /\ rows[g] = "ABSENT" THEN "ACTIVE" ELSE rows[g]]
AfterBatch(p) == IF p.todo = {} THEN "stamp" ELSE "save"

CreateBatch(s, n, batch) ==
  LET p == [pass[s][n] EXCEPT !.todo = @ \ batch] IN
  /\ At(s, n, "creating")
  /\ batch # {} /\ batch \subseteq pass[s][n].todo
  /\ Created(batch)
  /\ ToPass(s, n, [p EXCEPT !.pc = AfterBatch(p)])
  /\ Arrives(s, n, "create")
  /\ UNCHANGED <<account, session, generation, queue, sync, watch, command, spent>>

(* ... but one that fails is saved row by row, without.                    *)
BatchFails(s, n, batch) ==
  /\ At(s, n, "creating")
  /\ batch # {} /\ batch \subseteq pass[s][n].todo
  /\ Spend("fault")
  /\ ToPass(s, n, [pass[s][n] EXCEPT !.pc = "single", !.todo = @ \ batch, !.ones = batch])
  /\ UNCHANGED <<store, session, generation, queue, sync, watch, command, late>>

SaveOne(s, n, g, fails) ==
  LET p == [pass[s][n] EXCEPT !.ones = @ \ {g}, !.failed = IF fails THEN @ \cup {g} ELSE @] IN
  /\ At(s, n, "single")
  /\ g \in pass[s][n].ones
  /\ IF fails THEN UNCHANGED <<rows, late>> ELSE Created({g}) /\ Arrives(s, n, "create")
  /\ ToPass(s, n, [p EXCEPT !.pc = IF p.ones = {} THEN AfterBatch(p) ELSE "single"])
  /\ UNCHANGED <<account, session, generation, queue, sync, watch, command, spent>>

(* One checkpoint before the first batch of the stamp.                     *)
StampBatch(s, n, batch) ==
  LET p == [pass[s][n] EXCEPT !.todo = @ \ batch] IN
  /\ At(s, n, "stamping")
  /\ batch # {} /\ batch \subseteq pass[s][n].todo
  /\ rows' = [g \in Groups |-> IF g \in batch /\ rows[g] # "ABSENT" THEN "ACTIVE" ELSE rows[g]]
  /\ ToPass(s, n, IF p.todo = {} THEN [p EXCEPT !.pc = "sweep", !.todo = Missing(p)] ELSE p)
  /\ Arrives(s, n, "stamp")
  /\ UNCHANGED <<account, session, generation, queue, sync, watch, command, spent>>

(* One before every batch of the sweep.                                    *)
SweepBatch(s, n, batch) ==
  LET p == [pass[s][n] EXCEPT !.todo = @ \ batch] IN
  /\ At(s, n, "sweeping")
  /\ batch # {} /\ batch \subseteq pass[s][n].todo
  /\ rows' = [g \in Groups |-> IF g \in batch /\ rows[g] = "ACTIVE" THEN "INACTIVE" ELSE rows[g]]
  /\ IF p.todo = {} THEN Finish(s, n, p) ELSE ToPass(s, n, [p EXCEPT !.pc = "sweep"])
  /\ Arrives(s, n, "sweep")
  /\ UNCHANGED <<account, session, generation, queue, sync, watch, command, spent>>

StatementFails(s, n) ==
  /\ pass[s][n].pc \in {"reading", "listed", "stamping", "sweeping"}
  /\ Spend("fault")
  /\ EndPass(s, n, "ERROR", FALSE)
  /\ UNCHANGED <<store, session, generation, queue, sync, watch, command, late>>

----------------------------------------------------------------------------
(* A sync around its passes: runSyncWithRetry, the arrival pass, the       *)
(* recovery pass.                                                          *)

(* Mutants: the entry of whoever is in flight is released, or what is      *)
(* queued is not told.                                                     *)
ReleaseAny(s) ==
  /\ syncInFlight' = None
  /\ pendingFull' = IF pendingFull.on = "a sync" /\ pendingFull.sync = s
                    THEN [pendingFull EXCEPT !.on = "its release"] ELSE pendingFull
ReleaseSilently(s) ==
  /\ syncInFlight' = IF syncInFlight = s THEN None ELSE syncInFlight
  /\ pendingFull' = pendingFull

(* releaseInFlight: only the sync's own entry; a queued full sync may run. *)
Release(s) ==
  /\ syncInFlight' = IF syncInFlight = s THEN None ELSE syncInFlight
  /\ pendingFull' = IF pendingFull.on = "a sync" /\ pendingFull.sync = s
                    THEN [pendingFull EXCEPT !.on = "its release"] ELSE pendingFull

Attempt(s, n) ==
  /\ sync' = [sync EXCEPT ![s] = [@ EXCEPT !.pc = "attempt", !.attempt = n]]
  /\ ToPass(s, n, NewPass(sync[s]))
Record(s, status) ==
  sync' = [sync EXCEPT ![s] = [@ EXCEPT !.pc = "recording", !.write = status, !.then = 0]]
Over(s) ==
  /\ sync' = [sync EXCEPT ![s] = NoSync]
  /\ Release(s)

(* Its generation is read behind the await of the account's project.       *)
ReadsGeneration(s) ==
  /\ sync[s].pc = "called"
  /\ sync' = [sync EXCEPT ![s] = [@ EXCEPT !.pc = "begin", !.gen = generation]]
  /\ UNCHANGED <<store, session, generation, queue, pass, watch, command, spent, late>>

RunBegins(s) ==
  /\ sync[s].pc = "begin"
  /\ IF Current(s)
     THEN /\ sync' = [sync EXCEPT ![s] = [@ EXCEPT !.pc = "recording", !.then = 1]]
          /\ pass' = pass
     ELSE Attempt(s, 1)
  /\ UNCHANGED <<store, session, generation, queue, watch, command, spent, late>>

(* record(): a statement already sent is not stopped by a new generation.  *)
StatusRecorded(s) ==
  /\ sync[s].pc = "recording"
  /\ account' = [account EXCEPT !.status = sync[s].write]
  /\ CASE sync[s].then # 0 -> Attempt(s, sync[s].then) /\ UNCHANGED queue
       [] sync[s].then = 0 /\ sync[s].kind = "ARRIVAL" ->
            /\ sync' = [sync EXCEPT ![s] = [@ EXCEPT !.pc = "deciding"]]
            /\ UNCHANGED <<pass, queue>>
       [] OTHER -> Over(s) /\ pass' = pass
  /\ UNCHANGED <<rows, session, generation, watch, command, spent, late>>

(* The last attempt of s has ended with verdict v.                         *)
Concludes(s, n, v) ==
  /\ sync[s].pc = "attempt"
  /\ sync[s].attempt = n
  /\ At(s, n, "ended")
  /\ pass[s][n].verdict = v
  /\ ToPass(s, n, NoPass)

TriesAgain(s) ==
  IF sync[s].attempt < MaxAttempts
  THEN sync' = [sync EXCEPT ![s] = [@ EXCEPT !.pc = "backoff"]] /\ UNCHANGED queue
  ELSE IF Current(s) THEN Record(s, "FAILED") /\ UNCHANGED queue ELSE Over(s)

FullEnds(s, n, v) ==
  /\ Concludes(s, n, v)
  /\ sync[s].kind = "FULL"
  /\ IF v = "CANCELLED" \/ ~Current(s) THEN Over(s)
     ELSE CASE v = "OK" -> Record(s, "COMPLETED") /\ UNCHANGED queue
            [] v = "PARTIAL" -> Record(s, "PARTIAL") /\ UNCHANGED queue
            [] v = "LOADING" -> Record(s, "RUNNING") /\ UNCHANGED queue
            [] v = "UNAVAILABLE" -> Record(s, "FAILED") /\ UNCHANGED queue
            [] OTHER -> TriesAgain(s)
  /\ watch' = IF v = "LOADING" /\ sync[s].after /\ watch.gen = sync[s].asked
              THEN [watch EXCEPT !.marked = TRUE] ELSE watch
  /\ UNCHANGED <<store, session, generation, command, spent, late>>

(* withTimeout: the pass goes on.                                          *)
FullTimesOut(s) ==
  /\ sync[s].pc = "attempt"
  /\ sync[s].kind = "FULL"
  /\ pass[s][sync[s].attempt].pc \notin {"idle", "ended"}
  /\ IF Current(s) THEN TriesAgain(s) ELSE Over(s)
  /\ UNCHANGED <<store, session, generation, pass, watch, command, spent, late>>

FullResumes(s) ==
  /\ sync[s].pc = "backoff"
  /\ IF Current(s) THEN Attempt(s, sync[s].attempt + 1) /\ UNCHANGED queue
     ELSE Over(s) /\ pass' = pass
  /\ UNCHANGED <<store, session, generation, watch, command, spent, late>>

(* Mutant: no finally; a pass that throws does not release the entry.      *)
RecoveryEndsWell(s, v) ==
  /\ v \in {"OK", "PARTIAL", "EMPTY", "CANCELLED"}
  /\ Concludes(s, 1, v)
  /\ sync[s].kind = "RECOVERY"
  /\ IF v \in {"OK", "PARTIAL"} /\ Current(s) /\ sync[s].retry
     THEN Record(s, IF v = "OK" THEN "COMPLETED" ELSE "PARTIAL") /\ UNCHANGED queue
     ELSE Over(s)
  /\ UNCHANGED <<store, session, generation, watch, command, spent, late>>
RecoveryEnds(s, v) ==
  /\ Concludes(s, 1, v)
  /\ sync[s].kind = "RECOVERY"
  /\ IF v \in {"OK", "PARTIAL"} /\ Current(s) /\ sync[s].retry
     THEN Record(s, IF v = "OK" THEN "COMPLETED" ELSE "PARTIAL") /\ UNCHANGED queue
     ELSE Over(s)
  /\ UNCHANGED <<store, session, generation, watch, command, spent, late>>

(* The entry is released before the state is recorded.  A list longer than *)
(* any before counts as growth too.                                        *)
ArrivalEnds(s, v, longer) ==
  LET grew == v \in {"OK", "PARTIAL"} /\ (pass[s][1].grew \/ longer)
      still == v \in {"OK", "PARTIAL"} /\ ~grew IN
  /\ Concludes(s, 1, v)
  /\ sync[s].kind = "ARRIVAL"
  /\ Release(s)
  /\ IF v = "CANCELLED" \/ ~Current(s)
     THEN sync' = [sync EXCEPT ![s] = NoSync] /\ watch' = watch
     ELSE /\ IF grew \/ v = "LOADING" THEN Record(s, "RUNNING")
             ELSE sync' = [sync EXCEPT ![s] = [@ EXCEPT !.pc = "deciding"]]
          /\ watch' = [watch EXCEPT !.marked = @ \/ grew \/ v = "LOADING",
                                    !.still = IF still THEN @ + 1 ELSE 0]
  /\ UNCHANGED <<store, session, generation, command, spent, late>>

----------------------------------------------------------------------------
(* watchGroupListArrival.                                                  *)

ArrivalContinues(s) ==
  /\ sync[s].pc = "deciding"
  /\ ~(Current(s) /\ watch.still >= StableReads)
  /\ sync' = [sync EXCEPT ![s] = NoSync]
  /\ watch' = IF watch.gen = sync[s].gen THEN [watch EXCEPT !.due = TRUE] ELSE watch
  /\ UNCHANGED <<store, session, generation, queue, pass, command, spent, late>>

(* The list has settled or the window is over: one full sync.              *)
ArrivalSettles(s) ==
  LET calls == Current(s) /\ session = "CONNECTED" IN
  /\ sync[s].pc = "deciding"
  /\ watch' = IF watch.gen = sync[s].gen THEN [watch EXCEPT !.due = FALSE] ELSE watch
  /\ IF calls /\ syncInFlight = None
     THEN /\ sync' = [sync EXCEPT ![s] = NewSync("FULL", generation, FALSE, FALSE)]
          /\ syncInFlight' = s
          /\ pendingFull' = pendingFull
          /\ late' = [i \in Ids |-> IF i[1] = s THEN {} ELSE late[i]]
     ELSE /\ sync' = [sync EXCEPT ![s] = NoSync]
          /\ pendingFull' = IF calls /\ sync[syncInFlight].kind # "FULL"
                            THEN Queue(FALSE, pendingFull) ELSE pendingFull
          /\ UNCHANGED <<syncInFlight, late>>
  /\ UNCHANGED <<store, session, generation, pass, command, spent>>

(* A pass waits its interval: a queued full sync has started by then.      *)
WatchPass(s) ==
  /\ watch.due
  /\ watch.gen = generation
  /\ session = "CONNECTED"
  /\ syncInFlight = None
  /\ pendingFull.on # "its release"
  /\ Start(s, NewSync("ARRIVAL", generation, FALSE, FALSE))
  /\ watch' = [watch EXCEPT !.due = FALSE]
  /\ UNCHANGED <<store, session, generation, pendingFull, command, spent>>

(* stopBecauseDisconnected, or the watch belongs to a session that was     *)
(* taken away.                                                             *)
WatchStops ==
  /\ watch.due
  /\ watch.gen # generation \/ session # "CONNECTED"
  /\ watch' = [watch EXCEPT !.due = FALSE]
  /\ account' = IF watch.gen = generation /\ watch.marked
                THEN [account EXCEPT !.status = "PARTIAL"] ELSE account
  /\ UNCHANGED <<rows, session, generation, queue, sync, pass, command, spent, late>>

FollowUp ==
  /\ watch.followUp
  /\ watch' = [watch EXCEPT !.followUp = FALSE]
  /\ IF watch.gen = generation /\ session = "CONNECTED"
     THEN CallFull(FALSE, pendingFull)
     ELSE UNCHANGED <<queue, sync, pass, late>>
  /\ UNCHANGED <<store, session, generation, command, spent>>

----------------------------------------------------------------------------
(* The session.                                                            *)

(* resyncAndCatchUpAfterConnect                                            *)
Connected ==
  /\ session' = "CONNECTED"
  /\ CallFull(TRUE, pendingFull)
  /\ watch' = [gen |-> generation, due |-> Watched,
               marked |-> watch.gen = generation /\ watch.marked, still |-> 0,
               followUp |-> Watched]

(* connectAccount, and recoverIfDropped, which leaves the session alone    *)
(* while a Logout or Reconnect is open.  The watch before has noticed.     *)
AutoConnect ==
  /\ session # "CONNECTED"
  /\ account.linked
  /\ command = NoCommand
  /\ ~watch.due
  /\ Connected
  /\ UNCHANGED <<store, generation, command, spent>>

Drop ==
  /\ session = "CONNECTED"
  /\ Spend("drop")
  /\ session' \in {"DROPPED", "GONE"}
  /\ UNCHANGED <<store, generation, queue, sync, pass, watch, command, late>>

(* WhatsApp Web comes back by itself.                                      *)
Heal ==
  /\ session = "DROPPED"
  /\ session' = "CONNECTED"
  /\ UNCHANGED <<store, generation, queue, sync, pass, watch, command, spent, late>>

(* cancelGroupSync, from the new generation to the write of CANCELLED.     *)
Cancel(c) ==
  /\ generation' = generation + 1
  /\ syncInFlight' = None
  /\ pendingFull' = NoPending
  /\ command' = [c EXCEPT !.pc = "cancelling"]

(* With nothing in flight it first asks for the account's status.          *)
CommandStarts(type) ==
  LET c == [pc |-> "asked", type |-> type, saw |-> account.status] IN
  /\ command = NoCommand
  /\ Spend("command")
  /\ IF syncInFlight # None THEN Cancel(c)
     ELSE command' = c /\ UNCHANGED <<generation, queue>>
  /\ UNCHANGED <<store, session, sync, pass, watch, late>>

CommandBumps ==
  /\ command.pc = "asked"
  /\ IF command.saw = "RUNNING" THEN Cancel(command)
     ELSE /\ generation' = generation + 1
          /\ pendingFull' = NoPending
          /\ command' = [command EXCEPT !.pc = "cut"]
          /\ syncInFlight' = syncInFlight
  /\ UNCHANGED <<store, session, sync, pass, watch, spent, late>>

CancelRecorded ==
  /\ command.pc = "cancelling"
  /\ account' = [account EXCEPT !.status = "CANCELLED"]
  /\ command' = [command EXCEPT !.pc = "cut"]
  /\ UNCHANGED <<rows, session, generation, queue, sync, pass, watch, spent, late>>

(* After five seconds' wait for the cancelled sync, provider.logout() or   *)
(* provider.disconnect(): a statement already sent may outlast it.         *)
CutSession ==
  /\ command.pc = "cut"
  /\ session' = "GONE"
  /\ command' = [command EXCEPT !.pc = IF command.type = "LOGOUT" THEN "unlink" ELSE "connecting"]
  /\ UNCHANGED <<store, generation, queue, sync, pass, watch, spent, late>>

Unlink ==
  /\ command.pc = "unlink"
  /\ account' = [account EXCEPT !.linked = FALSE]
  /\ command' = [command EXCEPT !.pc = "off"]
  /\ UNCHANGED <<rows, session, generation, queue, sync, pass, watch, spent, late>>

SwitchOff ==
  /\ command.pc = "off"
  /\ rows' = [g \in Groups |-> IF rows[g] = "ACTIVE" THEN "INACTIVE" ELSE rows[g]]
  /\ command' = NoCommand
  /\ UNCHANGED <<account, session, generation, queue, sync, pass, watch, spent, late>>

ReconnectSucceeds ==
  /\ command.pc = "connecting"
  /\ account' = [account EXCEPT !.linked = TRUE]
  /\ command' = NoCommand
  /\ Connected
  /\ UNCHANGED <<rows, generation, spent>>

ReconnectFails ==
  /\ command.pc = "connecting"
  /\ command' = NoCommand
  /\ UNCHANGED <<store, session, generation, queue, sync, pass, watch, spent, late>>

(* Memory is lost; a RUNNING status is closed at boot.                     *)
Restart ==
  /\ Spend("restart")
  /\ account' = [account EXCEPT !.status = IF @ = "RUNNING" THEN "FAILED" ELSE @]
  /\ session' = "GONE"
  /\ generation' = 0
  /\ syncInFlight' = None
  /\ pendingFull' = NoPending
  /\ sync' = [s \in Syncs |-> NoSync]
  /\ pass' = [s \in Syncs |-> [n \in Attempts |-> NoPass]]
  /\ watch' = [gen |-> 0, due |-> FALSE, marked |-> FALSE, still |-> 0, followUp |-> FALSE]
  /\ command' = NoCommand
  /\ late' = [i \in Ids |-> {}]
  /\ UNCHANGED rows

----------------------------------------------------------------------------
PassStep(s, n) ==
  \/ \E list \in SUBSET Groups : ReadList(s, n, list)
  \/ ListUnavailable(s, n)
  \/ StillLoading(s, n)
  \/ ReadRows(s, n)
  \/ Checkpoint(s, n)
  \/ \E batch \in SUBSET Groups : CreateBatch(s, n, batch)
  \/ \E g \in Groups, fails \in BOOLEAN : SaveOne(s, n, g, fails)
  \/ \E batch \in SUBSET Groups : StampBatch(s, n, batch)
  \/ \E batch \in SUBSET Groups : SweepBatch(s, n, batch)

SyncStep(s) ==
  \/ ReadsGeneration(s)
  \/ RunBegins(s)
  \/ StatusRecorded(s)
  \/ \E n \in Attempts, v \in Verdicts : FullEnds(s, n, v)
  \/ FullTimesOut(s)
  \/ FullResumes(s)
  \/ \E v \in Verdicts : RecoveryEnds(s, v)
  \/ \E v \in Verdicts, longer \in BOOLEAN : ArrivalEnds(s, v, longer)
  \/ ArrivalContinues(s)
  \/ ArrivalSettles(s)

CommandStep ==
  \/ CommandBumps
  \/ CancelRecorded
  \/ CutSession
  \/ Unlink
  \/ SwitchOff
  \/ ReconnectSucceeds
  \/ ReconnectFails

Environment ==
  \/ Resync
  \/ AutoConnect
  \/ Drop
  \/ Heal
  \/ \E type \in {"LOGOUT", "RECONNECT"} : CommandStarts(type)
  \/ Restart
  \/ \E s \in Syncs : RecoveryStarts(s)
  \/ \E s \in Syncs, n \in Attempts : StatementFails(s, n)
  \/ \E s \in Syncs, n \in Attempts, batch \in SUBSET Groups : BatchFails(s, n, batch)

Next ==
  \/ \E s \in Syncs : SyncStep(s)
  \/ \E s \in Syncs, n \in Attempts : PassStep(s, n)
  \/ PendingRuns
  \/ \E s \in Syncs : WatchPass(s)
  \/ WatchStops
  \/ FollowUp
  \/ CommandStep
  \/ Environment

Spec == Init /\ [][Next]_vars

(* What was started goes on: an await ends in its result, its time limit   *)
(* or a failure, and no timer is forgotten.  Nothing obliges a person, the *)
(* network or the recovery tick.                                           *)
Fairness ==
  /\ \A s \in Syncs : WF_vars(SyncStep(s))
  /\ \A s \in Syncs, n \in Attempts : WF_vars(PassStep(s, n))
  /\ WF_vars(PendingRuns)
  /\ WF_vars(CommandStep)
FairSpec == Spec /\ Fairness

----------------------------------------------------------------------------
TypeOK ==
  /\ rows \in [Groups -> RowStates]
  /\ account \in [status: Statuses, linked: BOOLEAN]
  /\ session \in {"CONNECTED", "DROPPED", "GONE"}
  /\ generation \in Nat
  /\ syncInFlight \in Syncs \cup {None}
  /\ pendingFull \in Pendings
  /\ sync \in [Syncs -> Running \cup {NoSync}]
  /\ pass \in [Syncs -> [Attempts -> Working \cup Ended \cup Reading \cup {NoPass}]]
  /\ watch \in Watches
  /\ command \in Commands \cup {NoCommand}
  /\ spent \in [Events -> Nat]
  /\ late \in [Ids -> SUBSET Writes]

(* Two syncs of one account never run for the same session: recovery,      *)
(* arrival passes, commands and reconnects all join, queue behind or skip  *)
(* the one in flight, and a cancelled sync that still unwinds never        *)
(* releases its successor's entry (commandProcessor.ts:474-610).  A full   *)
(* sync that was cancelled between registering and reading its generation  *)
(* is not meant: it takes the new generation over (OneReadAtATime).        *)
OneSyncPerGeneration ==
  \A s, t \in Syncs :
    /\ Live(s) /\ Current(s) /\ ~TookOver(s)
    /\ Live(t) /\ Current(t) /\ ~TookOver(t)
    => s = t

(* After the generation it goes by is over a pass finishes at most the     *)
(* kind of write it was in the middle of, the rest of a batch saved row by *)
(* row and of the stamps included: it never goes on from new rows to       *)
(* stamps, or from either to switching groups off                          *)
(* (commandProcessor.ts:232-396).  The generation it goes by need not be   *)
(* the one its sync was asked for in (ReadsGeneration).                    *)
CancelStopsWrites == \A i \in DOMAIN late : \A a, b \in late[i] : a = b

(* "Stops any group sync of this account", "there is still only one read   *)
(* at a time" (cancelGroupSync, queueFullAfterAddOnly): no two syncs go by *)
(* the generation in force, whenever the cancel came.                      *)
OneReadAtATime ==
  \A s, t \in Syncs : Live(s) /\ Current(s) /\ Live(t) /\ Current(t) => s = t

(* A full sync queued behind another pass is not forgotten: it starts,     *)
(* joins one that runs, or its session was taken away                      *)
(* (queueFullAfterAddOnly).                                                *)
QueuedSyncRuns == pendingFull # NoPending ~> pendingFull = NoPending

(* Whatever becomes of a sync, cancelled, timed out or failed, it gives    *)
(* the account's entry up, or no later sync could ever start.              *)
EverySyncReleases == \A s \in Syncs : syncInFlight = s ~> syncInFlight # s
----------------------------------------------------------------------------
(* The inductive strengthening of the safety properties.                   *)

(* Generations only grow, so that what was left behind stays behind; who   *)
(* runs for the present one has the account's entry.                       *)
EntryInv ==
  /\ \A s \in Syncs :
       /\ sync[s].pc # "idle" => sync[s].asked <= sync[s].gen /\ sync[s].gen <= generation
       /\ Live(s) /\ Current(s) /\ ~TookOver(s) => syncInFlight = s
  /\ \A s \in Syncs, n \in Attempts :
       pass[s][n].pc \notin {"idle", "ended"} => pass[s][n].gen <= generation

(* The attempts a sync has not come to yet have left nothing behind, and   *)
(* an arrival pass has only one.                                           *)
Untouched(s, n) == pass[s][n] = NoPass /\ late[<<s, n>>] = {}
AttemptInv ==
  \A s \in Syncs :
    /\ sync[s].pc \in {"called", "begin"} => \A n \in Attempts : Untouched(s, n)
    /\ sync[s].pc = "recording" /\ sync[s].then # 0 =>
         sync[s].then = 1 /\ \A n \in Attempts : Untouched(s, n)
    /\ sync[s].pc \in {"attempt", "backoff"} =>
         \A n \in Attempts : n > sync[s].attempt => Untouched(s, n)
    /\ sync[s].pc = "backoff" => sync[s].attempt < MaxAttempts
    /\ sync[s].pc # "idle" /\ sync[s].kind = "ARRIVAL" => sync[s].attempt = 1
    /\ sync[s].pc = "backoff" => sync[s].kind = "FULL"
    /\ sync[s].pc = "deciding" => sync[s].kind = "ARRIVAL"
    /\ sync[s].pc \in {"recording", "deciding"} /\ sync[s].kind = "ARRIVAL" =>
         \A n \in Attempts : pass[s][n] = NoPass

(* As long as its generation is the present one nothing of a pass has come *)
(* late; what comes late is of the kind the pass is at.                    *)
AtWrite == [creating |-> "create", single |-> "create", stamping |-> "stamp", sweeping |-> "sweep"]
LateInv ==
  \A s \in Syncs, n \in Attempts :
    /\ \A a, b \in late[<<s, n>>] : a = b
    /\ pass[s][n].pc \in DOMAIN AtWrite => late[<<s, n>>] \subseteq {AtWrite[pass[s][n].pc]}
    /\ pass[s][n].pc \notin {"idle", "ended"} /\ Stays(s, n) => late[<<s, n>>] = {}
    /\ pass[s][n].pc \in {"reading", "listed"} => late[<<s, n>>] = {}

IInv == TypeOK /\ EntryInv /\ AttemptInv /\ LateInv
=============================================================================
