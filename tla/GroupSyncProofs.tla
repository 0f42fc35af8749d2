-------------------------- MODULE GroupSyncProofs --------------------------
(***************************************************************************)
(* Proofs about GroupSync: in every interleaving of syncs, passes given up *)
(* on, commands and reconnects, one session has one sync unless a cancelled*)
(* one takes the session over, and a pass whose generation is over finishes*)
(* at most the kind of write it was in the middle of.                      *)
(*                                                                         *)
(* The invariant is taken slot by slot: a slot holds a sync and its passes,*)
(* and a step changes one slot at most, or the generation of all of them.  *)
(***************************************************************************)
EXTENDS GroupSync, TLAPS

----------------------------------------------------------------------------
(* The invariant, by slots.                                                *)

SyncTypes ==
  /\ generation \in Nat
  /\ syncInFlight \in Syncs \cup {None}
  /\ sync \in [Syncs -> Running \cup {NoSync}]
  /\ pass \in [Syncs -> [Attempts -> Working \cup Ended \cup Reading \cup {NoPass}]]
  /\ late \in [Ids -> SUBSET Writes]

RestTypes ==
  /\ rows \in [Groups -> RowStates]
  /\ account \in [status: Statuses, linked: BOOLEAN]
  /\ session \in {"CONNECTED", "DROPPED", "GONE"}
  /\ pendingFull \in Pendings
  /\ watch \in Watches
  /\ command \in Commands \cup {NoCommand}
  /\ spent \in [Events -> Nat]

EntryOf(s) ==
  /\ sync[s].pc # "idle" => sync[s].asked <= sync[s].gen /\ sync[s].gen <= generation
  /\ Live(s) /\ Current(s) /\ ~TookOver(s) => syncInFlight = s
  /\ \A n \in Attempts :
       pass[s][n].pc \notin {"idle", "ended"} => pass[s][n].gen <= generation

AttemptsOf(s) ==
  /\ sync[s].pc \in {"called", "begin"} => \A n \in Attempts : Untouched(s, n)
  /\ sync[s].pc = "recording" /\ sync[s].then # 0 =>
       sync[s].then = 1 /\ \A n \in Attempts : Untouched(s, n)
  /\ sync[s].pc \in {"attempt", "backoff"} =>
       \A n \in Attempts : n > sync[s].attempt => Untouched(s, n)
  /\ sync[s].pc = "backoff" => sync[s].attempt < MaxAttempts
  /\ sync[s].pc # "idle" /\ sync[s].kind = "ARRIVAL" => sync[s].attempt = 1
  /\ sync[s].pc = "backoff" => sync[s].kind = "FULL"
  /\ sync[s].pc = "deciding" => sync[s].kind = "ARRIVAL"
  /\ sync[s].pc \in {"recording", "deciding"} /\ sync[s].kind = "ARRIVAL" =>
       \A n \in Attempts : pass[s][n] = NoPass

LateOf(s, n) ==
  /\ \A a, b \in late[<<s, n>>] : a = b
  /\ pass[s][n].pc \in DOMAIN AtWrite => late[<<s, n>>] \subseteq {AtWrite[pass[s][n].pc]}
  /\ pass[s][n].pc \notin {"idle", "ended"} /\ Stays(s, n) => late[<<s, n>>] = {}
  /\ pass[s][n].pc \in {"reading", "listed"} => late[<<s, n>>] = {}

Slot(s) == EntryOf(s) /\ AttemptsOf(s) /\ \A n \in Attempts : LateOf(s, n)
Core == SyncTypes /\ \A s \in Syncs : Slot(s)

LEMMA BySlots == IInv <=> RestTypes /\ Core
  <1>1. TypeOK <=> RestTypes /\ SyncTypes
    BY DEF TypeOK, RestTypes, SyncTypes
  <1>2. EntryInv <=> \A s \in Syncs : EntryOf(s)
    BY DEF EntryInv, EntryOf
  <1>3. AttemptInv <=> \A s \in Syncs : AttemptsOf(s)
    BY DEF AttemptInv, AttemptsOf
  <1>4. LateInv <=> \A s \in Syncs : \A n \in Attempts : LateOf(s, n)
    BY DEF LateInv, LateOf
  <1> QED
    BY <1>1, <1>2, <1>3, <1>4 DEF IInv, Core, Slot

LEMMA FirstAttempt == 1 \in Attempts
  BY GroupSyncConstants DEF Attempts

LEMMA LateTyped ==
  ASSUME SyncTypes, NEW s \in Syncs, NEW n \in Attempts
  PROVE  <<s, n>> \in Ids /\ late[<<s, n>>] \in SUBSET Writes
  BY DEF SyncTypes, Ids

LEMMA RunningSync ==
  ASSUME SyncTypes, NEW s \in Syncs
  PROVE  /\ sync[s] \in Running \cup {NoSync}
         /\ sync[s].pc # "idle" => sync[s] \in Running
  BY DEF SyncTypes, Running, NoSync

LEMMA PassKinds ==
  ASSUME SyncTypes, NEW s \in Syncs, NEW n \in Attempts
  PROVE  /\ pass[s][n].pc = "idle" => pass[s][n] = NoPass
         /\ pass[s][n].pc = "reading" => pass[s][n] \in Reading
         /\ pass[s][n].pc = "ended" => pass[s][n] \in Ended
         /\ pass[s][n].pc \notin {"idle", "reading", "ended"} => pass[s][n] \in Working
  <1>1. pass[s][n] \in Working \cup Ended \cup Reading \cup {NoPass}
    BY DEF SyncTypes
  <1> QED
    BY <1>1 DEF Working, Ended, Reading, NoPass

(* A slot that a step leaves alone.                                        *)
LEMMA OtherSlot ==
  ASSUME NEW t \in Syncs, Slot(t),
         generation' = generation,
         sync'[t] = sync[t], pass'[t] = pass[t],
         \A n \in Attempts : late'[<<t, n>>] = late[<<t, n>>],
         syncInFlight = t => syncInFlight' = t
  PROVE  Slot(t)'
  <1>1. EntryOf(t)'
    BY DEF Slot, EntryOf, Live, Current, TookOver
  <1>2. AttemptsOf(t)'
    BY DEF Slot, AttemptsOf, Untouched
  <1>3. \A n \in Attempts : LateOf(t, n)'
    BY DEF Slot, LateOf, Stays
  <1> QED
    BY <1>1, <1>2, <1>3 DEF Slot

LEMMA CoreUnchanged ==
  ASSUME Core, UNCHANGED <<generation, sync, pass, late, syncInFlight>>
  PROVE  Core'
  <1>1. SyncTypes'
    BY DEF Core, SyncTypes
  <1>2. \A t \in Syncs : Slot(t)'
    BY OtherSlot DEF Core
  <1> QED
    BY <1>1, <1>2 DEF Core

(* A new generation leaves every sync and every pass behind.               *)
LEMMA NewGeneration ==
  ASSUME Core, generation' = generation + 1, syncInFlight' \in {syncInFlight, None},
         UNCHANGED <<sync, pass, late>>
  PROVE  Core'
  <1>1. SyncTypes'
    BY DEF Core, SyncTypes
  <1>2. ASSUME NEW t \in Syncs PROVE Slot(t)'
    <2>1. Slot(t) /\ generation \in Nat
      BY DEF Core, SyncTypes
    <2>2. sync[t] \in Running \cup {NoSync} /\ (sync[t].pc # "idle" => sync[t].gen \in Nat /\ sync[t].asked \in Nat)
      BY RunningSync DEF Core, Running
    <2>3. \A n \in Attempts :
            pass[t][n].pc \notin {"idle", "ended"} => pass[t][n].gen \in Nat
      BY PassKinds DEF Core, Working, Reading
    <2>4. EntryOf(t)'
      BY <2>1, <2>2, <2>3 DEF Slot, EntryOf, Live, Current, TookOver
    <2>5. AttemptsOf(t)'
      BY <2>1 DEF Slot, AttemptsOf, Untouched
    <2>6. \A n \in Attempts : LateOf(t, n)'
      BY <2>1, <2>3 DEF Slot, EntryOf, LateOf, Stays
    <2> QED
      BY <2>4, <2>5, <2>6 DEF Slot
  <1> QED
    BY <1>1, <1>2 DEF Core

----------------------------------------------------------------------------
(* One pass moves on.                                                      *)

Passes == Working \cup Ended \cup Reading \cup {NoPass}

LEMMA PassMoves ==
  ASSUME Core, NEW s \in Syncs, NEW n \in Attempts,
         pass[s][n].pc # "idle",
         UNCHANGED <<generation, syncInFlight, sync>>,
         NEW p \in Passes, pass' = [pass EXCEPT ![s][n] = p],
         p.pc \notin {"idle", "ended"} => p.gen <= generation,
         NEW k \in SUBSET Writes, late' = [late EXCEPT ![<<s, n>>] = k],
         \A a, b \in k : a = b,
         p.pc \in DOMAIN AtWrite => k \subseteq {AtWrite[p.pc]},
         p.pc \notin {"idle", "ended"} /\ p.gen = generation => k = {},
         p.pc \in {"reading", "listed"} => k = {}
  PROVE  Core'
  <1>1. SyncTypes /\ Slot(s)
    BY DEF Core
  <1>2. <<s, n>> \in Ids
    BY DEF Ids
  <1>3. SyncTypes'
    BY <1>1, <1>2 DEF SyncTypes, Passes
  <1>4. pass'[s][n] = p /\ late'[<<s, n>>] = k
    BY <1>1, <1>2 DEF SyncTypes
  <1>5. ASSUME NEW m \in Attempts, m # n
        PROVE  pass'[s][m] = pass[s][m] /\ late'[<<s, m>>] = late[<<s, m>>]
    <2>1. <<s, m>> \in Ids /\ <<s, m>> # <<s, n>>
      BY <1>5 DEF Ids
    <2> QED
      BY <1>1, <1>5, <2>1 DEF SyncTypes
  <1>6. EntryOf(s)'
    BY <1>1, <1>4, <1>5 DEF Slot, EntryOf, Live, Current, TookOver
  <1>7. AttemptsOf(s)'
    <2>1. pass[s][n] # NoPass
      BY DEF NoPass
    <2>2. ~Untouched(s, n)
      BY <2>1 DEF Untouched
    <2>3. \A m \in Attempts : m # n /\ Untouched(s, m) => Untouched(s, m)'
      BY <1>5 DEF Untouched
    <2>4. UNCHANGED sync[s]
      OBVIOUS
    <2> QED
      BY <1>1, <1>5, <2>1, <2>2, <2>3, <2>4 DEF Slot, AttemptsOf
  <1>8. ASSUME NEW m \in Attempts PROVE LateOf(s, m)'
    <2>1. CASE m = n
      BY <1>4, <2>1 DEF LateOf, Stays
    <2>2. CASE m # n
      BY <1>1, <1>5, <2>2 DEF Slot, LateOf, Stays
    <2> QED
      BY <2>1, <2>2
  <1>9. ASSUME NEW t \in Syncs PROVE Slot(t)'
    <2>1. CASE t = s
      BY <1>6, <1>7, <1>8, <2>1 DEF Slot
    <2>2. CASE t # s
      <3>1. pass'[t] = pass[t]
        BY <1>1, <2>2 DEF SyncTypes
      <3>2. \A m \in Attempts : late'[<<t, m>>] = late[<<t, m>>]
        BY <1>1, <2>2 DEF SyncTypes, Ids
      <3> QED
        BY <3>1, <3>2, OtherSlot DEF Core
    <2> QED
      BY <2>1, <2>2
  <1> QED
    BY <1>3, <1>9 DEF Core

(* No write arrives.                                                       *)
LEMMA PassMovesUnheard ==
  ASSUME Core, NEW s \in Syncs, NEW n \in Attempts,
         pass[s][n].pc # "idle",
         UNCHANGED <<generation, syncInFlight, sync, late>>,
         NEW p \in Passes, pass' = [pass EXCEPT ![s][n] = p],
         p.pc \notin {"idle", "ended"} => p.gen <= generation,
         p.pc \in DOMAIN AtWrite => late[<<s, n>>] \subseteq {AtWrite[p.pc]},
         p.pc \notin {"idle", "ended"} /\ p.gen = generation => late[<<s, n>>] = {},
         p.pc \in {"reading", "listed"} => late[<<s, n>>] = {}
  PROVE  Core'
  <1>1. /\ <<s, n>> \in Ids /\ late[<<s, n>>] \in SUBSET Writes
        /\ \A a, b \in late[<<s, n>>] : a = b
    BY LateTyped DEF Core, Slot, LateOf
  <1>2. PICK k \in SUBSET Writes : k = late[<<s, n>>]
    BY <1>1
  <1>3. late' = [late EXCEPT ![<<s, n>>] = k]
    BY <1>1, <1>2 DEF Core, SyncTypes
  <1> QED
    BY <1>1, <1>2, <1>3, PassMoves

EndedWith(s, n, v, grew) ==
  IF sync[s].pc = "attempt" /\ sync[s].attempt = n
  THEN [pc |-> "ended", verdict |-> v, grew |-> grew] ELSE NoPass

LEMMA EndedPass ==
  ASSUME NEW s, NEW n, NEW v \in Verdicts, NEW grew \in BOOLEAN
  PROVE  /\ EndedWith(s, n, v, grew) \in Passes
         /\ EndedWith(s, n, v, grew).pc \in {"idle", "ended"}
         /\ EndedWith(s, n, v, grew).pc \notin DOMAIN AtWrite
  <1>1. [pc |-> "ended", verdict |-> v, grew |-> grew] \in Ended
    BY DEF Ended
  <1>2. NoPass \in Passes /\ NoPass.pc = "idle"
    BY DEF Passes, NoPass
  <1> QED
    BY <1>1, <1>2 DEF Passes, EndedWith, AtWrite

LEMMA PassEnds ==
  ASSUME Core, NEW s \in Syncs, NEW n \in Attempts, pass[s][n].pc # "idle",
         NEW v \in Verdicts, NEW grew \in BOOLEAN, EndPass(s, n, v, grew),
         UNCHANGED <<generation, syncInFlight, sync, late>>
  PROVE  Core'
  <1>1. PICK p : p = EndedWith(s, n, v, grew)
    OBVIOUS
  <1>2. p \in Passes /\ p.pc \in {"idle", "ended"} /\ p.pc \notin DOMAIN AtWrite
    BY <1>1, EndedPass
  <1>3. pass' = [pass EXCEPT ![s][n] = p]
    BY <1>1 DEF EndPass, ToPass, EndedWith
  <1> QED
    BY <1>2, <1>3, PassMovesUnheard

LEMMA VerdictTyped == \A p : Verdict(p) \in Verdicts
  BY DEF Verdict, Verdicts

LEMMA PassFinishes ==
  ASSUME Core, NEW s \in Syncs, NEW n \in Attempts, pass[s][n].pc # "idle",
         NEW p, Finish(s, n, p),
         UNCHANGED <<generation, syncInFlight, sync, late>>
  PROVE  Core'
  <1>1. PICK grew \in BOOLEAN : EndPass(s, n, Verdict(p), grew)
    BY DEF Finish
  <1> QED
    BY <1>1, VerdictTyped, PassEnds

(* The writes of a pass never touch the account or the session.            *)
LEMMA PassLeavesRest ==
  ASSUME RestTypes, rows' \in [Groups -> RowStates], spent' \in [Events -> Nat],
         UNCHANGED <<account, session, pendingFull, watch, command>>
  PROVE  RestTypes'
  BY DEF RestTypes

LEMMA SpendTyped ==
  ASSUME RestTypes, NEW e \in Events, Spend(e)
  PROVE  spent' \in [Events -> Nat]
  BY DEF RestTypes, Spend, Events

LEMMA PassReads ==
  ASSUME Core, RestTypes, NEW s \in Syncs, NEW n \in Attempts,
         NEW list \in SUBSET Groups,
         \/ ReadList(s, n, list)
         \/ ListUnavailable(s, n)
         \/ StillLoading(s, n)
         \/ ReadRows(s, n)
  PROVE  RestTypes' /\ Core'
  <1>1. RestTypes'
    BY DEF RestTypes, ReadList, ListUnavailable, StillLoading, ReadRows, store, queue
  <1> SUFFICES Core'
    BY <1>1
  <1>2. pass[s][n].pc # "idle"
    BY DEF ReadList, ListUnavailable, StillLoading, ReadRows, At
  <1>3. UNCHANGED <<generation, syncInFlight, sync, late>>
    BY DEF ReadList, ListUnavailable, StillLoading, ReadRows, queue
  <1>4. Slot(s) /\ LateOf(s, n)
    BY DEF Core, Slot
  <1>5. CASE ReadList(s, n, list)
    <2>1. CASE Stays(s, n)
      <3>1. pass[s][n] \in Reading
        BY <1>5, PassKinds DEF Core, ReadList, At
      <3> DEFINE p == [pc |-> "listed", kind |-> pass[s][n].kind, gen |-> generation,
                       after |-> pass[s][n].after, list |-> list, failed |-> {},
                       todo |-> {}, ones |-> {},
                       known |-> [g \in Groups |-> "ABSENT"]]
      <3>2. p \in Working /\ p.pc = "listed" /\ p.gen = generation
        BY <3>1 DEF Working, Reading, RowStates, Core, SyncTypes
      <3>3. pass' = [pass EXCEPT ![s][n] = p]
        BY <1>5, <2>1 DEF ReadList, ToPass
      <3>4. late[<<s, n>>] = {} /\ p.pc \notin DOMAIN AtWrite
        BY <1>4, <1>5, <3>2 DEF LateOf, ReadList, At, AtWrite
      <3>5. generation \in Nat
        BY DEF Core, SyncTypes
      <3>6. p \in Passes
        BY <3>2 DEF Passes
      <3>7. p.pc \notin {"idle", "ended"} => p.gen <= generation
        BY <3>2, <3>5
      <3> HIDE DEF p
      <3> QED
        BY <1>2, <1>3, <3>2, <3>3, <3>4, <3>6, <3>7, PassMovesUnheard
    <2>2. CASE ~Stays(s, n)
      <3>1. EndPass(s, n, "CANCELLED", FALSE)
        BY <1>5, <2>2 DEF ReadList
      <3> QED
        BY <1>2, <1>3, <3>1, PassEnds DEF Verdicts
    <2> QED
      BY <2>1, <2>2
  <1>6. CASE ListUnavailable(s, n)
    <2>1. EndPass(s, n, "UNAVAILABLE", FALSE)
      BY <1>6 DEF ListUnavailable
    <2> QED
      BY <1>2, <1>3, <2>1, PassEnds DEF Verdicts
  <1>7. CASE StillLoading(s, n)
    <2>1. EndPass(s, n, "LOADING", FALSE)
      BY <1>7 DEF StillLoading
    <2> QED
      BY <1>2, <1>3, <2>1, PassEnds DEF Verdicts
  <1>8. CASE ReadRows(s, n)
    <2>1. pass[s][n] \in Working /\ pass[s][n].pc = "listed"
      BY <1>8, PassKinds DEF Core, ReadRows, At
    <2>2. PICK pc \in {"stamp", "save"} :
            pass' = [pass EXCEPT ![s][n] =
                       [[pass[s][n] EXCEPT !.known = rows] EXCEPT
                          !.pc = pc, !.todo = Fresh([pass[s][n] EXCEPT !.known = rows])]]
      BY <1>8 DEF ReadRows, ToPass
    <2> DEFINE q == [pass[s][n] EXCEPT !.known = rows]
               p == [q EXCEPT !.pc = pc, !.todo = Fresh(q)]
    <2>a. q \in Working /\ Fresh(q) \in SUBSET Groups /\ q.gen = pass[s][n].gen
      BY <2>1 DEF Working, RestTypes, Fresh
    <2> HIDE DEF q
    <2>3. p \in Working /\ p.pc = pc /\ p.gen = pass[s][n].gen
      BY <2>a DEF Working
    <2>4. p.gen <= generation
      BY <1>4, <2>1, <2>3 DEF Slot, EntryOf
    <2>5. late[<<s, n>>] = {} /\ p.pc \notin DOMAIN AtWrite
      BY <1>4, <2>1, <2>3 DEF LateOf, AtWrite
    <2>6. pass' = [pass EXCEPT ![s][n] = p]
      BY <2>2 DEF q
    <2> HIDE DEF p
    <2> QED
      BY <1>2, <1>3, <2>3, <2>4, <2>5, <2>6, PassMovesUnheard DEF Passes
  <1> QED
    BY <1>5, <1>6, <1>7, <1>8

LEMMA PassChecks ==
  ASSUME Core, RestTypes, NEW s \in Syncs, NEW n \in Attempts, Checkpoint(s, n)
  PROVE  RestTypes' /\ Core'
  <1>1. RestTypes'
    BY DEF RestTypes, Checkpoint, store, queue
  <1> SUFFICES Core'
    BY <1>1
  <1>2. pass[s][n].pc \in {"save", "stamp", "sweep"} /\ pass[s][n].pc # "idle"
    BY DEF Checkpoint
  <1>3. UNCHANGED <<generation, syncInFlight, sync, late>>
    BY DEF Checkpoint, queue
  <1>4. pass[s][n] \in Working
    BY <1>2, PassKinds DEF Core
  <1>5. CASE ~Stays(s, n)
    <2>1. EndPass(s, n, "CANCELLED", FALSE)
      BY <1>2, <1>5 DEF Checkpoint
    <2> QED
      BY <1>2, <1>3, <2>1, PassEnds DEF Verdicts
  <1>6. CASE Stays(s, n)
    <2>0. late[<<s, n>>] = {} /\ generation \in Nat /\ pass[s][n].gen = generation
      BY <1>2, <1>6 DEF Core, Slot, LateOf, Stays, SyncTypes
    <2>1. CASE Finish(s, n, pass[s][n])
      BY <1>2, <1>3, <2>1, PassFinishes
    <2>2. ASSUME NEW p \in Working, p.gen = generation, pass' = [pass EXCEPT ![s][n] = p]
          PROVE  Core'
      <3>1. p \in Passes /\ p.gen <= generation
        BY <2>0, <2>2 DEF Passes
      <3> QED
        BY <1>2, <1>3, <2>0, <2>2, <3>1, PassMovesUnheard
    <2>3. ASSUME NEW pc \in {"creating", "sweeping"}, Step(s, n, pc) PROVE Core'
      <3> DEFINE p == [pass[s][n] EXCEPT !.pc = pc]
      <3>1. p \in Working /\ p.gen = generation
        BY <1>4, <2>0 DEF Working
      <3>2. pass' = [pass EXCEPT ![s][n] = p]
        BY <2>3 DEF Step, ToPass
      <3> HIDE DEF p
      <3> QED
        BY <2>2, <3>1, <3>2
    <2>4. CASE ToStamping(s, n)
      <3>1. PICK pc \in {"sweep", "stamping"}, todo \in SUBSET Groups :
              pass' = [pass EXCEPT ![s][n] = [pass[s][n] EXCEPT !.pc = pc, !.todo = todo]]
        <4>1. ToStamp(pass[s][n]) \in SUBSET Groups /\ Missing(pass[s][n]) \in SUBSET Groups
          BY <1>4 DEF Working, ToStamp, Missing, Seen, Back
        <4> QED
          BY <2>4, <4>1 DEF ToStamping, ToPass
      <3> DEFINE p == [pass[s][n] EXCEPT !.pc = pc, !.todo = todo]
      <3>2. p \in Working /\ p.gen = generation
        BY <1>4, <2>0 DEF Working
      <3>3. pass' = [pass EXCEPT ![s][n] = p]
        BY <3>1
      <3> HIDE DEF p
      <3> QED
        BY <2>2, <3>2, <3>3
    <2> QED
      BY <1>2, <1>6, <2>1, <2>3, <2>4 DEF Checkpoint, ToSweeping
  <1> QED
    BY <1>5, <1>6

(* A write that arrives in time counts nothing, and a late one is of the   *)
(* kind the pass is at.  After it the pass is at the same kind of write or *)
(* before a checkpoint.                                                    *)
LEMMA WritesOn ==
  ASSUME Core, NEW s \in Syncs, NEW n \in Attempts, NEW write \in Writes,
         pass[s][n].pc \in DOMAIN AtWrite, AtWrite[pass[s][n].pc] = write,
         Arrives(s, n, write) \/ UNCHANGED late,
         UNCHANGED <<generation, syncInFlight, sync>>,
         NEW p \in Passes, pass' = [pass EXCEPT ![s][n] = p],
         p.pc \in {"idle", "ended"} \/ p.gen = pass[s][n].gen,
         p.pc \notin {"reading", "listed"},
         p.pc \in DOMAIN AtWrite => AtWrite[p.pc] = write
  PROVE  Core'
  <1>0. /\ late[<<s, n>>] \subseteq {write} /\ late[<<s, n>>] \in SUBSET Writes
        /\ Stays(s, n) => late[<<s, n>>] = {}
        /\ late \in [Ids -> SUBSET Writes]
    BY LateTyped DEF Core, Slot, LateOf, AtWrite, SyncTypes
  <1> DEFINE old == late[<<s, n>>]
  <1>1. PICK k \in {old, old \cup {write}} :
          late' = [late EXCEPT ![<<s, n>>] = k] /\ (Stays(s, n) => k = old)
    <2>1. late' = [late EXCEPT ![<<s, n>>] = IF Stays(s, n) THEN old ELSE old \cup {write}]
          \/ late' = [late EXCEPT ![<<s, n>>] = old]
      BY <1>0 DEF Arrives
    <2> QED
      BY <2>1
  <1>2. pass[s][n].pc \notin {"idle", "ended"} /\ pass[s][n].gen <= generation
    BY DEF AtWrite, Core, Slot, EntryOf
  <1>3. k \in SUBSET Writes /\ k \subseteq {write} /\ (Stays(s, n) => k = {})
    BY <1>0, <1>1
  <1> HIDE DEF old
  <1>4. p.pc \notin {"idle", "ended"} /\ p.gen = generation => k = {}
    BY <1>3 DEF Stays
  <1>5. p.pc \in DOMAIN AtWrite => k \subseteq {AtWrite[p.pc]}
    BY <1>3
  <1>6. \A a, b \in k : a = b
    BY <1>3
  <1>7. p.pc \notin {"idle", "ended"} => p.gen <= generation
    BY <1>2
  <1> QED
    BY <1>1, <1>2, <1>3, <1>4, <1>5, <1>6, <1>7, PassMoves

LEMMA WritesTyped ==
  ASSUME Core, RestTypes, NEW s \in Syncs, NEW n \in Attempts,
         NEW batch \in SUBSET Groups, NEW g \in Groups, NEW fails \in BOOLEAN,
         \/ CreateBatch(s, n, batch) \/ SaveOne(s, n, g, fails)
         \/ StampBatch(s, n, batch) \/ SweepBatch(s, n, batch) \/ BatchFails(s, n, batch)
  PROVE  /\ RestTypes' /\ UNCHANGED <<generation, syncInFlight, sync>>
         /\ pass[s][n] \in Working
         /\ pass[s][n].pc \in {"creating", "single", "stamping", "sweeping"}
  <1>1. spent' \in [Events -> Nat]
    BY SpendTyped DEF CreateBatch, SaveOne, StampBatch, SweepBatch, BatchFails, RestTypes, Events
  <1>2. rows' \in [Groups -> RowStates]
    BY DEF RestTypes, CreateBatch, SaveOne, StampBatch, SweepBatch, BatchFails, Created,
      RowStates, store
  <1>3. UNCHANGED <<account, session, pendingFull, watch, command>>
    BY DEF CreateBatch, SaveOne, StampBatch, SweepBatch, BatchFails, queue, store
  <1>4. pass[s][n].pc \in {"creating", "single", "stamping", "sweeping"}
    BY DEF CreateBatch, SaveOne, StampBatch, SweepBatch, BatchFails, At
  <1>5. UNCHANGED <<generation, syncInFlight, sync>>
    BY DEF CreateBatch, SaveOne, StampBatch, SweepBatch, BatchFails, queue
  <1> QED
    BY <1>1, <1>2, <1>3, <1>4, <1>5, PassLeavesRest, PassKinds DEF Core

LEMMA PassCreates ==
  ASSUME Core, RestTypes, NEW s \in Syncs, NEW n \in Attempts,
         NEW batch \in SUBSET Groups, NEW g \in Groups, NEW fails \in BOOLEAN,
         CreateBatch(s, n, batch) \/ SaveOne(s, n, g, fails) \/ BatchFails(s, n, batch)
  PROVE  RestTypes' /\ Core'
  <1>1. /\ RestTypes' /\ UNCHANGED <<generation, syncInFlight, sync>>
        /\ pass[s][n] \in Working
    BY WritesTyped
  <1>2. /\ pass[s][n].todo \in SUBSET Groups /\ pass[s][n].ones \in SUBSET Groups
        /\ pass[s][n].failed \in SUBSET Groups
    BY <1>1 DEF Working
  <1>3. /\ pass[s][n].pc \in DOMAIN AtWrite /\ AtWrite[pass[s][n].pc] = "create"
        /\ "create" \in Writes /\ AtWrite["single"] = "create"
        /\ {"save", "stamp"} \cap DOMAIN AtWrite = {}
    BY DEF CreateBatch, SaveOne, BatchFails, At, AtWrite, Writes
  <1>4. Arrives(s, n, "create") \/ UNCHANGED late
    BY DEF CreateBatch, SaveOne, BatchFails
  <1>5. ASSUME NEW p \in Working, NEW pc \in {"save", "single", "stamp"},
               p.gen = pass[s][n].gen, pass' = [pass EXCEPT ![s][n] = [p EXCEPT !.pc = pc]]
        PROVE  RestTypes' /\ Core'
    <2> DEFINE q == [p EXCEPT !.pc = pc]
    <2>1. q \in Passes /\ q.pc = pc /\ q.gen = pass[s][n].gen
      BY <1>5 DEF Working, Passes
    <2>2. pass' = [pass EXCEPT ![s][n] = q]
      BY <1>5
    <2> HIDE DEF q
    <2>3. Core'
      BY <1>1, <1>3, <1>4, <2>1, <2>2, WritesOn
    <2> QED
      BY <1>1, <2>3
  <1>6. CASE CreateBatch(s, n, batch)
    <2> DEFINE p == [pass[s][n] EXCEPT !.todo = pass[s][n].todo \ batch]
    <2>1. p \in Working /\ p.gen = pass[s][n].gen
      BY <1>1, <1>2 DEF Working
    <2>2. pass' = [pass EXCEPT ![s][n] = [p EXCEPT !.pc = AfterBatch(p)]]
      BY <1>6 DEF CreateBatch, ToPass
    <2>3. AfterBatch(p) \in {"save", "stamp"}
      BY DEF AfterBatch
    <2> HIDE DEF p
    <2> QED
      BY <1>5, <2>1, <2>2, <2>3
  <1>7. CASE SaveOne(s, n, g, fails)
    <2> DEFINE ones == pass[s][n].ones \ {g}
               failed == IF fails THEN pass[s][n].failed \cup {g} ELSE pass[s][n].failed
               p == [pass[s][n] EXCEPT !.ones = ones, !.failed = failed]
               pc == IF p.ones = {} THEN AfterBatch(p) ELSE "single"
    <2>1. ones \in SUBSET Groups /\ failed \in SUBSET Groups
      BY <1>2
    <2>2. pass' = [pass EXCEPT ![s][n] = [p EXCEPT !.pc = pc]]
      BY <1>7 DEF SaveOne, ToPass
    <2>3. pc \in {"save", "single", "stamp"}
      BY DEF AfterBatch
    <2> HIDE DEF ones, failed, pc
    <2>4. p \in Working /\ p.gen = pass[s][n].gen
      BY <1>1, <2>1 DEF Working
    <2> HIDE DEF p
    <2> QED
      BY <1>5, <2>2, <2>3, <2>4
  <1>8. CASE BatchFails(s, n, batch)
    <2> DEFINE p == [pass[s][n] EXCEPT !.todo = pass[s][n].todo \ batch, !.ones = batch]
    <2>1. p \in Working /\ p.gen = pass[s][n].gen
      BY <1>1, <1>2 DEF Working
    <2>2. pass' = [pass EXCEPT ![s][n] = [p EXCEPT !.pc = "single"]]
      BY <1>1, <1>8 DEF BatchFails, ToPass, Working
    <2> HIDE DEF p
    <2> QED
      BY <1>5, <2>1, <2>2
  <1> QED
    BY <1>6, <1>7, <1>8

LEMMA PassStampsOrSweeps ==
  ASSUME Core, RestTypes, NEW s \in Syncs, NEW n \in Attempts, NEW batch \in SUBSET Groups,
         StampBatch(s, n, batch) \/ SweepBatch(s, n, batch)
  PROVE  RestTypes' /\ Core'
  <1> DEFINE p == [pass[s][n] EXCEPT !.todo = pass[s][n].todo \ batch]
  <1>1. /\ RestTypes' /\ UNCHANGED <<generation, syncInFlight, sync>>
        /\ pass[s][n] \in Working
    <2>1. CASE Groups = {}
      <3>1. batch = {}
        BY <2>1
      <3> QED
        BY <3>1 DEF StampBatch, SweepBatch
    <2>2. CASE Groups # {}
      <3>1. PICK g \in Groups : TRUE
        BY <2>2
      <3>2. FALSE \in BOOLEAN
        OBVIOUS
      <3> QED
        BY <3>1, <3>2, WritesTyped
    <2> QED
      BY <2>1, <2>2
  <1>2. p \in Working /\ p.pc = pass[s][n].pc /\ p.gen = pass[s][n].gen
    BY <1>1 DEF Working
  <1>3. CASE StampBatch(s, n, batch)
    <2>1. /\ pass[s][n].pc \in DOMAIN AtWrite /\ AtWrite[pass[s][n].pc] = "stamp"
          /\ "stamp" \in Writes /\ "sweep" \notin DOMAIN AtWrite
          /\ AtWrite["stamping"] = "stamp" /\ pass[s][n].pc = "stamping"
      BY <1>3 DEF StampBatch, At, AtWrite, Writes
    <2>2. Arrives(s, n, "stamp")
      BY <1>3 DEF StampBatch
    <2>3. ASSUME NEW q \in Working, q.pc \in {"stamping", "sweep"}, q.gen = pass[s][n].gen,
                 pass' = [pass EXCEPT ![s][n] = q]
          PROVE  Core'
      <3>1. q \in Passes
        BY <2>3 DEF Passes
      <3> QED
        BY <1>1, <2>1, <2>2, <2>3, <3>1, WritesOn
    <2>4. \/ pass' = [pass EXCEPT ![s][n] = p]
          \/ pass' = [pass EXCEPT ![s][n] = [p EXCEPT !.pc = "sweep", !.todo = Missing(p)]]
      BY <1>3 DEF StampBatch, ToPass
    <2>5. Missing(p) \in SUBSET Groups
      BY <1>2 DEF Missing, Working
    <2> HIDE DEF p
    <2>6. CASE pass' = [pass EXCEPT ![s][n] = p]
      BY <1>1, <1>2, <2>1, <2>3, <2>6
    <2>7. CASE pass' = [pass EXCEPT ![s][n] = [p EXCEPT !.pc = "sweep", !.todo = Missing(p)]]
      <3> DEFINE q == [p EXCEPT !.pc = "sweep", !.todo = Missing(p)]
      <3>1. q \in Working /\ q.pc = "sweep" /\ q.gen = pass[s][n].gen
        BY <1>2, <2>5 DEF Working
      <3>2. pass' = [pass EXCEPT ![s][n] = q]
        BY <2>7
      <3> HIDE DEF q
      <3> QED
        BY <1>1, <2>3, <3>1, <3>2
    <2> QED
      BY <1>1, <2>4, <2>6, <2>7
  <1>4. CASE SweepBatch(s, n, batch)
    <2>1. /\ pass[s][n].pc \in DOMAIN AtWrite /\ AtWrite[pass[s][n].pc] = "sweep"
          /\ "sweep" \in Writes /\ "sweep" \notin DOMAIN AtWrite
      BY <1>4 DEF SweepBatch, At, AtWrite, Writes
    <2>2. Arrives(s, n, "sweep")
      BY <1>4 DEF SweepBatch
    <2>3. CASE Finish(s, n, p)
      <3>1. PICK v \in Verdicts, grew \in BOOLEAN : EndPass(s, n, v, grew)
        BY <2>3, VerdictTyped DEF Finish
      <3>2. PICK q : q = EndedWith(s, n, v, grew)
        OBVIOUS
      <3>3. q \in Passes /\ q.pc \in {"idle", "ended"} /\ q.pc \notin DOMAIN AtWrite
        BY <3>2, EndedPass
      <3>4. pass' = [pass EXCEPT ![s][n] = q]
        BY <3>1, <3>2 DEF EndPass, ToPass, EndedWith
      <3>5. Core'
        BY <1>1, <2>1, <2>2, <3>3, <3>4, WritesOn
      <3> QED
        BY <1>1, <3>5
    <2>4. CASE ToPass(s, n, [p EXCEPT !.pc = "sweep"])
      <3> DEFINE q == [p EXCEPT !.pc = "sweep"]
      <3>1. q \in Passes /\ q.pc = "sweep" /\ q.gen = pass[s][n].gen
        BY <1>2 DEF Working, Passes
      <3>2. pass' = [pass EXCEPT ![s][n] = q]
        BY <2>4 DEF ToPass
      <3> HIDE DEF q
      <3>3. Core'
        BY <1>1, <2>1, <2>2, <3>1, <3>2, WritesOn
      <3> QED
        BY <1>1, <3>3
    <2> QED
      BY <1>4, <2>3, <2>4 DEF SweepBatch
  <1> QED
    BY <1>3, <1>4

LEMMA BatchFallsBack ==
  ASSUME Core, RestTypes, NEW s \in Syncs, NEW n \in Attempts, NEW batch \in SUBSET Groups,
         BatchFails(s, n, batch)
  PROVE  RestTypes' /\ Core'
  <1>1. PICK g \in Groups : TRUE
    BY DEF BatchFails
  <1>2. FALSE \in BOOLEAN
    OBVIOUS
  <1> QED
    BY <1>1, <1>2, PassCreates

LEMMA CreatesInBatches ==
  ASSUME Core, RestTypes, NEW s \in Syncs, NEW n \in Attempts, NEW batch \in SUBSET Groups,
         CreateBatch(s, n, batch)
  PROVE  RestTypes' /\ Core'
  <1>1. PICK g \in Groups : TRUE
    BY DEF CreateBatch
  <1>2. FALSE \in BOOLEAN
    OBVIOUS
  <1> QED
    BY <1>1, <1>2, PassCreates

LEMMA PassFails ==
  ASSUME Core, RestTypes, NEW s \in Syncs, NEW n \in Attempts, StatementFails(s, n)
  PROVE  RestTypes' /\ Core'
  <1>1. RestTypes'
    BY SpendTyped DEF RestTypes, StatementFails, store, queue, Events
  <1>2. pass[s][n].pc # "idle" /\ EndPass(s, n, "ERROR", FALSE)
    BY DEF StatementFails
  <1>3. UNCHANGED <<generation, syncInFlight, sync, late>>
    BY DEF StatementFails, queue
  <1> QED
    BY <1>1, <1>2, <1>3, PassEnds DEF Verdicts

----------------------------------------------------------------------------
(* One slot moves on.                                                      *)

LEMMA SlotMoves ==
  ASSUME Core, NEW s \in Syncs, UNCHANGED generation,
         syncInFlight' \in Syncs \cup {None},
         \A t \in Syncs \ {s} : syncInFlight = t => syncInFlight' = t,
         NEW new \in Running \cup {NoSync}, sync' = [sync EXCEPT ![s] = new],
         NEW ps \in [Attempts -> Passes], pass' = [pass EXCEPT ![s] = ps],
         late' \in [Ids -> SUBSET Writes],
         \A t \in Syncs \ {s} : \A n \in Attempts : late'[<<t, n>>] = late[<<t, n>>],
         Slot(s)'
  PROVE  Core'
  <1>1. SyncTypes
    BY DEF Core
  <1>2. SyncTypes'
    BY <1>1 DEF SyncTypes, Passes
  <1>3. ASSUME NEW t \in Syncs, t # s PROVE Slot(t)'
    <2>1. sync'[t] = sync[t] /\ pass'[t] = pass[t]
      BY <1>1, <1>3 DEF SyncTypes
    <2> QED
      BY <1>3, <2>1, OtherSlot DEF Core
  <1> QED
    BY <1>2, <1>3 DEF Core

(* A new sync in a free slot, which takes the entry.                       *)
LEMMA SyncStarts ==
  ASSUME Core, NEW s \in Syncs, UNCHANGED generation,
         syncInFlight = None, syncInFlight' = s,
         \A n \in Attempts : pass[s][n] = NoPass,
         NEW kind \in SyncKinds, NEW after \in BOOLEAN, NEW retry \in BOOLEAN,
         sync' = [sync EXCEPT ![s] = NewSync(kind, generation, after, retry)],
         pass' = IF kind = "FULL" THEN pass
                 ELSE [pass EXCEPT ![s][1] = NewPass(NewSync(kind, generation, after, retry))],
         late' = [i \in Ids |-> IF i[1] = s THEN {} ELSE late[i]]
  PROVE  Core'
  <1> DEFINE new == NewSync(kind, generation, after, retry)
             first == NewPass(new)
             ps == IF kind = "FULL" THEN pass[s] ELSE [pass[s] EXCEPT ![1] = first]
  <1>1. SyncTypes /\ generation \in Nat
    BY DEF Core, SyncTypes
  <1>2. /\ new \in Running
        /\ new.pc = IF kind = "FULL" THEN "called" ELSE "attempt"
        /\ new.asked = generation /\ new.gen = generation /\ new.kind = kind /\ new.attempt = 1 /\ new.then = 0
    BY <1>1, FirstAttempt DEF NewSync, Running, Statuses, SyncKinds
  <1>3. first \in Reading /\ first.pc = "reading" /\ first.gen = generation
    BY <1>1 DEF NewPass, NewSync, Reading, SyncKinds
  <1>a. /\ pass' = IF kind = "FULL" THEN pass ELSE [pass EXCEPT ![s][1] = first]
        /\ sync' = [sync EXCEPT ![s] = new]
    OBVIOUS
  <1> HIDE DEF new, first
  <1>4. ps \in [Attempts -> Passes] /\ pass' = [pass EXCEPT ![s] = ps]
    <2>1. pass[s] \in [Attempts -> Passes]
      BY <1>1 DEF SyncTypes, Passes
    <2>2. first \in Passes
      BY <1>3 DEF Passes
    <2>3. CASE kind = "FULL"
      BY <1>1, <1>a, <2>1, <2>3 DEF SyncTypes
    <2>4. CASE kind # "FULL"
      BY <1>a, <2>1, <2>2, <2>4
    <2> QED
      BY <2>3, <2>4
  <1>5. late' \in [Ids -> SUBSET Writes]
    BY <1>1 DEF SyncTypes
  <1>6. \A t \in Syncs \ {s} : \A n \in Attempts : late'[<<t, n>>] = late[<<t, n>>]
    BY DEF Ids
  <1>7. \A n \in Attempts : late'[<<s, n>>] = {}
    BY DEF Ids
  <1>8. sync'[s] = new /\ pass'[s] = ps
    BY <1>1, <1>4, <1>a DEF SyncTypes
  <1>9. /\ kind = "FULL" => \A n \in Attempts : ps[n] = NoPass
        /\ kind # "FULL" => ps[1] = first /\ \A n \in Attempts : n # 1 => ps[n] = NoPass
    BY <1>1, FirstAttempt DEF SyncTypes
  <1> HIDE DEF ps
  <1>10. Slot(s)'
    <2>1. EntryOf(s)'
      BY <1>1, <1>2, <1>3, <1>8, <1>9 DEF EntryOf, NoPass, TookOver
    <2>2. AttemptsOf(s)'
      BY <1>2, <1>7, <1>8, <1>9 DEF AttemptsOf, Untouched, Attempts
    <2>3. \A n \in Attempts : LateOf(s, n)'
      BY <1>7 DEF LateOf
    <2> QED
      BY <2>1, <2>2, <2>3 DEF Slot
  <1>11. \A t \in Syncs \ {s} : syncInFlight = t => syncInFlight' = t
    BY GroupSyncConstants
  <1> QED
    BY <1>2, <1>4, <1>5, <1>6, <1>10, <1>11, <1>a, SlotMoves

(* A sync begins an attempt that nothing has been done in.                 *)
LEMMA AttemptStarts ==
  ASSUME Core, NEW s \in Syncs, NEW n \in Attempts, sync[s].pc # "idle",
         sync[s].kind = "ARRIVAL" => n = 1,
         \A m \in Attempts : m >= n => Untouched(s, m),
         Live(s) \/ ~Current(s),
         Attempt(s, n), UNCHANGED <<generation, syncInFlight, late>>
  PROVE  Core'
  <1> DEFINE new == [sync[s] EXCEPT !.pc = "attempt", !.attempt = n]
             first == NewPass(sync[s])
             ps == [pass[s] EXCEPT ![n] = first]
  <1>1. SyncTypes /\ Slot(s) /\ sync[s] \in Running
    BY RunningSync DEF Core
  <1>2. /\ new \in Running
        /\ new.pc = "attempt" /\ new.attempt = n
        /\ new.gen = sync[s].gen /\ new.kind = sync[s].kind /\ new.asked = sync[s].asked
    BY <1>1 DEF Running
  <1>3. first \in Reading /\ first.pc = "reading" /\ first.gen = sync[s].gen
    BY <1>1 DEF NewPass, Reading, Running
  <1>4. ps \in [Attempts -> Passes] /\ pass' = [pass EXCEPT ![s] = ps]
    <2>1. pass[s] \in [Attempts -> Passes]
      BY <1>1 DEF SyncTypes, Passes
    <2>2. first \in Passes
      BY <1>3 DEF Passes
    <2>3. pass' = [pass EXCEPT ![s][n] = first]
      BY DEF Attempt, ToPass
    <2> QED
      BY <2>1, <2>2, <2>3
  <1>5. sync' = [sync EXCEPT ![s] = new]
    BY DEF Attempt
  <1>6. sync'[s] = new /\ pass'[s] = ps
    BY <1>1, <1>4, <1>5 DEF SyncTypes
  <1>7. ps[n] = first /\ \A m \in Attempts : m # n => ps[m] = pass[s][m]
    BY <1>1 DEF SyncTypes
  <1> HIDE DEF new, first, ps
  <1>8. sync[s].asked <= sync[s].gen /\ sync[s].gen <= generation
    BY <1>1 DEF Slot, EntryOf
  <1>9. EntryOf(s)'
    BY <1>1, <1>2, <1>3, <1>6, <1>7, <1>8 DEF Slot, EntryOf, Live, Current, TookOver
  <1>10. AttemptsOf(s)'
    <2>1. \A m \in Attempts : m > n => Untouched(s, m)'
      BY <1>6, <1>7 DEF Untouched, Attempts
    <2> QED
      BY <1>2, <1>6, <2>1 DEF AttemptsOf
  <1>11. ASSUME NEW m \in Attempts PROVE LateOf(s, m)'
    <2>1. CASE m = n
      <3>1. late[<<s, n>>] = {}
        BY DEF Untouched, Attempts
      <3> QED
        BY <2>1, <3>1 DEF LateOf
    <2>2. CASE m # n
      BY <1>1, <1>6, <1>7, <2>2 DEF Slot, LateOf, Stays
    <2> QED
      BY <2>1, <2>2
  <1>12. Slot(s)'
    BY <1>9, <1>10, <1>11 DEF Slot
  <1>13. late' \in [Ids -> SUBSET Writes] /\ syncInFlight' \in Syncs \cup {None}
    BY <1>1 DEF SyncTypes
  <1> QED
    BY <1>2, <1>4, <1>5, <1>12, <1>13, SlotMoves

(* A sync ends, waits, or has a status left to record.                     *)
LEMMA SyncRests ==
  ASSUME Core, NEW s \in Syncs, sync[s].pc # "idle", UNCHANGED <<generation, late>>,
         syncInFlight' \in {syncInFlight, None},
         syncInFlight' # syncInFlight => syncInFlight = s,
         NEW new \in Running \cup {NoSync}, sync' = [sync EXCEPT ![s] = new],
         new.pc \in {"idle", "recording", "deciding", "backoff"},
         new.pc # "idle" => /\ new.gen = sync[s].gen /\ new.kind = sync[s].kind
                            /\ new.asked = sync[s].asked
                            /\ new.attempt = sync[s].attempt,
         new.pc = "recording" => new.then = 0,
         new.pc = "deciding" => new.kind = "ARRIVAL",
         new.pc = "backoff" => /\ sync[s].pc = "attempt" /\ new.kind = "FULL"
                               /\ new.attempt < MaxAttempts
                               /\ syncInFlight' = syncInFlight,
         NEW ps \in [Attempts -> Passes], pass' = [pass EXCEPT ![s] = ps],
         \A n \in Attempts : ps[n] \in {pass[s][n], NoPass},
         new.pc \in {"recording", "deciding"} /\ new.kind = "ARRIVAL" =>
           \A n \in Attempts : ps[n] = NoPass
  PROVE  Core'
  <1>1. SyncTypes /\ Slot(s)
    BY DEF Core
  <1>2. sync'[s] = new /\ pass'[s] = ps
    BY <1>1 DEF SyncTypes
  <1>3. EntryOf(s)'
    BY <1>1, <1>2 DEF Slot, EntryOf, Live, Current, TookOver, NoPass
  <1>4. AttemptsOf(s)'
    <2>1. \A n \in Attempts : Untouched(s, n) => Untouched(s, n)'
      BY <1>2 DEF Untouched
    <2>2. sync[s].kind = "ARRIVAL" => sync[s].attempt = 1
      BY <1>1 DEF Slot, AttemptsOf
    <2>3. sync[s].pc = "attempt" => \A n \in Attempts : n > sync[s].attempt => Untouched(s, n)
      BY <1>1 DEF Slot, AttemptsOf
    <2>4. CASE new.pc = "backoff"
      BY <1>2, <2>1, <2>3, <2>4 DEF AttemptsOf
    <2>5. CASE new.pc \in {"recording", "deciding"}
      <3>1. /\ new.kind = "ARRIVAL" => new.attempt = 1 /\ \A n \in Attempts : ps[n] = NoPass
            /\ new.pc = "recording" => new.then = 0
            /\ new.pc = "deciding" => new.kind = "ARRIVAL"
        BY <2>2, <2>5
      <3> QED
        BY <1>2, <2>5, <3>1 DEF AttemptsOf
    <2>6. CASE new.pc = "idle"
      BY <1>2, <2>6 DEF AttemptsOf
    <2> QED
      BY <2>4, <2>5, <2>6
  <1>5. ASSUME NEW n \in Attempts PROVE LateOf(s, n)'
    <2>1. LateOf(s, n) /\ pass'[s][n] \in {pass[s][n], NoPass}
      BY <1>1, <1>2 DEF Slot
    <2>2. CASE pass'[s][n] = pass[s][n]
      BY <2>1, <2>2 DEF LateOf, Stays
    <2>3. CASE pass'[s][n] = NoPass
      <3>1. NoPass.pc = "idle" /\ "idle" \notin DOMAIN AtWrite
        BY DEF NoPass, AtWrite
      <3> QED
        BY <2>1, <2>3, <3>1 DEF LateOf
    <2> QED
      BY <2>1, <2>2, <2>3
  <1>6. Slot(s)'
    BY <1>3, <1>4, <1>5 DEF Slot
  <1>7. late' \in [Ids -> SUBSET Writes] /\ syncInFlight' \in Syncs \cup {None}
    BY <1>1 DEF SyncTypes
  <1> QED
    BY <1>6, <1>7, SlotMoves

----------------------------------------------------------------------------
(* Starting.                                                               *)

LEMMA StartKeeps ==
  ASSUME Core, NEW s \in Syncs, UNCHANGED generation, syncInFlight = None,
         NEW kind \in SyncKinds, NEW after \in BOOLEAN, NEW retry \in BOOLEAN,
         Start(s, NewSync(kind, generation, after, retry))
  PROVE  Core'
  <1>1. \A n \in Attempts : pass[s][n] = NoPass
    BY PassKinds DEF Core, Start, Free
  <1>2. NewSync(kind, generation, after, retry).kind = kind
    BY DEF NewSync
  <1> QED
    BY <1>1, <1>2, SyncStarts DEF Start

LEMMA QueueTyped ==
  ASSUME SyncTypes, syncInFlight # None, NEW after \in BOOLEAN, NEW pending \in Pendings
  PROVE  Queue(after, pending) \in Pendings
  <1>1. syncInFlight \in Syncs /\ generation \in Nat
    BY DEF SyncTypes
  <1>2. CASE pending = NoPending
    BY <1>1, <1>2 DEF Queue, Pendings
  <1>3. CASE pending # NoPending
    BY <1>3 DEF Queue, Pendings
  <1> QED
    BY <1>2, <1>3

LEMMA CallFullKeeps ==
  ASSUME Core, NEW after \in BOOLEAN, NEW pending \in Pendings, CallFull(after, pending),
         UNCHANGED generation
  PROVE  Core' /\ pendingFull' \in Pendings
  <1>1. CASE UNCHANGED <<syncInFlight, sync, pass, late>>
    <2>1. Core'
      BY <1>1, CoreUnchanged
    <2>2. pendingFull' \in Pendings
      BY QueueTyped DEF CallFull, Core
    <2> QED
      BY <2>1, <2>2
  <1>2. CASE syncInFlight = None
    <2>1. PICK s \in Syncs : Start(s, NewSync("FULL", generation, after, FALSE))
      BY <1>2 DEF CallFull
    <2>2. Core'
      BY <1>2, <2>1, StartKeeps DEF SyncKinds
    <2>3. pendingFull' = pending
      BY <1>2 DEF CallFull
    <2> QED
      BY <2>2, <2>3
  <1> QED
    BY <1>1, <1>2 DEF CallFull

LEMMA Requested ==
  ASSUME Core, RestTypes, Resync \/ PendingRuns \/ FollowUp
  PROVE  RestTypes' /\ Core'
  <1>1. pendingFull.on = "its release" => pendingFull.after \in BOOLEAN
    <2>1. pendingFull \in Pendings
      BY DEF RestTypes
    <2>2. CASE pendingFull = NoPending
      BY <2>2 DEF NoPending
    <2>3. CASE pendingFull # NoPending
      BY <2>1, <2>3 DEF Pendings
    <2> QED
      BY <2>2, <2>3
  <1>2. NoPending \in Pendings /\ generation' = generation
    BY DEF Pendings, Resync, PendingRuns, FollowUp
  <1>3. Core' /\ pendingFull' \in Pendings
    <2>1. CASE Resync
      BY <2>1, <1>2, CallFullKeeps DEF Resync, RestTypes
    <2>2. CASE PendingRuns /\ pendingFull.gen = generation
      <3>1. pendingFull.after \in BOOLEAN
        BY <1>1, <2>2 DEF PendingRuns
      <3>2. CallFull(pendingFull.after, NoPending)
        BY <2>2 DEF PendingRuns
      <3> QED
        BY <1>2, <3>1, <3>2, CallFullKeeps
    <2>3. CASE PendingRuns /\ pendingFull.gen # generation
      BY <1>2, <2>3, CoreUnchanged DEF PendingRuns
    <2>4. CASE FollowUp /\ watch.gen = generation /\ session = "CONNECTED"
      BY <1>2, <2>4, CallFullKeeps DEF FollowUp, RestTypes
    <2>5. CASE FollowUp /\ ~(watch.gen = generation /\ session = "CONNECTED")
      BY <1>2, <2>5, CoreUnchanged DEF FollowUp, queue, RestTypes
    <2> QED
      BY <2>1, <2>2, <2>3, <2>4, <2>5
  <1>4. spent' \in [Events -> Nat]
    BY SpendTyped DEF Resync, PendingRuns, FollowUp, RestTypes, Events
  <1>5. watch' \in Watches
    BY DEF Resync, PendingRuns, FollowUp, RestTypes, Watches
  <1>6. UNCHANGED <<rows, account, session, command>>
    BY DEF Resync, PendingRuns, FollowUp, store
  <1> QED
    BY <1>3, <1>4, <1>5, <1>6 DEF RestTypes

LEMMA ConnectKeeps ==
  ASSUME Core, RestTypes, UNCHANGED generation, Connected
  PROVE  /\ Core' /\ pendingFull' \in Pendings
         /\ watch' \in Watches /\ session' = "CONNECTED"
  <1>1. Core' /\ pendingFull' \in Pendings
    BY CallFullKeeps DEF Connected, RestTypes
  <1>2. watch' \in Watches
    BY GroupSyncConstants DEF Connected, RestTypes, Watches, Core, SyncTypes
  <1> QED
    BY <1>1, <1>2 DEF Connected

LEMMA ConnectSteps ==
  ASSUME Core, RestTypes, AutoConnect \/ ReconnectSucceeds
  PROVE  RestTypes' /\ Core'
  <1>1. Connected /\ generation' = generation
    BY DEF AutoConnect, ReconnectSucceeds
  <1>2. /\ Core' /\ pendingFull' \in Pendings
        /\ watch' \in Watches /\ session' = "CONNECTED"
    BY <1>1, ConnectKeeps
  <1>3. /\ rows' \in [Groups -> RowStates] /\ spent' \in [Events -> Nat]
        /\ account' \in [status: Statuses, linked: BOOLEAN]
        /\ command' \in Commands \cup {NoCommand}
    BY DEF AutoConnect, ReconnectSucceeds, RestTypes, store
  <1> QED
    BY <1>2, <1>3 DEF RestTypes

LEMMA OtherStarts ==
  ASSUME Core, RestTypes, NEW s \in Syncs, RecoveryStarts(s) \/ WatchPass(s)
  PROVE  RestTypes' /\ Core'
  <1>1. generation' = generation /\ syncInFlight = None
    BY DEF RecoveryStarts, WatchPass
  <1>2. RestTypes'
    <2>1. spent' \in [Events -> Nat] /\ watch' \in Watches
      BY SpendTyped DEF RecoveryStarts, WatchPass, RestTypes, Events, Watches
    <2>2. UNCHANGED <<rows, account, session, pendingFull, command>>
      BY DEF RecoveryStarts, WatchPass, store
    <2> QED
      BY <2>1, <2>2 DEF RestTypes
  <1>3. CASE RecoveryStarts(s)
    <2> DEFINE retry == account.status \in {"FAILED", "PARTIAL"}
    <2>1. Start(s, NewSync("RECOVERY", generation, FALSE, retry))
      BY <1>3 DEF RecoveryStarts
    <2>2. retry \in BOOLEAN
      OBVIOUS
    <2> HIDE DEF retry
    <2> QED
      BY <1>1, <1>2, <2>1, <2>2, StartKeeps DEF SyncKinds
  <1>4. CASE WatchPass(s)
    <2>1. Start(s, NewSync("ARRIVAL", generation, FALSE, FALSE))
      BY <1>4 DEF WatchPass
    <2> QED
      BY <1>1, <1>2, <2>1, StartKeeps DEF SyncKinds
  <1> QED
    BY <1>3, <1>4

----------------------------------------------------------------------------
(* A sync between its passes.                                              *)

LEMMA SameEntry ==
  ASSUME SyncTypes, NEW s \in Syncs, Release(s), RestTypes
  PROVE  /\ syncInFlight' \in {syncInFlight, None}
         /\ syncInFlight' # syncInFlight => syncInFlight = s
         /\ pendingFull' \in Pendings
  <1>1. pendingFull \in Pendings
    BY DEF RestTypes
  <1>2. pendingFull.on = "a sync" => [pendingFull EXCEPT !.on = "its release"] \in Pendings
    <2>1. CASE pendingFull = NoPending
      BY <2>1 DEF NoPending
    <2>2. CASE pendingFull # NoPending
      BY <1>1, <2>2 DEF Pendings
    <2> QED
      BY <2>1, <2>2
  <1> QED
    BY <1>1, <1>2 DEF Release

(* Over, for whatever slot of passes is left.                              *)
LEMMA SyncOver ==
  ASSUME Core, RestTypes, NEW s \in Syncs, sync[s].pc # "idle", Over(s),
         UNCHANGED <<generation, late>>,
         NEW ps \in [Attempts -> Passes], pass' = [pass EXCEPT ![s] = ps],
         \A n \in Attempts : ps[n] \in {pass[s][n], NoPass}
  PROVE  Core' /\ pendingFull' \in Pendings
  <1>1. /\ syncInFlight' \in {syncInFlight, None}
        /\ syncInFlight' # syncInFlight => syncInFlight = s
        /\ pendingFull' \in Pendings
    BY SameEntry DEF Over, Core
  <1>2. NoSync.pc = "idle" /\ sync' = [sync EXCEPT ![s] = NoSync]
    BY DEF NoSync, Over
  <1>3. Core'
    BY <1>1, <1>2, SyncRests
  <1> QED
    BY <1>1, <1>3

(* Record, with the entry kept or released.                                *)
LEMMA SyncRecords ==
  ASSUME Core, NEW s \in Syncs, sync[s].pc # "idle",
         NEW status \in Statuses, Record(s, status),
         UNCHANGED <<generation, late>>,
         syncInFlight' \in {syncInFlight, None},
         syncInFlight' # syncInFlight => syncInFlight = s,
         NEW ps \in [Attempts -> Passes], pass' = [pass EXCEPT ![s] = ps],
         \A n \in Attempts : ps[n] \in {pass[s][n], NoPass},
         sync[s].kind = "ARRIVAL" => \A n \in Attempts : ps[n] = NoPass
  PROVE  Core'
  <1> DEFINE new == [sync[s] EXCEPT !.pc = "recording", !.write = status, !.then = 0]
  <1>1. sync[s] \in Running
    BY RunningSync DEF Core
  <1>2. /\ new \in Running /\ new.pc = "recording" /\ new.then = 0
        /\ new.gen = sync[s].gen /\ new.kind = sync[s].kind
        /\ new.asked = sync[s].asked /\ new.attempt = sync[s].attempt
    BY <1>1 DEF Running
  <1>3. sync' = [sync EXCEPT ![s] = new]
    BY DEF Record
  <1> HIDE DEF new
  <1> QED
    BY <1>2, <1>3, SyncRests

(* An attempt to come, the last status, or the end.                        *)
LEMMA SyncTriesAgain ==
  ASSUME Core, RestTypes, NEW s \in Syncs,
         sync[s].pc = "attempt", sync[s].kind = "FULL", TriesAgain(s),
         UNCHANGED <<generation, late>>,
         NEW ps \in [Attempts -> Passes], pass' = [pass EXCEPT ![s] = ps],
         \A n \in Attempts : ps[n] \in {pass[s][n], NoPass}
  PROVE  Core' /\ pendingFull' \in Pendings
  <1>1. sync[s] \in Running /\ pendingFull \in Pendings
    BY RunningSync DEF Core, RestTypes
  <1>2. CASE sync[s].attempt < MaxAttempts
    <2> DEFINE new == [sync[s] EXCEPT !.pc = "backoff"]
    <2>1. /\ new \in Running /\ new.pc = "backoff" /\ new.gen = sync[s].gen
          /\ new.asked = sync[s].asked
          /\ new.kind = sync[s].kind /\ new.attempt = sync[s].attempt
      BY <1>1 DEF Running
    <2>2. sync' = [sync EXCEPT ![s] = new] /\ UNCHANGED queue
      BY <1>2 DEF TriesAgain
    <2>3. UNCHANGED <<syncInFlight, pendingFull>>
      BY <2>2 DEF queue
    <2> HIDE DEF new
    <2>4. Core'
      BY <1>2, <2>1, <2>2, <2>3, SyncRests
    <2> QED
      BY <1>1, <2>3, <2>4
  <1>3. CASE ~(sync[s].attempt < MaxAttempts) /\ Current(s)
    <2>1. Record(s, "FAILED") /\ UNCHANGED <<syncInFlight, pendingFull>>
      BY <1>3 DEF TriesAgain, queue
    <2>2. Core'
      BY <2>1, SyncRecords DEF Statuses
    <2> QED
      BY <1>1, <2>1, <2>2
  <1>4. CASE ~(sync[s].attempt < MaxAttempts) /\ ~Current(s)
    BY <1>4, SyncOver DEF TriesAgain
  <1> QED
    BY <1>2, <1>3, <1>4

LEMMA SamePasses ==
  ASSUME Core, NEW s \in Syncs, pass' = pass
  PROVE  pass[s] \in [Attempts -> Passes] /\ pass' = [pass EXCEPT ![s] = pass[s]]
  BY DEF Core, SyncTypes, Passes

Without(s, n) == [pass[s] EXCEPT ![n] = NoPass]

LEMMA OnePassLess ==
  ASSUME Core, NEW s \in Syncs, NEW n \in Attempts, NEW v \in Verdicts,
         Concludes(s, n, v), NEW ps, ps = Without(s, n)
  PROVE  /\ ps \in [Attempts -> Passes] /\ pass' = [pass EXCEPT ![s] = ps]
         /\ \A m \in Attempts : ps[m] \in {pass[s][m], NoPass}
         /\ ps[n] = NoPass
         /\ sync[s].pc = "attempt" /\ sync[s].attempt = n
  <1>1. pass[s] \in [Attempts -> Passes] /\ NoPass \in Passes
    BY DEF Core, SyncTypes, Passes
  <1> QED
    BY <1>1 DEF Concludes, ToPass, Without

LEMMA FullSyncEnds ==
  ASSUME Core, RestTypes, NEW s \in Syncs, NEW n \in Attempts, NEW v \in Verdicts,
         FullEnds(s, n, v)
  PROVE  RestTypes' /\ Core'
  <1>1. PICK ps : ps = Without(s, n)
    OBVIOUS
  <1>2. /\ ps \in [Attempts -> Passes] /\ pass' = [pass EXCEPT ![s] = ps]
        /\ \A m \in Attempts : ps[m] \in {pass[s][m], NoPass}
        /\ sync[s].pc = "attempt" /\ sync[s].kind = "FULL"
    <2>1. Concludes(s, n, v) /\ sync[s].kind = "FULL"
      BY DEF FullEnds
    <2> QED
      BY <1>1, <2>1, OnePassLess
  <1>3. UNCHANGED <<generation, late>>
    BY DEF FullEnds
  <1>4. pendingFull \in Pendings
    BY DEF RestTypes
  <1>5. Core' /\ pendingFull' \in Pendings
    <2>1. CASE v = "CANCELLED" \/ ~Current(s)
      <3>1. Over(s)
        BY <2>1 DEF FullEnds
      <3> QED
        BY <1>2, <1>3, <3>1, SyncOver
    <2>2. CASE ~(v = "CANCELLED" \/ ~Current(s)) /\ v \in {"OK", "PARTIAL", "LOADING", "UNAVAILABLE"}
      <3>1. PICK status \in Statuses : Record(s, status) /\ UNCHANGED queue
        BY <2>2 DEF FullEnds, Statuses
      <3>2. UNCHANGED <<syncInFlight, pendingFull>>
        BY <3>1 DEF queue
      <3>3. sync[s].kind # "ARRIVAL"
        BY <1>2
      <3>4. Core'
        BY <1>2, <1>3, <3>1, <3>2, <3>3, SyncRecords
      <3> QED
        BY <1>4, <3>2, <3>4
    <2>3. CASE ~(v = "CANCELLED" \/ ~Current(s)) /\ v \in {"EMPTY", "ERROR"}
      <3>1. TriesAgain(s)
        BY <2>3 DEF FullEnds
      <3> QED
        BY <1>2, <1>3, <3>1, SyncTriesAgain
    <2> QED
      BY <2>1, <2>2, <2>3 DEF Verdicts
  <1>6. watch' \in Watches
    BY DEF FullEnds, RestTypes, Watches
  <1>7. UNCHANGED <<rows, account, session, command, spent>>
    BY DEF FullEnds, store
  <1> QED
    BY <1>5, <1>6, <1>7 DEF RestTypes

LEMMA FullSyncGoesOn ==
  ASSUME Core, RestTypes, NEW s \in Syncs, FullTimesOut(s) \/ FullResumes(s)
  PROVE  RestTypes' /\ Core'
  <1>1. UNCHANGED <<generation, late, rows, account, session, watch, command, spent>>
    BY DEF FullTimesOut, FullResumes, store
  <1>2. pendingFull \in Pendings /\ Slot(s) /\ sync[s].pc # "idle" /\ sync[s] \in Running
    BY RunningSync DEF RestTypes, Core, FullTimesOut, FullResumes
  <1>3. SUFFICES Core' /\ pendingFull' \in Pendings
    BY <1>1 DEF RestTypes
  <1>4. CASE pass' = pass /\ Over(s)
    BY <1>1, <1>2, <1>4, SamePasses, SyncOver
  <1>5. CASE FullTimesOut(s)
    <2>1. pass' = pass /\ sync[s].pc = "attempt" /\ sync[s].kind = "FULL"
      BY <1>5 DEF FullTimesOut
    <2>2. Over(s) \/ TriesAgain(s)
      BY <1>5 DEF FullTimesOut
    <2> QED
      BY <1>1, <1>4, <2>1, <2>2, SamePasses, SyncTriesAgain
  <1>6. CASE FullResumes(s) /\ Current(s)
    <2>1. Attempt(s, sync[s].attempt + 1) /\ sync[s].pc = "backoff"
      BY <1>6 DEF FullResumes
    <2>2. UNCHANGED <<syncInFlight, pendingFull>>
      BY <1>6 DEF FullResumes, queue
    <2>3. sync[s].attempt < MaxAttempts /\ sync[s].kind = "FULL"
      BY <1>2, <2>1 DEF Slot, AttemptsOf
    <2>4. PICK n \in Attempts : n = sync[s].attempt + 1
      BY <1>2, <2>3, GroupSyncConstants DEF Running, Attempts
    <2>5. \A m \in Attempts : m >= n => Untouched(s, m)
      <3>1. sync[s].attempt \in Nat
        BY <1>2 DEF Running, Attempts
      <3>2. \A m \in Attempts : m >= n => m > sync[s].attempt
        BY <2>4, <3>1 DEF Attempts
      <3> QED
        BY <1>2, <2>1, <3>2 DEF Slot, AttemptsOf
    <2>6. Live(s)
      BY <2>1 DEF Live
    <2>7. Attempt(s, n) /\ sync[s].kind # "ARRIVAL"
      BY <2>1, <2>3, <2>4
    <2>8. Core'
      BY <1>1, <1>2, <2>2, <2>5, <2>6, <2>7, AttemptStarts
    <2> QED
      BY <1>2, <2>2, <2>8
  <1>7. CASE FullResumes(s) /\ ~Current(s)
    BY <1>4, <1>7 DEF FullResumes
  <1> QED
    BY <1>5, <1>6, <1>7

LEMMA RecoveryPassEnds ==
  ASSUME Core, RestTypes, NEW s \in Syncs, NEW v \in Verdicts, RecoveryEnds(s, v)
  PROVE  RestTypes' /\ Core'
  <1>1. PICK ps : ps = Without(s, 1)
    OBVIOUS
  <1>2. /\ ps \in [Attempts -> Passes] /\ pass' = [pass EXCEPT ![s] = ps]
        /\ \A m \in Attempts : ps[m] \in {pass[s][m], NoPass}
        /\ sync[s].pc # "idle" /\ sync[s].kind # "ARRIVAL"
    <2>1. Concludes(s, 1, v) /\ sync[s].kind = "RECOVERY"
      BY DEF RecoveryEnds
    <2> QED
      BY <1>1, <2>1, FirstAttempt, OnePassLess
  <1>3. UNCHANGED <<generation, late, rows, account, session, watch, command, spent>>
    BY DEF RecoveryEnds, store
  <1>4. SUFFICES Core' /\ pendingFull' \in Pendings
    BY <1>3 DEF RestTypes
  <1>5. CASE Over(s)
    BY <1>2, <1>3, <1>5, SyncOver
  <1>6. ASSUME NEW status \in Statuses, Record(s, status), UNCHANGED queue
        PROVE  Core' /\ pendingFull' \in Pendings
    <2>1. UNCHANGED <<syncInFlight, pendingFull>>
      BY <1>6 DEF queue
    <2>2. Core'
      BY <1>2, <1>3, <1>6, <2>1, SyncRecords
    <2> QED
      BY <2>1, <2>2 DEF RestTypes
  <1>7. Over(s) \/ \E status \in Statuses : Record(s, status) /\ UNCHANGED queue
    BY DEF RecoveryEnds, Statuses
  <1> QED
    BY <1>5, <1>6, <1>7

(* Until it reads it a full sync goes by the generation it registered for, *)
(* and has left nothing behind.                                            *)
LEMMA SyncReadsGeneration ==
  ASSUME Core, RestTypes, NEW s \in Syncs, ReadsGeneration(s)
  PROVE  RestTypes' /\ Core'
  <1> DEFINE new == [sync[s] EXCEPT !.pc = "begin", !.gen = generation]
  <1>1. UNCHANGED <<generation, late, pass, rows, account, session, watch, command, spent,
                    syncInFlight, pendingFull>>
    BY DEF ReadsGeneration, store, queue
  <1>2. SUFFICES Core'
    BY <1>1 DEF RestTypes
  <1>3. sync[s].pc = "called" /\ sync[s] \in Running /\ Slot(s) /\ SyncTypes
    BY RunningSync DEF ReadsGeneration, Core
  <1>4. /\ new \in Running /\ new.pc = "begin" /\ new.gen = generation
        /\ new.asked = sync[s].asked /\ new.kind = sync[s].kind
        /\ new.attempt = sync[s].attempt
    BY <1>3 DEF Running, SyncTypes
  <1>5. sync' = [sync EXCEPT ![s] = new]
    BY DEF ReadsGeneration
  <1> HIDE DEF new
  <1>6. sync'[s] = new
    BY <1>3, <1>5 DEF SyncTypes
  <1>7. /\ sync[s].asked \in Nat /\ sync[s].gen \in Nat /\ generation \in Nat
        /\ sync[s].asked <= sync[s].gen /\ sync[s].gen <= generation
    BY <1>3 DEF Running, SyncTypes, Slot, EntryOf
  <1>8. EntryOf(s)'
    <2>1. sync[s].asked = generation => syncInFlight = s
      BY <1>3, <1>7 DEF Slot, EntryOf, Live, Current, TookOver
    <2>2. sync[s].asked <= generation /\ generation <= generation
      BY <1>7
    <2> QED
      BY <1>1, <1>3, <1>4, <1>6, <2>1, <2>2 DEF Slot, EntryOf, Live, Current, TookOver
  <1>9. AttemptsOf(s)'
    BY <1>1, <1>3, <1>4, <1>6 DEF Slot, AttemptsOf, Untouched
  <1>10. \A n \in Attempts : LateOf(s, n)'
    BY <1>1, <1>3 DEF Slot, LateOf, Stays
  <1>11. Slot(s)'
    BY <1>8, <1>9, <1>10 DEF Slot
  <1>12. /\ late' \in [Ids -> SUBSET Writes] /\ syncInFlight' \in Syncs \cup {None}
         /\ late' = late /\ syncInFlight' = syncInFlight /\ generation' = generation
    BY <1>1, <1>3 DEF SyncTypes
  <1>13. pass[s] \in [Attempts -> Passes] /\ pass' = [pass EXCEPT ![s] = pass[s]]
    BY <1>1, SamePasses
  <1> QED
    BY <1>4, <1>5, <1>11, <1>12, <1>13, SlotMoves

LEMMA SyncBegins ==
  ASSUME Core, RestTypes, NEW s \in Syncs, RunBegins(s)
  PROVE  RestTypes' /\ Core'
  <1>1. UNCHANGED <<generation, late, rows, account, session, watch, command, spent,
                    syncInFlight, pendingFull>>
    BY DEF RunBegins, store, queue
  <1>2. SUFFICES Core'
    BY <1>1 DEF RestTypes
  <1>3. sync[s].pc = "begin" /\ sync[s] \in Running /\ Slot(s) /\ SyncTypes
    BY RunningSync DEF RunBegins, Core
  <1>4. CASE ~Current(s)
    <2>1. Attempt(s, 1)
      BY <1>4 DEF RunBegins
    <2>2. \A m \in Attempts : Untouched(s, m)
      BY <1>3 DEF Slot, AttemptsOf
    <2> QED
      BY <1>1, <1>3, <1>4, <2>1, <2>2, FirstAttempt, AttemptStarts
  <1>5. CASE Current(s)
    <2> DEFINE new == [sync[s] EXCEPT !.pc = "recording", !.then = 1]
    <2>1. /\ new \in Running /\ new.pc = "recording" /\ new.then = 1
          /\ new.gen = sync[s].gen /\ new.kind = sync[s].kind
          /\ new.asked = sync[s].asked /\ new.attempt = sync[s].attempt
      BY <1>3, FirstAttempt DEF Running
    <2>2. sync' = [sync EXCEPT ![s] = new] /\ pass' = pass
      BY <1>5 DEF RunBegins
    <2> HIDE DEF new
    <2>3. sync'[s] = new
      BY <1>3, <2>2 DEF SyncTypes
    <2>4. EntryOf(s)'
      BY <1>1, <1>3, <2>1, <2>2, <2>3 DEF Slot, EntryOf, Live, Current, TookOver
    <2>5. AttemptsOf(s)'
      BY <1>1, <1>3, <2>1, <2>2, <2>3 DEF Slot, AttemptsOf, Untouched
    <2>6. \A n \in Attempts : LateOf(s, n)'
      BY <1>1, <1>3, <2>2 DEF Slot, LateOf, Stays
    <2>7. Slot(s)'
      BY <2>4, <2>5, <2>6 DEF Slot
    <2>8. /\ late' \in [Ids -> SUBSET Writes] /\ syncInFlight' \in Syncs \cup {None}
          /\ late' = late /\ syncInFlight' = syncInFlight /\ generation' = generation
      BY <1>1, <1>3 DEF SyncTypes
    <2>9. pass[s] \in [Attempts -> Passes] /\ pass' = [pass EXCEPT ![s] = pass[s]]
      BY <2>2, SamePasses
    <2> QED
      BY <2>1, <2>2, <2>7, <2>8, <2>9, SlotMoves
  <1> QED
    BY <1>4, <1>5

LEMMA SyncRecorded ==
  ASSUME Core, RestTypes, NEW s \in Syncs, StatusRecorded(s)
  PROVE  RestTypes' /\ Core'
  <1>1. UNCHANGED <<generation, late, rows, session, watch, command, spent>>
    BY DEF StatusRecorded
  <1>2. sync[s].pc = "recording" /\ sync[s] \in Running /\ Slot(s) /\ SyncTypes
    BY RunningSync DEF StatusRecorded, Core
  <1>3. account' \in [status: Statuses, linked: BOOLEAN]
    BY <1>2 DEF StatusRecorded, RestTypes, Running
  <1>4. SUFFICES Core' /\ pendingFull' \in Pendings
    BY <1>1, <1>3 DEF RestTypes
  <1>5. pendingFull \in Pendings
    BY DEF RestTypes
  <1>6. CASE sync[s].then # 0
    <2>1. sync[s].then = 1 /\ \A n \in Attempts : Untouched(s, n)
      BY <1>2, <1>6 DEF Slot, AttemptsOf
    <2>2. Attempt(s, 1) /\ UNCHANGED <<syncInFlight, pendingFull>>
      BY <1>6, <2>1 DEF StatusRecorded, queue
    <2>3. Live(s)
      BY <1>2, <1>6 DEF Live
    <2>4. Core'
      BY <1>1, <1>2, <2>1, <2>2, <2>3, FirstAttempt, AttemptStarts
    <2> QED
      BY <1>5, <2>2, <2>4
  <1>7. CASE sync[s].then = 0 /\ sync[s].kind = "ARRIVAL"
    <2> DEFINE new == [sync[s] EXCEPT !.pc = "deciding"]
    <2>1. /\ new \in Running /\ new.pc = "deciding" /\ new.kind = "ARRIVAL"
          /\ new.gen = sync[s].gen /\ new.kind = sync[s].kind
          /\ new.asked = sync[s].asked /\ new.attempt = sync[s].attempt
      BY <1>2, <1>7 DEF Running
    <2>2. /\ sync' = [sync EXCEPT ![s] = new] /\ pass' = pass
          /\ UNCHANGED <<syncInFlight, pendingFull>>
      BY <1>7 DEF StatusRecorded, queue
    <2>3. pass[s] \in [Attempts -> Passes] /\ pass' = [pass EXCEPT ![s] = pass[s]]
      BY <2>2, SamePasses
    <2>4. \A n \in Attempts : pass[s][n] = NoPass
      BY <1>2, <1>7 DEF Slot, AttemptsOf
    <2> HIDE DEF new
    <2>5. Core'
      BY <1>1, <1>2, <2>1, <2>2, <2>3, <2>4, SyncRests
    <2> QED
      BY <1>5, <2>2, <2>5
  <1>8. CASE sync[s].then = 0 /\ sync[s].kind # "ARRIVAL"
    <2>1. Over(s) /\ pass' = pass
      BY <1>8 DEF StatusRecorded
    <2> QED
      BY <1>1, <1>2, <2>1, SamePasses, SyncOver
  <1> QED
    BY <1>6, <1>7, <1>8

(* An arrival pass was the only attempt of its sync.                       *)
LEMMA ArrivalPassEnds ==
  ASSUME Core, RestTypes, NEW s \in Syncs, NEW v \in Verdicts, NEW longer \in BOOLEAN,
         ArrivalEnds(s, v, longer)
  PROVE  RestTypes' /\ Core'
  <1>1. UNCHANGED <<generation, late, rows, account, session, command, spent>>
    BY DEF ArrivalEnds, store
  <1>2. PICK ps : ps = Without(s, 1)
    OBVIOUS
  <1>3. /\ ps \in [Attempts -> Passes] /\ pass' = [pass EXCEPT ![s] = ps]
        /\ \A m \in Attempts : ps[m] \in {pass[s][m], NoPass}
        /\ ps[1] = NoPass
        /\ sync[s].pc = "attempt" /\ sync[s].attempt = 1
    <2>1. Concludes(s, 1, v)
      BY DEF ArrivalEnds
    <2> QED
      BY <1>2, <2>1, FirstAttempt, OnePassLess
  <1>4. Slot(s) /\ SyncTypes /\ sync[s] \in Running /\ sync[s].kind = "ARRIVAL"
    BY <1>3, RunningSync DEF Core, ArrivalEnds
  <1>5. \A m \in Attempts : ps[m] = NoPass
    <2>1. ASSUME NEW m \in Attempts, m # 1 PROVE ps[m] = NoPass
      <3>1. m > 1
        BY <2>1 DEF Attempts
      <3> QED
        BY <1>3, <1>4, <3>1 DEF Slot, AttemptsOf, Untouched
    <2> QED
      BY <1>3, <2>1
  <1>6. /\ syncInFlight' \in {syncInFlight, None}
        /\ syncInFlight' # syncInFlight => syncInFlight = s
        /\ pendingFull' \in Pendings
    BY <1>4, SameEntry DEF ArrivalEnds
  <1>7. watch' \in Watches
    <2> DEFINE grew == v \in {"OK", "PARTIAL"} /\ (pass[s][1].grew \/ longer)
               marked == watch.marked \/ grew \/ v = "LOADING"
               still == IF v \in {"OK", "PARTIAL"} /\ ~grew THEN watch.still + 1 ELSE 0
    <2>1. watch \in Watches
      BY DEF RestTypes
    <2>2. watch' = watch \/ watch' = [watch EXCEPT !.marked = marked, !.still = still]
      BY DEF ArrivalEnds
    <2>3. marked \in BOOLEAN
      BY Zenon
    <2>4. still \in Nat
      BY <2>1 DEF Watches
    <2> HIDE DEF marked, still
    <2> QED
      BY <2>1, <2>2, <2>3, <2>4 DEF Watches
  <1>8. SUFFICES Core'
    BY <1>1, <1>6, <1>7 DEF RestTypes
  <1>9. CASE sync' = [sync EXCEPT ![s] = NoSync]
    <2>1. NoSync.pc = "idle"
      BY DEF NoSync
    <2> QED
      BY <1>1, <1>3, <1>6, <1>9, <2>1, SyncRests
  <1>10. CASE Record(s, "RUNNING")
    <2>1. PICK status \in Statuses : Record(s, status)
      BY <1>10 DEF Statuses
    <2>2. sync[s].pc # "idle" /\ (sync[s].kind = "ARRIVAL" => \A m \in Attempts : ps[m] = NoPass)
      BY <1>3, <1>5
    <2> QED
      BY <1>1, <1>3, <1>6, <2>1, <2>2, SyncRecords
  <1>11. CASE sync' = [sync EXCEPT ![s] = [sync[s] EXCEPT !.pc = "deciding"]]
    <2> DEFINE new == [sync[s] EXCEPT !.pc = "deciding"]
    <2>1. /\ new \in Running /\ new.pc = "deciding" /\ new.kind = "ARRIVAL"
          /\ new.gen = sync[s].gen /\ new.kind = sync[s].kind
          /\ new.asked = sync[s].asked /\ new.attempt = sync[s].attempt
      BY <1>4 DEF Running
    <2>2. sync' = [sync EXCEPT ![s] = new]
      BY <1>11
    <2> HIDE DEF new
    <2> QED
      BY <1>1, <1>3, <1>5, <1>6, <2>1, <2>2, SyncRests
  <1> QED
    BY <1>9, <1>10, <1>11 DEF ArrivalEnds

(* watchGroupListArrival after a pass: the next one, or a full sync.       *)
LEMMA ArrivalDecides ==
  ASSUME Core, RestTypes, NEW s \in Syncs, ArrivalContinues(s) \/ ArrivalSettles(s)
  PROVE  RestTypes' /\ Core'
  <1>1. UNCHANGED <<generation, rows, account, session, command, spent, pass>>
    BY DEF ArrivalContinues, ArrivalSettles, store
  <1>2. watch' \in Watches
    BY DEF ArrivalContinues, ArrivalSettles, RestTypes, Watches
  <1>3. Slot(s) /\ SyncTypes /\ sync[s].pc = "deciding" /\ pendingFull \in Pendings
    BY DEF Core, RestTypes, ArrivalContinues, ArrivalSettles
  <1>4. \A n \in Attempts : pass[s][n] = NoPass
    BY <1>3 DEF Slot, AttemptsOf
  <1>5. pass[s] \in [Attempts -> Passes] /\ pass' = [pass EXCEPT ![s] = pass[s]]
    BY <1>1, SamePasses
  <1>6. SUFFICES Core' /\ pendingFull' \in Pendings
    BY <1>1, <1>2 DEF RestTypes
  <1>7. CASE sync' = [sync EXCEPT ![s] = NoSync] /\ UNCHANGED <<syncInFlight, late>>
             /\ pendingFull' \in Pendings
    <2>1. NoSync.pc = "idle" /\ sync[s].pc # "idle"
      BY <1>3 DEF NoSync
    <2>2. Core'
      BY <1>1, <1>5, <1>7, <2>1, SyncRests
    <2> QED
      BY <1>7, <2>2
  <1>8. CASE ArrivalContinues(s)
    <2>1. UNCHANGED <<syncInFlight, late, pendingFull>> /\ sync' = [sync EXCEPT ![s] = NoSync]
      BY <1>8 DEF ArrivalContinues, queue
    <2> QED
      BY <1>3, <1>7, <2>1
  <1>9. CASE ArrivalSettles(s) /\ ~(Current(s) /\ session = "CONNECTED" /\ syncInFlight = None)
    <2>1. UNCHANGED <<syncInFlight, late>> /\ sync' = [sync EXCEPT ![s] = NoSync]
      BY <1>9 DEF ArrivalSettles
    <2>2. pendingFull' \in Pendings
      BY <1>3, <1>9, QueueTyped DEF ArrivalSettles
    <2> QED
      BY <1>7, <2>1, <2>2
  <1>10. CASE ArrivalSettles(s) /\ Current(s) /\ session = "CONNECTED" /\ syncInFlight = None
    <2>1. /\ sync' = [sync EXCEPT ![s] = NewSync("FULL", generation, FALSE, FALSE)]
          /\ syncInFlight' = s /\ pendingFull' = pendingFull
          /\ late' = [i \in Ids |-> IF i[1] = s THEN {} ELSE late[i]]
      BY <1>10 DEF ArrivalSettles
    <2>2. Core'
      BY <1>1, <1>4, <1>10, <2>1, SyncStarts DEF SyncKinds
    <2> QED
      BY <1>3, <2>1, <2>2
  <1> QED
    BY <1>8, <1>9, <1>10

----------------------------------------------------------------------------
(* The session.                                                            *)

(* Steps that touch no sync.                                               *)
LEMMA AwayFromSyncs ==
  ASSUME Core, RestTypes,
         \/ WatchStops \/ Drop \/ Heal
         \/ CancelRecorded \/ CutSession \/ Unlink \/ SwitchOff \/ ReconnectFails
  PROVE  RestTypes' /\ Core'
  <1>1. UNCHANGED <<generation, sync, pass, late, syncInFlight, pendingFull>>
    BY DEF WatchStops, Drop, Heal, CancelRecorded, CutSession, Unlink, SwitchOff,
           ReconnectFails, queue
  <1>2. Core'
    BY <1>1, CoreUnchanged
  <1>3. rows' \in [Groups -> RowStates]
    BY DEF WatchStops, Drop, Heal, CancelRecorded, CutSession, Unlink, SwitchOff,
           ReconnectFails, store, RestTypes, RowStates
  <1>4. account' \in [status: Statuses, linked: BOOLEAN]
    BY DEF WatchStops, Drop, Heal, CancelRecorded, CutSession, Unlink, SwitchOff,
           ReconnectFails, store, RestTypes, Statuses
  <1>5. session' \in {"CONNECTED", "DROPPED", "GONE"} /\ watch' \in Watches
    BY DEF WatchStops, Drop, Heal, CancelRecorded, CutSession, Unlink, SwitchOff,
           ReconnectFails, RestTypes, Watches
  <1>6. command' \in Commands \cup {NoCommand}
    <2>1. command # NoCommand => command \in Commands
      BY DEF RestTypes
    <2>2. command.pc \in {"cancelling", "cut", "unlink"} =>
            /\ [command EXCEPT !.pc = "cut"] \in Commands
            /\ [command EXCEPT !.pc = "unlink"] \in Commands
            /\ [command EXCEPT !.pc = "connecting"] \in Commands
            /\ [command EXCEPT !.pc = "off"] \in Commands
      BY <2>1 DEF Commands, NoCommand
    <2> QED
      BY <2>2 DEF WatchStops, Drop, Heal, CancelRecorded, CutSession, Unlink, SwitchOff,
                  ReconnectFails, RestTypes
  <1>7. spent' \in [Events -> Nat]
    BY SpendTyped DEF WatchStops, Drop, Heal, CancelRecorded, CutSession, Unlink, SwitchOff,
                      ReconnectFails, RestTypes, Events
  <1>8. pendingFull' \in Pendings
    BY <1>1 DEF RestTypes
  <1> QED
    BY <1>2, <1>3, <1>4, <1>5, <1>6, <1>7, <1>8 DEF RestTypes

(* cancelGroupSync.                                                        *)
LEMMA CancelSteps ==
  ASSUME Core, RestTypes, NEW type \in {"LOGOUT", "RECONNECT"},
         CommandStarts(type) \/ CommandBumps
  PROVE  RestTypes' /\ Core'
  <1>1. UNCHANGED <<rows, account, session, watch, sync, pass, late>>
    BY DEF CommandStarts, CommandBumps, store
  <1>2. spent' \in [Events -> Nat]
    BY SpendTyped DEF CommandStarts, CommandBumps, RestTypes, Events
  <1>3. \/ UNCHANGED <<generation, syncInFlight, pendingFull>>
        \/ /\ generation' = generation + 1 /\ syncInFlight' \in {syncInFlight, None}
           /\ pendingFull' = NoPending
    BY DEF CommandStarts, CommandBumps, Cancel, queue
  <1>4. pendingFull' \in Pendings
    BY <1>3 DEF RestTypes, Pendings
  <1>5. Core'
    BY <1>1, <1>3, CoreUnchanged, NewGeneration
  <1>6. command' \in Commands
    <2>1. CASE CommandStarts(type)
      <3>1. [pc |-> "asked", type |-> type, saw |-> account.status] \in Commands
        BY DEF Commands, RestTypes
      <3> QED
        BY <2>1, <3>1 DEF CommandStarts, Cancel, Commands
    <2>2. CASE CommandBumps
      <3>1. command \in Commands
        BY <2>2 DEF CommandBumps, RestTypes, NoCommand
      <3> QED
        BY <2>2, <3>1 DEF CommandBumps, Cancel, Commands
    <2> QED
      BY <2>1, <2>2
  <1> QED
    BY <1>1, <1>2, <1>4, <1>5, <1>6 DEF RestTypes

LEMMA RestartKeeps ==
  ASSUME RestTypes, Restart
  PROVE  RestTypes' /\ Core'
  <1>1. Core'
    <2>1. SyncTypes'
      BY DEF Restart, SyncTypes
    <2>2. ASSUME NEW s \in Syncs PROVE Slot(s)'
      <3>1. EntryOf(s)'
        BY DEF Restart, EntryOf, Live, NoSync, NoPass
      <3>2. AttemptsOf(s)'
        BY DEF Restart, AttemptsOf, NoSync
      <3>3. \A n \in Attempts : LateOf(s, n)'
        BY DEF Restart, LateOf, Ids
      <3> QED
        BY <3>1, <3>2, <3>3 DEF Slot
    <2> QED
      BY <2>1, <2>2 DEF Core
  <1>2. spent' \in [Events -> Nat]
    BY SpendTyped DEF Restart, Events
  <1>3. /\ rows' \in [Groups -> RowStates]
        /\ account' \in [status: Statuses, linked: BOOLEAN]
        /\ session' \in {"CONNECTED", "DROPPED", "GONE"}
        /\ pendingFull' \in Pendings
        /\ watch' \in Watches
        /\ command' \in Commands \cup {NoCommand}
    BY DEF Restart, RestTypes, Statuses, Pendings, Watches
  <1> QED
    BY <1>1, <1>2, <1>3 DEF RestTypes

----------------------------------------------------------------------------
(* The theorems.                                                           *)

LEMMA InitKeeps == Init => RestTypes /\ Core
  <1> SUFFICES ASSUME Init PROVE RestTypes /\ Core
    OBVIOUS
  <1>1. RestTypes
    BY DEF Init, RestTypes, Statuses, Pendings, Watches
  <1>2. SyncTypes
    BY DEF Init, SyncTypes
  <1>3. ASSUME NEW s \in Syncs PROVE Slot(s)
    <2>1. EntryOf(s)
      BY DEF Init, EntryOf, Live, NoSync, NoPass
    <2>2. AttemptsOf(s)
      BY DEF Init, AttemptsOf, NoSync
    <2>3. \A n \in Attempts : LateOf(s, n)
      BY DEF Init, LateOf, Ids
    <2> QED
      BY <2>1, <2>2, <2>3 DEF Slot
  <1> QED
    BY <1>1, <1>2, <1>3 DEF Core

LEMMA StepKeeps == RestTypes /\ Core /\ [Next]_vars => (RestTypes /\ Core)'
  <1> SUFFICES ASSUME RestTypes, Core, [Next]_vars PROVE RestTypes' /\ Core'
    OBVIOUS
  <1>1. ASSUME NEW s \in Syncs, SyncStep(s) PROVE RestTypes' /\ Core'
    BY <1>1, SyncReadsGeneration, SyncBegins, SyncRecorded, FullSyncEnds, FullSyncGoesOn, RecoveryPassEnds,
       ArrivalPassEnds, ArrivalDecides DEF SyncStep
  <1>2. ASSUME NEW s \in Syncs, NEW n \in Attempts, PassStep(s, n)
        PROVE  RestTypes' /\ Core'
    BY <1>2, PassReads, PassChecks, PassCreates, CreatesInBatches,
       PassStampsOrSweeps DEF PassStep
  <1>3. CASE PendingRuns \/ FollowUp
    BY <1>3, Requested
  <1>4. ASSUME NEW s \in Syncs, WatchPass(s) PROVE RestTypes' /\ Core'
    BY <1>4, OtherStarts
  <1>5. CASE WatchStops
    BY <1>5, AwayFromSyncs
  <1>6. CASE CommandStep
    BY <1>6, CancelSteps, AwayFromSyncs, ConnectSteps DEF CommandStep
  <1>7. CASE Environment
    BY <1>7, Requested, ConnectSteps, AwayFromSyncs, CancelSteps, RestartKeeps, OtherStarts,
       PassFails, BatchFallsBack DEF Environment
  <1>8. CASE UNCHANGED vars
    <2>1. Core'
      BY <1>8, CoreUnchanged DEF vars, queue
    <2>2. RestTypes'
      BY <1>8 DEF vars, store, queue, RestTypes
    <2> QED
      BY <2>1, <2>2
  <1> QED
    BY <1>1, <1>2, <1>3, <1>4, <1>5, <1>6, <1>7, <1>8 DEF Next

(* Every reachable state satisfies the inductive invariant.                *)
THEOREM GroupSyncInvariant == Spec => []IInv
  <1>1. RestTypes /\ Core => IInv
    BY BySlots
  <1> QED
    BY InitKeeps, StepKeeps, <1>1, PTL DEF Spec

(* Every variable keeps its type, whatever the groups, the number of slots *)
(* and the number of attempts.                                             *)
THEOREM GroupSyncTypeCorrect == Spec => []TypeOK
  BY GroupSyncInvariant, PTL DEF IInv

(* One session has one sync: two that run for the present generation, and  *)
(* registered for it, would both hold the account's one entry              *)
(* (commandProcessor.ts:474-610).  A full sync cancelled before it read    *)
(* its generation is left out: it may run beside its successor.            *)
THEOREM OneSyncAtATime == Spec => []OneSyncPerGeneration
  <1>1. IInv => OneSyncPerGeneration
    BY DEF IInv, EntryInv, OneSyncPerGeneration
  <1> QED
    BY <1>1, GroupSyncInvariant, PTL

(* Once its generation is over, a pass finishes at most the kind of write  *)
(* it was in the middle of (commandProcessor.ts:232-396).                  *)
THEOREM CancelledPassesStop == Spec => []CancelStopsWrites
  <1>1. \A f : f \in [Ids -> SUBSET Writes] => DOMAIN f = Ids
    OBVIOUS
  <1>2. IInv => CancelStopsWrites
    BY <1>1 DEF IInv, TypeOK, LateInv, CancelStopsWrites, Ids
  <1> QED
    BY <1>2, GroupSyncInvariant, PTL
=============================================================================
