----------------------- MODULE ParticipantAddsProofs -----------------------
(***************************************************************************)
(* Safety of a job of participant adds for any items and requests, any     *)
(* budget of attempts and any number of crashes.                           *)
(***************************************************************************)
EXTENDS ParticipantAdds, TLAPS

LEMMA InitIInv == AddsInit => AddsIInv
<1> SUFFICES ASSUME AddsInit PROVE AddsIInv
  OBVIOUS
<1>1. AddsTypeOK
  <2>1. /\ job \in [status: JobStates, started: BOOLEAN, completed: BOOLEAN]
        /\ item \in [Items -> [status: ItemStates, attempts: Nat]]
    BY DEF AddsInit, JobStates, ItemStates, ToCheck
  <2>2. asked \in 0 .. MaxRequests /\ faults \in 0 .. MaxFaults
    BY ParticipantAddsConstants DEF AddsInit
  <2>3. /\ adder \in Adding \cup {Idle} /\ checker \in Checking \cup {Idle}
        /\ request \in [Dashboards -> Asking \cup {NoRequest}]
    BY DEF AddsInit
  <2>4. /\ member \in [Items -> BOOLEAN] /\ addCalls \in [Items -> Nat]
        /\ allowed \in [Items -> Nat]
    BY ParticipantAddsConstants DEF AddsInit
  <2> QED
    BY <2>1, <2>2, <2>3, <2>4 DEF AddsInit, AddsTypeOK
<1>2. \A i \in Items : ~BeforeCall(i) /\ ~Uncounted(i)
  BY DEF AddsInit, Idle, BeforeCall, Uncounted
<1>3. AllowanceInv
  <2> SUFFICES ASSUME NEW i \in Items PROVE addCalls[i] + StillDue(i) <= allowed[i] + faults
    BY <1>2 DEF AllowanceInv
  <2>1. /\ item[i].status \notin Active /\ item[i].attempts = 0
        /\ addCalls[i] = 0 /\ allowed[i] = AddMaxAttempts /\ faults = 0
    BY DEF AddsInit, Active
  <2>2. StillDue(i) = AddMaxAttempts
    BY <1>2, <2>1, ParticipantAddsConstants DEF StillDue
  <2> QED
    BY <2>1, <2>2, ParticipantAddsConstants
<1>4. StopInv
  BY DEF AddsInit, StopInv, Idle
<1> QED
  BY <1>1, <1>3, <1>4 DEF AddsIInv

----------------------------------------------------------------------------
(* What an item still sees, by what the add loop has of it.                *)
LEMMA Due ==
  ASSUME AddsTypeOK, NEW i \in Items
  PROVE  LET left == AddMaxAttempts - item[i].attempts IN
         /\ left \in Int /\ StillDue(i) \in Nat
         /\ item[i].attempts \in Nat /\ addCalls[i] \in Nat /\ allowed[i] \in Nat
         /\ faults \in Nat
         /\ Uncounted(i) => StillDue(i) = IF left > 1 THEN left - 1 ELSE 0
         /\ ~Uncounted(i) /\ (BeforeCall(i) \/ item[i].status \in Active) =>
              StillDue(i) = IF left > 1 THEN left ELSE 1
         /\ ~Uncounted(i) /\ ~BeforeCall(i) /\ item[i].status \notin Active =>
              StillDue(i) = IF left > 0 THEN left ELSE 0
<1>1. /\ AddMaxAttempts \in Nat /\ item[i].attempts \in Nat /\ addCalls[i] \in Nat
      /\ allowed[i] \in Nat /\ faults \in Nat
  BY ParticipantAddsConstants DEF AddsTypeOK
<1>2. CASE Uncounted(i)
  BY <1>1, <1>2 DEF StillDue
<1>3. CASE ~Uncounted(i) /\ (BeforeCall(i) \/ item[i].status \in Active)
  BY <1>1, <1>3 DEF StillDue
<1>4. CASE ~Uncounted(i) /\ ~BeforeCall(i) /\ item[i].status \notin Active
  BY <1>1, <1>4 DEF StillDue
<1> QED
  BY <1>1, <1>2, <1>3, <1>4

LEMMA DueAfter ==
  ASSUME AddsTypeOK', NEW i \in Items
  PROVE  LET left == AddMaxAttempts - item'[i].attempts IN
         /\ left \in Int /\ StillDue(i)' \in Nat
         /\ item'[i].attempts \in Nat /\ addCalls'[i] \in Nat /\ allowed'[i] \in Nat
         /\ faults' \in Nat
         /\ Uncounted(i)' => StillDue(i)' = IF left > 1 THEN left - 1 ELSE 0
         /\ ~Uncounted(i)' /\ (BeforeCall(i)' \/ item'[i].status \in Active) =>
              StillDue(i)' = IF left > 1 THEN left ELSE 1
         /\ ~Uncounted(i)' /\ ~BeforeCall(i)' /\ item'[i].status \notin Active =>
              StillDue(i)' = IF left > 0 THEN left ELSE 0
<1>1. /\ AddMaxAttempts \in Nat /\ item'[i].attempts \in Nat /\ addCalls'[i] \in Nat
      /\ allowed'[i] \in Nat /\ faults' \in Nat
  BY ParticipantAddsConstants DEF AddsTypeOK
<1>2. CASE Uncounted(i)'
  BY <1>1, <1>2 DEF StillDue
<1>3. CASE ~Uncounted(i)' /\ (BeforeCall(i)' \/ item'[i].status \in Active)
  BY <1>1, <1>3 DEF StillDue
<1>4. CASE ~Uncounted(i)' /\ ~BeforeCall(i)' /\ item'[i].status \notin Active
  BY <1>1, <1>4 DEF StillDue
<1> QED
  BY <1>1, <1>2, <1>3, <1>4

(* A step keeps the allowance of an item that it makes due no more calls.  *)
LEMMA SteadyItem ==
  ASSUME AddsIInv, AddsTypeOK', NEW i \in Items,
         addCalls'[i] = addCalls[i], allowed'[i] = allowed[i], faults' = faults,
         item'[i].attempts = item[i].attempts,
         Uncounted(i)' <=> Uncounted(i),
         BeforeCall(i)' => BeforeCall(i) \/ item[i].status \in Active,
         item'[i].status \in Active => BeforeCall(i) \/ item[i].status \in Active
  PROVE  addCalls'[i] + StillDue(i)' <= allowed'[i] + faults'
<1>1. addCalls[i] + StillDue(i) <= allowed[i] + faults
  BY DEF AddsIInv, AllowanceInv
<1>2. StillDue(i)' <= StillDue(i)
  BY Due, DueAfter DEF AddsIInv
<1>3. /\ StillDue(i) \in Nat /\ StillDue(i)' \in Nat /\ addCalls[i] \in Nat
      /\ allowed[i] \in Nat /\ faults \in Nat
  BY Due, DueAfter DEF AddsIInv
<1> QED
  BY <1>1, <1>2, <1>3

(* A step of somebody else: the add loop stays where it is.                *)
LEMMA Bystander ==
  ASSUME AddsIInv, AddsTypeOK', UNCHANGED <<adder, addCalls, allowed, faults>>,
         \A i \in Items : /\ item'[i].attempts = item[i].attempts
                          /\ item'[i].status \in Active => item[i].status \in Active
  PROVE  AllowanceInv'
<1> SUFFICES ASSUME NEW i \in Items
             PROVE  /\ addCalls'[i] + StillDue(i)' <= allowed'[i] + faults'
                    /\ BeforeCall(i)' \/ Uncounted(i)' => item'[i].attempts <= adder'.seen
  BY DEF AllowanceInv
<1>1. (BeforeCall(i)' <=> BeforeCall(i)) /\ (Uncounted(i)' <=> Uncounted(i))
  BY DEF BeforeCall, Uncounted
<1>2. addCalls'[i] + StillDue(i)' <= allowed'[i] + faults'
  BY <1>1, SteadyItem
<1>3. BeforeCall(i) \/ Uncounted(i) => item[i].attempts <= adder.seen
  BY DEF AddsIInv, AllowanceInv
<1> QED
  BY <1>1, <1>2, <1>3

(* No step but those that stop the job makes it stopped; a tick passes the *)
(* gate only while the job is not.                                         *)
LEMMA StopKept ==
  ASSUME AddsIInv, UNCHANGED lateAdds, Stopped' => Stopped,
         Stopped' /\ adder'.pc \in {"start", "add"} => adder.pc \in {"start", "add"}
  PROVE  StopInv'
  BY DEF AddsIInv, StopInv

LEMMA SetFacts ==
  ASSUME AddsTypeOK, NEW from \in SUBSET Items, NEW to \in ItemStates, Set(from, to)
  PROVE  /\ item' \in [Items -> [status: ItemStates, attempts: Nat]]
         /\ \A i \in Items : /\ item'[i].attempts = item[i].attempts
                             /\ i \in from => item'[i].status = to
                             /\ i \notin from => item'[i] = item[i]
         /\ to \notin Active =>
              \A i \in Items : item'[i].status \in Active => item[i].status \in Active
<1>1. /\ item' \in [Items -> [status: ItemStates, attempts: Nat]]
      /\ \A i \in Items : /\ item'[i].attempts = item[i].attempts
                          /\ i \in from => item'[i].status = to
                          /\ i \notin from => item'[i] = item[i]
  BY DEF Set, AddsTypeOK
<1>2. ASSUME to \notin Active, NEW i \in Items, item'[i].status \in Active
      PROVE  item[i].status \in Active
  BY <1>1, <1>2
<1> QED
  BY <1>1, <1>2

LEMMA ProceedFacts ==
  ASSUME AddsTypeOK, NEW d \in Dashboards, NEW n \in Asking \cup {NoRequest}, Proceed(d, n)
  PROVE  request' \in [Dashboards -> Asking \cup {NoRequest}]
  BY DEF Proceed, AddsTypeOK

LEMMA AskFacts ==
  ASSUME AddsTypeOK, NEW d \in Dashboards, NEW n \in Asking \cup {NoRequest}, Ask(d, n)
  PROVE  request' \in [Dashboards -> Asking \cup {NoRequest}] /\ asked' \in 0 .. MaxRequests
  BY ParticipantAddsConstants DEF Ask, AddsTypeOK

----------------------------------------------------------------------------
(* The check loop makes nothing due.                                       *)
LEMMA CheckLoopKeepsAddsIInv ==
  ASSUME AddsIInv, CheckLoop
  PROVE  AddsIInv'
<1>0. AddsTypeOK
  BY DEF AddsIInv
<1>1. UNCHANGED <<adder, request, automation, member, asked, faults, addCalls, allowed,
                  lateAdds, firm>>
  BY DEF CheckLoop, CheckBegins, ClaimChecks, WriteVerdict, SettleCheck, addsHistory
<1>2. /\ item' \in [Items -> [status: ItemStates, attempts: Nat]]
      /\ \A i \in Items : /\ item'[i].attempts = item[i].attempts
                          /\ item'[i].status \in Active => item[i].status \in Active
  <2>1. CASE CheckBegins \/ SettleCheck
    BY <1>0, <2>1 DEF CheckBegins, SettleCheck, database, AddsTypeOK
  <2>2. CASE ClaimChecks
    <3>1. checker.items \in SUBSET Items
      <4>1. checker \in Checking
        BY <1>0, <2>2 DEF ClaimChecks, AddsTypeOK, Idle
      <4> QED
        BY <4>1 DEF Checking
    <3>2. "CHECKING" \in ItemStates /\ "CHECKING" \notin Active
      BY DEF ItemStates, ToCheck, Active
    <3>3. Set(checker.items, "CHECKING")
      BY <2>2 DEF ClaimChecks
    <3> QED
      BY <1>0, <3>1, <3>2, <3>3, SetFacts
  <2>3. ASSUME NEW i \in Items, NEW verdict \in CheckVerdicts \cup {"PENDING_CHECK"},
               WriteVerdict(i, verdict)
        PROVE  <1>2
    <3>1. /\ {i} \in SUBSET Items /\ verdict \in ItemStates /\ verdict \notin Active
      BY DEF ItemStates, ToCheck, CheckVerdicts, Selectable, Active
    <3>2. Set({i}, verdict)
      BY <2>3 DEF WriteVerdict
    <3> QED
      BY <1>0, <3>1, <3>2, SetFacts
  <2> QED
    BY <2>1, <2>2, <2>3 DEF CheckLoop
<1>3. job' \in [status: JobStates, started: BOOLEAN, completed: BOOLEAN] /\ (Stopped' => Stopped)
  <2>1. CASE job' = job
    BY <1>0, <2>1 DEF AddsTypeOK, Stopped
  <2>2. CASE job' = [job EXCEPT !.status = "AWAITING_REVIEW"]
    BY <1>0, <2>2 DEF AddsTypeOK, Stopped, JobStates, Stops
  <2> QED
    BY <2>1, <2>2 DEF CheckLoop, CheckBegins, ClaimChecks, WriteVerdict, SettleCheck, database
<1>4. checker' \in Checking \cup {Idle}
  <2>1. CASE CheckBegins
    <3>1. With({"PENDING_CHECK"}) \in SUBSET Items
      BY DEF With
    <3> QED
      BY <2>1, <3>1 DEF CheckBegins, Checking
  <2>2. CASE ClaimChecks
    BY <1>0, <2>2 DEF ClaimChecks, AddsTypeOK, Checking, Idle
  <2>3. ASSUME NEW i \in Items, NEW verdict, WriteVerdict(i, verdict)
        PROVE  checker' \in Checking
    <3>1. checker.items \ {i} \in SUBSET Items
      BY <1>0, <2>3 DEF WriteVerdict, AddsTypeOK, Checking, Idle
    <3> QED
      BY <2>3, <3>1 DEF WriteVerdict, Checking
  <2>4. CASE SettleCheck
    BY <2>4 DEF SettleCheck
  <2> QED
    BY <2>1, <2>2, <2>3, <2>4 DEF CheckLoop
<1>5. AddsTypeOK'
  BY <1>0, <1>1, <1>2, <1>3, <1>4 DEF AddsTypeOK
<1> QED
  BY <1>1, <1>2, <1>3, <1>5, Bystander, StopKept DEF AddsIInv

----------------------------------------------------------------------------
(* The dashboard.  A request that touches the job only.                    *)
LEMMA JobRequestsKeepAddsIInv ==
  ASSUME AddsIInv, NEW d \in Dashboards,
         \/ Confirm(d) \/ NothingToConfirm(d) \/ ConfirmJob(d) \/ RecheckJob(d)
         \/ CancelJob(d) \/ Retry(d) \/ Revive(d)
         \/ \E picked \in SUBSET Items : ConfirmPick(d, picked)
  PROVE  AddsIInv'
<1>0. AddsTypeOK
  BY DEF AddsIInv
<1>1. UNCHANGED <<item, adder, checker, automation, member, faults, addCalls, allowed>>
  BY DEF Confirm, NothingToConfirm, ConfirmJob, RecheckJob, CancelJob, Retry, Revive,
    ConfirmPick, database, loops, addsHistory
<1>2. request' \in [Dashboards -> Asking \cup {NoRequest}] /\ asked' \in 0 .. MaxRequests
  <2>1. CASE Confirm(d)
    <3>1. [act |-> "CONFIRM_PICK"] \in Asking
      BY DEF Asking
    <3> QED
      BY <1>0, <2>1, <3>1, AskFacts DEF Confirm
  <2>2. CASE Retry(d)
    <3>1. [act |-> "RETRY_ITEMS", saw |-> job.status] \in Asking
      BY <1>0 DEF Asking, AddsTypeOK
    <3> QED
      BY <1>0, <2>2, <3>1, AskFacts DEF Retry
  <2>3. ASSUME NEW picked \in SUBSET Items, ConfirmPick(d, picked)
        PROVE  <1>2
    <3>1. [act |-> "CONFIRM_ITEMS", left |-> picked, picked |-> picked] \in Asking
      BY DEF Asking
    <3> QED
      BY <1>0, <2>3, <3>1, ProceedFacts DEF ConfirmPick, AddsTypeOK
  <2>4. CASE \/ NothingToConfirm(d) \/ ConfirmJob(d) \/ RecheckJob(d) \/ CancelJob(d)
             \/ Revive(d)
    <3>1. Proceed(d, NoRequest) /\ asked' = asked
      BY <2>4 DEF NothingToConfirm, ConfirmJob, RecheckJob, CancelJob, Revive
    <3> QED
      BY <1>0, <3>1, ProceedFacts DEF AddsTypeOK
  <2> QED
    BY <2>1, <2>2, <2>3, <2>4
<1>a. firm' \in BOOLEAN
  <2>1. CASE firm' = firm
    BY <1>0, <2>1 DEF AddsTypeOK
  <2>2. CASE firm' = ~MayBeUndone
    BY <2>2 DEF MayBeUndone
  <2> QED
    BY <2>1, <2>2 DEF Confirm, NothingToConfirm, ConfirmJob, RecheckJob, CancelJob, Retry, Revive,
      ConfirmPick, database, addsHistory, Stop
<1>3. /\ job' \in [status: JobStates, started: BOOLEAN, completed: BOOLEAN]
      /\ \/ (Stopped' => Stopped) /\ lateAdds' = lateAdds
         \/ lateAdds' = 0
  <2>1. CASE job' = job /\ lateAdds' = lateAdds
    BY <1>0, <2>1 DEF AddsTypeOK, Stopped
  <2>2. ASSUME NEW s \in {"QUEUED", "CHECKING", "RUNNING"}, lateAdds' = lateAdds,
               \/ job' = [job EXCEPT !.status = s]
               \/ job' = [job EXCEPT !.status = s, !.completed = FALSE]
        PROVE  <1>3
    BY <1>0, <2>2 DEF AddsTypeOK, Stopped, JobStates, Stops
  <2>3. CASE job' = [job EXCEPT !.status = "CANCELLED"] /\ lateAdds' = 0
    BY <1>0, <2>3 DEF AddsTypeOK, JobStates, Stops
  <2> QED
    BY <2>1, <2>2, <2>3 DEF Confirm, NothingToConfirm, ConfirmJob, RecheckJob, CancelJob,
      Retry, Revive, ConfirmPick, database, addsHistory, Stop
<1>4. AddsTypeOK'
  <2>1. lateAdds' \in Nat /\ firm' \in BOOLEAN
    BY <1>0, <1>3, <1>a DEF AddsTypeOK
  <2> QED
    BY <1>0, <1>1, <1>2, <1>3, <2>1 DEF AddsTypeOK
<1>5. AllowanceInv'
  BY <1>1, <1>4, Bystander
<1>6. StopInv'
  <2>1. CASE lateAdds' = 0
    BY <2>1 DEF StopInv
  <2>2. CASE (Stopped' => Stopped) /\ lateAdds' = lateAdds
    BY <1>1, <2>2, StopKept
  <2> QED
    BY <1>3, <2>1, <2>2
<1> QED
  BY <1>4, <1>5, <1>6 DEF AddsIInv

(* A request that takes items out of the queue.                            *)
LEMMA RemovalsKeepAddsIInv ==
  ASSUME AddsIInv, NEW d \in Dashboards, ConfirmRest(d) \/ CancelAdds(d)
  PROVE  AddsIInv'
<1>0. AddsTypeOK
  BY DEF AddsIInv
<1>1. UNCHANGED <<job, adder, checker, automation, member, faults, addCalls, allowed,
                  lateAdds, firm>>
  BY DEF ConfirmRest, CancelAdds, loops, addsHistory
<1>2. PICK from \in SUBSET Items, to \in {"NOT_SELECTED", "CANCELLED"} : Set(from, to)
  <2>1. CASE ConfirmRest(d)
    <3>1. With(Selectable) \ request[d].picked \in SUBSET Items
      BY DEF With
    <3> QED
      BY <2>1, <3>1 DEF ConfirmRest
  <2>2. CASE CancelAdds(d)
    <3>1. With({"PENDING"}) \in SUBSET Items
      BY DEF With
    <3> QED
      BY <2>2, <3>1 DEF CancelAdds
  <2> QED
    BY <2>1, <2>2
<1>3. /\ item' \in [Items -> [status: ItemStates, attempts: Nat]]
      /\ \A i \in Items : /\ item'[i].attempts = item[i].attempts
                          /\ item'[i].status \in Active => item[i].status \in Active
  <2>1. to \in ItemStates /\ to \notin Active
    BY DEF ItemStates, Active
  <2> QED
    BY <1>0, <1>2, <2>1, SetFacts
<1>4. request' \in [Dashboards -> Asking \cup {NoRequest}] /\ asked' \in 0 .. MaxRequests
  <2>1. CASE ConfirmRest(d)
    <3>1. request[d] \in [act: {"CONFIRM_REST"}, left: SUBSET Items, picked: SUBSET Items]
      BY <1>0, <2>1 DEF ConfirmRest, AddsTypeOK, Asking, NoRequest
    <3>2. [request[d] EXCEPT !.act = "CONFIRM_JOB"] \in Asking
      BY <3>1 DEF Asking
    <3> QED
      BY <1>0, <2>1, <3>2, ProceedFacts DEF ConfirmRest, AddsTypeOK
  <2>2. CASE CancelAdds(d)
    <3>1. [act |-> "CANCEL_JOB"] \in Asking
      BY DEF Asking
    <3> QED
      BY <1>0, <2>2, <3>1, AskFacts DEF CancelAdds
  <2> QED
    BY <2>1, <2>2
<1>5. AddsTypeOK'
  BY <1>0, <1>1, <1>3, <1>4 DEF AddsTypeOK
<1>6. StopInv'
  BY <1>1, StopKept DEF Stopped
<1> QED
  BY <1>1, <1>3, <1>5, <1>6, Bystander DEF AddsIInv

(* An approval allows one call more, whatever is left of the budget.       *)
LEMMA ConfirmItemKeepsAddsIInv ==
  ASSUME AddsIInv, NEW d \in Dashboards, NEW k \in Items, ConfirmItem(d, k)
  PROVE  AddsIInv'
<1>0. AddsTypeOK
  BY DEF AddsIInv
<1>1. UNCHANGED <<job, adder, checker, automation, member, asked, faults, addCalls,
                  lateAdds, firm>>
  BY DEF ConfirmItem, loops
<1>2. /\ item' \in [Items -> [status: ItemStates, attempts: Nat]]
      /\ \A i \in Items : /\ item'[i].attempts = item[i].attempts
                          /\ i # k => item'[i] = item[i]
  <2>1. {k} \in SUBSET Items /\ "PENDING" \in ItemStates
    BY DEF ItemStates, Active
  <2>2. Set({k}, "PENDING")
    BY DEF ConfirmItem
  <2>3. \A i \in Items : i # k => i \notin {k}
    OBVIOUS
  <2> QED
    BY <1>0, <2>1, <2>2, <2>3, SetFacts
<1>3. /\ allowed' \in [Items -> Nat]
      /\ allowed'[k] = allowed[k] + 1
      /\ \A i \in Items \ {k} : allowed'[i] = allowed[i]
  BY <1>0 DEF ConfirmItem, Allow, AddsTypeOK
<1>4. request' \in [Dashboards -> Asking \cup {NoRequest}]
  <2>1. request[d] \in [act: {"CONFIRM_ITEMS"}, left: SUBSET Items, picked: SUBSET Items]
    BY <1>0 DEF ConfirmItem, AddsTypeOK, Asking, NoRequest
  <2>2. PICK act \in {"CONFIRM_ITEMS", "CONFIRM_REST"} :
          Proceed(d, [request[d] EXCEPT !.left = request[d].left \ {k}, !.act = act])
    BY <2>1 DEF ConfirmItem
  <2>3. [request[d] EXCEPT !.left = request[d].left \ {k}, !.act = act] \in Asking
    BY <2>1 DEF Asking
  <2> QED
    BY <1>0, <2>2, <2>3, ProceedFacts
<1>5. AddsTypeOK'
  BY <1>0, <1>1, <1>2, <1>3, <1>4 DEF AddsTypeOK
<1>6. \A i \in Items : (BeforeCall(i)' <=> BeforeCall(i)) /\ (Uncounted(i)' <=> Uncounted(i))
  BY <1>1 DEF BeforeCall, Uncounted
<1>7. AllowanceInv'
  <2> SUFFICES ASSUME NEW i \in Items
               PROVE  /\ addCalls'[i] + StillDue(i)' <= allowed'[i] + faults'
                      /\ BeforeCall(i)' \/ Uncounted(i)' => item'[i].attempts <= adder'.seen
    BY DEF AllowanceInv
  <2>1. /\ addCalls[i] + StillDue(i) <= allowed[i] + faults
        /\ BeforeCall(i) \/ Uncounted(i) => item[i].attempts <= adder.seen
    BY DEF AddsIInv, AllowanceInv
  <2>2. CASE i # k
    <3>1. addCalls'[i] + StillDue(i)' <= allowed'[i] + faults'
      BY <1>1, <1>2, <1>3, <1>5, <1>6, <2>2, SteadyItem
    <3> QED
      BY <1>1, <1>2, <1>6, <2>1, <3>1
  <2>3. CASE i = k
    <3>1. StillDue(k)' <= StillDue(k) + 1
      BY <1>0, <1>2, <1>5, <1>6, Due, DueAfter
    <3>2. /\ StillDue(k) \in Nat /\ StillDue(k)' \in Nat /\ addCalls[k] \in Nat
          /\ allowed[k] \in Nat /\ faults \in Nat
      BY <1>0, <1>5, Due, DueAfter
    <3> QED
      BY <1>1, <1>2, <1>3, <1>6, <2>1, <2>3, <3>1, <3>2
  <2> QED
    BY <2>2, <2>3
<1>8. StopInv'
  BY <1>1, StopKept DEF Stopped
<1> QED
  BY <1>5, <1>7, <1>8 DEF AddsIInv

(* A retry or a re-check of an item allows it a whole budget.              *)
LEMMA StartingOverKeepsAddsIInv ==
  ASSUME AddsIInv, NEW d \in Dashboards, Recheck(d) \/ RetryItems(d)
  PROVE  AddsIInv'
<1>0. AddsTypeOK
  BY DEF AddsIInv
<1>1. /\ UNCHANGED <<job, adder, checker, automation, member, faults, addCalls, lateAdds>>
      /\ firm' \in BOOLEAN
  BY <1>0 DEF AddsTypeOK, Recheck, RetryItems, loops
<1>2. PICK from \in SUBSET Items, to \in {"PENDING_CHECK", "PENDING"} : StartOver(from, to)
  <2>1. CASE Recheck(d)
    <3>1. With(Rechecked) \in SUBSET Items
      BY DEF With
    <3> QED
      BY <2>1, <3>1 DEF Recheck
  <2>2. CASE RetryItems(d)
    <3>1. With({"FAILED"}) \in SUBSET Items
      BY DEF With
    <3> QED
      BY <2>2, <3>1 DEF RetryItems
  <2> QED
    BY <2>1, <2>2
<1>3. /\ item' \in [Items -> [status: ItemStates, attempts: Nat]]
      /\ allowed' \in [Items -> Nat]
      /\ \A i \in from : item'[i].attempts = 0 /\ allowed'[i] = allowed[i] + AddMaxAttempts
      /\ \A i \in Items \ from : item'[i] = item[i] /\ allowed'[i] = allowed[i]
  <2>1. to \in ItemStates
    BY DEF ItemStates, Active, ToCheck
  <2> QED
    BY <1>0, <1>2, <2>1, ParticipantAddsConstants DEF StartOver, Allow, AddsTypeOK
<1>4. request' \in [Dashboards -> Asking \cup {NoRequest}] /\ asked' \in 0 .. MaxRequests
  <2>1. CASE Recheck(d)
    <3>1. [act |-> "RECHECK_JOB"] \in Asking
      BY DEF Asking
    <3> QED
      BY <1>0, <2>1, <3>1, AskFacts DEF Recheck
  <2>2. CASE RetryItems(d)
    <3>1. request[d] \in [act: {"RETRY_ITEMS"}, saw: JobStates]
      BY <1>0, <2>2 DEF RetryItems, AddsTypeOK, Asking, NoRequest
    <3>2. [request[d] EXCEPT !.act = "REVIVE"] \in Asking
      BY <3>1 DEF Asking
    <3>3. PICK n \in Asking \cup {NoRequest} : Proceed(d, n)
      BY <2>2, <3>2 DEF RetryItems
    <3> QED
      BY <1>0, <2>2, <3>3, ProceedFacts DEF RetryItems, AddsTypeOK
  <2> QED
    BY <2>1, <2>2
<1>5. AddsTypeOK'
  BY <1>0, <1>1, <1>3, <1>4 DEF AddsTypeOK
<1>6. \A i \in Items : (BeforeCall(i)' <=> BeforeCall(i)) /\ (Uncounted(i)' <=> Uncounted(i))
  BY <1>1 DEF BeforeCall, Uncounted
<1>7. AllowanceInv'
  <2> SUFFICES ASSUME NEW i \in Items
               PROVE  /\ addCalls'[i] + StillDue(i)' <= allowed'[i] + faults'
                      /\ BeforeCall(i)' \/ Uncounted(i)' => item'[i].attempts <= adder'.seen
    BY DEF AllowanceInv
  <2>1. /\ addCalls[i] + StillDue(i) <= allowed[i] + faults
        /\ BeforeCall(i) \/ Uncounted(i) => item[i].attempts <= adder.seen
    BY DEF AddsIInv, AllowanceInv
  <2>2. CASE i \notin from
    <3>1. addCalls'[i] + StillDue(i)' <= allowed'[i] + faults'
      BY <1>1, <1>3, <1>5, <1>6, <2>2, SteadyItem
    <3> QED
      BY <1>1, <1>3, <1>6, <2>1, <2>2, <3>1
  <2>3. CASE i \in from
    <3>1. StillDue(i)' <= AddMaxAttempts
      BY <1>3, <1>5, <2>3, DueAfter, ParticipantAddsConstants
    <3>2. /\ StillDue(i) \in Nat /\ StillDue(i)' \in Nat /\ addCalls[i] \in Nat
          /\ allowed[i] \in Nat /\ faults \in Nat /\ AddMaxAttempts \in Nat
      BY <1>0, <1>5, Due, DueAfter, ParticipantAddsConstants
    <3>3. addCalls'[i] + StillDue(i)' <= allowed'[i] + faults'
      BY <1>1, <1>3, <2>1, <2>3, <3>1, <3>2
    <3>4. BeforeCall(i) \/ Uncounted(i) => adder.seen \in Nat
      BY <1>0 DEF AddsTypeOK, Adding, Idle, BeforeCall, Uncounted
    <3> QED
      BY <1>1, <1>3, <1>6, <2>3, <3>3, <3>4
  <2> QED
    BY <2>2, <2>3
<1>8. StopInv'
  BY <1>1, StopKept DEF Stopped
<1> QED
  BY <1>5, <1>7, <1>8 DEF AddsIInv

----------------------------------------------------------------------------
(* The add loop.                                                           *)

(* What the loop has in hand, with types.                                  *)
LEMMA InHand ==
  ASSUME AddsTypeOK, adder # Idle
  PROVE  /\ adder \in Adding /\ adder.item \in Items /\ adder.seen \in Nat
         /\ adder.pc # "idle"
         /\ item[adder.item] \in [status: ItemStates, attempts: Nat]
  BY DEF AddsTypeOK, Adding

LEMMA GotoFacts ==
  ASSUME AddsTypeOK, adder # Idle,
         NEW pc \in {"switch", "gate", "start", "add", "refused", "markStopped", "settled",
                     "count", "complete"},
         Goto(pc)
  PROVE  /\ adder' \in Adding /\ adder'.pc = pc
         /\ adder'.item = adder.item /\ adder'.seen = adder.seen
<1>1. adder \in Adding
  BY InHand
<1> QED
  BY <1>1 DEF Goto, Adding

(* The loop lets its item be: it has not called, or has counted its call.  *)
LEMMA Leaving ==
  ASSUME AddsIInv, AddsTypeOK', UNCHANGED <<addCalls, allowed, faults>>,
         adder # Idle, adder.pc # "refused",
         adder'.pc \in {"idle", "markStopped", "settled", "count", "complete"},
         \A i \in Items : /\ item'[i].attempts = item[i].attempts
                          /\ item'[i].status \in Active =>
                               item[i].status \in Active \/ BeforeCall(i)
  PROVE  AllowanceInv'
<1> SUFFICES ASSUME NEW i \in Items
             PROVE  /\ addCalls'[i] + StillDue(i)' <= allowed'[i] + faults'
                    /\ BeforeCall(i)' \/ Uncounted(i)' => item'[i].attempts <= adder'.seen
  BY DEF AllowanceInv
<1>1. ~BeforeCall(i)' /\ ~Uncounted(i)' /\ ~Uncounted(i)
  BY DEF BeforeCall, Uncounted
<1>2. addCalls'[i] + StillDue(i)' <= allowed'[i] + faults'
  BY <1>1, SteadyItem
<1> QED
  BY <1>1, <1>2

(* It goes on towards its call.                                            *)
LEMMA GoingOn ==
  ASSUME AddsIInv, AddsTypeOK', UNCHANGED <<item, addCalls, allowed, faults>>,
         adder.pc \in {"switch", "gate", "start"},
         adder'.pc \in {"gate", "start", "add"},
         adder'.item = adder.item, adder'.seen = adder.seen
  PROVE  AllowanceInv'
<1> SUFFICES ASSUME NEW i \in Items
             PROVE  /\ addCalls'[i] + StillDue(i)' <= allowed'[i] + faults'
                    /\ BeforeCall(i)' \/ Uncounted(i)' => item'[i].attempts <= adder'.seen
  BY DEF AllowanceInv
<1>1. (BeforeCall(i)' <=> BeforeCall(i)) /\ ~Uncounted(i)' /\ ~Uncounted(i)
  BY DEF BeforeCall, Uncounted
<1>2. addCalls'[i] + StillDue(i)' <= allowed'[i] + faults'
  BY <1>1, SteadyItem
<1>3. BeforeCall(i) => item[i].attempts <= adder.seen
  BY DEF AddsIInv, AllowanceInv
<1> QED
  BY <1>1, <1>2, <1>3

LEMMA ClaimItemKeepsAddsIInv ==
  ASSUME AddsIInv, NEW k \in Items, ClaimItem(k)
  PROVE  AddsIInv'
<1>0. AddsTypeOK /\ item[k].attempts \in Nat
  BY DEF AddsIInv, AddsTypeOK
<1>1. /\ UNCHANGED <<job, checker, request, automation, member, asked, faults, addCalls,
                     allowed, lateAdds, firm>>
      /\ adder = Idle /\ item[k].status = "PENDING" /\ Set({k}, "PROCESSING")
      /\ adder' = [pc |-> "switch", item |-> k, seen |-> item[k].attempts]
  BY DEF ClaimItem, addsHistory
<1>2. /\ item' \in [Items -> [status: ItemStates, attempts: Nat]]
      /\ \A i \in Items : /\ item'[i].attempts = item[i].attempts
                          /\ i \notin {k} => item'[i] = item[i]
  <2>1. {k} \in SUBSET Items /\ "PROCESSING" \in ItemStates
    BY DEF ItemStates, Active
  <2> QED
    BY <1>0, <1>1, <2>1, SetFacts
<1>3. adder' \in Adding /\ adder'.pc = "switch" /\ adder'.item = k
      /\ adder'.seen = item[k].attempts
  BY <1>0, <1>1 DEF Adding
<1>4. AddsTypeOK'
  BY <1>0, <1>1, <1>2, <1>3 DEF AddsTypeOK
<1>5. AllowanceInv'
  <2> SUFFICES ASSUME NEW i \in Items
               PROVE  /\ addCalls'[i] + StillDue(i)' <= allowed'[i] + faults'
                      /\ BeforeCall(i)' \/ Uncounted(i)' => item'[i].attempts <= adder'.seen
    BY DEF AllowanceInv
  <2>1. /\ ~Uncounted(i)' /\ ~Uncounted(i) /\ ~BeforeCall(i)
        /\ BeforeCall(i)' => i = k
    BY <1>1, <1>3 DEF BeforeCall, Uncounted, Idle
  <2>2. /\ BeforeCall(i)' => item[i].status \in Active
        /\ item'[i].status \in Active => item[i].status \in Active
    BY <1>1, <1>2, <2>1 DEF Active
  <2>3. addCalls'[i] + StillDue(i)' <= allowed'[i] + faults'
    BY <1>1, <1>2, <1>4, <2>1, <2>2, SteadyItem
  <2>4. BeforeCall(i)' => item'[i].attempts <= adder'.seen
    BY <1>0, <1>2, <1>3, <2>1
  <2> QED
    BY <2>1, <2>3, <2>4
<1>6. StopInv'
  BY <1>1, <1>3, StopKept DEF Stopped
<1> QED
  BY <1>4, <1>5, <1>6 DEF AddsIInv

(* Putting the item in hand back or taking it out of the job.              *)
LEMMA PuttingAway ==
  ASSUME AddsIInv, BeforeCall(adder.item), NEW to \in {"PENDING", "CANCELLED"},
         Set({adder.item}, to),
         adder' \in Adding \cup {Idle}, adder'.pc \in {"idle", "markStopped", "settled"},
         UNCHANGED <<job, checker, request, automation, member, asked, faults, addsHistory>>
  PROVE  AddsIInv'
<1>0. /\ AddsTypeOK /\ adder # Idle /\ adder.pc # "refused" /\ adder.item \in Items
      /\ adder.pc \in {"switch", "gate", "start", "add"}
  BY InHand DEF AddsIInv, BeforeCall, Idle
<1>1. UNCHANGED <<job, checker, request, automation, member, asked, faults, addCalls, allowed,
                  lateAdds, firm>>
  BY DEF addsHistory
<1>2. /\ item' \in [Items -> [status: ItemStates, attempts: Nat]]
      /\ \A i \in Items : /\ item'[i].attempts = item[i].attempts
                          /\ i # adder.item => item'[i] = item[i]
  <2>1. PICK k \in Items : k = adder.item
    BY <1>0
  <2>2. {k} \in SUBSET Items /\ to \in ItemStates /\ Set({k}, to)
    BY <2>1 DEF ItemStates, Active
  <2>3. /\ item' \in [Items -> [status: ItemStates, attempts: Nat]]
        /\ \A i \in Items : /\ item'[i].attempts = item[i].attempts
                            /\ i \notin {k} => item'[i] = item[i]
    BY <1>0, <2>2, SetFacts
  <2> QED
    BY <2>1, <2>3
<1>3. AddsTypeOK'
  BY <1>0, <1>1, <1>2 DEF AddsTypeOK
<1>4. \A i \in Items : item'[i].status \in Active => item[i].status \in Active \/ BeforeCall(i)
  <2>1. BeforeCall(adder.item)
    OBVIOUS
  <2> SUFFICES ASSUME NEW i \in Items, i # adder.item
               PROVE  item'[i].status \in Active => item[i].status \in Active
    BY <2>1
  <2> QED
    BY <1>2
<1>5. AllowanceInv'
  BY <1>0, <1>1, <1>2, <1>3, <1>4, Leaving
<1>6. StopInv'
  BY <1>1, StopKept DEF Stopped
<1> QED
  BY <1>3, <1>5, <1>6 DEF AddsIInv

(* The steps on the way to the call.                                       *)
LEMMA BeforeTheCallKeepsAddsIInv ==
  ASSUME AddsIInv, Defer \/ ReadKillSwitch \/ Gate \/ StartJob
  PROVE  AddsIInv'
<1>0. /\ AddsTypeOK /\ adder # Idle /\ adder.pc \in {"switch", "gate", "start"}
      /\ BeforeCall(adder.item)
  BY DEF AddsIInv, Defer, ReadKillSwitch, Gate, StartJob, AdderAt, Idle, BeforeCall
<1>1. CASE Defer
  BY <1>0, <1>1, PuttingAway DEF Defer, Idle
<1>2. CASE /\ ReadKillSwitch \/ Gate
           /\ Set({adder.item}, "CANCELLED") /\ (Goto("markStopped") \/ Goto("settled"))
  <2>1. UNCHANGED <<job, checker, request, automation, member, asked, faults, addsHistory>>
    BY <1>2 DEF ReadKillSwitch, Gate
  <2>2. PICK pc \in {"markStopped", "settled"} : Goto(pc)
    BY <1>2
  <2>3. adder' \in Adding /\ adder'.pc = pc
    BY <1>0, <2>2, GotoFacts
  <2> QED
    BY <1>0, <1>2, <2>1, <2>3, PuttingAway
<1>3. CASE /\ ReadKillSwitch \/ Gate
           /\ item' = item
           /\ Goto("gate") \/ (Goto("start") /\ ~Stopped)
  <2>1. UNCHANGED <<job, item, checker, request, automation, member, asked, faults, addCalls,
                    allowed, lateAdds, firm>>
    BY <1>3 DEF ReadKillSwitch, Gate, addsHistory
  <2>2. /\ adder' \in Adding /\ adder'.item = adder.item /\ adder'.seen = adder.seen
        /\ adder'.pc = "gate" \/ (adder'.pc = "start" /\ ~Stopped)
    BY <1>0, <1>3, GotoFacts
  <2>3. AddsTypeOK'
    BY <1>0, <2>1, <2>2 DEF AddsTypeOK
  <2>4. StopInv'
    BY <2>1, <2>2, StopKept DEF Stopped
  <2> QED
    BY <1>0, <2>1, <2>2, <2>3, <2>4, GoingOn DEF AddsIInv
<1>4. CASE StartJob
  <2>1. /\ UNCHANGED <<item, checker, request, automation, member, asked, faults, addCalls,
                       allowed, lateAdds, firm>>
        /\ adder.pc = "start"
    BY <1>4 DEF StartJob, AdderAt, addsHistory
  <2>2. /\ adder' \in Adding /\ adder'.item = adder.item /\ adder'.seen = adder.seen
        /\ adder'.pc = "add"
    BY <1>0, <1>4, GotoFacts DEF StartJob
  <2>3. job' \in [status: JobStates, started: BOOLEAN, completed: BOOLEAN] /\ (Stopped' => Stopped)
    <3>1. CASE job' = job
      BY <1>0, <3>1 DEF AddsTypeOK, Stopped
    <3>2. CASE job' = [job EXCEPT !.started = TRUE, !.status = "RUNNING"]
      BY <1>0, <3>2 DEF AddsTypeOK, Stopped, Stops, JobStates
    <3> QED
      BY <1>4, <3>1, <3>2 DEF StartJob
  <2>4. AddsTypeOK'
    BY <1>0, <2>1, <2>2, <2>3 DEF AddsTypeOK
  <2>5. StopInv'
    BY <2>1, <2>2, <2>3, StopKept
  <2> QED
    BY <1>0, <2>1, <2>2, <2>4, <2>5, GoingOn DEF AddsIInv
<1> QED
  BY <1>1, <1>2, <1>3, <1>4 DEF ReadKillSwitch, Gate

(* The end of a tick.                                                      *)
LEMMA SettledTickKeepsAddsIInv ==
  ASSUME AddsIInv, MarkStopped \/ LookAtJob \/ CountItems \/ CompleteJob
  PROVE  AddsIInv'
<1>0. /\ AddsTypeOK /\ adder # Idle
      /\ adder.pc \in {"markStopped", "settled", "count", "complete"}
  BY DEF AddsIInv, MarkStopped, LookAtJob, CountItems, CompleteJob, AdderAt, Idle
<1>1. UNCHANGED <<item, checker, request, automation, member, asked, faults, addCalls, allowed>>
  BY DEF MarkStopped, LookAtJob, CountItems, CompleteJob, addsHistory, database
<1>2. adder' \in Adding \cup {Idle} /\ adder'.pc \in {"idle", "settled", "count", "complete"}
  <2>1. CASE adder' = Idle
    BY <2>1 DEF Idle
  <2>2. CASE Goto("settled") \/ Goto("count") \/ Goto("complete")
    BY <1>0, <2>2, GotoFacts
  <2> QED
    BY <2>1, <2>2 DEF MarkStopped, LookAtJob, CountItems, CompleteJob
<1>a. firm' \in BOOLEAN
  <2>1. CASE firm' = firm
    BY <1>0, <2>1 DEF AddsTypeOK
  <2>2. CASE firm' = ~MayBeUndone
    BY <2>2 DEF MayBeUndone
  <2> QED
    BY <2>1, <2>2 DEF MarkStopped, LookAtJob, CountItems, CompleteJob, addsHistory, database, Stop
<1>3. /\ job' \in [status: JobStates, started: BOOLEAN, completed: BOOLEAN]
      /\ \/ (Stopped' => Stopped) /\ lateAdds' = lateAdds
         \/ lateAdds' = 0
  <2>1. CASE job' = job /\ lateAdds' = lateAdds
    BY <1>0, <2>1 DEF AddsTypeOK, Stopped
  <2>2. CASE CompleteJob
    BY <1>0, <2>2 DEF CompleteJob, AddsTypeOK, Stopped, JobStates, Stops, addsHistory
  <2>3. CASE job' = [job EXCEPT !.status = "STOPPED_KILL_SWITCH"] /\ lateAdds' = 0
    BY <1>0, <2>3 DEF AddsTypeOK, JobStates, Stops
  <2> QED
    BY <2>1, <2>2, <2>3 DEF MarkStopped, LookAtJob, CountItems, addsHistory, database, Stop
<1>4. AddsTypeOK'
  <2>1. lateAdds' \in Nat /\ firm' \in BOOLEAN
    BY <1>0, <1>3, <1>a DEF AddsTypeOK
  <2> QED
    BY <1>0, <1>1, <1>2, <1>3, <2>1 DEF AddsTypeOK
<1>5. AllowanceInv'
  BY <1>0, <1>1, <1>2, <1>4, Leaving
<1>6. StopInv'
  <2>1. CASE lateAdds' = 0
    BY <2>1 DEF StopInv
  <2>2. CASE (Stopped' => Stopped) /\ lateAdds' = lateAdds
    BY <1>2, <2>2, StopKept
  <2> QED
    BY <1>3, <2>1, <2>2
<1> QED
  BY <1>4, <1>5, <1>6 DEF AddsIInv

(* No call is made: the item is done for, and its budget is no larger.     *)
LEMMA NotToAddKeepsAddsIInv ==
  ASSUME AddsIInv, NEW status, NotToAdd(status)
  PROVE  AddsIInv'
<1>a. AddsTypeOK /\ adder # Idle /\ adder.pc = "add"
  BY DEF AddsIInv, NotToAdd, AdderAt, Idle
<1>b. PICK k \in Items : k = adder.item
  BY <1>a, InHand
<1>0. AddsTypeOK /\ adder # Idle /\ adder.pc = "add" /\ adder.item = k /\ BeforeCall(k)
  BY <1>a, <1>b DEF BeforeCall
<1>1. UNCHANGED <<job, checker, request, automation, member, asked, faults, addCalls, allowed,
                  lateAdds, firm>>
  BY DEF NotToAdd, addsHistory
<1>2. adder' \in Adding /\ adder'.pc = "settled"
  BY <1>0, GotoFacts DEF NotToAdd
<1>3. PICK n \in {item[k].attempts, item[k].attempts + 1} :
        item' = [item EXCEPT ![k] = [status |-> status, attempts |-> n]]
  BY <1>0 DEF NotToAdd, AddsTypeOK
<1>4. /\ status \in ItemStates /\ status \notin Active
      /\ n \in Nat /\ n >= item[k].attempts
  BY <1>0 DEF NotToAdd, ItemStates, Active, AddsTypeOK
<1>5. /\ item' \in [Items -> [status: ItemStates, attempts: Nat]]
      /\ item'[k].attempts = n /\ item'[k].status = status
      /\ \A i \in Items \ {k} : item'[i] = item[i]
  BY <1>0, <1>3, <1>4 DEF AddsTypeOK
<1>6. AddsTypeOK'
  BY <1>0, <1>1, <1>2, <1>5 DEF AddsTypeOK
<1>7. AllowanceInv'
  <2> SUFFICES ASSUME NEW i \in Items
               PROVE  /\ addCalls'[i] + StillDue(i)' <= allowed'[i] + faults'
                      /\ BeforeCall(i)' \/ Uncounted(i)' => item'[i].attempts <= adder'.seen
    BY DEF AllowanceInv
  <2>1. ~BeforeCall(i)' /\ ~Uncounted(i)' /\ ~Uncounted(i)
    BY <1>0, <1>2 DEF BeforeCall, Uncounted
  <2>2. CASE i # k
    BY <1>1, <1>5, <1>6, <2>1, <2>2, SteadyItem
  <2>3. CASE i = k
    <3>1. StillDue(k)' <= StillDue(k)
      <4>1. item'[k].status \notin Active /\ ~Uncounted(k)' /\ ~BeforeCall(k)' /\ ~Uncounted(k)
        BY <1>4, <1>5, <2>1, <2>3
      <4>2. StillDue(k) = IF AddMaxAttempts - item[k].attempts > 1
                          THEN AddMaxAttempts - item[k].attempts ELSE 1
        BY <1>0, <4>1, Due
      <4>3. StillDue(k)' = IF AddMaxAttempts - item'[k].attempts > 0
                           THEN AddMaxAttempts - item'[k].attempts ELSE 0
        BY <1>6, <4>1, DueAfter
      <4>4. item[k].attempts \in Nat /\ item'[k].attempts >= item[k].attempts
            /\ item'[k].attempts \in Nat
        BY <1>0, <1>4, <1>5, Due
      <4> QED
        BY <4>2, <4>3, <4>4, ParticipantAddsConstants
    <3>2. /\ StillDue(k) \in Nat /\ StillDue(k)' \in Nat /\ addCalls[k] \in Nat
          /\ allowed[k] \in Nat /\ faults \in Nat
      BY <1>0, <1>6, Due, DueAfter
    <3>3. addCalls[k] + StillDue(k) <= allowed[k] + faults
      BY <1>0 DEF AddsIInv, AllowanceInv
    <3> QED
      BY <1>1, <2>1, <2>3, <3>1, <3>2, <3>3
  <2> QED
    BY <2>2, <2>3
<1>8. StopInv'
  BY <1>1, <1>2, StopKept DEF Stopped
<1> QED
  BY <1>6, <1>7, <1>8 DEF AddsIInv

(* A call uses up one of those still due, whether it is counted at once or *)
(* not.                                                                    *)
LEMMA AddKeepsAddsIInv ==
  ASSUME AddsIInv, NEW outcome \in {"done", "lost", "refused"}, Add(outcome)
  PROVE  AddsIInv'
<1>a. AddsTypeOK /\ adder # Idle /\ adder.pc = "add"
  BY DEF AddsIInv, Add, AdderAt, Idle
<1>b. PICK k \in Items : k = adder.item
  BY <1>a, InHand
<1>0. /\ AddsTypeOK /\ adder # Idle /\ adder.pc = "add" /\ adder.item = k
      /\ BeforeCall(k) /\ item[k].attempts <= adder.seen
  BY <1>a, <1>b DEF AddsIInv, AllowanceInv, BeforeCall
<1>1. UNCHANGED <<job, checker, request, automation, asked, faults, allowed, firm>>
  BY DEF Add
<1>2. /\ addCalls' \in [Items -> Nat] /\ addCalls'[k] = addCalls[k] + 1
      /\ \A i \in Items \ {k} : addCalls'[i] = addCalls[i]
  BY <1>0 DEF Add, AddsTypeOK
<1>3. /\ lateAdds' \in Nat /\ lateAdds' <= 1
      /\ member' \in [Items -> BOOLEAN]
  <2>1. lateAdds' \in Nat /\ lateAdds' <= 1
    BY <1>0 DEF Add, AddsIInv, StopInv, AddsTypeOK
  <2>2. member' \in [Items -> BOOLEAN]
    BY <1>0 DEF Add, AddsTypeOK
  <2> QED
    BY <2>1, <2>2
<1>4. /\ adder' \in Adding /\ adder'.item = k /\ adder'.seen = adder.seen
      /\ item' \in [Items -> [status: ItemStates, attempts: Nat]]
      /\ \A i \in Items \ {k} : item'[i] = item[i]
      /\ \/ /\ adder'.pc = "settled" /\ item'[k].status = "ADDED"
            /\ item'[k].attempts = item[k].attempts + 1
         \/ adder'.pc = "refused" /\ item'[k] = item[k]
  <2>1. CASE outcome = "done"
    <3>1. /\ item' = [item EXCEPT ![k] =
                       [status |-> "ADDED", attempts |-> item[k].attempts + 1]]
          /\ Goto("settled")
      BY <1>0, <2>1 DEF Add, AddsTypeOK
    <3>2. [status |-> "ADDED", attempts |-> item[k].attempts + 1]
            \in [status: ItemStates, attempts: Nat]
      BY <1>0 DEF ItemStates, AddsTypeOK
    <3> QED
      BY <1>0, <3>1, <3>2, GotoFacts DEF AddsTypeOK
  <2>2. CASE outcome # "done"
    BY <1>0, <2>2, GotoFacts DEF Add, AddsTypeOK
  <2> QED
    BY <2>1, <2>2
<1>5. AddsTypeOK'
  BY <1>0, <1>1, <1>2, <1>3, <1>4 DEF AddsTypeOK
<1>6. AllowanceInv'
  <2> SUFFICES ASSUME NEW i \in Items
               PROVE  /\ addCalls'[i] + StillDue(i)' <= allowed'[i] + faults'
                      /\ BeforeCall(i)' \/ Uncounted(i)' => item'[i].attempts <= adder'.seen
    BY DEF AllowanceInv
  <2>0. ~BeforeCall(i)' /\ ~Uncounted(i) /\ (Uncounted(i)' => i = k /\ adder'.pc = "refused")
    BY <1>0, <1>4 DEF BeforeCall, Uncounted
  <2>1. Uncounted(i)' => item'[i].attempts <= adder'.seen
    BY <1>0, <1>4, <2>0
  <2>2. CASE i # k
    BY <1>1, <1>2, <1>4, <1>5, <2>0, <2>2, SteadyItem
  <2>3. CASE i = k
    <3>1. StillDue(k)' + 1 <= StillDue(k)
      <4>1. CASE adder'.pc = "settled"
        <5>1. item'[k].status \notin Active /\ ~Uncounted(k)' /\ ~BeforeCall(k)'
          BY <1>4, <4>1, <2>0, <2>3 DEF Active
        <5>2. StillDue(k) = IF AddMaxAttempts - item[k].attempts > 1
                            THEN AddMaxAttempts - item[k].attempts ELSE 1
          BY <1>0, <2>0, <2>3, Due
        <5>3. StillDue(k)' = IF AddMaxAttempts - item'[k].attempts > 0
                             THEN AddMaxAttempts - item'[k].attempts ELSE 0
          BY <1>5, <5>1, DueAfter
        <5>4. item[k].attempts \in Nat /\ item'[k].attempts = item[k].attempts + 1
          BY <1>0, <1>4, <4>1, Due
        <5> QED
          BY <5>2, <5>3, <5>4, ParticipantAddsConstants
      <4>2. CASE adder'.pc = "refused"
        <5>1. Uncounted(k)'
          BY <1>4, <4>2 DEF Uncounted
        <5> QED
          BY <1>0, <1>4, <1>5, <2>0, <2>3, <4>2, <5>1, Due, DueAfter
      <4> QED
        BY <1>4, <4>1, <4>2
    <3>2. /\ StillDue(k) \in Nat /\ StillDue(k)' \in Nat /\ addCalls[k] \in Nat
          /\ allowed[k] \in Nat /\ faults \in Nat
      BY <1>0, <1>5, Due, DueAfter
    <3>3. addCalls[k] + StillDue(k) <= allowed[k] + faults
      BY <1>0 DEF AddsIInv, AllowanceInv
    <3> QED
      BY <1>1, <1>2, <2>0, <2>1, <2>3, <3>1, <3>2, <3>3
  <2> QED
    BY <2>2, <2>3, <2>0, <2>1
<1>7. StopInv'
  BY <1>3, <1>4 DEF StopInv
<1> QED
  BY <1>5, <1>6, <1>7 DEF AddsIInv

(* Counting the call: what is still due stays, or the item is done for.    *)
LEMMA AddRefusedKeepsAddsIInv ==
  ASSUME AddsIInv, AddRefused
  PROVE  AddsIInv'
<1>a. AddsTypeOK /\ adder # Idle /\ adder.pc = "refused"
  BY DEF AddsIInv, AddRefused, AdderAt, Idle
<1>b. PICK k \in Items : k = adder.item
  BY <1>a, InHand
<1>0. /\ AddsTypeOK /\ adder # Idle /\ adder.pc = "refused" /\ adder.item = k
      /\ Uncounted(k) /\ item[k].attempts <= adder.seen
      /\ adder.seen \in Nat /\ item[k].attempts \in Nat
  BY <1>a, <1>b, InHand DEF AddsIInv, AllowanceInv, Uncounted, AddsTypeOK
<1>1. UNCHANGED <<job, checker, request, automation, member, asked, faults, addCalls, allowed,
                  lateAdds, firm>>
  BY DEF AddRefused, addsHistory
<1> DEFINE n == adder.seen + 1
<1>2. PICK s \in {"SKIPPED_ALREADY_MEMBER", "PENDING", "FAILED"} :
        /\ item' = [item EXCEPT ![k] = [status |-> s, attempts |-> n]]
        /\ s = "PENDING" => n < AddMaxAttempts
        /\ s = "FAILED" => n >= AddMaxAttempts
        /\ adder' = Idle \/ Goto("settled")
  <2>1. PICK s \in IF member[k] THEN {"SKIPPED_ALREADY_MEMBER", "PENDING"} ELSE {"PENDING"} :
          /\ item' = [item EXCEPT ![k] =
               [status |-> IF s = "PENDING" /\ n >= AddMaxAttempts THEN "FAILED" ELSE s,
                attempts |-> n]]
          /\ adder' = Idle \/ Goto("settled")
    BY <1>0 DEF AddRefused
  <2>2. CASE s = "PENDING" /\ n >= AddMaxAttempts
    BY <2>1, <2>2
  <2>3. CASE ~(s = "PENDING" /\ n >= AddMaxAttempts)
    <3>1. s = "PENDING" => n < AddMaxAttempts
      BY <1>0, <2>3, ParticipantAddsConstants
    <3> QED
      BY <2>1, <2>3, <3>1
  <2> QED
    BY <2>2, <2>3
<1>3. adder' \in Adding \cup {Idle} /\ adder'.pc \in {"idle", "settled"}
  BY <1>0, <1>2, GotoFacts DEF Idle
<1>4. /\ item' \in [Items -> [status: ItemStates, attempts: Nat]]
      /\ item'[k].attempts = n /\ item'[k].status = s
      /\ \A i \in Items \ {k} : item'[i] = item[i]
  <2>1. [status |-> s, attempts |-> n] \in [status: ItemStates, attempts: Nat]
    BY <1>0 DEF ItemStates, Active
  <2> QED
    BY <1>0, <1>2, <2>1 DEF AddsTypeOK
<1>5. AddsTypeOK'
  BY <1>0, <1>1, <1>3, <1>4 DEF AddsTypeOK
<1>6. AllowanceInv'
  <2> SUFFICES ASSUME NEW i \in Items
               PROVE  /\ addCalls'[i] + StillDue(i)' <= allowed'[i] + faults'
                      /\ BeforeCall(i)' \/ Uncounted(i)' => item'[i].attempts <= adder'.seen
    BY DEF AllowanceInv
  <2>1. ~BeforeCall(i)' /\ ~Uncounted(i)' /\ ~BeforeCall(i) /\ (Uncounted(i) => i = k)
    BY <1>0, <1>3 DEF BeforeCall, Uncounted
  <2>2. CASE i # k
    BY <1>1, <1>4, <1>5, <2>1, <2>2, SteadyItem
  <2>3. CASE i = k
    <3>1. StillDue(k)' <= StillDue(k)
      <4>1. StillDue(k) = IF AddMaxAttempts - item[k].attempts > 1
                          THEN AddMaxAttempts - item[k].attempts - 1 ELSE 0
        BY <1>0, Due
      <4>2. n >= item[k].attempts + 1 /\ n \in Nat
        BY <1>0
      <4>3. CASE s = "PENDING"
        <5>1. StillDue(k)' = IF AddMaxAttempts - n > 1 THEN AddMaxAttempts - n ELSE 1
          BY <1>4, <1>5, <2>1, <2>3, <4>3, DueAfter DEF Active
        <5> HIDE DEF n
        <5> QED
          BY <1>0, <1>2, <4>1, <4>2, <4>3, <5>1, ParticipantAddsConstants
      <4>4. CASE s # "PENDING"
        <5>1. item'[k].status \notin Active
          BY <1>4, <4>4 DEF Active
        <5>2. StillDue(k)' = IF AddMaxAttempts - n > 0 THEN AddMaxAttempts - n ELSE 0
          BY <1>4, <1>5, <2>1, <2>3, <5>1, DueAfter
        <5> HIDE DEF n
        <5> QED
          BY <1>0, <4>1, <4>2, <5>2, ParticipantAddsConstants
      <4> QED
        BY <4>3, <4>4
    <3>2. /\ StillDue(k) \in Nat /\ StillDue(k)' \in Nat /\ addCalls[k] \in Nat
          /\ allowed[k] \in Nat /\ faults \in Nat
      BY <1>0, <1>5, Due, DueAfter
    <3>3. addCalls[k] + StillDue(k) <= allowed[k] + faults
      BY <1>0 DEF AddsIInv, AllowanceInv
    <3> QED
      BY <1>1, <2>1, <2>3, <3>1, <3>2, <3>3
  <2> QED
    BY <2>2, <2>3
<1>7. StopInv'
  BY <1>1, <1>3, StopKept DEF Stopped
<1> QED
  BY <1>5, <1>6, <1>7 DEF AddsIInv

----------------------------------------------------------------------------
(* A crash may forget one call: it is the only step that makes an item due *)
(* more without anybody allowing it.                                       *)
LEMMA LoopsDieKeepsAddsIInv ==
  ASSUME AddsIInv, LoopsDie
  PROVE  AddsIInv'
<1>0. AddsTypeOK
  BY DEF AddsIInv
<1>1. /\ UNCHANGED <<job, item, request, automation, member, asked, addCalls, allowed,
                     lateAdds, firm>>
      /\ adder' = Idle /\ checker' = Idle /\ faults < MaxFaults /\ faults' = faults + 1
  BY DEF LoopsDie, database, addsHistory
<1>2. AddsTypeOK'
  BY <1>0, <1>1, ParticipantAddsConstants DEF AddsTypeOK
<1>3. AllowanceInv'
  <2> SUFFICES ASSUME NEW i \in Items
               PROVE  /\ addCalls'[i] + StillDue(i)' <= allowed'[i] + faults'
                      /\ BeforeCall(i)' \/ Uncounted(i)' => item'[i].attempts <= adder'.seen
    BY DEF AllowanceInv
  <2>1. ~BeforeCall(i)' /\ ~Uncounted(i)'
    BY <1>1 DEF BeforeCall, Uncounted, Idle
  <2>2. addCalls[i] + StillDue(i) <= allowed[i] + faults
    BY DEF AddsIInv, AllowanceInv
  <2>3. StillDue(i)' <= StillDue(i) + 1
    <3>1. AddMaxAttempts - item[i].attempts \in Int /\ item'[i] = item[i]
      BY <1>0, <1>1, Due
    <3>2. CASE item[i].status \in Active
      BY <1>0, <1>2, <2>1, <3>1, <3>2, Due, DueAfter
    <3>3. CASE item[i].status \notin Active
      BY <1>0, <1>2, <2>1, <3>1, <3>3, Due, DueAfter
    <3> QED
      BY <3>2, <3>3
  <2>4. /\ StillDue(i) \in Nat /\ StillDue(i)' \in Nat /\ addCalls[i] \in Nat
        /\ allowed[i] \in Nat /\ faults \in Nat
    BY <1>0, <1>2, Due, DueAfter
  <2> QED
    BY <1>1, <2>1, <2>2, <2>3, <2>4
<1>4. StopInv'
  BY <1>1, StopKept DEF Stopped, Idle
<1> QED
  BY <1>2, <1>3, <1>4 DEF AddsIInv

LEMMA OthersKeepAddsIInv ==
  ASSUME AddsIInv, TurnKillSwitch \/ \E k \in Items : RecoverStuck(k)
  PROVE  AddsIInv'
<1>0. AddsTypeOK
  BY DEF AddsIInv
<1>1. CASE TurnKillSwitch
  <2>1. UNCHANGED <<job, item, adder, checker, request, member, faults, addCalls, allowed,
                    lateAdds, firm>>
    BY <1>1 DEF TurnKillSwitch, database, loops, addsHistory
  <2>2. AddsTypeOK'
    BY <1>0, <1>1, <2>1, ParticipantAddsConstants DEF TurnKillSwitch, AddsTypeOK
  <2>3. StopInv'
    BY <2>1, StopKept DEF Stopped
  <2> QED
    BY <2>1, <2>2, <2>3, Bystander DEF AddsIInv
<1>2. ASSUME NEW k \in Items, RecoverStuck(k)
      PROVE  AddsIInv'
  <2>1. UNCHANGED <<job, adder, checker, request, automation, member, asked, faults, addCalls,
                    allowed, lateAdds, firm>>
    BY <1>2 DEF RecoverStuck, loops, addsHistory
  <2>2. PICK to \in {"PENDING_CHECK", "PENDING"} :
          Set({k}, to) /\ (to = "PENDING" => item[k].status = "PROCESSING")
    BY <1>2 DEF RecoverStuck
  <2>3. /\ item' \in [Items -> [status: ItemStates, attempts: Nat]]
        /\ \A i \in Items : /\ item'[i].attempts = item[i].attempts
                            /\ i \in {k} => item'[i].status = to
                            /\ i \notin {k} => item'[i] = item[i]
    <3>1. {k} \in SUBSET Items /\ to \in ItemStates
      BY DEF ItemStates, Active, ToCheck
    <3> QED
      BY <1>0, <2>2, <3>1, SetFacts
  <2>4. \A i \in Items : item'[i].status \in Active => item[i].status \in Active
    BY <2>2, <2>3 DEF Active
  <2>5. AddsTypeOK'
    BY <1>0, <2>1, <2>3 DEF AddsTypeOK
  <2>6. StopInv'
    BY <2>1, StopKept DEF Stopped
  <2> QED
    BY <2>1, <2>3, <2>4, <2>5, <2>6, Bystander DEF AddsIInv
<1> QED
  BY <1>1, <1>2

LEMMA NextKeepsAddsIInv == AddsIInv /\ [AddsNext]_addsVars => AddsIInv'
<1> SUFFICES ASSUME AddsIInv, [AddsNext]_addsVars PROVE AddsIInv'
  OBVIOUS
<1>1. CASE CheckLoop
  BY <1>1, CheckLoopKeepsAddsIInv
<1>2. CASE AddLoop
  BY <1>2, ClaimItemKeepsAddsIInv, BeforeTheCallKeepsAddsIInv, SettledTickKeepsAddsIInv,
    NotToAddKeepsAddsIInv, AddKeepsAddsIInv, AddRefusedKeepsAddsIInv DEF AddLoop
<1>3. ASSUME NEW d \in Dashboards, AddsRequest(d) PROVE AddsIInv'
  BY <1>3, JobRequestsKeepAddsIInv, RemovalsKeepAddsIInv, ConfirmItemKeepsAddsIInv,
    StartingOverKeepsAddsIInv DEF AddsRequest
<1>4. CASE LoopsDie
  BY <1>4, LoopsDieKeepsAddsIInv
<1>5. CASE TurnKillSwitch \/ \E k \in Items : RecoverStuck(k)
  BY <1>5, OthersKeepAddsIInv
<1>6. CASE UNCHANGED addsVars
  <2>1. UNCHANGED <<job, item, adder, checker, request, automation, member, asked, faults,
                    addCalls, allowed, lateAdds, firm>>
    BY <1>6 DEF addsVars, addsHistory
  <2>2. AddsTypeOK'
    BY <2>1 DEF AddsIInv, AddsTypeOK
  <2>3. StopInv'
    BY <2>1, StopKept DEF Stopped
  <2> QED
    BY <2>1, <2>2, <2>3, Bystander DEF AddsIInv
<1> QED
  BY <1>1, <1>2, <1>3, <1>4, <1>5, <1>6 DEF AddsNext

(* The inductive invariant holds in every reachable state: what each loop  *)
(* and each request may rely on between its steps.                         *)
THEOREM AddsInvariant == AddsSpec => []AddsIInv
BY InitIInv, NextKeepsAddsIInv, PTL DEF AddsSpec

(* Job, items, loops and requests stay what their columns and fields allow.*)
THEOREM AddsTypeCorrect == AddsSpec => []AddsTypeOK
<1>1. AddsIInv => AddsTypeOK
  BY DEF AddsIInv
<1> QED
  BY <1>1, AddsInvariant, PTL

(* WhatsApp is asked to add an item no more often than people and crashes  *)
(* account for (groupParticipantAddProcessor.ts:135-356).                  *)
THEOREM AddsStayWithinAllowance == AddsSpec => []AttemptsWithinAllowance
<1>1. AddsIInv => AttemptsWithinAllowance
  <2> SUFFICES ASSUME AddsIInv, NEW i \in Items PROVE addCalls[i] <= allowed[i] + faults
    BY DEF AttemptsWithinAllowance
  <2>1. addCalls[i] + StillDue(i) <= allowed[i] + faults
    BY DEF AddsIInv, AllowanceInv
  <2>2. /\ StillDue(i) \in Nat /\ addCalls[i] \in Nat /\ allowed[i] \in Nat /\ faults \in Nat
    BY Due DEF AddsIInv
  <2> QED
    BY <2>1, <2>2
<1> QED
  BY <1>1, AddsInvariant, PTL

----------------------------------------------------------------------------
(* A stop made when nothing was about to undo it.                          *)

(* The moves that keep it so.                                              *)
LEMMA FirmKept ==
  ASSUME AddsTypeOK, Stopped, ~MayBeUndone, job'.started = job.started, Stopped',
         adder'.pc \in {"count", "complete"} => adder.pc \in {"count", "complete"},
         \A d \in Dashboards : \/ request'[d].act = request[d].act
                               \/ request'[d].act \in {"NONE", "CANCEL_JOB"}
  PROVE  ~MayBeUndone'
  BY DEF MayBeUndone

(* No step of the add loop overwrites it.                                  *)
LEMMA FirmAddLoop ==
  ASSUME AddsTypeOK, AddLoop, Stopped, ~MayBeUndone
  PROVE  (Stopped /\ ~MayBeUndone)'
<1>1. job \in [status: JobStates, started: BOOLEAN, completed: BOOLEAN]
  BY DEF AddsTypeOK
<1>2. request' = request
  BY DEF AddLoop, ClaimItem, Defer, ReadKillSwitch, MarkStopped, Gate, StartJob, NotToAdd, Add,
    AddRefused, LookAtJob, CountItems, CompleteJob
<1>3. job' = job
  BY DEF AddLoop, ClaimItem, Defer, ReadKillSwitch, MarkStopped, Gate, StartJob, NotToAdd, Add,
    AddRefused, LookAtJob, CountItems, CompleteJob, MayBeUndone, AdderAt, database
<1>4. adder'.pc \notin {"count", "complete"}
  <2>1. CASE adder' = Idle
    BY <2>1 DEF Idle
  <2>2. ASSUME NEW i \in Items, ClaimItem(i) PROVE <1>4
    BY <2>2 DEF ClaimItem
  <2>3. CASE /\ adder # Idle
             /\ \/ Goto("gate") \/ Goto("markStopped") \/ Goto("start") \/ Goto("add")
                \/ Goto("settled") \/ Goto("refused")
    BY <2>3, GotoFacts
  <2>4. adder = Idle => \E i \in Items : ClaimItem(i)
    BY DEF AddLoop, Defer, ReadKillSwitch, MarkStopped, Gate, StartJob, NotToAdd, Add,
      AddRefused, LookAtJob, CountItems, CompleteJob, AdderAt, Idle
  <2>5. \/ adder' = Idle \/ Goto("gate") \/ Goto("markStopped") \/ Goto("start") \/ Goto("add")
        \/ Goto("settled") \/ Goto("refused") \/ \E i \in Items : ClaimItem(i)
    BY DEF AddLoop, Defer, ReadKillSwitch, MarkStopped, Gate, StartJob, NotToAdd, Add,
      AddRefused, LookAtJob, CountItems, CompleteJob, AdderAt, MayBeUndone
  <2> QED
    BY <2>1, <2>2, <2>3, <2>4, <2>5
<1> QED
  BY <1>2, <1>3, <1>4, FirmKept DEF Stopped

(* Nor does a request, once the ones that looked at the job before are     *)
(* over, unless it is a re-check.                                          *)
LEMMA FirmRequest ==
  ASSUME AddsTypeOK, NEW d \in Dashboards, AddsRequest(d), ~Recheck(d), Stopped, ~MayBeUndone
  PROVE  (Stopped /\ ~MayBeUndone)'
<1>1. /\ request \in [Dashboards -> Asking \cup {NoRequest}]
      /\ request[d].act \in {"NONE", "CANCEL_JOB"}
  BY DEF AddsTypeOK, MayBeUndone
<1>2. CancelAdds(d) \/ CancelJob(d)
  BY <1>1 DEF AddsRequest, Confirm, ConfirmPick, NothingToConfirm, ConfirmItem, ConfirmRest,
    ConfirmJob, RecheckJob, Retry, RetryItems, Revive, Stopped, Stops
<1>3. adder' = adder /\ job' = job
  BY <1>2 DEF CancelAdds, CancelJob, loops, Stopped
<1>4. \A e \in Dashboards : \/ request'[e].act = request[e].act
                            \/ request'[e].act \in {"NONE", "CANCEL_JOB"}
  BY <1>1, <1>2 DEF CancelAdds, CancelJob, Ask, Proceed, NoRequest
<1> QED
  BY <1>3, <1>4, FirmKept DEF Stopped

LEMMA FirmInductive == AddsIInv /\ FirmInv /\ [AddsNext]_addsVars => FirmInv'
<1> SUFFICES ASSUME AddsIInv, FirmInv, [AddsNext]_addsVars PROVE FirmInv'
  OBVIOUS
<1>1. AddsTypeOK /\ job \in [status: JobStates, started: BOOLEAN, completed: BOOLEAN]
  BY DEF AddsIInv, AddsTypeOK
<1>2. ASSUME NEW d \in Dashboards, Recheck(d) PROVE FirmInv'
  BY <1>2 DEF Recheck, FirmInv
<1>3. ASSUME Stopped, ~MayBeUndone, ~ \E d \in Dashboards : Recheck(d)
      PROVE  (Stopped /\ ~MayBeUndone)'
  <2>1. CASE AddLoop
    BY <1>1, <1>3, <2>1, FirmAddLoop
  <2>2. ASSUME NEW d \in Dashboards, AddsRequest(d) PROVE (Stopped /\ ~MayBeUndone)'
    BY <1>1, <1>3, <2>2, FirmRequest
  <2>3. CASE CheckLoop \/ TurnKillSwitch \/ LoopsDie \/ UNCHANGED addsVars
             \/ \E i \in Items : RecoverStuck(i)
    <3>1. job' = job /\ request' = request /\ adder' \in {adder, Idle}
      BY <1>3, <2>3 DEF CheckLoop, CheckBegins, ClaimChecks, WriteVerdict, SettleCheck,
        TurnKillSwitch, LoopsDie, RecoverStuck, addsVars, database, loops, Stopped, Stops
    <3> QED
      BY <1>1, <1>3, <3>1, FirmKept DEF Stopped, Idle
  <2> QED
    BY <2>1, <2>2, <2>3 DEF AddsNext
(* A step that stops the job changes nothing else that counts here.        *)
<1>4. ASSUME NEW status \in Stops, Stop(status), MarkStopped \/ \E d \in Dashboards : CancelJob(d)
      PROVE  FirmInv'
  <2> SUFFICES ASSUME ~MayBeUndone PROVE (Stopped /\ ~MayBeUndone)'
    BY <1>4 DEF Stop, FirmInv
  <2>1. job'.started = job.started /\ Stopped'
    BY <1>1, <1>4 DEF Stop, Stopped
  <2>2. adder'.pc \notin {"count", "complete"}
    <3>1. CASE adder' = adder
      BY <3>1 DEF MayBeUndone
    <3>2. CASE MarkStopped
      BY <1>1, <3>2, GotoFacts DEF MarkStopped, AdderAt, Idle
    <3> QED
      BY <1>4, <3>1, <3>2 DEF CancelJob, loops
  <2>3. \A e \in Dashboards : \/ request'[e].act = request[e].act
                              \/ request'[e].act \in {"NONE", "CANCEL_JOB"}
    BY <1>1, <1>4 DEF CancelJob, MarkStopped, Proceed, NoRequest, AddsTypeOK
  <2> QED
    BY <2>1, <2>2, <2>3 DEF MayBeUndone
<1>5. CASE firm' = firm /\ ~ \E d \in Dashboards : Recheck(d)
  BY <1>3, <1>5 DEF FirmInv
<1>6. \/ firm' = firm
      \/ \E d \in Dashboards : Recheck(d)
      \/ MarkStopped /\ Stop("STOPPED_KILL_SWITCH")
      \/ \E d \in Dashboards : CancelJob(d) /\ Stop("CANCELLED")
  BY DEF AddsNext, CheckLoop, CheckBegins, ClaimChecks, WriteVerdict, SettleCheck, AddLoop,
    ClaimItem, Defer, ReadKillSwitch, MarkStopped, Gate, StartJob, NotToAdd, Add, AddRefused,
    LookAtJob, CountItems, CompleteJob, AddsRequest, Confirm, ConfirmPick, NothingToConfirm,
    ConfirmItem, ConfirmRest, ConfirmJob, RecheckJob, CancelAdds, CancelJob, Retry, RetryItems,
    Revive, TurnKillSwitch, LoopsDie, RecoverStuck, addsVars, addsHistory
<1> QED
  BY <1>2, <1>4, <1>5, <1>6 DEF Stops

(* While a stop stands at most one add is asked for; and it stands until a *)
(* re-check unless, when it was made, the job's start mark, a completion   *)
(* or a request that had begun was still to come                           *)
(* (groupParticipantAddProcessor.ts:66-96, groupParticipantAddQueue.ts).   *)
THEOREM StoppingLeaksOneAdd == AddsSpec => []StopLeaksOneAdd
<1>1. AddsInit => FirmInv
  BY DEF AddsInit, FirmInv
<1>2. AddsSpec => []FirmInv
  BY <1>1, AddsInvariant, FirmInductive, PTL DEF AddsSpec
<1>3. AddsIInv /\ FirmInv => StopLeaksOneAdd
  BY DEF AddsIInv, StopInv, FirmInv, StopLeaksOneAdd
<1> QED
  BY <1>2, <1>3, AddsInvariant, PTL
=============================================================================
