------------------------ MODULE EscalationCaseProofs ------------------------
(***************************************************************************)
(* Safety of support escalation for any number of cases, recipients and    *)
(* dashboard requests, any ceiling and any number of faults.               *)
(***************************************************************************)
EXTENDS EscalationCase, FiniteSetTheorems, TLAPS

LEMMA InitIInv == CaseInit => CaseIInv
<1> SUFFICES ASSUME CaseInit PROVE CaseIInv
  OBVIOUS
<1>1. NewCase \in CaseRecords
  BY DEF NewCase, CaseRecords, CaseStatuses
<1>2. CaseTypeOK
  <2>1. MaxCaseFaults \in Nat
    BY EscalationConstants
  <2>2. case \in [Cases -> CaseRecords]
    BY <1>1 DEF CaseInit
  <2>3. request \in [Dashboards -> Asked \cup {NoRequest}]
    BY DEF CaseInit
  <2>4. worked \in [Cases -> SUBSET Alerts] /\ rings \in [Cases -> Nat]
    BY DEF CaseInit
  <2>5. fired \subseteq EventKeys /\ caseWorker = NoTick
    BY DEF CaseInit
  <2>6. replying \in BOOLEAN
    BY DEF CaseInit
  <2>7. caseFaults \in 0 .. MaxCaseFaults
    BY <2>1 DEF CaseInit
  <2> QED
    BY <2>2, <2>3, <2>4, <2>5, <2>6, <2>7 DEF CaseTypeOK
<1>3. NoTierSkipped
  BY DEF CaseInit, NoTierSkipped
<1>4. CaseInv
  BY DEF CaseInit, CaseInv, Earned, NewCase, Alerts
<1>5. CaseTickInv /\ RequestInv
  BY DEF CaseInit, CaseTickInv, RequestInv, NoTick, NoRequest
<1>6. CountInv
  <2>1. IsFiniteSet(fired)
    BY FS_EmptySet DEF CaseInit
  <2>2. ASSUME NEW c \in Cases PROVE rings[c] = Cardinality(AlertKeys(c))
    <3>1. AlertKeys(c) = {}
      BY DEF CaseInit, AlertKeys
    <3> QED
      BY <3>1, FS_EmptySet DEF CaseInit
  <2> QED
    BY <2>1, <2>2 DEF CountInv, AlertedOnce
<1> QED
  BY <1>2, <1>3, <1>4, <1>5, <1>6 DEF CaseIInv

(* Nothing is alerted and no tier is begun: a status stays earned when it  *)
(* stays or is earned when it is written.                                  *)
LEMMA Quiet ==
  ASSUME CaseIInv, CaseTypeOK', UNCHANGED <<fired, rings, worked>>,
         \A c \in Cases :
           /\ case'[c].status = case[c].status \/ Earned(case'[c].status, c)
           /\ case'[c].last = case[c].last \/ case'[c].last \notin Alerts,
         caseWorker' = caseWorker \/ caseWorker'.pc \in {"idle", "found", "leased"},
         \A d \in Dashboards :
           \/ request'[d] = request[d]
           \/ request'[d].act # "RESUME"
           \/ request'[d].into = "UNREAD"
  PROVE  CaseIInv'
<1>1. NoTierSkipped' /\ CaseInv'
  BY DEF CaseIInv, NoTierSkipped, CaseInv, Earned
<1>2. CaseTickInv'
  BY DEF CaseIInv, CaseTickInv, Earned
<1>3. RequestInv'
  BY DEF CaseIInv, RequestInv, Earned
<1>4. CountInv'
  BY DEF CaseIInv, CountInv, AlertedOnce, AlertKeys
<1> QED
  BY <1>1, <1>2, <1>3, <1>4 DEF CaseIInv

(* A status that is no rung of the ladder asks for nothing.                *)
LEMMA NoRung ==
  ASSUME NEW s, NEW c,
         s \notin {"WAITING_FOR_HUMAN", "SECOND_ALERT", "MEMBER_ESCALATED",
                   "ADMIN_ESCALATED", "FOLLOW_UP"}
  PROVE  Earned(s, c)
  BY DEF Earned

(* Having worked on a tier earns the status that follows it, and the one   *)
(* resumeCase takes from its event.                                        *)
LEMMA TierEarns ==
  ASSUME CaseIInv, NEW c \in Cases, NEW tier \in worked[c]
  PROVE  Earned(StatusAfter(tier), c) /\ StatusAfter(tier) \in Active
  BY DEF CaseIInv, CaseTypeOK, NoTierSkipped, Alerts, StatusAfter, Earned, Active

LEMMA LastEarns ==
  ASSUME CaseIInv, NEW c \in Cases
  PROVE  Earned(ResumeInto(case[c].last), c) /\ ResumeInto(case[c].last) \in Active
<1>1. CASE case[c].last \in Alerts \ {"ADMIN_NOTIFICATION"}
  BY <1>1, TierEarns DEF ResumeInto, CaseIInv, CaseInv
<1>2. CASE case[c].last = "ADMIN_NOTIFICATION"
  BY <1>2 DEF ResumeInto, CaseIInv, CaseInv, Alerts, Earned, Active
<1>3. CASE case[c].last \notin Alerts
  BY <1>3, NoRung DEF ResumeInto, Alerts, Active
<1> QED
  BY <1>1, <1>2, <1>3

(* One case gets a new record.                                             *)
LEMMA CaseWritten ==
  ASSUME CaseIInv, NEW c \in Cases, NEW n \in CaseRecords, case' = [case EXCEPT ![c] = n]
  PROVE  /\ case' \in [Cases -> CaseRecords]
         /\ case'[c] = n
         /\ \A k \in Cases \ {c} : case'[k] = case[k]
  BY DEF CaseIInv, CaseTypeOK

LEMMA EventWritten ==
  ASSUME NEW k \in CaseRecords, NEW last \in Alerts
  PROVE  /\ [k EXCEPT !.last = last] \in CaseRecords
         /\ [k EXCEPT !.last = last].last = last
         /\ [k EXCEPT !.last = last].status = k.status
  BY DEF CaseRecords

LEMMA RungWritten ==
  ASSUME NEW k \in CaseRecords, NEW status \in CaseStatuses, NEW level \in Nat
  PROVE  /\ [k EXCEPT !.status = status, !.due = FALSE, !.level = level] \in CaseRecords
         /\ [k EXCEPT !.status = status, !.due = FALSE, !.level = level].last = k.last
         /\ [k EXCEPT !.status = status, !.due = FALSE, !.level = level].status = status
  BY DEF CaseRecords

LEMMA RecipientsType ==
  ASSUME NEW tier, NEW member
  PROVE  RecipientsOf(tier, member) \in SUBSET Recipients
  BY DEF RecipientsOf, Recipients

LEMMA LevelType ==
  ASSUME NEW tier, NEW level \in Nat
  PROVE  LevelOf(tier, level) \in Nat
  BY DEF LevelOf

----------------------------------------------------------------------------
LEMMA PipelineKeepsIInv ==
  ASSUME CaseIInv, \/ \E c \in Cases, m \in Members \cup {Nobody} : OpenCase(c, m)
               \/ HumanReply \/ NothingToNote
  PROVE  CaseIInv'
<1>1. ASSUME NEW c \in Cases, NEW m \in Members \cup {Nobody}, OpenCase(c, m) PROVE CaseIInv'
  <2>1. [NewCase EXCEPT !.status = "NEW", !.member = m] \in CaseRecords
    BY DEF NewCase, CaseRecords, CaseStatuses, Active
  <2>2. CaseTypeOK'
    BY <1>1, <2>1 DEF OpenCase, CaseIInv, CaseTypeOK, caseHistory
  <2>3. \A k \in Cases :
          /\ case'[k].status = case[k].status \/ case'[k].status = "NEW"
          /\ case'[k].last = case[k].last \/ case'[k].last = "NONE"
    BY <1>1 DEF OpenCase, NewCase, CaseIInv, CaseTypeOK
  <2> QED
    BY <1>1, <2>2, <2>3, Quiet, NoRung DEF OpenCase, caseHistory, Alerts
<1>2. CASE HumanReply
  <2>1. CaseTypeOK'
    BY <1>2 DEF HumanReply, CaseIInv, CaseTypeOK, CaseRecords, CaseStatuses, Terminal, caseHistory
  <2>2. \A k \in Cases :
          /\ case'[k].status = case[k].status \/ case'[k].status = "HUMAN_REPLIED"
          /\ case'[k].last = case[k].last
    BY <1>2 DEF HumanReply, CaseIInv, CaseTypeOK, CaseRecords
  <2> QED
    BY <1>2, <2>1, <2>2, Quiet, NoRung DEF HumanReply, caseHistory
<1>3. CASE NothingToNote
  <2>1. CaseTypeOK'
    BY <1>3 DEF NothingToNote, CaseIInv, CaseTypeOK, caseHistory
  <2> QED
    BY <1>3, <2>1, Quiet DEF NothingToNote, caseHistory
<1> QED
  BY <1>1, <1>2, <1>3

(* Noting a reply adds a key that is no alert's.                           *)
LEMMA NoteKeepsIInv ==
  ASSUME CaseIInv, NEW c \in Cases, NoteReply(c)
  PROVE  CaseIInv'
<1> DEFINE key == [case |-> c, level |-> case[c].level, type |-> "HUMAN_REPLIED", to |-> "SYSTEM"]
<1>1. key \in EventKeys /\ key.type \notin Alerts /\ key.type # "FOLLOW_UP"
  BY DEF EventKeys, CaseIInv, CaseTypeOK, CaseRecords, Alerts
<1>2. fired' = fired \cup {key}
  BY DEF NoteReply
<1>3. \A k \in Cases :
        /\ case'[k].status = case[k].status
        /\ case'[k].last = case[k].last \/ case'[k].last = "OTHER"
        /\ case'[k] \in CaseRecords
  BY DEF NoteReply, CaseIInv, CaseTypeOK, CaseRecords
<1>4. CaseTypeOK'
  BY <1>1, <1>2, <1>3 DEF NoteReply, CaseIInv, CaseTypeOK, caseHistory
<1>5. CountInv'
  <2>1. IsFiniteSet(fired')
    BY <1>2, FS_AddElement DEF CaseIInv, CountInv
  <2>2. ASSUME NEW k \in Cases PROVE AlertKeys(k)' = AlertKeys(k)
    BY <1>1, <1>2 DEF AlertKeys
  <2> QED
    BY <2>1, <2>2 DEF NoteReply, caseHistory, CaseIInv, CountInv, AlertedOnce
<1>6. NoTierSkipped' /\ CaseTickInv' /\ RequestInv'
  BY DEF NoteReply, caseHistory, CaseIInv, NoTierSkipped, CaseTickInv, RequestInv, Earned
<1>7. CaseInv'
  BY <1>3 DEF NoteReply, caseHistory, CaseIInv, CaseInv, Earned, Alerts
<1> QED
  BY <1>4, <1>5, <1>6, <1>7 DEF CaseIInv

----------------------------------------------------------------------------
(* The tick up to its decision, and its end.                               *)
LEMMA ClaimKeepsIInv ==
  ASSUME CaseIInv, NEW c \in Cases,
         \/ BecomeDue(c) \/ FindDueCase(c) \/ Lease(c) \/ LoseLease(c)
         \/ DeferUnavailable(c) \/ DeferExhausted(c) \/ LeaveAlone(c)
  PROVE  CaseIInv'
<1>1. \/ case' = case
      \/ case' = [case EXCEPT ![c].due = TRUE]
      \/ case' = [case EXCEPT ![c].due = FALSE]
  BY DEF BecomeDue, FindDueCase, Lease, LoseLease, DeferUnavailable, DeferExhausted,
         LeaveAlone, PutOff
<1>2. /\ case' \in [Cases -> CaseRecords]
      /\ \A k \in Cases : case'[k].status = case[k].status /\ case'[k].last = case[k].last
  <2>1. case \in [Cases -> CaseRecords] /\ case[c] \in CaseRecords
    BY DEF CaseIInv, CaseTypeOK
  <2>2. CASE case' = case
    BY <2>1, <2>2
  <2>3. ASSUME NEW due \in BOOLEAN, case' = [case EXCEPT ![c].due = due]
        PROVE  /\ case' \in [Cases -> CaseRecords]
               /\ \A k \in Cases :
                    case'[k].status = case[k].status /\ case'[k].last = case[k].last
    <3> DEFINE n == [case[c] EXCEPT !.due = due]
    <3>1. n \in CaseRecords /\ n.status = case[c].status /\ n.last = case[c].last
      BY <2>1 DEF CaseRecords
    <3>2. case' = [case EXCEPT ![c] = n]
      BY <2>3
    <3> QED
      BY <3>1, <3>2, CaseWritten
  <2> QED
    BY <1>1, <2>2, <2>3
<1>3. \/ caseWorker' = caseWorker
      \/ /\ caseWorker' \in Finds \cup Leases \cup {NoTick}
         /\ caseWorker'.pc \in {"idle", "found", "leased"}
  <2>1. CASE FindDueCase(c)
    BY <2>1 DEF FindDueCase, Finds
  <2>2. CASE Lease(c)
    BY <2>2 DEF Lease, Leases
  <2> QED
    BY <2>1, <2>2 DEF BecomeDue, LoseLease, DeferUnavailable, DeferExhausted, LeaveAlone,
      PutOff, NoTick
<1>4. UNCHANGED <<fired, replying, request, caseFaults, caseHistory>>
  BY DEF BecomeDue, FindDueCase, Lease, LoseLease, DeferUnavailable, DeferExhausted,
         LeaveAlone, PutOff
<1>5. CaseTypeOK'
  BY <1>2, <1>3, <1>4 DEF CaseIInv, CaseTypeOK, caseHistory
<1> QED
  BY <1>2, <1>3, <1>4, <1>5, Quiet DEF caseHistory

LEMMA ReadKeepsIInv ==
  ASSUME CaseIInv, NEW c \in Cases, ReadCase(c)
  PROVE  CaseIInv'
<1>1. /\ caseWorker'.pc = "read" /\ caseWorker'.case = c /\ caseWorker'.status = case[c].status
      /\ caseWorker' \in CaseTicks
  BY RecipientsType DEF ReadCase, CaseTicks, CaseIInv, CaseTypeOK, CaseRecords
<1>2. CaseTypeOK'
  BY <1>1 DEF ReadCase, caseHistory, CaseIInv, CaseTypeOK
<1>3. CaseTickInv'
  BY <1>1 DEF ReadCase, caseHistory, CaseIInv, CaseInv, CaseTickInv, Earned
<1>4. NoTierSkipped' /\ CaseInv' /\ RequestInv' /\ CountInv'
  BY DEF ReadCase, caseHistory, CaseIInv, NoTierSkipped, CaseInv, RequestInv, Earned, CountInv,
    AlertedOnce, AlertKeys
<1> QED
  BY <1>2, <1>3, <1>4 DEF CaseIInv

(* A status that is earned lets the tick work on the next tier.            *)
LEMMA WorkKeepsIInv ==
  ASSUME CaseIInv, NEW c \in Cases, WorkTier(c)
  PROVE  CaseIInv'
<1> DEFINE tier == TierOf(caseWorker.status)
<1>1. /\ caseWorker \in CaseTicks /\ caseWorker.case = c /\ caseWorker.pc = "read"
      /\ Earned(caseWorker.status, c)
  BY DEF WorkTier, CaseAt, CaseIInv, CaseTypeOK, Finds, Leases, NoTick, CaseTickInv
<1>2. tier \in Alerts
  BY DEF TierOf, Alerts
<1>3. /\ worked' \in [Cases -> SUBSET Alerts]
      /\ worked'[c] = worked[c] \cup {tier}
      /\ \A k \in Cases \ {c} : worked'[k] = worked[k]
  BY <1>2 DEF WorkTier, CaseIInv, CaseTypeOK
<1>4. /\ caseWorker' \in CaseTicks /\ caseWorker'.case = c /\ caseWorker'.pc = "firing"
      /\ caseWorker'.status = caseWorker.status /\ caseWorker'.level = caseWorker.level
  BY <1>1 DEF WorkTier, CaseTicks
<1>5. CaseTypeOK'
  BY <1>3, <1>4 DEF WorkTier, CaseIInv, CaseTypeOK
<1>6. \A k \in Cases : \A s : Earned(s, k) => Earned(s, k)'
  BY <1>3 DEF Earned
<1>7. NoTierSkipped'
  <2>1. CASE caseWorker.status = "NEW"
    BY <1>3, <2>1 DEF tier, TierOf, CaseIInv, NoTierSkipped
  <2>2. CASE caseWorker.status = "WAITING_FOR_HUMAN"
    BY <1>1, <1>3, <2>2 DEF tier, TierOf, CaseIInv, NoTierSkipped, Earned
  <2>3. CASE caseWorker.status = "SECOND_ALERT"
    BY <1>1, <1>3, <2>3 DEF tier, TierOf, CaseIInv, NoTierSkipped, Earned
  <2>4. CASE caseWorker.status = "MEMBER_ESCALATED"
    BY <1>1, <1>3, <2>4 DEF tier, TierOf, CaseIInv, NoTierSkipped, Earned
  <2>5. CASE caseWorker.status \in {"ADMIN_ESCALATED", "FOLLOW_UP"}
    BY <1>1, <1>3, <2>5 DEF tier, TierOf, CaseIInv, NoTierSkipped, Earned
  <2> QED
    BY <2>1, <2>2, <2>3, <2>4, <2>5 DEF WorkTier, Active
<1>8. CaseInv'
  BY <1>3, <1>6 DEF WorkTier, CaseIInv, CaseInv
<1>9. CaseTickInv'
  BY <1>1, <1>3, <1>4, <1>6 DEF WorkTier, CaseTickInv
<1>10. RequestInv'
  <2>1. ASSUME NEW d \in Dashboards, request[d].act = "RESUME"
        PROVE  request[d].case \in Cases
    BY <2>1 DEF CaseIInv, CaseTypeOK, Asked, NoRequest
  <2> QED
    BY <1>6, <2>1 DEF WorkTier, CaseIInv, RequestInv
<1>11. CountInv'
  BY DEF WorkTier, CaseIInv, CountInv, AlertedOnce, AlertKeys
<1> QED
  BY <1>5, <1>7, <1>8, <1>9, <1>10, <1>11 DEF CaseIInv

LEMMA MoveOnKeepsIInv ==
  ASSUME CaseIInv, NEW c \in Cases, MoveOn(c)
  PROVE  CaseIInv'
<1> DEFINE tier == TierOf(caseWorker.status)
<1> DEFINE next == StatusAfter(tier)
<1> DEFINE level == LevelOf(tier, caseWorker.level) + 1
<1>1. caseWorker \in CaseTicks /\ caseWorker.case = c /\ tier \in worked[c]
  BY DEF MoveOn, CaseAt, CaseIInv, CaseTypeOK, Finds, Leases, NoTick, CaseTickInv
<1>2. Earned(next, c) /\ next \in Active
  BY <1>1, TierEarns
<1>3. level \in Nat /\ next \in CaseStatuses
  BY <1>1, <1>2, LevelType DEF CaseTicks, CaseStatuses
<1>4. /\ case' \in [Cases -> CaseRecords]
      /\ \A k \in Cases :
           /\ case'[k].last = case[k].last
           /\ case'[k].status = case[k].status \/ (k = c /\ case'[k].status = next)
  <2>1. case' = [case EXCEPT ![c] =
                   [case[c] EXCEPT !.status = next, !.due = FALSE, !.level = level]]
    BY DEF MoveOn
  <2>2. case[c] \in CaseRecords
    BY DEF CaseIInv, CaseTypeOK
  <2> HIDE DEF next, level
  <2> DEFINE n == [case[c] EXCEPT !.status = next, !.due = FALSE, !.level = level]
  <2>3. n \in CaseRecords /\ n.last = case[c].last /\ n.status = next
    BY <1>3, <2>2 DEF CaseRecords
  <2>4. case' = [case EXCEPT ![c] = n]
    BY <2>1
  <2> HIDE DEF n
  <2> QED
    BY <2>3, <2>4, CaseWritten
<1>5. CaseTypeOK'
  BY <1>4 DEF MoveOn, caseHistory, CaseIInv, CaseTypeOK
<1>6. caseWorker'.pc = "idle"
  BY DEF MoveOn, NoTick
<1> QED
  BY <1>2, <1>4, <1>5, <1>6, Quiet DEF MoveOn, caseHistory

----------------------------------------------------------------------------
(* A recipient that is told nothing, or nothing new.                       *)
LEMMA PassOverKeepsIInv ==
  ASSUME CaseIInv, NEW c \in Cases, NEW r \in Recipients, AlreadyAlerted(c, r) \/ Muted(c, r)
  PROVE  CaseIInv'
<1>1. caseWorker \in CaseTicks /\ caseWorker' = [caseWorker EXCEPT !.to = @ \ {r}]
  BY DEF AlreadyAlerted, Muted, Served, CaseAt, CaseIInv, CaseTypeOK, Finds, Leases, NoTick
<1>2. UNCHANGED <<case, fired, replying, request, caseFaults, rings, worked>>
  BY DEF AlreadyAlerted, Muted, caseHistory
<1>3. /\ caseWorker' \in CaseTicks
      /\ caseWorker'.pc = caseWorker.pc /\ caseWorker'.case = caseWorker.case
      /\ caseWorker'.status = caseWorker.status /\ caseWorker'.level = caseWorker.level
  BY <1>1 DEF CaseTicks
<1>4. CaseTypeOK'
  BY <1>2, <1>3 DEF CaseIInv, CaseTypeOK
<1>5. CaseTickInv'
  BY <1>2, <1>3 DEF CaseIInv, CaseTickInv, Earned
<1>6. NoTierSkipped' /\ CaseInv' /\ RequestInv' /\ CountInv'
  BY <1>2 DEF CaseIInv, NoTierSkipped, CaseInv, RequestInv, Earned, CountInv,
    AlertedOnce, AlertKeys
<1> QED
  BY <1>4, <1>5, <1>6 DEF CaseIInv

(* A Notification comes with a key that was not there: both count one more. *)
LEMMA AlertKeepsIInv ==
  ASSUME CaseIInv, NEW c \in Cases, NEW r \in Recipients, RingRecipient(c, r)
  PROVE  CaseIInv'
<1> DEFINE tier == TierOf(caseWorker.status)
<1> DEFINE key == [case |-> c, level |-> LevelOf(tier, caseWorker.level), type |-> tier, to |-> r]
<1>1. /\ caseWorker \in CaseTicks /\ caseWorker.case = c /\ caseWorker.pc = "firing"
      /\ tier \in worked[c] /\ caseWorker.level < MaxEscalations
  BY DEF RingRecipient, CaseAt, CaseIInv, CaseTypeOK, Finds, Leases, NoTick, CaseTickInv
<1>2. tier \in Alerts
  BY <1>1 DEF CaseIInv, CaseTypeOK
<1>3. fired' = fired \cup {key} /\ key \notin fired
  BY DEF RingRecipient, TierKey
<1>4. key \in EventKeys /\ key.case = c /\ key.type \in Alerts
  BY <1>1, <1>2, LevelType DEF EventKeys, CaseTicks
<1>5. /\ caseWorker' \in CaseTicks
      /\ caseWorker'.pc = caseWorker.pc /\ caseWorker'.case = caseWorker.case
      /\ caseWorker'.status = caseWorker.status /\ caseWorker'.level = caseWorker.level
  BY <1>1 DEF RingRecipient, Served, CaseTicks
<1>6. /\ case' \in [Cases -> CaseRecords]
      /\ \A k \in Cases :
           /\ case'[k].status = case[k].status
           /\ case'[k].last = case[k].last \/ (k = c /\ case'[k].last = tier)
  <2> DEFINE n == [case[c] EXCEPT !.last = tier]
  <2>1. case' = [case EXCEPT ![c] = n]
    BY DEF RingRecipient
  <2>2. case[c] \in CaseRecords
    BY DEF CaseIInv, CaseTypeOK
  <2>3. n \in CaseRecords /\ n.last = tier /\ n.status = case[c].status
    BY <1>2, <2>2, EventWritten
  <2> QED
    BY <2>1, <2>3, CaseWritten
<1>7. /\ rings' \in [Cases -> Nat] /\ rings'[c] = rings[c] + 1
      /\ \A k \in Cases \ {c} : rings'[k] = rings[k]
  BY DEF RingRecipient, CaseIInv, CaseTypeOK
<1>8. CaseTypeOK'
  <2>1. fired' \subseteq EventKeys
    BY <1>3, <1>4 DEF CaseIInv, CaseTypeOK
  <2> QED
    BY <2>1, <1>5, <1>6, <1>7 DEF RingRecipient, CaseIInv, CaseTypeOK
<1>9. NoTierSkipped' /\ RequestInv'
  BY DEF RingRecipient, CaseIInv, NoTierSkipped, RequestInv, Earned
<1>10. CaseInv'
  BY <1>1, <1>6 DEF RingRecipient, CaseIInv, CaseInv, Earned
<1>11. CaseTickInv'
  BY <1>5 DEF RingRecipient, CaseIInv, CaseTickInv, Earned
<1>12. IsFiniteSet(fired')
  BY <1>3, FS_AddElement DEF CaseIInv, CountInv
<1>13. AlertedOnce'
  <2>1. AlertKeys(c)' = AlertKeys(c) \cup {key} /\ key \notin AlertKeys(c)
    BY <1>3, <1>4 DEF AlertKeys
  <2>2. IsFiniteSet(AlertKeys(c))
    BY FS_Subset DEF CaseIInv, CountInv, AlertKeys
  <2>3. Cardinality(AlertKeys(c)') = Cardinality(AlertKeys(c)) + 1
    BY <2>1, <2>2, FS_AddElement
  <2>4. \A k \in Cases \ {c} : AlertKeys(k)' = AlertKeys(k)
    BY <1>3, <1>4 DEF AlertKeys
  <2> QED
    BY <1>7, <2>3, <2>4 DEF CaseIInv, CountInv, AlertedOnce
<1> QED
  BY <1>8, <1>9, <1>10, <1>11, <1>12, <1>13 DEF CaseIInv, CountInv

LEMMA TickKeepsIInv ==
  ASSUME CaseIInv, NEW c \in Cases, CaseTick(c)
  PROVE  CaseIInv'
  BY ClaimKeepsIInv, ReadKeepsIInv, WorkKeepsIInv, PassOverKeepsIInv, AlertKeepsIInv,
    MoveOnKeepsIInv DEF CaseTick, Fire

LEMMA CrashKeepsIInv ==
  ASSUME CaseIInv, LoopDies
  PROVE  CaseIInv'
<1>1. caseFaults' \in 0 .. MaxCaseFaults
  BY EscalationConstants DEF LoopDies, CaseIInv, CaseTypeOK
<1>2. replying' \in BOOLEAN /\ caseWorker' = NoTick
  BY DEF LoopDies
<1>3. CaseTypeOK'
  BY <1>1, <1>2 DEF LoopDies, caseHistory, CaseIInv, CaseTypeOK
<1> QED
  BY <1>3, Quiet DEF LoopDies, caseHistory, NoTick

----------------------------------------------------------------------------
(* A request that writes a case: none makes a status that is not earned.   *)
LEMMA WriteKeepsIInv ==
  ASSUME CaseIInv, NEW d \in Dashboards, NEW c \in Cases, NEW n \in CaseRecords,
         case' = [case EXCEPT ![c] = n], Finished(d), caseWorker' = caseWorker \/ Touch(c),
         n.status = case[c].status \/ Earned(n.status, c),
         n.last = case[c].last \/ n.last \notin Alerts,
         UNCHANGED <<fired, replying, caseFaults, caseHistory>>
  PROVE  CaseIInv'
<1>1. /\ case' \in [Cases -> CaseRecords]
      /\ case'[c] = n /\ \A k \in Cases \ {c} : case'[k] = case[k]
  BY CaseWritten
<1>2. \/ caseWorker' = caseWorker
      \/ caseWorker' \in Finds /\ caseWorker'.pc = "found"
  <2>1. SUFFICES ASSUME CaseAt("found", c), caseWorker' = [caseWorker EXCEPT !.moved = TRUE]
                 PROVE  caseWorker' \in Finds /\ caseWorker'.pc = "found"
    BY DEF Touch
  <2>2. caseWorker \in Finds
    BY <2>1 DEF CaseAt, CaseIInv, CaseTypeOK, Leases, CaseTicks, NoTick
  <2> QED
    BY <2>1, <2>2 DEF Finds
<1>3. /\ request' \in [Dashboards -> Asked \cup {NoRequest}]
      /\ \A e \in Dashboards : request'[e] = request[e] \/ request'[e].act # "RESUME"
  <2>1. NoRequest.act # "RESUME"
    BY DEF NoRequest
  <2> QED
    BY <2>1 DEF Finished, CaseIInv, CaseTypeOK
<1>4. CaseTypeOK'
  BY <1>1, <1>2, <1>3 DEF caseHistory, CaseIInv, CaseTypeOK
<1> QED
  BY <1>1, <1>2, <1>3, <1>4, Quiet DEF caseHistory

LEMMA AskKeepsIInv ==
  ASSUME CaseIInv, NEW d \in Dashboards, NEW c \in Cases, Asks(d, c)
  PROVE  CaseIInv'
<1> DEFINE Asks1(asked) ==
             /\ request' = [request EXCEPT ![d] = asked]
             /\ asked.act # "RESUME" \/ asked.into = "UNREAD"
             /\ UNCHANGED <<case, fired, caseWorker, replying, caseFaults, caseHistory>>
<1>1. \E asked \in Asked : Asks1(asked)
  <2>1. ASSUME NEW act \in RequestKinds \ {"RESUME", "REASSIGN"},
               Ask(d, c, [act |-> act, case |-> c])
        PROVE  Asks1([act |-> act, case |-> c]) /\ [act |-> act, case |-> c] \in Asked
    BY <2>1 DEF Ask, Asked
  <2> DEFINE resume == [act |-> "RESUME", case |-> c, into |-> "UNREAD"]
  <2>2. ASSUME Ask(d, c, resume) PROVE Asks1(resume) /\ resume \in Asked
    BY <2>2 DEF Ask, Asked
  <2>3. ASSUME NEW m \in Members \cup {Nobody},
               Ask(d, c, [act |-> "REASSIGN", case |-> c, member |-> m])
        PROVE  /\ Asks1([act |-> "REASSIGN", case |-> c, member |-> m])
               /\ [act |-> "REASSIGN", case |-> c, member |-> m] \in Asked
    BY <2>3 DEF Ask, Asked
  <2> HIDE DEF Asks1
  <2> QED
    BY <2>1, <2>2, <2>3 DEF Asks
<1>2. CaseTypeOK'
  BY <1>1 DEF caseHistory, CaseIInv, CaseTypeOK
<1> QED
  BY <1>1, <1>2, Quiet DEF caseHistory, CaseIInv, CaseTypeOK

LEMMA ReadEventsKeepsIInv ==
  ASSUME CaseIInv, NEW d \in Dashboards, NEW c \in Cases, ReadEvents(d, c)
  PROVE  CaseIInv'
<1> DEFINE into == ResumeInto(case[c].last)
<1>1. Earned(into, c) /\ into \in Active
  BY LastEarns
<1>2. /\ request[d] \in [act: {"RESUME"}, case: Cases, into: Active \cup {"UNREAD"}]
      /\ request[d].case = c
  BY DEF ReadEvents, Pending, CaseIInv, CaseTypeOK, Asked, NoRequest, RequestKinds
<1> DEFINE asked == [request[d] EXCEPT !.into = into]
<1>3. request' = [request EXCEPT ![d] = asked]
  BY DEF ReadEvents
<1>4. asked \in Asked /\ asked.case = c /\ asked.into = into
  BY <1>1, <1>2 DEF Asked
<1>5. /\ request' \in [Dashboards -> Asked \cup {NoRequest}]
      /\ request'[d] = asked /\ \A e \in Dashboards \ {d} : request'[e] = request[e]
  BY <1>3, <1>4 DEF CaseIInv, CaseTypeOK
<1>6. UNCHANGED <<case, fired, caseWorker, replying, caseFaults, rings, worked>>
  BY DEF ReadEvents, caseHistory
<1>7. CaseTypeOK'
  BY <1>5, <1>6 DEF CaseIInv, CaseTypeOK
<1>8. RequestInv'
  BY <1>1, <1>4, <1>5, <1>6 DEF CaseIInv, RequestInv, Earned
<1>9. NoTierSkipped' /\ CaseInv' /\ CaseTickInv' /\ CountInv'
  BY <1>6 DEF CaseIInv, NoTierSkipped, CaseInv, CaseTickInv, Earned, CountInv,
    AlertedOnce, AlertKeys
<1> QED
  BY <1>7, <1>8, <1>9 DEF CaseIInv

LEMMA DashboardKeepsIInv ==
  ASSUME CaseIInv, NEW d \in Dashboards, NEW c \in Cases, Dashboard(d, c)
  PROVE  CaseIInv'
<1> DEFINE k == case[c]
<1>1. k \in CaseRecords
  BY DEF CaseIInv, CaseTypeOK
<1>2. CASE Asks(d, c)
  BY <1>2, AskKeepsIInv
<1>3. CASE ReadEvents(d, c)
  BY <1>3, ReadEventsKeepsIInv
<1>4. CASE PauseCase(d, c)
  <2> DEFINE n == [k EXCEPT !.status = "PAUSED"]
  <2>1. n \in CaseRecords /\ n.status = "PAUSED" /\ n.last = k.last
    BY <1>1 DEF CaseRecords, CaseStatuses
  <2>2. case' = [case EXCEPT ![c] = n]
    BY <1>4 DEF PauseCase
  <2> QED
    BY <1>4, <2>1, <2>2, NoRung, WriteKeepsIInv DEF PauseCase
<1>5. CASE ResumeCase(d, c)
  <2> DEFINE into == request[d].into
  <2>1. into \in Active /\ Earned(into, c)
    BY <1>5
    DEF ResumeCase, Pending, CaseIInv, CaseTypeOK, RequestInv, Asked, NoRequest,
        RequestKinds
  <2> DEFINE n == [k EXCEPT !.status = into, !.due = TRUE]
  <2>2. n \in CaseRecords /\ n.status = into /\ n.last = k.last
    BY <1>1, <2>1 DEF CaseRecords, CaseStatuses
  <2>3. case' = [case EXCEPT ![c] = n]
    BY <1>5 DEF ResumeCase
  <2> QED
    BY <1>5, <2>1, <2>2, <2>3, WriteKeepsIInv DEF ResumeCase
<1>6. CASE EscalateNow(d, c)
  <2> DEFINE n == [k EXCEPT !.due = TRUE, !.last = "OTHER"]
  <2>1. n \in CaseRecords /\ n.status = k.status /\ n.last \notin Alerts
    BY <1>1 DEF CaseRecords, Alerts
  <2>2. case' = [case EXCEPT ![c] = n]
    BY <1>6 DEF EscalateNow
  <2> QED
    BY <1>6, <2>1, <2>2, WriteKeepsIInv DEF EscalateNow
<1>7. CASE ReassignCase(d, c)
  <2> DEFINE n == [k EXCEPT !.member = request[d].member, !.last = "OTHER"]
  <2>1. request[d].member \in Members \cup {Nobody}
    BY <1>7 DEF ReassignCase, Pending, CaseIInv, CaseTypeOK, Asked, NoRequest, RequestKinds
  <2>2. n \in CaseRecords /\ n.status = k.status /\ n.last \notin Alerts
    BY <1>1, <2>1 DEF CaseRecords, Alerts
  <2>3. case' = [case EXCEPT ![c] = n]
    BY <1>7 DEF ReassignCase
  <2> QED
    BY <1>7, <2>2, <2>3, WriteKeepsIInv DEF ReassignCase
<1>8. CASE StopEscalation(d, c)
  <2> DEFINE n == [k EXCEPT !.status = "CANCELLED"]
  <2>1. n \in CaseRecords /\ n.status = "CANCELLED" /\ n.last = k.last
    BY <1>1 DEF CaseRecords, CaseStatuses, Terminal
  <2>2. case' = [case EXCEPT ![c] = n]
    BY <1>8 DEF StopEscalation
  <2> QED
    BY <1>8, <2>1, <2>2, NoRung, WriteKeepsIInv DEF StopEscalation
<1>9. CASE ResetEscalation(d, c)
  <2> DEFINE n == [k EXCEPT !.status = "NEW", !.level = 0, !.due = TRUE, !.last = "OTHER"]
  <2>1. n \in CaseRecords /\ n.status = "NEW" /\ n.last \notin Alerts
    BY <1>1 DEF CaseRecords, CaseStatuses, Active, Alerts
  <2>2. case' = [case EXCEPT ![c] = n]
    BY <1>9 DEF ResetEscalation
  <2> QED
    BY <1>9, <2>1, <2>2, NoRung, WriteKeepsIInv DEF ResetEscalation
<1>10. CASE MarkResolved(d, c)
  <2> DEFINE n == [k EXCEPT !.status = "RESOLVED", !.last = "OTHER"]
  <2>1. n \in CaseRecords /\ n.status = "RESOLVED" /\ n.last \notin Alerts
    BY <1>1 DEF CaseRecords, CaseStatuses, Terminal, Alerts
  <2>2. case' = [case EXCEPT ![c] = n]
    BY <1>10 DEF MarkResolved
  <2> QED
    BY <1>10, <2>1, <2>2, NoRung, WriteKeepsIInv DEF MarkResolved
<1> QED
  BY <1>2, <1>3, <1>4, <1>5, <1>6, <1>7, <1>8, <1>9, <1>10 DEF Dashboard

LEMMA Inductive == CaseIInv /\ [CaseNext]_caseVars => CaseIInv'
<1> SUFFICES ASSUME CaseIInv, [CaseNext]_caseVars PROVE CaseIInv'
  OBVIOUS
<1>1. CASE UNCHANGED caseVars
  <2>1. CaseTypeOK'
    BY <1>1 DEF caseVars, CaseIInv, CaseTypeOK
  <2> QED
    BY <1>1, <2>1, Quiet DEF caseVars
<1>2. CASE \/ \E c \in Cases, m \in Members \cup {Nobody} : OpenCase(c, m)
           \/ HumanReply \/ NothingToNote
  BY <1>2, PipelineKeepsIInv
<1>3. CASE \E c \in Cases : NoteReply(c)
  BY <1>3, NoteKeepsIInv
<1>4. CASE \E c \in Cases : BecomeDue(c) \/ FindDueCase(c) \/ DeferUnavailable(c)
  BY <1>4, ClaimKeepsIInv
<1>5. CASE \E c \in Cases : CaseTick(c)
  BY <1>5, TickKeepsIInv
<1>6. CASE LoopDies
  BY <1>6, CrashKeepsIInv
<1>7. CASE \E d \in Dashboards, c \in Cases : Dashboard(d, c)
  BY <1>7, DashboardKeepsIInv
<1> QED
  BY <1>1, <1>2, <1>3, <1>4, <1>5, <1>6, <1>7 DEF CaseNext

(* The invariant holds in every state of every behaviour.                  *)
THEOREM Invariance == CaseSpec => []CaseIInv
  BY InitIInv, Inductive, PTL DEF CaseSpec

(* Every variable keeps its type, whatever the number of cases.            *)
THEOREM TypeCorrect == CaseSpec => []CaseTypeOK
<1>1. CaseIInv => CaseTypeOK
  BY DEF CaseIInv
<1> QED
  BY <1>1, Invariance, PTL

(* No recipient is sent the same tier of a case twice.                     *)
THEOREM TierOnce == CaseSpec => []AlertedOnce
<1>1. CaseIInv => AlertedOnce
  BY DEF CaseIInv, CountInv
<1> QED
  BY <1>1, Invariance, PTL

(* A case climbs its ladder rung by rung.                                  *)
THEOREM RungByRung == CaseSpec => []NoTierSkipped
<1>1. CaseIInv => NoTierSkipped
  BY DEF CaseIInv
<1> QED
  BY <1>1, Invariance, PTL
============================================================================
