--------------------------- MODULE EscalationCase ---------------------------
(***************************************************************************)
(* The SupportEscalationCases of one chat.  A customer message in a        *)
(* priority group opens a case; a 15-second tick walks it up a ladder of   *)
(* alerts until somebody answers                                           *)
(* (apps/worker/src/escalation/escalationQueue.ts); people pause, resume,  *)
(* hurry, reassign, reset, stop and resolve it                             *)
(* (apps/web/src/server/actions/supportEscalation.ts).  Both sides read    *)
(* the row first and write it later, mostly unconditionally.               *)
(***************************************************************************)
EXTENDS Naturals, FiniteSets

CONSTANTS
  Cases,           \* SupportEscalationCase rows the chat may come to have
  Groups,          \* whatsappNotificationGroupIds
  Members,         \* team members a case may be assigned to
  Admins,          \* the escalation admin, if one is configured
  Nobody,          \* no assigned team member
  Reachable,       \* the members and admins that are active and have a number
  CanMute,         \* whether the Notification Center may mute escalations
  Dashboards,      \* dashboard requests that may run at the same time
  Requests,        \* the kinds of request they make
  MaxEscalations,  \* the policy's ceiling, copied into the case
  MaxCaseFaults    \* bound: crashes and failed ticks in a run

Recipients == Groups \cup Members \cup Admins
RequestKinds ==
  {"PAUSE", "RESUME", "ESCALATE", "REASSIGN", "STOP", "RESET", "RESOLVE"}

ASSUME EscalationConstants ==
  /\ IsFiniteSet(Recipients)
  /\ Nobody \notin Members
  /\ CanMute \in BOOLEAN
  /\ Requests \subseteq RequestKinds
  /\ MaxEscalations \in Nat
  /\ MaxCaseFaults \in Nat

VARIABLES
  case,        \* the columns of each case
  fired,       \* SupportEscalationEvent's unique keys, the manual ones left out
  caseWorker,  \* the tick in progress: memory, lost in a crash
  replying,    \* a markHumanReplied has closed a case and not yet noted it
  request,     \* the dashboard requests in progress
  caseFaults,  \* how many faults have happened
  rings,       \* history: Notification rows created for the case
  worked       \* history: the tiers a tick has worked on

caseVars == <<case, fired, caseWorker, replying, request, caseFaults, rings, worked>>
caseHistory == <<rings, worked>>

----------------------------------------------------------------------------
(* MONITORING is in the enum and in no write of the code; it is left out.  *)
Active == {"NEW", "WAITING_FOR_HUMAN", "SECOND_ALERT", "MEMBER_ESCALATED",
           "ADMIN_ESCALATED", "FOLLOW_UP"}
Terminal == {"HUMAN_REPLIED", "RESOLVED", "CANCELLED"}
CaseStatuses == Active \cup Terminal \cup {"ABSENT", "PAUSED"}
Alerts == {"FIRST_NOTIFICATION", "SECOND_NOTIFICATION", "MEMBER_NOTIFICATION",
           "ADMIN_NOTIFICATION", "FOLLOW_UP"}

(* due: nextCheckAt has passed.  last: the latest event other than PAUSED  *)
(* and RESUMED; OTHER is any that is no alert.                             *)
CaseRecords ==
  [status: CaseStatuses, level: Nat, due: BOOLEAN,
   member: Members \cup {Nobody}, last: Alerts \cup {"NONE", "OTHER"}]
NewCase ==
  [status |-> "ABSENT", level |-> 0, due |-> FALSE,
   member |-> Nobody, last |-> "NONE"]
EventKeys == [case: Cases, level: Nat, type: Alerts \cup {"HUMAN_REPLIED"},
         to: Recipients \cup {"SYSTEM"}]

NoTick == [pc |-> "idle"]
Finds == [pc: {"found"}, case: Cases, moved: BOOLEAN]
Leases == [pc: {"leased"}, case: Cases]
CaseTicks == [pc: {"read", "firing"}, case: Cases, status: CaseStatuses, level: Nat,
              to: SUBSET Recipients]
CaseAt(pc, c) == caseWorker.pc = pc /\ caseWorker.case = c

(* nextCheckAt of c is written: a lease of the value read before fails.    *)
Touch(c) ==
  caseWorker' = IF CaseAt("found", c) THEN [caseWorker EXCEPT !.moved = TRUE] ELSE caseWorker

NoRequest == [act |-> "NONE"]
Asked == [act: RequestKinds \ {"RESUME", "REASSIGN"}, case: Cases]
           \cup [act: {"RESUME"}, case: Cases, into: Active \cup {"UNREAD"}]
           \cup [act: {"REASSIGN"}, case: Cases, member: Members \cup {Nobody}]

(* The ladder: the alert a tick sends in a status, its level, who gets it, *)
(* and the status it leaves behind.  The level then is one higher.         *)
TierOf(status) ==
  CASE status = "NEW" -> "FIRST_NOTIFICATION"
    [] status = "WAITING_FOR_HUMAN" -> "SECOND_NOTIFICATION"
    [] status = "SECOND_ALERT" -> "MEMBER_NOTIFICATION"
    [] status = "MEMBER_ESCALATED" -> "ADMIN_NOTIFICATION"
    [] OTHER -> "FOLLOW_UP"
LevelOf(tier, level) ==
  CASE tier = "FIRST_NOTIFICATION" -> 0
    [] tier = "SECOND_NOTIFICATION" -> 1
    [] tier = "MEMBER_NOTIFICATION" -> 2
    [] tier = "ADMIN_NOTIFICATION" -> 3
    [] OTHER -> level
RecipientsOf(tier, member) ==
  CASE tier \in {"FIRST_NOTIFICATION", "SECOND_NOTIFICATION"} -> Groups
    [] tier = "MEMBER_NOTIFICATION" -> {member} \cap Members \cap Reachable
    [] OTHER -> Admins \cap Reachable
StatusAfter(tier) ==
  CASE tier = "FIRST_NOTIFICATION" -> "WAITING_FOR_HUMAN"
    [] tier = "SECOND_NOTIFICATION" -> "SECOND_ALERT"
    [] tier = "MEMBER_NOTIFICATION" -> "MEMBER_ESCALATED"
    [] tier = "ADMIN_NOTIFICATION" -> "ADMIN_ESCALATED"
    [] OTHER -> "FOLLOW_UP"

(* Mutant: a case resumed after its first alert misses the second one.     *)
ResumeAhead(last) ==
  CASE last = "FIRST_NOTIFICATION" -> "SECOND_ALERT"
    [] last \in Alerts \ {"FIRST_NOTIFICATION", "ADMIN_NOTIFICATION"} -> StatusAfter(last)
    [] last = "ADMIN_NOTIFICATION" -> "FOLLOW_UP"
    [] OTHER -> "NEW"

(* resumeCase: the status is worked out again from the latest event.       *)
ResumeInto(last) ==
  CASE last \in Alerts \ {"ADMIN_NOTIFICATION"} -> StatusAfter(last)
    [] last = "ADMIN_NOTIFICATION" -> "FOLLOW_UP"
    [] OTHER -> "NEW"

CaseInit ==
  /\ case = [c \in Cases |-> NewCase]
  /\ fired = {}
  /\ caseWorker = NoTick
  /\ replying = FALSE
  /\ request = [d \in Dashboards |-> NoRequest]
  /\ caseFaults = 0
  /\ rings = [c \in Cases |-> 0]
  /\ worked = [c \in Cases |-> {}]

----------------------------------------------------------------------------
(* The message pipeline.                                                   *)

(* A customer message.  Under the chat's advisory lock, so one step: it    *)
(* continues the chat's active case if there is one.                       *)
OpenCase(c, m) ==
  /\ \A k \in Cases : case[k].status \notin Active
  /\ case[c].status = "ABSENT"
  /\ case' = [case EXCEPT ![c] = [NewCase EXCEPT !.status = "NEW", !.member = m]]
  /\ UNCHANGED <<fired, caseWorker, replying, request, caseFaults, caseHistory>>

(* A reply by a person, or any outgoing message: every active case of the  *)
(* chat is closed; one closed case then gets an event, unless it has one   *)
(* of that level already.                                                  *)
HumanReply ==
  /\ ~replying
  /\ \E c \in Cases : case[c].status \in Active
  /\ case' = [c \in Cases |->
       IF case[c].status \in Active THEN [case[c] EXCEPT !.status = "HUMAN_REPLIED"]
       ELSE case[c]]
  /\ replying' = TRUE
  /\ UNCHANGED <<fired, caseWorker, request, caseFaults, caseHistory>>

NoteReply(c) ==
  LET key == [case |-> c, level |-> case[c].level, type |-> "HUMAN_REPLIED", to |-> "SYSTEM"] IN
  /\ replying
  /\ case[c].status = "HUMAN_REPLIED"
  /\ case' = IF key \in fired THEN case ELSE [case EXCEPT ![c].last = "OTHER"]
  /\ fired' = fired \cup {key}
  /\ replying' = FALSE
  /\ UNCHANGED <<caseWorker, request, caseFaults, caseHistory>>

NothingToNote ==
  /\ replying
  /\ \A c \in Cases : case[c].status # "HUMAN_REPLIED"
  /\ replying' = FALSE
  /\ UNCHANGED <<case, fired, caseWorker, request, caseFaults, caseHistory>>

----------------------------------------------------------------------------
(* The tick: find, lease, read again, decide, alert, move on.              *)

(* For a case that is not active it makes no difference.                   *)
BecomeDue(c) ==
  /\ case[c].status \in Active
  /\ ~case[c].due
  /\ case' = [case EXCEPT ![c].due = TRUE]
  /\ UNCHANGED <<fired, caseWorker, replying, request, caseFaults, caseHistory>>

FindDueCase(c) ==
  /\ caseWorker.pc = "idle"
  /\ case[c].status \in Active
  /\ case[c].due
  /\ caseWorker' = [pc |-> "found", case |-> c, moved |-> FALSE]
  /\ UNCHANGED <<case, fired, replying, request, caseFaults, caseHistory>>

(* Conditional on nextCheckAt alone: a case closed meanwhile is leased.    *)
Lease(c) ==
  /\ CaseAt("found", c)
  /\ ~caseWorker.moved
  /\ case' = [case EXCEPT ![c].due = FALSE]
  /\ caseWorker' = [pc |-> "leased", case |-> c]
  /\ UNCHANGED <<fired, replying, request, caseFaults, caseHistory>>

LoseLease(c) ==
  /\ CaseAt("found", c)
  /\ caseWorker.moved
  /\ caseWorker' = NoTick
  /\ UNCHANGED <<case, fired, replying, request, caseFaults, caseHistory>>

ReadCase(c) ==
  /\ CaseAt("leased", c)
  /\ caseWorker' = [pc |-> "read", case |-> c, status |-> case[c].status,
                    level |-> case[c].level,
                    to |-> RecipientsOf(TierOf(case[c].status), case[c].member)]
  /\ UNCHANGED <<case, fired, replying, request, caseFaults, caseHistory>>

PutOff(c) ==
  /\ case' = [case EXCEPT ![c].due = FALSE]
  /\ caseWorker' = NoTick
  /\ UNCHANGED <<fired, replying, request, caseFaults, caseHistory>>

(* Escalations are off, or no account can send: try again later.           *)
DeferUnavailable(c) == CaseAt("read", c) /\ PutOff(c)
DeferExhausted(c) ==
  /\ CaseAt("read", c)
  /\ caseWorker.level >= MaxEscalations
  /\ PutOff(c)

LeaveAlone(c) ==
  /\ CaseAt("read", c)
  /\ caseWorker.level < MaxEscalations
  /\ caseWorker.status \notin Active
  /\ caseWorker' = NoTick
  /\ UNCHANGED <<case, fired, replying, request, caseFaults, caseHistory>>

WorkTier(c) ==
  /\ CaseAt("read", c)
  /\ caseWorker.level < MaxEscalations
  /\ caseWorker.status \in Active
  /\ caseWorker' = [caseWorker EXCEPT !.pc = "firing"]
  /\ worked' = [worked EXCEPT ![c] = @ \cup {TierOf(caseWorker.status)}]
  /\ UNCHANGED <<case, fired, replying, request, caseFaults, rings>>

TierKey(c, r) ==
  LET tier == TierOf(caseWorker.status) IN
  [case |-> c, level |-> LevelOf(tier, caseWorker.level), type |-> tier, to |-> r]
Served(r) == caseWorker' = [caseWorker EXCEPT !.to = @ \ {r}]

(* Mutant: the notification is created before the event's key is tried.    *)
AlertFirst(c, r) ==
  /\ CaseAt("firing", c)
  /\ r \in caseWorker.to
  /\ case' = [case EXCEPT ![c].last = TierOf(caseWorker.status)]
  /\ fired' = fired \cup {TierKey(c, r)}
  /\ Served(r)
  /\ rings' = [rings EXCEPT ![c] = @ + 1]
  /\ UNCHANGED <<replying, request, caseFaults, worked>>

(* The event and its Notification, in one transaction.                     *)
RingRecipient(c, r) ==
  /\ CaseAt("firing", c)
  /\ r \in caseWorker.to
  /\ TierKey(c, r) \notin fired
  /\ case' = [case EXCEPT ![c].last = TierOf(caseWorker.status)]
  /\ fired' = fired \cup {TierKey(c, r)}
  /\ Served(r)
  /\ rings' = [rings EXCEPT ![c] = @ + 1]
  /\ UNCHANGED <<replying, request, caseFaults, worked>>

(* Mutant: the unique-key failure is thrown on and ends the tick.          *)
AlreadyAlertedThrows(c, r) ==
  /\ CaseAt("firing", c)
  /\ r \in caseWorker.to
  /\ TierKey(c, r) \in fired
  /\ caseWorker' = NoTick
  /\ UNCHANGED <<case, fired, replying, request, caseFaults, caseHistory>>

AlreadyAlerted(c, r) ==
  /\ CaseAt("firing", c)
  /\ r \in caseWorker.to
  /\ TierKey(c, r) \in fired
  /\ Served(r)
  /\ UNCHANGED <<case, fired, replying, request, caseFaults, caseHistory>>

Muted(c, r) ==
  /\ CanMute
  /\ CaseAt("firing", c)
  /\ r \in caseWorker.to
  /\ Served(r)
  /\ UNCHANGED <<case, fired, replying, request, caseFaults, caseHistory>>

(* Unconditional on the status the case has by now.                        *)
MoveOn(c) ==
  LET tier == TierOf(caseWorker.status) IN
  /\ CaseAt("firing", c)
  /\ caseWorker.to = {}
  /\ caseWorker' = NoTick
  /\ case' = [case EXCEPT ![c].status = StatusAfter(tier), ![c].due = FALSE,
                 ![c].level = LevelOf(tier, caseWorker.level) + 1]
  /\ UNCHANGED <<fired, replying, request, caseFaults, caseHistory>>

(* The worker dies, or a statement of the tick fails.                      *)
LoopDies ==
  /\ caseFaults < MaxCaseFaults
  /\ caseWorker # NoTick \/ replying
  /\ caseWorker' = NoTick
  /\ replying' = FALSE
  /\ caseFaults' = caseFaults + 1
  /\ UNCHANGED <<case, fired, request, caseHistory>>

----------------------------------------------------------------------------
(* The dashboard.  Every request first reads the case and may refuse.      *)
Refused(kind, status) ==
  CASE kind \in {"PAUSE", "ESCALATE"} -> status \in Terminal \cup {"PAUSED"}
    [] kind = "RESUME" -> status # "PAUSED"
    [] kind = "STOP" -> status \in Terminal
    [] kind = "RESOLVE" -> status \in {"RESOLVED", "CANCELLED"}
    [] OTHER -> FALSE

Ask(d, c, asked) ==
  /\ request[d].act = "NONE"
  /\ asked.act \in Requests
  /\ asked.case = c
  /\ case[c].status # "ABSENT"
  /\ ~Refused(asked.act, case[c].status)
  /\ request' = [request EXCEPT ![d] = asked]
  /\ UNCHANGED <<case, fired, caseWorker, replying, caseFaults, caseHistory>>

Asks(d, c) ==
  \/ \E act \in RequestKinds \ {"RESUME", "REASSIGN"} : Ask(d, c, [act |-> act, case |-> c])
  \/ Ask(d, c, [act |-> "RESUME", case |-> c, into |-> "UNREAD"])
  \/ \E m \in Members \cup {Nobody} : Ask(d, c, [act |-> "REASSIGN", case |-> c, member |-> m])

Pending(d, act, c) == request[d].act = act /\ request[d].case = c
Finished(d) == request' = [request EXCEPT ![d] = NoRequest]

(* pausedAt and the PAUSED event land first; nothing reads them but pages. *)
PauseCase(d, c) ==
  /\ Pending(d, "PAUSE", c)
  /\ case' = [case EXCEPT ![c].status = "PAUSED"]
  /\ Finished(d)
  /\ UNCHANGED <<fired, caseWorker, replying, caseFaults, caseHistory>>

ReadEvents(d, c) ==
  /\ Pending(d, "RESUME", c)
  /\ request[d].into = "UNREAD"
  /\ request' = [request EXCEPT ![d].into = ResumeInto(case[c].last)]
  /\ UNCHANGED <<case, fired, caseWorker, replying, caseFaults, caseHistory>>

ResumeCase(d, c) ==
  /\ Pending(d, "RESUME", c)
  /\ request[d].into # "UNREAD"
  /\ case' = [case EXCEPT ![c].status = request[d].into, ![c].due = TRUE]
  /\ Touch(c)
  /\ Finished(d)
  /\ UNCHANGED <<fired, replying, caseFaults, caseHistory>>

EscalateNow(d, c) ==
  /\ Pending(d, "ESCALATE", c)
  /\ case' = [case EXCEPT ![c].due = TRUE, ![c].last = "OTHER"]
  /\ Touch(c)
  /\ Finished(d)
  /\ UNCHANGED <<fired, replying, caseFaults, caseHistory>>

ReassignCase(d, c) ==
  /\ Pending(d, "REASSIGN", c)
  /\ case' = [case EXCEPT ![c].member = request[d].member, ![c].last = "OTHER"]
  /\ Finished(d)
  /\ UNCHANGED <<fired, caseWorker, replying, caseFaults, caseHistory>>

StopEscalation(d, c) ==
  /\ Pending(d, "STOP", c)
  /\ case' = [case EXCEPT ![c].status = "CANCELLED"]
  /\ Finished(d)
  /\ UNCHANGED <<fired, caseWorker, replying, caseFaults, caseHistory>>

ResetEscalation(d, c) ==
  /\ Pending(d, "RESET", c)
  /\ case' = [case EXCEPT ![c].status = "NEW", ![c].level = 0, ![c].due = TRUE,
                 ![c].last = "OTHER"]
  /\ Touch(c)
  /\ Finished(d)
  /\ UNCHANGED <<fired, replying, caseFaults, caseHistory>>

MarkResolved(d, c) ==
  /\ Pending(d, "RESOLVE", c)
  /\ case' = [case EXCEPT ![c].status = "RESOLVED", ![c].last = "OTHER"]
  /\ Finished(d)
  /\ UNCHANGED <<fired, caseWorker, replying, caseFaults, caseHistory>>

----------------------------------------------------------------------------
Fire(c) == \E r \in Recipients : RingRecipient(c, r) \/ AlreadyAlerted(c, r) \/ Muted(c, r)
CaseTick(c) ==
  \/ Lease(c) \/ LoseLease(c) \/ ReadCase(c) \/ DeferExhausted(c) \/ LeaveAlone(c)
  \/ WorkTier(c) \/ Fire(c) \/ MoveOn(c)
Dashboard(d, c) ==
  \/ Asks(d, c) \/ PauseCase(d, c) \/ ReadEvents(d, c) \/ ResumeCase(d, c)
  \/ EscalateNow(d, c) \/ ReassignCase(d, c) \/ StopEscalation(d, c)
  \/ ResetEscalation(d, c) \/ MarkResolved(d, c)

CaseNext ==
  \/ \E c \in Cases, m \in Members \cup {Nobody} : OpenCase(c, m)
  \/ HumanReply \/ NothingToNote \/ LoopDies
  \/ \E c \in Cases :
       NoteReply(c) \/ BecomeDue(c) \/ FindDueCase(c) \/ CaseTick(c) \/ DeferUnavailable(c)
  \/ \E d \in Dashboards, c \in Cases : Dashboard(d, c)

CaseSpec == CaseInit /\ [][CaseNext]_caseVars

(* The loop runs on, time passes, and the query takes the case that has    *)
(* been due the longest, so that a case that is due over and over is found *)
(* (SF of FindDueCase).  The settings and the account do not refuse the    *)
(* same case for ever (SF of WorkTier).                                    *)
CaseFairness ==
  \A c \in Cases :
    /\ WF_caseVars(BecomeDue(c))
    /\ WF_caseVars(CaseTick(c))
    /\ SF_caseVars(FindDueCase(c))
    /\ SF_caseVars(WorkTier(c))

CaseFairSpec == CaseSpec /\ CaseFairness

----------------------------------------------------------------------------
CaseTypeOK ==
  /\ case \in [Cases -> CaseRecords]
  /\ fired \subseteq EventKeys
  /\ caseWorker \in Finds \cup Leases \cup CaseTicks \cup {NoTick}
  /\ replying \in BOOLEAN
  /\ request \in [Dashboards -> Asked \cup {NoRequest}]
  /\ caseFaults \in 0 .. MaxCaseFaults
  /\ rings \in [Cases -> Nat]
  /\ worked \in [Cases -> SUBSET Alerts]

AlertKeys(c) == {k \in fired : k.case = c /\ k.type \in Alerts}

(* A tier is never sent to the same recipient twice: a case has as many    *)
(* Notifications as unique event keys, though a tick that died half-way    *)
(* through a tier, a resume or a reset works on the tier again             *)
(* (fireEscalationEvent).                                                  *)
AlertedOnce == \A c \in Cases : rings[c] = Cardinality(AlertKeys(c))

(* The case climbs one tier at a time: a tier is worked on only after the  *)
(* one below it was, whatever pauses, resumes, resets and crashes do in    *)
(* between (processClaimedCase's switch, resumeCase's mapping).            *)
NoTierSkipped ==
  \A c \in Cases :
    /\ "SECOND_NOTIFICATION" \in worked[c] => "FIRST_NOTIFICATION" \in worked[c]
    /\ "MEMBER_NOTIFICATION" \in worked[c] => "SECOND_NOTIFICATION" \in worked[c]
    /\ "ADMIN_NOTIFICATION" \in worked[c] => "MEMBER_NOTIFICATION" \in worked[c]
    /\ "FOLLOW_UP" \in worked[c] => "ADMIN_NOTIFICATION" \in worked[c]

(* A case nobody closes climbs to the end of its ladder, crashes and       *)
(* unreachable recipients notwithstanding.                                 *)
EveryOpenCaseClimbs ==
  \A c \in Cases :
    case[c].status \in Active
      ~> case[c].status \notin Active \/ case[c].level >= MaxEscalations

(* "The moment a real human support reply is detected for an open case,    *)
(* escalation stops for good": no step of a tick reopens a closed case.    *)
StopsForGood ==
  [][\A c \in Cases :
       CaseTick(c) /\ case[c].status \in Terminal => case'[c].status \in Terminal]_caseVars

(* "One open case per chat is a real invariant" (openOrContinueCase).      *)
OneOpenCasePerChat == Cardinality({c \in Cases : case[c].status \in Active}) <= 1

----------------------------------------------------------------------------
(* The inductive strengthening of the safety properties: a status says     *)
(* which tiers have been worked on, in the row, in the tick's copy of it   *)
(* and in a resume that has not been written yet.                          *)

Earned(status, c) ==
  /\ status = "WAITING_FOR_HUMAN" => "FIRST_NOTIFICATION" \in worked[c]
  /\ status = "SECOND_ALERT" => "SECOND_NOTIFICATION" \in worked[c]
  /\ status = "MEMBER_ESCALATED" => "MEMBER_NOTIFICATION" \in worked[c]
  /\ status \in {"ADMIN_ESCALATED", "FOLLOW_UP"} => "ADMIN_NOTIFICATION" \in worked[c]

CaseInv ==
  \A c \in Cases :
    /\ Earned(case[c].status, c)
    /\ case[c].last \in Alerts => case[c].last \in worked[c]

CaseTickInv ==
  /\ caseWorker.pc \in {"read", "firing"} => Earned(caseWorker.status, caseWorker.case)
  /\ caseWorker.pc = "firing" =>
       /\ caseWorker.status \in Active
       /\ TierOf(caseWorker.status) \in worked[caseWorker.case]
       /\ caseWorker.level < MaxEscalations

RequestInv ==
  \A d \in Dashboards :
    request[d].act = "RESUME" /\ request[d].into # "UNREAD" =>
      Earned(request[d].into, request[d].case)

CountInv == IsFiniteSet(fired) /\ AlertedOnce

CaseIInv == CaseTypeOK /\ NoTierSkipped /\ CaseInv /\ CaseTickInv /\ RequestInv /\ CountInv
============================================================================
