-------------------------- MODULE MessagePipeline --------------------------
(***************************************************************************)
(* What happens to a customer's message once its row exists                *)
(* (apps/worker/src/pipeline/processIncomingMessage.ts): rules, the AI     *)
(* fallback (aiFallback/runAiFallback.ts), the actions, the status.  The   *)
(* row is the guard against a second delivery, so a pass that dies leaves  *)
(* it PENDING, and the recovery sweep (pipeline/messageRecovery.ts) runs   *)
(* the whole stage again, possibly beside a first pass that is only slow.  *)
(* A second pass must do what is missing and repeat nothing.               *)
(***************************************************************************)
EXTENDS Naturals, Sequences, FiniteSets

CONSTANTS
  Messages,   \* incoming messages
  Rules,      \* automation rules
  ActionsOf,  \* the actions of each rule, in order
  System,     \* no rule: the ruleId of what the AI fallback writes
  NoMatch,    \* the evaluation found no rule
  TeamIgnore, \* the evaluation found no rule and a team member wrote
  Sweep,      \* the recovery sweep
  Nothing,    \* no message, no verdict
  MaxFaults   \* bound: crashes and failing statements in a run

Actions == {"IGNORE", "TAG", "SUPPORT_REQUIRED", "STOP_PROCESSING",
            "AUTO_REPLY", "FORWARD", "NOTIFY"}

ASSUME PipelineConstants ==
  /\ Sweep \notin Messages
  /\ {System, NoMatch, TeamIgnore, Nothing} \cap Rules = {}
  /\ NoMatch # TeamIgnore
  /\ Nothing \notin Messages
  /\ ActionsOf \in [Rules -> Seq(Actions)]
  /\ MaxFaults \in Nat

VARIABLES
  row,       \* processingStatus of each message
  age,       \* how long a PENDING row has been there
  decision,  \* the AiFallbackDecision of each message, unique per message
  outbound,  \* the idempotency keys of the OutboundMessage rows
  notified,  \* Notification rows by message and rule: these have no key
  silenced,  \* history: NOTIFY actions that met a muted event, and wrote nothing
  executed,  \* what the AutomationExecution rows say was carried out
  pass,      \* the automation passes in progress: memory, lost in a crash
  batch,     \* what the sweep has read and not worked on yet: memory
  faults,    \* how many faults have happened
  alerts     \* history: passes that alerted the team about the message

vars ==
  <<row, age, decision, outbound, notified, silenced, executed, pass, batch, faults, alerts>>
stored == <<decision, outbound, notified, silenced, executed>>

----------------------------------------------------------------------------
Statuses == {"NONE", "PENDING", "PROCESSED", "IGNORED", "FAILED"}

(* STRANDED: past STRANDED_AFTER_MS.  LATE: past AUTOMATION_WINDOW_MS too. *)
(* HISTORY: past TOO_OLD_MS, out of the sweep's sight.                     *)
Ages == {"YOUNG", "STRANDED", "LATE", "HISTORY"}
Older(a) ==
  CASE a = "YOUNG" -> "STRANDED" [] a = "STRANDED" -> "LATE" [] OTHER -> "HISTORY"

Verdicts == Rules \cup {NoMatch, TeamIgnore}
ActionsFor(v) == IF v \in Rules THEN ActionsOf[v] ELSE << >>
RuleId(v) == IF v \in Rules THEN v ELSE System
Kinds == {"AUTO_REPLY", "FORWARD", "MENTION", "HOLDING"}
Keys == [msg: Messages, rule: Rules \cup {System}, kind: Kinds]
Key(m, r, kind) == [msg |-> m, rule |-> r, kind |-> kind]
Carried == [msg: Messages, rule: Rules \cup {System}, index: Nat \ {0}]

(* deriveFinalDecision, as far as the stage asks: whether the AI fallback  *)
(* runs, and whether the row ends up IGNORED.                              *)
AiRuns(v) == v # TeamIgnore /\ ActionsFor(v) = << >>
Ignores(v) ==
  LET kinds == {ActionsFor(v)[i] : i \in 1 .. Len(ActionsFor(v))} IN
  \/ v = TeamIgnore
  \/ /\ "IGNORE" \in kinds
     /\ kinds \cap {"STOP_PROCESSING", "SUPPORT_REQUIRED", "AUTO_REPLY"} = {}

Passes == Messages \cup {Sweep}
AiStages == {"ai", "model", "answer", "decide", "claim", "alert", "holding", "mention"}
PassRecords ==
  [pc: {"idle", "start", "rules", "act", "settle", "throw"} \cup AiStages,
   msg: Messages \cup {Nothing}, verdict: Verdicts \cup {Nothing},
   done: Nat, ran: SUBSET (Nat \ {0})]
Idle == [pc |-> "idle", msg |-> Nothing, verdict |-> Nothing, done |-> 0, ran |-> {}]
Begin(m) == [Idle EXCEPT !.pc = "start", !.msg = m]
Found == [msg: Messages, late: BOOLEAN]

(* Pass p is at stage pc of message m.                                     *)
At(p, pc, m) == pass[p].pc = pc /\ pass[p].msg = m
Go(p, pc) == pass' = [pass EXCEPT ![p].pc = pc]
Stop(p) == pass' = [pass EXCEPT ![p] = Idle]

Init ==
  /\ row = [m \in Messages |-> "NONE"]
  /\ age = [m \in Messages |-> "YOUNG"]
  /\ decision = [m \in Messages |-> "NONE"]
  /\ outbound = {}
  /\ notified = [m \in Messages |-> [r \in Rules |-> 0]]
  /\ silenced = {}
  /\ executed = {}
  /\ pass = [p \in Passes |-> Idle]
  /\ batch = {}
  /\ faults = 0
  /\ alerts = [m \in Messages |-> 0]

----------------------------------------------------------------------------
(* Storing.  A second delivery of a stored message changes nothing.        *)
Receive(m) ==
  /\ row[m] = "NONE"
  /\ row' = [row EXCEPT ![m] = "PENDING"]
  /\ pass' = [pass EXCEPT ![m] = Begin(m)]
  /\ UNCHANGED <<age, stored, batch, faults, alerts>>

(* The project is suspended, or the message is too old to be answered.     *)
StoreMissed(m) ==
  /\ row[m] = "NONE"
  /\ row' = [row EXCEPT ![m] = "IGNORED"]
  /\ UNCHANGED <<age, stored, pass, batch, faults, alerts>>

(* A statement after the insert fails (media, response tracking, routing): *)
(* the retry is told "already processed", so nobody runs the stage.        *)
ReceiveThrows(m) ==
  /\ faults < MaxFaults
  /\ row[m] = "NONE"
  /\ row' = [row EXCEPT ![m] = "PENDING"]
  /\ faults' = faults + 1
  /\ UNCHANGED <<age, stored, pass, batch, alerts>>

(* For a settled row it makes no difference.                               *)
Age(m) ==
  /\ row[m] = "PENDING"
  /\ age[m] # "HISTORY"
  /\ age' = [age EXCEPT ![m] = Older(@)]
  /\ UNCHANGED <<row, stored, pass, batch, faults, alerts>>

----------------------------------------------------------------------------
(* The automation stage, run by pass p over message m.                     *)

(* The project is not operating: settled before anything is looked at.     *)
NotOperating(p, m) ==
  /\ At(p, "start", m)
  /\ row' = [row EXCEPT ![m] = "IGNORED"]
  /\ Stop(p)
  /\ UNCHANGED <<age, stored, batch, faults, alerts>>

(* Escalation, activity, attendance and mood have error handling of their  *)
(* own and touch nothing that is modelled here.                            *)
Operating(p, m) ==
  /\ At(p, "start", m)
  /\ Go(p, "rules")
  /\ UNCHANGED <<row, age, stored, batch, faults, alerts>>

NotPrimary(p, m) ==
  /\ At(p, "rules", m)
  /\ row' = [row EXCEPT ![m] = "PROCESSED"]
  /\ Stop(p)
  /\ UNCHANGED <<age, stored, batch, faults, alerts>>

(* The rules and the newest other message may have changed since another   *)
(* pass evaluated the same message: any verdict.                           *)
Evaluate(p, m, v) ==
  /\ At(p, "rules", m)
  /\ pass' = [pass EXCEPT ![p] =
       [Idle EXCEPT !.pc = IF AiRuns(v) THEN "ai" ELSE "act", !.msg = m, !.verdict = v]]
  /\ UNCHANGED <<row, age, stored, batch, faults, alerts>>

----------------------------------------------------------------------------
(* The AI fallback.  Settings, safety, knowledge and the model decide      *)
(* which way it goes; any of them may differ between two passes.           *)

NotEligible(p, m) ==
  /\ At(p, "ai", m)
  /\ Go(p, "act")
  /\ UNCHANGED <<row, age, stored, batch, faults, alerts>>

AskModel(p, m) ==
  /\ At(p, "ai", m)
  /\ Go(p, "model")
  /\ UNCHANGED <<row, age, stored, batch, faults, alerts>>

(* Media only, blocked by safety, no client or no knowledge; or the model  *)
(* failed, declined, was unsure or ungrounded, or safety blocks now.       *)
HandOver(p, m) ==
  /\ At(p, "ai", m) \/ At(p, "model", m)
  /\ Go(p, "claim")
  /\ UNCHANGED <<row, age, stored, batch, faults, alerts>>

(* Mutant: the decision is written when the model has answered.            *)
ModelAnswersDecided(p, m) ==
  /\ At(p, "model", m)
  /\ Go(p, "answer")
  /\ decision' = [decision EXCEPT ![m] = IF @ = "NONE" THEN "AI_REPLIED" ELSE @]
  /\ UNCHANGED <<row, age, outbound, notified, silenced, executed, batch, faults, alerts>>

ModelAnswers(p, m) ==
  /\ At(p, "model", m)
  /\ Go(p, "answer")
  /\ UNCHANGED <<row, age, stored, batch, faults, alerts>>

(* A taken key is "already queued" and no error.                           *)
QueueAnswer(p, m) ==
  /\ At(p, "answer", m)
  /\ outbound' = outbound \cup {Key(m, System, "AUTO_REPLY")}
  /\ Go(p, "decide")
  /\ UNCHANGED <<row, age, decision, notified, silenced, executed, batch, faults, alerts>>

(* Mutant: the decision is upserted.                                       *)
DecideOver(p, m) ==
  /\ At(p, "decide", m)
  /\ decision' = [decision EXCEPT ![m] = "AI_REPLIED"]
  /\ Go(p, "act")
  /\ UNCHANGED <<row, age, outbound, notified, silenced, executed, batch, faults, alerts>>

DecideReplied(p, m) ==
  /\ At(p, "decide", m)
  /\ decision' = [decision EXCEPT ![m] = IF @ = "NONE" THEN "AI_REPLIED" ELSE @]
  /\ Go(p, "act")
  /\ UNCHANGED <<row, age, outbound, notified, silenced, executed, batch, faults, alerts>>

(* Mutant: a decision that exists already does not end the handover.       *)
ClaimAnyway(p, m) ==
  /\ At(p, "claim", m)
  /\ decision' = [decision EXCEPT ![m] = IF @ = "NONE" THEN "HUMAN_FALLBACK" ELSE @]
  /\ Go(p, "alert")
  /\ UNCHANGED <<row, age, outbound, notified, silenced, executed, batch, faults, alerts>>

(* The decision row is claimed before anything is sent.                    *)
Claim(p, m) ==
  /\ At(p, "claim", m)
  /\ decision' = [decision EXCEPT ![m] = IF @ = "NONE" THEN "HUMAN_FALLBACK" ELSE @]
  /\ Go(p, IF decision[m] = "NONE" THEN "alert" ELSE "act")
  /\ UNCHANGED <<row, age, outbound, notified, silenced, executed, batch, faults, alerts>>

(* Every destination; one that is muted or missing is logged, so that an   *)
(* alert that nobody was to get counts as one here.                        *)
Alert(p, m) ==
  /\ At(p, "alert", m)
  /\ alerts' = [alerts EXCEPT ![m] = @ + 1]
  /\ Go(p, "holding")
  /\ UNCHANGED <<row, age, stored, batch, faults>>

(* "We could not understand this", and the tag for a person: each if its   *)
(* switch is on and the chat has had none lately.                          *)
Hold(p, m) ==
  /\ At(p, "holding", m)
  /\ outbound' \in {outbound, outbound \cup {Key(m, System, "HOLDING")}}
  /\ Go(p, "mention")
  /\ UNCHANGED <<row, age, decision, notified, silenced, executed, batch, faults, alerts>>

Mention(p, m) ==
  /\ At(p, "mention", m)
  /\ outbound' \in {outbound, outbound \cup {Key(m, System, "MENTION")}}
  /\ Go(p, "act")
  /\ UNCHANGED <<row, age, decision, notified, silenced, executed, batch, faults, alerts>>

(* Whatever the fallback throws is logged; the stage goes on.              *)
FallbackThrows(p, m) ==
  /\ faults < MaxFaults
  /\ pass[p].pc \in AiStages
  /\ pass[p].msg = m
  /\ faults' = faults + 1
  /\ Go(p, "act")
  /\ UNCHANGED <<row, age, stored, batch, alerts>>

----------------------------------------------------------------------------
(* The actions of the matched rule, one after the other.                   *)
ActionDue(p, m, kinds) ==
  LET actions == ActionsFor(pass[p].verdict) IN
  /\ At(p, "act", m)
  /\ pass[p].done < Len(actions)
  /\ actions[pass[p].done + 1] \in kinds
ThisAction(p) == pass[p].done + 1
Tried(p, ran) == pass' = [pass EXCEPT ![p].done = @ + 1, ![p].ran = ran]

(* executed is false when the key was taken.                               *)
QueueReply(p, m) ==
  LET v == pass[p].verdict
      key == Key(m, v, ActionsFor(v)[ThisAction(p)])
  IN
  /\ ActionDue(p, m, {"AUTO_REPLY", "FORWARD"})
  /\ outbound' = outbound \cup {key}
  /\ Tried(p, IF key \in outbound THEN pass[p].ran ELSE pass[p].ran \cup {ThisAction(p)})
  /\ UNCHANGED <<row, age, decision, notified, silenced, executed, batch, faults, alerts>>

Notify(p, m) ==
  /\ ActionDue(p, m, {"NOTIFY"})
  /\ notified' = [notified EXCEPT ![m][pass[p].verdict] = @ + 1]
  /\ Tried(p, pass[p].ran \cup {ThisAction(p)})
  /\ UNCHANGED <<row, age, decision, outbound, silenced, executed, batch, faults, alerts>>

(* enqueueNotification returns "suppressed" and writes nothing when the    *)
(* event is muted; the caller does not look, and the action counts as      *)
(* carried out.                                                            *)
NotifyMuted(p, m) ==
  /\ ActionDue(p, m, {"NOTIFY"})
  /\ silenced' =
       silenced \cup {[msg |-> m, rule |-> pass[p].verdict, index |-> ThisAction(p)]}
  /\ Tried(p, pass[p].ran \cup {ThisAction(p)})
  /\ UNCHANGED <<row, age, decision, outbound, notified, executed, batch, faults, alerts>>

(* Mutant: an action that is blocked is recorded as carried out.           *)
RefuseCounted(p, m) ==
  /\ ActionDue(p, m, {"AUTO_REPLY", "FORWARD", "NOTIFY"})
  /\ Tried(p, pass[p].ran \cup {ThisAction(p)})
  /\ UNCHANGED <<row, age, stored, batch, faults, alerts>>

(* Blocked by the safety layer, or not configured.                         *)
Refuse(p, m) ==
  /\ ActionDue(p, m, {"AUTO_REPLY", "FORWARD", "NOTIFY"})
  /\ Tried(p, pass[p].ran)
  /\ UNCHANGED <<row, age, stored, batch, faults, alerts>>

Mark(p, m) ==
  /\ ActionDue(p, m, {"IGNORE", "TAG", "SUPPORT_REQUIRED", "STOP_PROCESSING"})
  /\ Tried(p, pass[p].ran \cup {ThisAction(p)})
  /\ UNCHANGED <<row, age, stored, batch, faults, alerts>>

(* Upsert: the later record replaces the earlier one.                      *)
RecordExecution(p, m) ==
  LET v == pass[p].verdict
      others == {e \in executed : ~(e.msg = m /\ e.rule = RuleId(v))}
  IN
  /\ At(p, "act", m)
  /\ pass[p].done = Len(ActionsFor(v))
  /\ executed' = others \cup {[msg |-> m, rule |-> RuleId(v), index |-> i] : i \in pass[p].ran}
  /\ Go(p, "settle")
  /\ UNCHANGED <<row, age, decision, outbound, notified, silenced, batch, faults, alerts>>

(* Unconditional; then the checkpoint, which nothing here reads.           *)
Settle(p, m) ==
  /\ At(p, "settle", m)
  /\ row' = [row EXCEPT ![m] = IF Ignores(pass[p].verdict) THEN "IGNORED" ELSE "PROCESSED"]
  /\ Stop(p)
  /\ UNCHANGED <<age, stored, batch, faults, alerts>>

----------------------------------------------------------------------------
(* Failures.                                                               *)

(* The operating check is outside the try: the row stays as it is.         *)
StartThrows(p, m) ==
  /\ faults < MaxFaults
  /\ At(p, "start", m)
  /\ faults' = faults + 1
  /\ Stop(p)
  /\ UNCHANGED <<row, age, stored, batch, alerts>>

StageThrows(p, m) ==
  /\ faults < MaxFaults
  /\ pass[p].pc \in {"rules", "act", "settle"}
  /\ pass[p].msg = m
  /\ faults' = faults + 1
  /\ pass' = [pass EXCEPT ![p] = [Idle EXCEPT !.pc = "throw", !.msg = m]]
  /\ UNCHANGED <<row, age, stored, batch, alerts>>

(* The row is settled; the checkpoint that follows cannot be written.      *)
NotPrimaryThrows(p, m) ==
  /\ faults < MaxFaults
  /\ At(p, "rules", m)
  /\ faults' = faults + 1
  /\ row' = [row EXCEPT ![m] = "PROCESSED"]
  /\ pass' = [pass EXCEPT ![p] = [Idle EXCEPT !.pc = "throw", !.msg = m]]
  /\ UNCHANGED <<age, stored, batch, alerts>>

(* The in-memory retry that follows finds the row and does nothing.        *)
MarkFailed(p, m) ==
  /\ At(p, "throw", m)
  /\ row' = [row EXCEPT ![m] = "FAILED"]
  /\ Stop(p)
  /\ UNCHANGED <<age, stored, batch, faults, alerts>>

(* Not even the mark can be written: logged, the row stays as it is.       *)
MarkLost(p, m) ==
  /\ faults < MaxFaults
  /\ At(p, "throw", m)
  /\ faults' = faults + 1
  /\ Stop(p)
  /\ UNCHANGED <<row, age, stored, batch, alerts>>

(* Everything in memory is gone.                                           *)
Crash ==
  /\ faults < MaxFaults
  /\ \E p \in Passes : pass[p] # Idle
  /\ faults' = faults + 1
  /\ pass' = [p \in Passes |-> Idle]
  /\ batch' = {}
  /\ UNCHANGED <<row, age, stored, alerts>>

----------------------------------------------------------------------------
(* The recovery sweep, one at a time.  The time is read once, before the   *)
(* query, and no row is looked at again before it is worked on.            *)
Stranded(m) == row[m] = "PENDING" /\ age[m] \in {"STRANDED", "LATE"}

(* Mutant: the scan ends at the automation window.                         *)
FindInWindow ==
  LET found == {m \in Messages : row[m] = "PENDING" /\ age[m] = "STRANDED"} IN
  /\ pass[Sweep] = Idle
  /\ batch = {}
  /\ found # {}
  /\ batch' = {[msg |-> m, late |-> FALSE] : m \in found}
  /\ UNCHANGED <<row, age, stored, pass, faults, alerts>>

Find ==
  LET found == {m \in Messages : Stranded(m)} IN
  /\ pass[Sweep] = Idle
  /\ batch = {}
  /\ found # {}
  /\ batch' = {[msg |-> m, late |-> age[m] = "LATE"] : m \in found}
  /\ UNCHANGED <<row, age, stored, pass, faults, alerts>>

(* Too old to be answered.                                                 *)
SettleLate(f) ==
  /\ pass[Sweep] = Idle
  /\ f \in batch
  /\ f.late
  /\ row' = [row EXCEPT ![f.msg] = "IGNORED"]
  /\ batch' = batch \ {f}
  /\ UNCHANGED <<age, stored, pass, faults, alerts>>

Rerun(f) ==
  /\ pass[Sweep] = Idle
  /\ f \in batch
  /\ ~f.late
  /\ pass' = [pass EXCEPT ![Sweep] = Begin(f.msg)]
  /\ batch' = batch \ {f}
  /\ UNCHANGED <<row, age, stored, faults, alerts>>

SkipThrowing(f) ==
  /\ faults < MaxFaults
  /\ pass[Sweep] = Idle
  /\ f \in batch
  /\ faults' = faults + 1
  /\ batch' = batch \ {f}
  /\ UNCHANGED <<row, age, stored, pass, alerts>>
----------------------------------------------------------------------------
Step(p, m) ==
  \/ NotOperating(p, m) \/ Operating(p, m) \/ NotPrimary(p, m)
  \/ \E v \in Verdicts : Evaluate(p, m, v)
  \/ NotEligible(p, m) \/ AskModel(p, m) \/ HandOver(p, m)
  \/ ModelAnswers(p, m) \/ QueueAnswer(p, m) \/ DecideReplied(p, m)
  \/ Claim(p, m) \/ Alert(p, m) \/ Hold(p, m) \/ Mention(p, m)
  \/ QueueReply(p, m) \/ Notify(p, m) \/ NotifyMuted(p, m) \/ Refuse(p, m)
  \/ Mark(p, m) \/ RecordExecution(p, m) \/ Settle(p, m) \/ MarkFailed(p, m)

Fault(p, m) ==
  \/ FallbackThrows(p, m) \/ StartThrows(p, m) \/ StageThrows(p, m)
  \/ NotPrimaryThrows(p, m) \/ MarkLost(p, m)

SweepStep == Find \/ \E f \in batch : SettleLate(f) \/ Rerun(f)

Next ==
  \/ \E m \in Messages : Receive(m) \/ StoreMissed(m) \/ ReceiveThrows(m) \/ Age(m)
  \/ \E p \in Passes, m \in Messages : Step(p, m) \/ Fault(p, m)
  \/ SweepStep
  \/ \E f \in batch : SkipThrowing(f)
  \/ Crash

Spec == Init /\ [][Next]_vars

(* Every promise of a pass settles in time (the model has a deadline); the *)
(* sweep's timer fires; a row grows old enough to be stranded.  Nothing    *)
(* makes it late or history: the sweep may be in time.                     *)
Fairness ==
  /\ \A p \in Passes : WF_vars(\E m \in Messages : Step(p, m))
  /\ \A m \in Messages : WF_vars(age[m] = "YOUNG" /\ Age(m))
  /\ WF_vars(SweepStep)
FairSpec == Spec /\ Fairness

----------------------------------------------------------------------------
TypeOK ==
  /\ row \in [Messages -> Statuses]
  /\ age \in [Messages -> Ages]
  /\ decision \in [Messages -> {"NONE", "AI_REPLIED", "HUMAN_FALLBACK"}]
  /\ outbound \subseteq Keys
  /\ notified \in [Messages -> [Rules -> Nat]]
  /\ silenced \subseteq Carried
  /\ executed \subseteq Carried
  /\ pass \in [Passes -> PassRecords]
  /\ batch \subseteq Found
  /\ faults \in 0 .. MaxFaults
  /\ alerts \in [Messages -> Nat]

(* However many passes run over a message, and wherever they die, the team *)
(* is alerted about it at most once, and neither the alert nor the holding *)
(* reply nor the tag goes out without the handover on record               *)
(* (aiFallback/runAiFallback.ts:138-152).                                  *)
HandedOverOnce ==
  \A m \in Messages :
    /\ alerts[m] <= 1
    /\ \/ alerts[m] > 0
       \/ Key(m, System, "HOLDING") \in outbound
       \/ Key(m, System, "MENTION") \in outbound
       => decision[m] = "HUMAN_FALLBACK"

(* A decision on record that the AI replied has the reply behind it: the   *)
(* row exists before the decision, also when another pass queued it.       *)
RepliedMeansQueued ==
  \A m \in Messages :
    decision[m] = "AI_REPLIED" => Key(m, System, "AUTO_REPLY") \in outbound

(* What an execution record says was carried out has been, whichever pass  *)
(* wrote the record last: a reply or a forward has its row.  Of a          *)
(* notification the record says less than its "Queued for delivery": it    *)
(* exists, or its event was muted when the action came to it               *)
(* (enqueueNotification.ts:34-40), never that it failed or was refused.    *)
Effect(m, r, i) ==
  LET kind == ActionsFor(r)[i] IN
  /\ kind \in {"AUTO_REPLY", "FORWARD"} => Key(m, r, kind) \in outbound
  /\ kind = "NOTIFY" => notified[m][r] > 0 \/ [msg |-> m, rule |-> r, index |-> i] \in silenced
RecordedMeansDone == \A e \in executed : Effect(e.msg, e.rule, e.index)

(* No row stays PENDING for ever, unless it is history before a sweep gets *)
(* to it: a pass that dies is found, run again or settled as too late.     *)
EveryStoredMessageSettles ==
  \A m \in Messages :
    row[m] = "PENDING" ~> (row[m] # "PENDING" \/ age[m] = "HISTORY")

(* "Claiming first makes exactly one pass per message perform the side     *)
(* effects, however many times this runs" (aiFallback/runAiFallback.ts:    *)
(* 150-151): a message that is settled and whose decision says a person    *)
(* was handed it has had somebody alerted.                                 *)
HandoverReachesThePeople ==
  \A m \in Messages :
    /\ row[m] = "PROCESSED"
    /\ \A p \in Passes : pass[p].msg # m
    /\ decision[m] = "HUMAN_FALLBACK"
    => alerts[m] = 1

----------------------------------------------------------------------------
(* The inductive invariant.                                                *)

(* The pass that claimed the handover is the only one that sends it.       *)
HandoverInv ==
  /\ HandedOverOnce
  /\ \A p \in Passes, m \in Messages :
       /\ At(p, "alert", m) => decision[m] = "HUMAN_FALLBACK" /\ alerts[m] = 0
       /\ At(p, "holding", m) \/ At(p, "mention", m) => decision[m] = "HUMAN_FALLBACK"
  /\ \A p, q \in Passes, m \in Messages :
       At(p, "alert", m) /\ At(q, "alert", m) => p = q

AnswerInv ==
  /\ RepliedMeansQueued
  /\ \A p \in Passes, m \in Messages :
       At(p, "decide", m) => Key(m, System, "AUTO_REPLY") \in outbound

(* What a pass remembers to have carried out is there.                     *)
RecordInv ==
  /\ RecordedMeansDone
  /\ \A e \in executed : e.rule \in Rules
  /\ \A p \in Passes : \A i \in pass[p].ran :
       pass[p].msg \in Messages /\ pass[p].verdict \in Rules
         /\ Effect(pass[p].msg, pass[p].verdict, i)

IInv == TypeOK /\ HandoverInv /\ AnswerInv /\ RecordInv
============================================================================
