----------------------------- MODULE MessageProofs -----------------------------
(***************************************************************************)
(* Safety of the way of a customer's message: of its intake for any        *)
(* messages and loops, any windows, any number of outages and faults, and  *)
(* of the automation stage for any messages and rules, any number of       *)
(* re-runs and any number of faults.                                       *)
(***************************************************************************)
EXTENDS MessagePipeline, MessageIntake, TLAPS

(***************************************************************************)
(* The pipeline.                                                           *)
(***************************************************************************)
LEMMA InitIInv == Init => IInv
<1> SUFFICES ASSUME Init PROVE IInv
  OBVIOUS
<1>1. Idle \in PassRecords
  BY DEF Idle, PassRecords
<1>2. TypeOK
  <2>1. MaxFaults \in Nat
    BY PipelineConstants
  <2>2. /\ row \in [Messages -> Statuses]
        /\ age \in [Messages -> Ages]
        /\ decision \in [Messages -> {"NONE", "AI_REPLIED", "HUMAN_FALLBACK"}]
    BY DEF Init, Statuses, Ages
  <2>3. /\ notified \in [Messages -> [Rules -> Nat]]
        /\ alerts \in [Messages -> Nat]
        /\ pass \in [Passes -> PassRecords]
    BY <1>1 DEF Init
  <2>4. /\ outbound \subseteq Keys /\ executed \subseteq Carried /\ silenced \subseteq Carried
        /\ batch \subseteq Found
    BY DEF Init
  <2>5. faults \in 0 .. MaxFaults
    BY <2>1 DEF Init
  <2> QED
    BY <2>2, <2>3, <2>4, <2>5 DEF TypeOK
<1>3. HandoverInv
  BY DEF Init, HandoverInv, HandedOverOnce, At, Idle
<1>4. AnswerInv
  BY DEF Init, AnswerInv, RepliedMeansQueued, At, Idle
<1>5. RecordInv
  BY DEF Init, RecordInv, RecordedMeansDone, Idle
<1> QED
  BY <1>2, <1>3, <1>4, <1>5 DEF IInv

----------------------------------------------------------------------------
(* How a pass may change.                                                  *)

(* A pass that is Idle, at its start or about to be marked remembers       *)
(* nothing.                                                                *)
LEMMA Fresh ==
  ASSUME NEW m \in Messages
  PROVE  /\ Idle \in PassRecords /\ Begin(m) \in PassRecords
         /\ [Idle EXCEPT !.pc = "throw", !.msg = m] \in PassRecords
         /\ Idle.pc = "idle" /\ Idle.ran = {}
         /\ Begin(m).pc = "start" /\ Begin(m).ran = {}
         /\ [Idle EXCEPT !.pc = "throw", !.msg = m].pc = "throw"
         /\ [Idle EXCEPT !.pc = "throw", !.msg = m].ran = {}
  BY DEF Idle, Begin, PassRecords

(* Moving on to a stage changes nothing else of the pass, and nothing of   *)
(* another.                                                                *)
LEMMA Going ==
  ASSUME TypeOK, NEW p \in Passes,
         NEW pc \in {"rules", "act", "settle"} \cup AiStages, Go(p, pc)
  PROVE  /\ pass' \in [Passes -> PassRecords]
         /\ pass'[p] = [pass[p] EXCEPT !.pc = pc]
         /\ pass'[p].pc = pc /\ pass'[p].msg = pass[p].msg
         /\ pass'[p].verdict = pass[p].verdict /\ pass'[p].ran = pass[p].ran
         /\ \A q \in Passes \ {p} : pass'[q] = pass[q]
<1>1. pass[p] \in PassRecords
  BY DEF TypeOK
<1>2. [pass[p] EXCEPT !.pc = pc] \in PassRecords
  BY <1>1 DEF PassRecords
<1>3. pass' = [pass EXCEPT ![p] = [pass[p] EXCEPT !.pc = pc]]
  BY DEF Go
<1> QED
  BY <1>1, <1>2, <1>3 DEF TypeOK, PassRecords

(* Steps that write no decision, no key, no notification, no record and no *)
(* alert keep the invariant if every pass stays where it is, forgets, or   *)
(* goes on to a stage that claims nothing.                                 *)
LEMMA Quiet ==
  ASSUME IInv, TypeOK', UNCHANGED <<stored, alerts>>,
         \A q \in Passes :
           \/ pass'[q] = pass[q]
           \/ /\ pass'[q].pc \notin {"alert", "holding", "mention", "decide"}
              /\ \/ pass'[q].ran = {}
                 \/ /\ pass'[q].ran = pass[q].ran
                    /\ pass'[q].msg = pass[q].msg
                    /\ pass'[q].verdict = pass[q].verdict
  PROVE  IInv'
<1>1. HandoverInv'
  BY DEF IInv, HandoverInv, HandedOverOnce, At, stored
<1>2. AnswerInv'
  BY DEF IInv, AnswerInv, RepliedMeansQueued, At, stored
<1>3. RecordInv'
  BY DEF IInv, RecordInv, RecordedMeansDone, Effect, stored
<1> QED
  BY <1>1, <1>2, <1>3 DEF IInv

----------------------------------------------------------------------------
LEMMA AtStage ==
  ASSUME TypeOK, NEW p \in Passes, NEW m \in Messages, NEW pc, At(p, pc, m)
  PROVE  pass[p] \in PassRecords /\ pass[p].pc = pc /\ pass[p].msg = m
  BY DEF TypeOK, At

LEMMA Stopping ==
  ASSUME TypeOK, NEW p \in Passes, NEW n \in PassRecords, pass' = [pass EXCEPT ![p] = n]
  PROVE  /\ pass' \in [Passes -> PassRecords]
         /\ pass'[p] = n
         /\ \A q \in Passes \ {p} : pass'[q] = pass[q]
  BY DEF TypeOK

LEMMA StatusWritten ==
  ASSUME TypeOK, NEW m \in Messages, NEW s \in Statuses, row' = [row EXCEPT ![m] = s]
  PROVE  row' \in [Messages -> Statuses]
  BY DEF TypeOK

LEMMA FaultCounted ==
  ASSUME TypeOK, faults < MaxFaults, faults' = faults + 1
  PROVE  faults' \in 0 .. MaxFaults
  BY PipelineConstants DEF TypeOK

LEMMA StoringKeepsIInv ==
  ASSUME IInv, NEW m \in Messages,
         Receive(m) \/ StoreMissed(m) \/ ReceiveThrows(m) \/ Age(m)
  PROVE  IInv'
<1>0. TypeOK /\ m \in Passes /\ {"PENDING", "IGNORED"} \subseteq Statuses
  BY DEF IInv, Passes, Statuses
<1>1. CASE Receive(m)
  <2>1. row' \in [Messages -> Statuses]
    BY <1>0, <1>1, StatusWritten DEF Receive
  <2>2. /\ pass' \in [Passes -> PassRecords]
        /\ pass'[m] = Begin(m)
        /\ \A q \in Passes \ {m} : pass'[q] = pass[q]
    BY <1>0, <1>1, Fresh, Stopping DEF Receive
  <2>3. TypeOK'
    BY <1>0, <1>1, <2>1, <2>2 DEF Receive, TypeOK, stored
  <2> QED
    BY <1>1, <2>2, <2>3, Fresh, Quiet DEF Receive
<1>2. CASE StoreMissed(m)
  <2>1. row' \in [Messages -> Statuses]
    BY <1>0, <1>2, StatusWritten DEF StoreMissed
  <2>2. TypeOK'
    BY <1>0, <1>2, <2>1 DEF StoreMissed, TypeOK, stored
  <2> QED
    BY <1>2, <2>2, Quiet DEF StoreMissed
<1>3. CASE ReceiveThrows(m)
  <2>1. row' \in [Messages -> Statuses] /\ faults' \in 0 .. MaxFaults
    BY <1>0, <1>3, StatusWritten, FaultCounted DEF ReceiveThrows
  <2>2. TypeOK'
    BY <1>0, <1>3, <2>1 DEF ReceiveThrows, TypeOK, stored
  <2> QED
    BY <1>3, <2>2, Quiet DEF ReceiveThrows
<1>4. CASE Age(m)
  <2>1. age' \in [Messages -> Ages]
    BY <1>0, <1>4 DEF Age, Older, Ages, TypeOK
  <2>2. TypeOK'
    BY <1>0, <1>4, <2>1 DEF Age, TypeOK, stored
  <2> QED
    BY <1>4, <2>2, Quiet DEF Age
<1> QED
  BY <1>1, <1>2, <1>3, <1>4

(* The steps of a pass that end it and write at most the status.           *)
LEMMA EndingKeepsIInv ==
  ASSUME IInv, NEW p \in Passes, NEW m \in Messages,
         \/ NotOperating(p, m) \/ NotPrimary(p, m) \/ Settle(p, m) \/ MarkFailed(p, m)
         \/ StartThrows(p, m) \/ MarkLost(p, m) \/ StageThrows(p, m) \/ NotPrimaryThrows(p, m)
  PROVE  IInv'
<1>0. TypeOK /\ {"PROCESSED", "IGNORED", "FAILED"} \subseteq Statuses
  BY DEF IInv, Statuses
<1>1. PICK n \in {Idle, [Idle EXCEPT !.pc = "throw", !.msg = m]} : pass' = [pass EXCEPT ![p] = n]
  BY DEF NotOperating, NotPrimary, Settle, MarkFailed, StartThrows, MarkLost, StageThrows,
    NotPrimaryThrows, Stop
<1>2. n \in PassRecords /\ n.pc \in {"idle", "throw"} /\ n.ran = {}
  BY Fresh
<1>3. /\ pass' \in [Passes -> PassRecords]
      /\ pass'[p] = n
      /\ \A q \in Passes \ {p} : pass'[q] = pass[q]
  BY <1>0, <1>1, <1>2, Stopping
<1>4. row' \in [Messages -> Statuses]
  <2>1. CASE row' = row
    BY <1>0, <2>1 DEF TypeOK
  <2>2. CASE \/ NotOperating(p, m) \/ NotPrimary(p, m) \/ NotPrimaryThrows(p, m)
             \/ Settle(p, m) \/ MarkFailed(p, m)
    BY <1>0, <2>2, StatusWritten DEF NotOperating, NotPrimary, NotPrimaryThrows, Settle,
      MarkFailed
  <2> QED
    BY <2>1, <2>2 DEF StartThrows, MarkLost, StageThrows
<1>5. faults' \in 0 .. MaxFaults
  <2>1. CASE faults' = faults
    BY <1>0, <2>1 DEF TypeOK
  <2>2. CASE StartThrows(p, m) \/ MarkLost(p, m) \/ StageThrows(p, m) \/ NotPrimaryThrows(p, m)
    BY <1>0, <2>2, FaultCounted DEF StartThrows, MarkLost, StageThrows, NotPrimaryThrows
  <2> QED
    BY <2>1, <2>2 DEF NotOperating, NotPrimary, Settle, MarkFailed
<1>6. UNCHANGED <<age, stored, batch, alerts>>
  BY DEF NotOperating, NotPrimary, Settle, MarkFailed, StartThrows, MarkLost, StageThrows,
    NotPrimaryThrows
<1>7. TypeOK'
  BY <1>0, <1>3, <1>4, <1>5, <1>6 DEF TypeOK, stored
<1> QED
  BY <1>2, <1>3, <1>6, <1>7, Quiet

(* The steps of a pass that only choose where it goes on.                  *)
LEMMA ChoosingKeepsIInv ==
  ASSUME IInv, NEW p \in Passes, NEW m \in Messages,
         \/ Operating(p, m) \/ NotEligible(p, m) \/ AskModel(p, m) \/ HandOver(p, m)
         \/ ModelAnswers(p, m) \/ FallbackThrows(p, m)
  PROVE  IInv'
<1>0. TypeOK
  BY DEF IInv
<1>1. PICK pc \in {"rules", "act", "model", "claim", "answer"} : Go(p, pc)
  BY DEF Operating, NotEligible, AskModel, HandOver, ModelAnswers, FallbackThrows
<1>2. pc \in {"rules", "act", "settle"} \cup AiStages
  BY DEF AiStages
<1>3. /\ pass' \in [Passes -> PassRecords]
      /\ pass'[p].pc = pc /\ pass'[p].msg = pass[p].msg
      /\ pass'[p].verdict = pass[p].verdict /\ pass'[p].ran = pass[p].ran
      /\ \A q \in Passes \ {p} : pass'[q] = pass[q]
  BY <1>0, <1>1, <1>2, Going
<1>4. faults' \in 0 .. MaxFaults
  <2>1. CASE faults' = faults
    BY <1>0, <2>1 DEF TypeOK
  <2>2. CASE FallbackThrows(p, m)
    BY <1>0, <2>2, FaultCounted DEF FallbackThrows
  <2> QED
    BY <2>1, <2>2 DEF Operating, NotEligible, AskModel, HandOver, ModelAnswers
<1>5. UNCHANGED <<row, age, stored, batch, alerts>>
  BY DEF Operating, NotEligible, AskModel, HandOver, ModelAnswers, FallbackThrows
<1>6. TypeOK'
  BY <1>0, <1>3, <1>4, <1>5 DEF TypeOK, stored
<1> QED
  BY <1>3, <1>5, <1>6, Quiet

LEMMA EvaluateKeepsIInv ==
  ASSUME IInv, NEW p \in Passes, NEW m \in Messages, NEW v \in Verdicts, Evaluate(p, m, v)
  PROVE  IInv'
<1> DEFINE pc == IF AiRuns(v) THEN "ai" ELSE "act"
           n == [Idle EXCEPT !.pc = pc, !.msg = m, !.verdict = v]
<1>0. TypeOK /\ pc \in {"ai", "act"}
  BY DEF IInv
<1>1. n \in PassRecords /\ n.pc \in {"ai", "act"} /\ n.ran = {}
  BY <1>0 DEF PassRecords, Idle, AiStages
<1>2. pass' = [pass EXCEPT ![p] = n]
  BY DEF Evaluate
<1> HIDE DEF n, pc
<1>3. /\ pass' \in [Passes -> PassRecords]
      /\ pass'[p] = n
      /\ \A q \in Passes \ {p} : pass'[q] = pass[q]
  BY <1>0, <1>1, <1>2, Stopping
<1>4. UNCHANGED <<row, age, stored, batch, faults, alerts>>
  BY DEF Evaluate
<1>5. TypeOK'
  BY <1>0, <1>3, <1>4 DEF TypeOK, stored
<1> QED
  BY <1>1, <1>3, <1>4, <1>5, Quiet

(* The sweep and the crash.                                                *)
LEMMA SweepKeepsIInv ==
  ASSUME IInv, Crash \/ Find \/ \E f \in batch : SettleLate(f) \/ Rerun(f) \/ SkipThrowing(f)
  PROVE  IInv'
<1>0. TypeOK /\ Sweep \in Passes /\ "IGNORED" \in Statuses
  BY DEF IInv, Passes, Statuses
<1>1. CASE Crash
  <2>1. pass' \in [Passes -> PassRecords] /\ \A q \in Passes : pass'[q] = Idle
    BY <1>1 DEF Crash, Idle, PassRecords
  <2>2. faults' \in 0 .. MaxFaults
    BY <1>0, <1>1, FaultCounted DEF Crash
  <2>3. TypeOK'
    BY <1>0, <1>1, <2>1, <2>2 DEF Crash, TypeOK, stored
  <2>4. Idle.pc = "idle" /\ Idle.ran = {}
    BY DEF Idle
  <2> QED
    BY <1>1, <2>1, <2>3, <2>4, Quiet DEF Crash
<1>2. CASE Find
  <2>1. batch' \subseteq Found
    <3> SUFFICES ASSUME NEW f \in batch' PROVE f \in Found
      OBVIOUS
    <3>1. PICK m \in Messages : f = [msg |-> m, late |-> age[m] = "LATE"]
      BY <1>2 DEF Find
    <3>2. (age[m] = "LATE") \in BOOLEAN
      OBVIOUS
    <3> QED
      BY <3>1, <3>2 DEF Found
  <2>2. TypeOK'
    BY <1>0, <1>2, <2>1 DEF Find, TypeOK, stored
  <2> QED
    BY <1>2, <2>2, Quiet DEF Find
<1>3. ASSUME NEW f \in batch, SettleLate(f) \/ Rerun(f) \/ SkipThrowing(f) PROVE IInv'
  <2>0. f \in Found /\ f.msg \in Messages
    BY <1>0 DEF TypeOK, Found
  <2>1. CASE SettleLate(f)
    <3>1. row' \in [Messages -> Statuses]
      BY <1>0, <2>0, <2>1, StatusWritten DEF SettleLate
    <3>2. TypeOK'
      BY <1>0, <2>1, <3>1 DEF SettleLate, TypeOK, stored
    <3> QED
      BY <2>1, <3>2, Quiet DEF SettleLate
  <2>2. CASE Rerun(f)
    <3>1. /\ pass' \in [Passes -> PassRecords]
          /\ pass'[Sweep] = Begin(f.msg)
          /\ \A q \in Passes \ {Sweep} : pass'[q] = pass[q]
      BY <1>0, <2>0, <2>2, Fresh, Stopping DEF Rerun
    <3>2. TypeOK'
      BY <1>0, <2>2, <3>1 DEF Rerun, TypeOK, stored
    <3> QED
      BY <2>0, <2>2, <3>1, <3>2, Fresh, Quiet DEF Rerun
  <2>3. CASE SkipThrowing(f)
    <3>1. faults' \in 0 .. MaxFaults
      BY <1>0, <2>3, FaultCounted DEF SkipThrowing
    <3>2. TypeOK'
      BY <1>0, <2>3, <3>1 DEF SkipThrowing, TypeOK, stored
    <3> QED
      BY <2>3, <3>2, Quiet DEF SkipThrowing
  <2> QED
    BY <1>3, <2>1, <2>2, <2>3
<1> QED
  BY <1>1, <1>2, <1>3

----------------------------------------------------------------------------
(* The steps that write something a customer or a person will see.         *)

(* What has been carried out stays carried out while keys and              *)
(* notifications are only added.                                           *)
LEMMA EffectStays ==
  ASSUME outbound \subseteq outbound', silenced \subseteq silenced', NEW m, NEW r, NEW i,
         notified[m][r] > 0 => notified'[m][r] > 0, Effect(m, r, i)
  PROVE  Effect(m, r, i)'
  BY DEF Effect

(* A step of the AI fallback remembers no action.                          *)
LEMMA GoingRecords ==
  ASSUME IInv, NEW p \in Passes, NEW pc \in {"rules", "act", "settle"} \cup AiStages, Go(p, pc),
         outbound \subseteq outbound', UNCHANGED <<notified, silenced, executed>>
  PROVE  RecordInv'
<1>1. TypeOK
  BY DEF IInv
<1>2. \A q \in Passes :
        pass'[q].msg = pass[q].msg /\ pass'[q].verdict = pass[q].verdict
          /\ pass'[q].ran = pass[q].ran
  BY <1>1, Going
<1>3. RecordedMeansDone'
  BY EffectStays DEF IInv, RecordInv, RecordedMeansDone
<1>4. ASSUME NEW q \in Passes, NEW i \in pass'[q].ran
      PROVE  (pass[q].msg \in Messages /\ pass[q].verdict \in Rules
                /\ Effect(pass[q].msg, pass[q].verdict, i))'
  <2>1. /\ pass[q].msg \in Messages /\ pass[q].verdict \in Rules
        /\ Effect(pass[q].msg, pass[q].verdict, i)
    BY <1>2, <1>4 DEF IInv, RecordInv
  <2> QED
    BY <1>2, <2>1 DEF Effect
<1>5. \A e \in executed' : e.rule \in Rules
  BY DEF IInv, RecordInv
<1> QED
  BY <1>3, <1>4, <1>5 DEF RecordInv

LEMMA AnswerKeepsIInv ==
  ASSUME IInv, NEW p \in Passes, NEW m \in Messages,
         QueueAnswer(p, m) \/ DecideReplied(p, m)
  PROVE  IInv'
<1>0. TypeOK /\ {"decide", "act"} \subseteq AiStages \cup {"rules", "act", "settle"}
  BY DEF IInv, AiStages
<1>1. CASE QueueAnswer(p, m)
  <2>1. /\ Go(p, "decide") /\ outbound \subseteq outbound'
        /\ UNCHANGED <<notified, silenced, executed>>
    BY <1>1 DEF QueueAnswer
  <2>2. RecordInv'
    BY <1>0, <2>1, GoingRecords
  <2>3. /\ pass' \in [Passes -> PassRecords]
        /\ pass'[p].pc = "decide" /\ pass'[p].msg = m
        /\ \A q \in Passes \ {p} : pass'[q] = pass[q]
    BY <1>0, <1>1, <2>1, Going, AtStage DEF QueueAnswer
  <2>4. outbound' \subseteq Keys /\ Key(m, System, "AUTO_REPLY") \in outbound'
    BY <1>0, <1>1 DEF QueueAnswer, TypeOK, Key, Keys, Kinds
  <2>5. TypeOK'
    BY <1>0, <1>1, <2>3, <2>4 DEF QueueAnswer, TypeOK
  <2>6. HandoverInv'
    BY <1>0, <1>1, <2>3 DEF QueueAnswer, IInv, HandoverInv, HandedOverOnce, At, Key
  <2>7. AnswerInv'
    BY <1>1, <2>1, <2>3, <2>4 DEF QueueAnswer, IInv, AnswerInv, RepliedMeansQueued, At
  <2> QED
    BY <2>2, <2>5, <2>6, <2>7 DEF IInv
<1>2. CASE DecideReplied(p, m)
  <2>1. /\ Go(p, "act") /\ outbound \subseteq outbound'
        /\ UNCHANGED <<outbound, notified, silenced, executed>>
    BY <1>2 DEF DecideReplied
  <2>2. RecordInv'
    BY <1>0, <2>1, GoingRecords
  <2>3. /\ pass' \in [Passes -> PassRecords]
        /\ pass'[p].pc = "act"
        /\ \A q \in Passes \ {p} : pass'[q] = pass[q]
    BY <1>0, <2>1, Going
  <2>4. /\ \A k \in Messages : decision[k] # "NONE" => decision'[k] = decision[k]
        /\ \A k \in Messages : decision'[k] = "AI_REPLIED" => k = m \/ decision[k] = "AI_REPLIED"
        /\ decision' \in [Messages -> {"NONE", "AI_REPLIED", "HUMAN_FALLBACK"}]
    BY <1>0, <1>2 DEF DecideReplied, TypeOK
  <2>5. TypeOK'
    BY <1>0, <1>2, <2>3, <2>4 DEF DecideReplied, TypeOK
  <2>6. HandoverInv'
    BY <1>2, <2>3, <2>4 DEF DecideReplied, IInv, HandoverInv, HandedOverOnce, At
  <2>7. AnswerInv'
    BY <1>2, <2>3, <2>4 DEF DecideReplied, IInv, AnswerInv, RepliedMeansQueued, At
  <2> QED
    BY <2>2, <2>5, <2>6, <2>7 DEF IInv
<1> QED
  BY <1>1, <1>2

(* The claim: whoever writes the decision is alone at the alert.           *)
LEMMA ClaimKeepsIInv ==
  ASSUME IInv, NEW p \in Passes, NEW m \in Messages, Claim(p, m)
  PROVE  IInv'
<1>0. TypeOK /\ {"alert", "act"} \subseteq AiStages \cup {"rules", "act", "settle"}
  BY DEF IInv, AiStages
<1>1. PICK pc \in {"alert", "act"} :
        Go(p, pc) /\ (pc = "alert" <=> decision[m] = "NONE")
  BY DEF Claim
<1>2. /\ outbound \subseteq outbound'
      /\ UNCHANGED <<outbound, notified, silenced, executed, alerts>>
  BY DEF Claim
<1>3. RecordInv'
  BY <1>0, <1>1, <1>2, GoingRecords
<1>4. /\ pass' \in [Passes -> PassRecords]
      /\ pass'[p].pc = pc /\ pass'[p].msg = m
      /\ \A q \in Passes \ {p} : pass'[q] = pass[q]
  <2>1. pc \in AiStages \cup {"rules", "act", "settle"} /\ pass[p].msg = m
    BY <1>0, AtStage DEF Claim
  <2> QED
    BY <1>0, <1>1, <2>1, Going
<1>5. /\ \A k \in Messages : decision[k] # "NONE" => decision'[k] = decision[k]
      /\ \A k \in Messages : decision'[k] = "AI_REPLIED" => decision[k] = "AI_REPLIED"
      /\ decision[m] = "NONE" => decision'[m] = "HUMAN_FALLBACK"
      /\ decision' \in [Messages -> {"NONE", "AI_REPLIED", "HUMAN_FALLBACK"}]
  BY <1>0 DEF Claim, TypeOK
<1>6. TypeOK'
  BY <1>0, <1>4, <1>5 DEF Claim, TypeOK
<1>7. HandoverInv'
  <2>1. HandedOverOnce'
    BY <1>2, <1>5 DEF IInv, HandoverInv, HandedOverOnce
  <2>2. decision[m] = "NONE" => alerts[m] = 0 /\ \A q \in Passes : ~At(q, "alert", m)
    <3> SUFFICES ASSUME decision[m] = "NONE"
                 PROVE  alerts[m] = 0 /\ \A q \in Passes : ~At(q, "alert", m)
      OBVIOUS
    <3>1. alerts[m] \in Nat /\ ~(alerts[m] > 0)
      BY <1>0 DEF IInv, HandoverInv, HandedOverOnce, TypeOK
    <3>2. \A q \in Passes : ~At(q, "alert", m)
      BY DEF IInv, HandoverInv
    <3> QED
      BY <3>1, <3>2
  <2>3. ASSUME NEW q \in Passes, NEW k \in Messages, At(q, "alert", k)'
        PROVE  decision'[k] = "HUMAN_FALLBACK" /\ alerts'[k] = 0
    <3>1. CASE q = p
      BY <1>1, <1>2, <1>4, <1>5, <2>2, <2>3, <3>1 DEF At
    <3>2. CASE q # p
      BY <1>2, <1>4, <1>5, <2>3, <3>2 DEF At, IInv, HandoverInv
    <3> QED
      BY <3>1, <3>2
  <2>4. ASSUME NEW q \in Passes, NEW k \in Messages, At(q, "holding", k)' \/ At(q, "mention", k)'
        PROVE  decision'[k] = "HUMAN_FALLBACK"
    BY <1>1, <1>4, <1>5, <2>4 DEF At, IInv, HandoverInv
  <2>5. ASSUME NEW q \in Passes, NEW s \in Passes, NEW k \in Messages,
               At(q, "alert", k)', At(s, "alert", k)'
        PROVE  q = s
    BY <1>1, <1>4, <2>2, <2>5 DEF At, IInv, HandoverInv
  <2> QED
    BY <2>1, <2>3, <2>4, <2>5 DEF HandoverInv, At
<1>8. AnswerInv'
  BY <1>1, <1>2, <1>4, <1>5 DEF IInv, AnswerInv, RepliedMeansQueued, At
<1> QED
  BY <1>3, <1>6, <1>7, <1>8 DEF IInv

(* What the one pass sends that made the claim.                            *)
LEMMA SendingKeepsIInv ==
  ASSUME IInv, NEW p \in Passes, NEW m \in Messages,
         Alert(p, m) \/ Hold(p, m) \/ Mention(p, m)
  PROVE  IInv'
<1>0. TypeOK /\ {"holding", "mention", "act"} \subseteq AiStages \cup {"rules", "act", "settle"}
  BY DEF IInv, AiStages
<1>1. PICK pc \in {"holding", "mention", "act"} : Go(p, pc)
  BY DEF Alert, Hold, Mention
<1>2. /\ UNCHANGED <<row, age, decision, notified, silenced, executed, batch, faults>>
      /\ outbound \subseteq outbound'
  BY DEF Alert, Hold, Mention, stored
<1>3. RecordInv'
  BY <1>0, <1>1, <1>2, GoingRecords
<1>4. /\ pass' \in [Passes -> PassRecords]
      /\ pass'[p].pc = pc /\ pass'[p].msg = m
      /\ \A q \in Passes \ {p} : pass'[q] = pass[q]
  <2>1. pc \in AiStages \cup {"rules", "act", "settle"} /\ pass[p].msg = m
    BY <1>0, AtStage DEF Alert, Hold, Mention
  <2> QED
    BY <1>0, <1>1, <2>1, Going
<1>5. decision[m] = "HUMAN_FALLBACK"
  BY DEF Alert, Hold, Mention, IInv, HandoverInv
<1>6. /\ outbound' \subseteq Keys
      /\ \A k \in Messages : k # m =>
           /\ Key(k, System, "HOLDING") \in outbound' => Key(k, System, "HOLDING") \in outbound
           /\ Key(k, System, "MENTION") \in outbound' => Key(k, System, "MENTION") \in outbound
  BY <1>0 DEF Alert, Hold, Mention, TypeOK, Key, Keys, Kinds, stored
<1>7. /\ alerts' \in [Messages -> Nat]
      /\ alerts'[m] <= 1
      /\ \A k \in Messages \ {m} : alerts'[k] = alerts[k]
  <2>1. CASE Alert(p, m)
    <3>1. alerts[m] = 0
      BY <2>1 DEF Alert, IInv, HandoverInv
    <3> QED
      BY <1>0, <2>1, <3>1 DEF Alert, TypeOK
  <2>2. CASE Hold(p, m) \/ Mention(p, m)
    BY <1>0, <2>2 DEF Hold, Mention, IInv, HandoverInv, HandedOverOnce, TypeOK
  <2> QED
    BY <2>1, <2>2
<1>8. TypeOK'
  BY <1>0, <1>2, <1>4, <1>6, <1>7 DEF TypeOK
<1>9. HandoverInv'
  <2>1. HandedOverOnce'
    BY <1>2, <1>5, <1>6, <1>7 DEF IInv, HandoverInv, HandedOverOnce
  <2>2. ASSUME NEW q \in Passes, NEW k \in Messages, At(q, "alert", k)'
        PROVE  (decision[k] = "HUMAN_FALLBACK" /\ alerts[k] = 0)'
    <3>1. q # p /\ At(q, "alert", k)
      BY <1>4, <2>2 DEF At
    <3>2. alerts'[k] = alerts[k]
      <4>1. CASE Alert(p, m)
        <5>1. k # m
          BY <3>1, <4>1 DEF Alert, IInv, HandoverInv
        <5> QED
          BY <1>7, <5>1
      <4>2. CASE Hold(p, m) \/ Mention(p, m)
        BY <4>2 DEF Hold, Mention
      <4> QED
        BY <4>1, <4>2
    <3> QED
      BY <1>2, <3>1, <3>2 DEF IInv, HandoverInv
  <2>3. ASSUME NEW q \in Passes, NEW k \in Messages, At(q, "holding", k)' \/ At(q, "mention", k)'
        PROVE  decision'[k] = "HUMAN_FALLBACK"
    BY <1>2, <1>4, <1>5, <2>3 DEF At, IInv, HandoverInv
  <2>4. ASSUME NEW q \in Passes, NEW s \in Passes, NEW k \in Messages,
               At(q, "alert", k)', At(s, "alert", k)'
        PROVE  q = s
    BY <1>4, <2>4 DEF At, IInv, HandoverInv
  <2> QED
    BY <2>1, <2>2, <2>3, <2>4 DEF HandoverInv, At
<1>10. AnswerInv'
  BY <1>2, <1>4 DEF IInv, AnswerInv, RepliedMeansQueued, At
<1> QED
  BY <1>3, <1>8, <1>9, <1>10 DEF IInv

----------------------------------------------------------------------------
(* The actions of a rule.                                                  *)

(* Only a rule has an action that is due.                                  *)
LEMMA DueOfRule ==
  ASSUME TypeOK, NEW p \in Passes, NEW m \in Messages, NEW kinds, ActionDue(p, m, kinds)
  PROVE  /\ pass[p].verdict \in Rules /\ pass[p].msg = m /\ pass[p].pc = "act"
         /\ ThisAction(p) \in Nat \ {0}
         /\ ActionsFor(pass[p].verdict)[ThisAction(p)] \in kinds
<1>1. pass[p] \in PassRecords /\ pass[p].done \in Nat
  BY DEF TypeOK, PassRecords
<1>2. pass[p].verdict \in Rules
  <2>1. CASE pass[p].verdict \notin Rules
    BY <1>1, <2>1 DEF ActionDue, ActionsFor
  <2> QED
    BY <2>1
<1> QED
  BY <1>1, <1>2 DEF ActionDue, At, ThisAction

LEMMA Trying ==
  ASSUME TypeOK, NEW p \in Passes, NEW ran \in SUBSET (Nat \ {0}), Tried(p, ran)
  PROVE  /\ pass' \in [Passes -> PassRecords]
         /\ pass'[p].pc = pass[p].pc /\ pass'[p].msg = pass[p].msg
         /\ pass'[p].verdict = pass[p].verdict /\ pass'[p].ran = ran
         /\ \A q \in Passes \ {p} : pass'[q] = pass[q]
<1> DEFINE n == [pass[p] EXCEPT !.done = @ + 1, !.ran = ran]
<1>1. pass[p] \in PassRecords /\ pass[p].done + 1 \in Nat
  BY DEF TypeOK, PassRecords
<1>2. n \in PassRecords /\ n.pc = pass[p].pc /\ n.msg = pass[p].msg
        /\ n.verdict = pass[p].verdict /\ n.ran = ran
  <2> DEFINE next == pass[p].done + 1
  <2>1. n = [pass[p] EXCEPT !.done = next, !.ran = ran] /\ next \in Nat
    BY <1>1
  <2> HIDE DEF next, n
  <2> QED
    BY <1>1, <2>1 DEF PassRecords
<1>3. pass' = [pass EXCEPT ![p] = n]
  BY DEF Tried
<1> HIDE DEF n
<1> QED
  BY <1>2, <1>3 DEF TypeOK

(* An action that is tried adds to what the pass remembers only what is    *)
(* there now, and leaves what others claimed alone.                        *)
LEMMA TryingKeepsIInv ==
  ASSUME IInv, NEW p \in Passes, NEW m \in Messages, NEW kinds, ActionDue(p, m, kinds),
         NEW ran \in SUBSET (Nat \ {0}), Tried(p, ran),
         NEW i, i = ThisAction(p), ran \subseteq pass[p].ran \cup {i},
         NEW v, v = pass[p].verdict, i \in ran => i \in pass[p].ran \/ Effect(m, v, i)',
         UNCHANGED <<row, age, decision, executed, batch, faults, alerts>>,
         outbound' \subseteq Keys, outbound \subseteq outbound',
         \A key \in outbound' \ outbound : key.kind \notin {"HOLDING", "MENTION"},
         silenced' \subseteq Carried, silenced \subseteq silenced',
         notified' \in [Messages -> [Rules -> Nat]],
         \A k \in Messages, r \in Rules : notified[k][r] > 0 => notified'[k][r] > 0
  PROVE  IInv'
<1>0. TypeOK
  BY DEF IInv
<1>1. /\ pass' \in [Passes -> PassRecords]
      /\ pass'[p].pc = "act" /\ pass'[p].msg = m /\ pass[p].msg = m
      /\ pass[p].verdict \in Rules
      /\ pass'[p].verdict = pass[p].verdict /\ pass'[p].ran = ran
      /\ \A q \in Passes \ {p} : pass'[q] = pass[q]
  BY <1>0, Trying, DueOfRule
<1>2. TypeOK'
  BY <1>0, <1>1 DEF TypeOK
<1>3. HandoverInv'
  <2>1. \A k \in Messages, kind \in {"HOLDING", "MENTION"} :
          Key(k, System, kind) \in outbound' => Key(k, System, kind) \in outbound
    BY DEF Key
  <2> QED
    BY <1>1, <2>1 DEF IInv, HandoverInv, HandedOverOnce, At
<1>4. AnswerInv'
  BY <1>1 DEF IInv, AnswerInv, RepliedMeansQueued, At
<1>5. RecordInv'
  <2>1. RecordedMeansDone'
    <3> SUFFICES ASSUME NEW e \in executed PROVE Effect(e.msg, e.rule, e.index)'
      BY DEF RecordedMeansDone
    <3>1. e.msg \in Messages /\ e.rule \in Rules /\ Effect(e.msg, e.rule, e.index)
      BY <1>0 DEF IInv, RecordInv, RecordedMeansDone, TypeOK, Carried
    <3> QED
      BY <3>1 DEF Effect
  <2>2. ASSUME NEW q \in Passes, NEW j \in pass'[q].ran
        PROVE  (pass[q].msg \in Messages /\ pass[q].verdict \in Rules
                  /\ Effect(pass[q].msg, pass[q].verdict, j))'
    <3>1. CASE j \in pass[q].ran
      <4>1. /\ pass[q].msg \in Messages /\ pass[q].verdict \in Rules
            /\ Effect(pass[q].msg, pass[q].verdict, j)
        BY <3>1 DEF IInv, RecordInv
      <4>2. pass'[q].msg = pass[q].msg /\ pass'[q].verdict = pass[q].verdict
        BY <1>1
      <4> QED
        BY <4>1, <4>2 DEF Effect
    <3>2. CASE j \notin pass[q].ran
      <4>1. q = p /\ j = i /\ Effect(m, v, i)'
        BY <1>1, <2>2, <3>2
      <4>2. pass'[q].msg = m /\ pass'[q].verdict = v
        BY <1>1, <4>1
      <4> QED
        BY <1>1, <4>1, <4>2 DEF Effect
    <3> QED
      BY <3>1, <3>2
  <2>3. \A e \in executed' : e.rule \in Rules
    BY DEF IInv, RecordInv
  <2> QED
    BY <2>1, <2>2, <2>3 DEF RecordInv
<1> QED
  BY <1>2, <1>3, <1>4, <1>5 DEF IInv

LEMMA ActionsKeepIInv ==
  ASSUME IInv, NEW p \in Passes, NEW m \in Messages,
         \/ QueueReply(p, m) \/ Notify(p, m) \/ NotifyMuted(p, m)
         \/ Refuse(p, m) \/ Mark(p, m)
  PROVE  IInv'
<1>0. TypeOK /\ pass[p].ran \in SUBSET (Nat \ {0})
  BY DEF IInv, TypeOK, PassRecords
<1>1. PICK kinds : ActionDue(p, m, kinds)
  BY DEF QueueReply, Notify, NotifyMuted, Refuse, Mark
<1>2. PICK i \in Nat \ {0}, v \in Rules :
        i = ThisAction(p) /\ v = pass[p].verdict /\ pass[p].msg = m
  BY <1>0, <1>1, DueOfRule
<1>3. pass[p].ran \in SUBSET (Nat \ {0}) /\ pass[p].ran \cup {i} \in SUBSET (Nat \ {0})
  BY <1>0, <1>2
<1>4. CASE QueueReply(p, m)
  <2>1. PICK kind \in {"AUTO_REPLY", "FORWARD"} :
          kind = ActionsFor(v)[i] /\ outbound' = outbound \cup {Key(m, v, kind)}
    <3>1. ActionDue(p, m, {"AUTO_REPLY", "FORWARD"})
      BY <1>4 DEF QueueReply
    <3> QED
      BY <1>0, <1>2, <1>4, <3>1, DueOfRule DEF QueueReply
  <2>2. PICK ran \in {pass[p].ran, pass[p].ran \cup {i}} : Tried(p, ran)
    BY <1>2, <1>4 DEF QueueReply
  <2>3. Key(m, v, kind) \in Keys /\ Key(m, v, kind).kind = kind
    BY DEF Key, Keys, Kinds
  <2>4. UNCHANGED <<row, age, decision, notified, silenced, executed, batch, faults, alerts>>
    BY <1>4 DEF QueueReply
  <2>5. Effect(m, v, i)'
    BY <2>1 DEF Effect
  <2>6. /\ outbound' \subseteq Keys /\ outbound \subseteq outbound'
        /\ \A key \in outbound' \ outbound : key.kind \notin {"HOLDING", "MENTION"}
    BY <1>0, <2>1, <2>3 DEF TypeOK
  <2>7. notified' \in [Messages -> [Rules -> Nat]] /\ silenced' \subseteq Carried
    BY <1>0, <2>4 DEF TypeOK
  <2>8. ran \in SUBSET (Nat \ {0}) /\ ran \subseteq pass[p].ran \cup {i}
    BY <1>3, <2>2
  <2> QED
    BY <1>1, <1>2, <2>2, <2>4, <2>5, <2>6, <2>7, <2>8, TryingKeepsIInv
<1>5. CASE Notify(p, m)
  <2>1. ActionsFor(v)[i] = "NOTIFY"
    <3>1. ActionDue(p, m, {"NOTIFY"})
      BY <1>5 DEF Notify
    <3> QED
      BY <1>0, <1>2, <3>1, DueOfRule
  <2>2. notified' = [notified EXCEPT ![m][v] = @ + 1] /\ Tried(p, pass[p].ran \cup {i})
    BY <1>2, <1>5 DEF Notify
  <2>3. /\ notified' \in [Messages -> [Rules -> Nat]]
        /\ notified'[m][v] > 0
        /\ \A k \in Messages, r \in Rules : notified[k][r] > 0 => notified'[k][r] > 0
    <3>1. notified \in [Messages -> [Rules -> Nat]]
      BY <1>0 DEF TypeOK
    <3> QED
      BY <2>2, <3>1
  <2>4. UNCHANGED <<row, age, decision, outbound, silenced, executed, batch, faults, alerts>>
    BY <1>5 DEF Notify
  <2>5. Effect(m, v, i)'
    BY <2>1, <2>3 DEF Effect
  <2>6. outbound' \subseteq Keys /\ silenced' \subseteq Carried
    BY <1>0, <2>4 DEF TypeOK
  <2> QED
    BY <1>1, <1>2, <1>3, <2>2, <2>3, <2>4, <2>5, <2>6, TryingKeepsIInv
<1>6. CASE NotifyMuted(p, m)
  <2> DEFINE muted == [msg |-> m, rule |-> v, index |-> i]
  <2>1. ActionsFor(v)[i] = "NOTIFY"
    <3>1. ActionDue(p, m, {"NOTIFY"})
      BY <1>6 DEF NotifyMuted
    <3> QED
      BY <1>0, <1>2, <3>1, DueOfRule
  <2>2. silenced' = silenced \cup {muted} /\ Tried(p, pass[p].ran \cup {i})
    BY <1>2, <1>6 DEF NotifyMuted
  <2>3. silenced' \subseteq Carried /\ silenced \subseteq silenced' /\ muted \in silenced'
    BY <1>0, <1>2, <2>2 DEF TypeOK, Carried
  <2>4. UNCHANGED <<row, age, decision, outbound, notified, executed, batch, faults, alerts>>
    BY <1>6 DEF NotifyMuted
  <2>5. Effect(m, v, i)'
    BY <2>1, <2>3 DEF Effect
  <2>6. outbound' \subseteq Keys /\ notified' \in [Messages -> [Rules -> Nat]]
    BY <1>0, <2>4 DEF TypeOK
  <2> QED
    BY <1>1, <1>2, <1>3, <2>2, <2>3, <2>4, <2>5, <2>6, TryingKeepsIInv
<1>7. CASE Refuse(p, m)
  <2>1. Tried(p, pass[p].ran) /\ UNCHANGED <<row, age, stored, batch, faults, alerts>>
    BY <1>7 DEF Refuse
  <2>2. /\ outbound' \subseteq Keys /\ silenced' \subseteq Carried
        /\ notified' \in [Messages -> [Rules -> Nat]]
    BY <1>0, <2>1 DEF TypeOK, stored
  <2>3. UNCHANGED <<decision, outbound, notified, silenced, executed>>
    BY <2>1 DEF stored
  <2> QED
    BY <1>1, <1>2, <1>3, <2>1, <2>2, <2>3, TryingKeepsIInv
<1>8. CASE Mark(p, m)
  <2>1. Tried(p, pass[p].ran \cup {i}) /\ UNCHANGED <<row, age, stored, batch, faults, alerts>>
    BY <1>2, <1>8 DEF Mark
  <2>2. /\ outbound' \subseteq Keys /\ silenced' \subseteq Carried
        /\ notified' \in [Messages -> [Rules -> Nat]]
    BY <1>0, <2>1 DEF TypeOK, stored
  <2>3. UNCHANGED <<decision, outbound, notified, silenced, executed>>
    BY <2>1 DEF stored
  <2>4. Effect(m, v, i)'
    <3>1. ActionDue(p, m, {"IGNORE", "TAG", "SUPPORT_REQUIRED", "STOP_PROCESSING"})
      BY <1>8 DEF Mark
    <3>2. ActionsFor(v)[i] \notin {"AUTO_REPLY", "FORWARD", "NOTIFY"}
      BY <1>0, <1>2, <3>1, DueOfRule
    <3> QED
      BY <3>2 DEF Effect
  <2> QED
    BY <1>1, <1>2, <1>3, <2>1, <2>2, <2>3, <2>4, TryingKeepsIInv
<1> QED
  BY <1>4, <1>5, <1>6, <1>7, <1>8

LEMMA RecordKeepsIInv ==
  ASSUME IInv, NEW p \in Passes, NEW m \in Messages, RecordExecution(p, m)
  PROVE  IInv'
<1> DEFINE v == pass[p].verdict
           new == {[msg |-> m, rule |-> RuleId(v), index |-> i] : i \in pass[p].ran}
<1>0. TypeOK /\ Go(p, "settle") /\ pass[p].msg = m
  BY AtStage DEF IInv, RecordExecution
<1>1. /\ pass' \in [Passes -> PassRecords]
      /\ pass'[p].pc = "settle" /\ pass'[p].msg = m
      /\ \A q \in Passes :
           pass'[q].msg = pass[q].msg /\ pass'[q].verdict = pass[q].verdict
             /\ pass'[q].ran = pass[q].ran
      /\ \A q \in Passes \ {p} : pass'[q] = pass[q]
  BY <1>0, Going
<1>2. UNCHANGED <<row, age, decision, outbound, notified, silenced, batch, faults, alerts>>
  BY DEF RecordExecution
<1>3. executed' \subseteq executed \cup new
  BY DEF RecordExecution
<1>4. \A e \in new : /\ e \in Carried /\ e.rule \in Rules
                     /\ Effect(e.msg, e.rule, e.index)
  <2> SUFFICES ASSUME NEW i \in pass[p].ran
               PROVE  /\ [msg |-> m, rule |-> RuleId(v), index |-> i] \in Carried
                      /\ RuleId(v) \in Rules
                      /\ Effect(m, RuleId(v), i)
    OBVIOUS
  <2>1. v \in Rules /\ Effect(m, v, i)
    BY <1>0 DEF IInv, RecordInv
  <2>2. i \in Nat \ {0} /\ RuleId(v) = v
    BY <1>0, <2>1 DEF TypeOK, PassRecords, RuleId
  <2> QED
    BY <2>1, <2>2 DEF Carried
<1>5. TypeOK'
  <2>1. executed' \subseteq Carried
    BY <1>0, <1>3, <1>4 DEF TypeOK
  <2> QED
    BY <1>0, <1>1, <1>2, <2>1 DEF TypeOK
<1>6. HandoverInv' /\ AnswerInv'
  BY <1>1, <1>2 DEF IInv, HandoverInv, HandedOverOnce, AnswerInv, RepliedMeansQueued, At
<1>7. RecordInv'
  <2>1. \A e \in executed' : e.rule \in Rules /\ Effect(e.msg, e.rule, e.index)
    BY <1>3, <1>4 DEF IInv, RecordInv, RecordedMeansDone
  <2>2. RecordedMeansDone'
    BY <1>2, <2>1 DEF RecordedMeansDone, Effect
  <2>3. ASSUME NEW q \in Passes, NEW j \in pass'[q].ran
        PROVE  (pass[q].msg \in Messages /\ pass[q].verdict \in Rules
                  /\ Effect(pass[q].msg, pass[q].verdict, j))'
    <3>1. /\ pass[q].msg \in Messages /\ pass[q].verdict \in Rules
          /\ Effect(pass[q].msg, pass[q].verdict, j)
      BY <1>1, <2>3 DEF IInv, RecordInv
    <3> QED
      BY <1>1, <1>2, <3>1 DEF Effect
  <2> QED
    BY <2>1, <2>2, <2>3 DEF RecordInv
<1> QED
  BY <1>5, <1>6, <1>7 DEF IInv

----------------------------------------------------------------------------
LEMMA NextKeepsIInv == IInv /\ [Next]_vars => IInv'
<1> SUFFICES ASSUME IInv, [Next]_vars PROVE IInv'
  OBVIOUS
<1>1. CASE \E m \in Messages : Receive(m) \/ StoreMissed(m) \/ ReceiveThrows(m) \/ Age(m)
  BY <1>1, StoringKeepsIInv
<1>2. ASSUME NEW p \in Passes, NEW m \in Messages, Step(p, m) \/ Fault(p, m) PROVE IInv'
  <2>1. CASE \/ NotOperating(p, m) \/ NotPrimary(p, m) \/ Settle(p, m) \/ MarkFailed(p, m)
             \/ StartThrows(p, m) \/ MarkLost(p, m) \/ StageThrows(p, m) \/ NotPrimaryThrows(p, m)
    BY <2>1, EndingKeepsIInv
  <2>2. CASE \/ Operating(p, m) \/ NotEligible(p, m) \/ AskModel(p, m) \/ HandOver(p, m)
             \/ ModelAnswers(p, m) \/ FallbackThrows(p, m)
    BY <2>2, ChoosingKeepsIInv
  <2>3. CASE \E v \in Verdicts : Evaluate(p, m, v)
    BY <2>3, EvaluateKeepsIInv
  <2>4. CASE QueueAnswer(p, m) \/ DecideReplied(p, m)
    BY <2>4, AnswerKeepsIInv
  <2>5. CASE Claim(p, m)
    BY <2>5, ClaimKeepsIInv
  <2>6. CASE Alert(p, m) \/ Hold(p, m) \/ Mention(p, m)
    BY <2>6, SendingKeepsIInv
  <2>7. CASE \/ QueueReply(p, m) \/ Notify(p, m) \/ NotifyMuted(p, m)
             \/ Refuse(p, m) \/ Mark(p, m)
    BY <2>7, ActionsKeepIInv
  <2>8. CASE RecordExecution(p, m)
    BY <2>8, RecordKeepsIInv
  <2> QED
    BY <1>2, <2>1, <2>2, <2>3, <2>4, <2>5, <2>6, <2>7, <2>8 DEF Step, Fault
<1>3. CASE SweepStep \/ (\E f \in batch : SkipThrowing(f)) \/ Crash
  BY <1>3, SweepKeepsIInv DEF SweepStep
<1>4. CASE UNCHANGED vars
  <2>1. TypeOK'
    BY <1>4 DEF vars, stored, IInv, TypeOK
  <2>2. UNCHANGED <<stored, alerts>> /\ pass' = pass
    BY <1>4 DEF vars, stored
  <2> QED
    BY <2>1, <2>2, Quiet
<1> QED
  BY <1>1, <1>2, <1>3, <1>4 DEF Next

(* The inductive invariant holds in every reachable state.                 *)
THEOREM PipelineInvariant == Spec => []IInv
BY InitIInv, NextKeepsIInv, PTL DEF Spec

(* Type correctness of the automation stage.                               *)
THEOREM TypeCorrect == Spec => []TypeOK
<1>1. IInv => TypeOK
  BY DEF IInv
<1> QED
  BY <1>1, PipelineInvariant, PTL

(* The team is alerted at most once about a message, and nothing of a      *)
(* handover goes out that is not on record, whatever passes run, overlap   *)
(* and die (runAiFallback.ts:138-152).                                     *)
THEOREM HandoverOnce == Spec => []HandedOverOnce
<1>1. IInv => HandedOverOnce
  BY DEF IInv, HandoverInv
<1> QED
  BY <1>1, PipelineInvariant, PTL

(* A decision AI_REPLIED has its reply in the queue (runAiFallback.ts:     *)
(* 565-595).                                                               *)
THEOREM RepliedIsQueued == Spec => []RepliedMeansQueued
<1>1. IInv => RepliedMeansQueued
  BY DEF IInv, AnswerInv
<1> QED
  BY <1>1, PipelineInvariant, PTL

(* Whatever pass wrote an execution record last, a reply or a forward it   *)
(* says was carried out is queued, and a notification it says was carried  *)
(* out exists or met a muted event (processIncomingMessage.ts:451-489,     *)
(* enqueueNotification.ts:34-40).                                          *)
THEOREM RecordIsTrue == Spec => []RecordedMeansDone
<1>1. IInv => RecordedMeansDone
  BY DEF IInv, RecordInv
<1> QED
  BY <1>1, PipelineInvariant, PTL

(***************************************************************************)
(* The intake.                                                             *)
(***************************************************************************)
LEMMA IntakeBounds ==
  /\ MinGap \in Nat /\ MaxLookback \in Nat /\ Automation \in Nat /\ Window \in Nat
  /\ Retries \in Nat /\ MaxTime \in Nat \ {0} /\ MaxOutages \in Nat
  /\ MaxIntakeFaults \in Nat
  /\ Inbound \subseteq Readers /\ Loops \subseteq Readers /\ CatchUp \in Readers
  BY MessageIntakeConstants DEF Readers

LEMMA InitIntakeIInv == IntakeInit => IntakeIInv
<1> SUFFICES ASSUME IntakeInit PROVE IntakeIInv
  OBVIOUS
<1>1. IntakeTypeOK
  BY IntakeBounds DEF IntakeInit, IntakeTypeOK, Times, Rows, Recoveries, Works, Sweeps, LoopPasses
<1>2. \A r \in Readers : work[r].pc = "idle"
  BY DEF IntakeInit, NoWork
<1>3. HandlingInv /\ TriesInv
  BY <1>2 DEF IntakeInit, HandlingInv, TriesInv
<1> QED
  BY <1>1, <1>3 DEF IntakeIInv

----------------------------------------------------------------------------
(* A step in which nobody comes to hand a message over or to wait for      *)
(* another try, and no row goes.                                           *)
LEMMA IntakeQuiet ==
  ASSUME IntakeIInv, IntakeTypeOK', UNCHANGED handled,
         \A m \in Inbound : messageRow'[m] = messageRow[m] \/ messageRow'[m] # "ABSENT",
         \A r \in Readers : \/ work'[r] = work[r]
                            \/ work'[r].pc \notin {"automate", "retry"}
  PROVE  IntakeIInv'
<1>1. HandlingInv'
  <2>1. \A r \in Readers : work'[r].pc = "automate" => work'[r] = work[r]
    OBVIOUS
  <2> QED
    BY <2>1 DEF IntakeIInv, HandlingInv
<1>2. TriesInv'
  BY DEF IntakeIInv, TriesInv
<1> QED
  BY <1>1, <1>2 DEF IntakeIInv

LEMMA Reading ==
  ASSUME IntakeTypeOK, NEW r \in Readers, work[r].pc # "idle"
  PROVE  /\ work[r] \in [pc: {"persist", "automate", "checkpoint", "retry"}, message: Inbound,
                         automate: BOOLEAN, tries: 0 .. Retries]
         /\ work[r].message \in Inbound /\ work[r].tries \in 0 .. Retries
<1>1. work[r] \in Works
  BY DEF IntakeTypeOK
<1>2. work[r] \in [pc: {"persist", "automate", "checkpoint", "retry"}, message: Inbound,
                   automate: BOOLEAN, tries: 0 .. Retries]
  BY <1>1 DEF Works, NoWork
<1> QED
  BY <1>2

LEMMA Working ==
  ASSUME IntakeTypeOK, NEW r \in Readers, NEW n \in Works, work' = [work EXCEPT ![r] = n]
  PROVE  /\ work' \in [Readers -> Works]
         /\ work'[r] = n
         /\ \A q \in Readers \ {r} : work'[q] = work[q]
  BY DEF IntakeTypeOK

LEMMA Beginning ==
  ASSUME IntakeTypeOK, NEW r \in Readers, NEW m \in Inbound, NEW automate \in BOOLEAN,
         NEW tries \in 0 .. Retries, work' = Work(r, m, automate, tries)
  PROVE  /\ work' \in [Readers -> Works]
         /\ work'[r].pc = "persist"
         /\ \A q \in Readers \ {r} : work'[q] = work[q]
<1> DEFINE n == [pc |-> "persist", message |-> m, automate |-> automate, tries |-> tries]
<1>1. n \in Works /\ n.pc = "persist"
  BY DEF Works
<1>2. work' = [work EXCEPT ![r] = n]
  BY DEF Work
<1> HIDE DEF n
<1> QED
  BY <1>1, <1>2, Working

LEMMA Resting ==
  ASSUME IntakeTypeOK, NEW r \in Readers, Done(r)
  PROVE  /\ work' \in [Readers -> Works]
         /\ work'[r].pc = "idle"
         /\ \A q \in Readers \ {r} : work'[q] = work[q]
<1>1. NoWork \in Works /\ NoWork.pc = "idle"
  BY DEF Works, NoWork
<1> QED
  BY <1>1, Working DEF Done

LEMMA MovingOn ==
  ASSUME IntakeTypeOK, NEW r \in Readers, work[r].pc # "idle",
         NEW pc \in {"automate", "checkpoint", "retry"},
         work' = [work EXCEPT ![r].pc = pc]
  PROVE  /\ work' \in [Readers -> Works]
         /\ work'[r].pc = pc
         /\ work'[r].message = work[r].message /\ work'[r].tries = work[r].tries
         /\ \A q \in Readers \ {r} : work'[q] = work[q]
<1> DEFINE n == [work[r] EXCEPT !.pc = pc]
<1>1. /\ n \in Works /\ n.pc = pc /\ n.message = work[r].message /\ n.tries = work[r].tries
  BY Reading DEF Works
<1>2. work' = [work EXCEPT ![r] = n]
  BY DEF IntakeTypeOK
<1> HIDE DEF n
<1> QED
  BY <1>1, <1>2, Working

LEMMA IntakeFaultCounted ==
  ASSUME IntakeTypeOK, IntakeFault \/ intakeFaults' = intakeFaults
  PROVE  intakeFaults' \in 0 .. MaxIntakeFaults
  BY IntakeBounds DEF IntakeFault, IntakeTypeOK

----------------------------------------------------------------------------
(* One message.                                                            *)

(* The unique key: only the reader that creates the row goes on to the     *)
(* automation, and no other can be there for that message.                 *)
LEMMA PersistKeepsIntakeIInv ==
  ASSUME IntakeIInv, NEW r \in Readers, Persist(r)
  PROVE  IntakeIInv'
<1>0. IntakeTypeOK /\ HandlingInv /\ TriesInv /\ work[r].pc = "persist"
  BY DEF IntakeIInv, Persist, WorkAt
<1>1. PICK m \in Inbound : m = work[r].message
  BY <1>0, Reading
<1>2. UNCHANGED <<checkpoint, gap, sent, session, clock, outages, sweep, loop, intakeFaults,
                  missed, handled>>
  BY DEF Persist, outside
<1>3. CASE messageRow' = messageRow /\ Done(r)
  <2>1. /\ work' \in [Readers -> Works]
        /\ work'[r].pc = "idle"
        /\ \A q \in Readers \ {r} : work'[q] = work[q]
    BY <1>0, <1>3, Resting
  <2>2. IntakeTypeOK'
    BY <1>0, <1>2, <1>3, <2>1 DEF IntakeTypeOK
  <2> QED
    BY <1>2, <1>3, <2>1, <2>2, IntakeQuiet
<1>4. CASE messageRow[m] = "ABSENT" /\ Create(r, m)
  <2>1. /\ messageRow' \in [Inbound -> Rows]
        /\ messageRow'[m] # "ABSENT"
        /\ \A n \in Inbound \ {m} : messageRow'[n] = messageRow[n]
    BY <1>0, <1>4 DEF Create, IntakeTypeOK, Rows
  <2>2. CASE ~work[r].automate
    <3>1. /\ work' \in [Readers -> Works]
          /\ work'[r].pc = "idle"
          /\ \A q \in Readers \ {r} : work'[q] = work[q]
      BY <1>0, <1>4, <2>2, Resting DEF Create
    <3>2. IntakeTypeOK'
      BY <1>0, <1>2, <2>1, <3>1 DEF IntakeTypeOK
    <3> QED
      BY <1>2, <2>1, <3>1, <3>2, IntakeQuiet
  <2>3. CASE work[r].automate
    <3>1. /\ work' \in [Readers -> Works]
          /\ work'[r].pc = "automate" /\ work'[r].message = m
          /\ \A q \in Readers \ {r} : work'[q] = work[q]
      BY <1>0, <1>1, <1>4, <2>3, MovingOn DEF Create
    <3>2. IntakeTypeOK'
      BY <1>0, <1>2, <2>1, <3>1 DEF IntakeTypeOK
    <3>3. /\ handled[m] = 0
          /\ \A q \in Readers : ~(work[q].pc = "automate" /\ work[q].message = m)
      BY <1>0, <1>4 DEF HandlingInv
    <3>4. HandlingInv'
      <4> SUFFICES ASSUME NEW n \in Inbound
                   PROVE  /\ handled[n] <= 1
                          /\ messageRow'[n] = "ABSENT" => handled[n] = 0
                          /\ \A q \in Readers :
                               work'[q].pc = "automate" /\ work'[q].message = n =>
                                 /\ messageRow'[n] # "ABSENT"
                                 /\ handled[n] = 0
                                 /\ \A p \in Readers :
                                      work'[p].pc = "automate" /\ work'[p].message = n => p = q
        BY <1>2 DEF HandlingInv
      <4>1. CASE n = m
        <5>1. \A q \in Readers : work'[q].pc = "automate" /\ work'[q].message = m => q = r
          BY <3>1, <3>3
        <5> QED
          BY <1>0, <2>1, <3>3, <4>1, <5>1 DEF HandlingInv
      <4>2. CASE n # m
        <5>1. \A q \in Readers : work'[q].pc = "automate" /\ work'[q].message = n =>
                q # r /\ work'[q] = work[q]
          BY <3>1, <4>2
        <5> QED
          BY <1>0, <2>1, <4>2, <5>1 DEF HandlingInv
      <4> QED
        BY <4>1, <4>2
    <3>5. TriesInv'
      BY <1>0, <3>1 DEF TriesInv
    <3> QED
      BY <3>2, <3>4, <3>5 DEF IntakeIInv
  <2> QED
    BY <2>2, <2>3
<1> QED
  BY <1>1, <1>3, <1>4 DEF Persist

(* The hand-over, whether it ends well or throws: the reader leaves, and   *)
(* no other is there for the message.                                      *)
LEMMA HandingOver ==
  ASSUME IntakeIInv, IntakeTypeOK', NEW r \in Readers, NEW m \in Inbound,
         work[r].pc = "automate", work[r].message = m,
         work'[r].pc # "automate", work'[r].pc = "retry" => work'[r].tries < Retries,
         \A q \in Readers \ {r} : work'[q] = work[q],
         handled' = [handled EXCEPT ![m] = @ + 1],
         NEW status \in {"PROCESSED", "FAILED"},
         messageRow' = [messageRow EXCEPT ![m] = status]
  PROVE  IntakeIInv'
<1>0. IntakeTypeOK /\ HandlingInv /\ TriesInv
  BY DEF IntakeIInv
<1>1. /\ handled'[m] = 1 /\ messageRow'[m] # "ABSENT"
      /\ \A n \in Inbound \ {m} : handled'[n] = handled[n] /\ messageRow'[n] = messageRow[n]
  BY <1>0 DEF IntakeTypeOK, HandlingInv
<1>2. \A q \in Readers : ~(work'[q].pc = "automate" /\ work'[q].message = m)
  <2>1. \A q \in Readers \ {r} : ~(work[q].pc = "automate" /\ work[q].message = m)
    BY <1>0 DEF HandlingInv
  <2> QED
    BY <2>1
<1>3. \A q \in Readers : work'[q].pc = "automate" => work'[q] = work[q]
  OBVIOUS
<1>4. HandlingInv'
  <2> SUFFICES ASSUME NEW n \in Inbound
               PROVE  /\ handled'[n] <= 1
                      /\ messageRow'[n] = "ABSENT" => handled'[n] = 0
                      /\ \A q \in Readers :
                           work'[q].pc = "automate" /\ work'[q].message = n =>
                             /\ messageRow'[n] # "ABSENT"
                             /\ handled'[n] = 0
                             /\ \A p \in Readers :
                                  work'[p].pc = "automate" /\ work'[p].message = n => p = q
    BY DEF HandlingInv
  <2>1. CASE n = m
    BY <1>1, <1>2, <2>1
  <2>2. CASE n # m
    BY <1>0, <1>1, <1>3, <2>2 DEF HandlingInv
  <2> QED
    BY <2>1, <2>2
<1>5. TriesInv'
  BY <1>0 DEF TriesInv
<1> QED
  BY <1>4, <1>5 DEF IntakeIInv

LEMMA AutomateKeepsIntakeIInv ==
  ASSUME IntakeIInv, NEW r \in Readers, Automate(r)
  PROVE  IntakeIInv'
<1>0. IntakeTypeOK /\ work[r].pc = "automate"
  BY DEF IntakeIInv, Automate, WorkAt
<1>1. PICK m \in Inbound : m = work[r].message
  BY <1>0, Reading
<1>2. /\ UNCHANGED <<checkpoint, gap, sent, session, clock, outages, sweep, loop, intakeFaults,
                     missed>>
      /\ messageRow' = [messageRow EXCEPT ![m] = "PROCESSED"]
      /\ handled' = [handled EXCEPT ![m] = @ + 1]
      /\ work' = [work EXCEPT ![r].pc = "checkpoint"]
  BY <1>1 DEF Automate, outside
<1>3. /\ work' \in [Readers -> Works] /\ work'[r].pc = "checkpoint"
      /\ \A q \in Readers \ {r} : work'[q] = work[q]
  BY <1>0, <1>2, MovingOn
<1>4. IntakeTypeOK'
  <2>1. messageRow' \in [Inbound -> Rows] /\ handled' \in [Inbound -> Nat]
    BY <1>0, <1>2 DEF IntakeTypeOK, Rows
  <2> QED
    BY <1>0, <1>2, <1>3, <2>1 DEF IntakeTypeOK
<1> QED
  BY <1>0, <1>1, <1>2, <1>3, <1>4, HandingOver

LEMMA WorkFailsKeepsIntakeIInv ==
  ASSUME IntakeIInv, NEW r \in Readers, WorkFails(r)
  PROVE  IntakeIInv'
<1>0. /\ IntakeTypeOK /\ work[r].pc \in {"persist", "automate", "checkpoint"}
      /\ work[r].pc # "idle"
  BY DEF IntakeIInv, WorkFails
<1>1. PICK m \in Inbound : m = work[r].message
  BY <1>0, Reading
<1>2. /\ UNCHANGED <<checkpoint, gap, sent, session, clock, outages, sweep, loop, missed>>
      /\ intakeFaults' \in 0 .. MaxIntakeFaults
  BY <1>0, IntakeFaultCounted DEF WorkFails, outside
<1>3. /\ work' \in [Readers -> Works]
      /\ work'[r].pc \in {"retry", "idle"}
      /\ work'[r].pc = "retry" => work'[r].tries < Retries
      /\ \A q \in Readers \ {r} : work'[q] = work[q]
  <2>1. CASE Done(r)
    BY <1>0, <2>1, Resting
  <2>2. CASE work' = [work EXCEPT ![r].pc = "retry"] /\ work[r].tries < Retries
    BY <1>0, <2>2, MovingOn
  <2> QED
    BY <2>1, <2>2 DEF WorkFails
<1>4. CASE work[r].pc = "automate"
  <2>1. /\ messageRow' = [messageRow EXCEPT ![m] = "FAILED"]
        /\ handled' = [handled EXCEPT ![m] = @ + 1]
    BY <1>1, <1>4 DEF WorkFails, WorkAt
  <2>2. messageRow' \in [Inbound -> Rows] /\ handled' \in [Inbound -> Nat]
    BY <1>0, <2>1 DEF IntakeTypeOK, Rows
  <2>3. IntakeTypeOK'
    BY <1>0, <1>2, <1>3, <2>2 DEF IntakeTypeOK
  <2> QED
    BY <1>1, <1>3, <1>4, <2>1, <2>3, HandingOver
<1>5. CASE work[r].pc # "automate"
  <2>1. UNCHANGED <<messageRow, handled>>
    BY <1>5 DEF WorkFails, WorkAt
  <2>2. IntakeTypeOK'
    BY <1>0, <1>2, <1>3, <2>1 DEF IntakeTypeOK
  <2>3. HandlingInv'
    <3>1. \A q \in Readers : work'[q].pc = "automate" => work'[q] = work[q]
      BY <1>3
    <3> QED
      BY <2>1, <3>1 DEF IntakeIInv, HandlingInv
  <2>4. TriesInv'
    BY <1>3 DEF IntakeIInv, TriesInv
  <2> QED
    BY <2>2, <2>3, <2>4 DEF IntakeIInv
<1> QED
  BY <1>4, <1>5

LEMMA OtherWorkKeepsIntakeIInv ==
  ASSUME IntakeIInv, NEW r \in Readers, MoveCheckpoint(r) \/ RetryWork(r)
  PROVE  IntakeIInv'
<1>0. IntakeTypeOK /\ work[r].pc \in {"checkpoint", "retry"} /\ work[r].pc # "idle"
  BY DEF IntakeIInv, MoveCheckpoint, RetryWork, WorkAt
<1>1. /\ UNCHANGED <<messageRow, gap, sent, session, clock, outages, sweep, loop, intakeFaults,
                     missed, handled>>
      /\ checkpoint' \in Times
  <2>1. work[r].message \in Inbound
    BY <1>0, Reading
  <2>2. checkpoint' \in Times
    BY <1>0, <2>1 DEF MoveCheckpoint, RetryWork, database, IntakeTypeOK
  <2> QED
    BY <2>2 DEF MoveCheckpoint, RetryWork, outside, database
<1>2. /\ work' \in [Readers -> Works]
      /\ work'[r].pc \in {"idle", "persist"}
      /\ \A q \in Readers \ {r} : work'[q] = work[q]
  <2>1. CASE MoveCheckpoint(r)
    BY <1>0, <2>1, Resting DEF MoveCheckpoint
  <2>2. CASE RetryWork(r)
    <3>1. work[r].tries + 1 \in 0 .. Retries /\ work[r].message \in Inbound
      BY <1>0, <2>2, Reading, IntakeBounds DEF RetryWork, WorkAt, IntakeIInv, TriesInv
    <3> QED
      BY <1>0, <2>2, <3>1, Beginning DEF RetryWork
  <2> QED
    BY <2>1, <2>2
<1>3. IntakeTypeOK'
  BY <1>0, <1>1, <1>2 DEF IntakeTypeOK
<1> QED
  BY <1>1, <1>2, <1>3, IntakeQuiet

----------------------------------------------------------------------------
(* The readers.                                                            *)
LEMMA CatchUpKeepsIntakeIInv ==
  ASSUME IntakeIInv, CatchUpStep
  PROVE  IntakeIInv'
<1>0. IntakeTypeOK
  BY DEF IntakeIInv
<1>1. UNCHANGED <<messageRow, sent, session, clock, outages, loop, missed, handled>>
  BY DEF CatchUpStep, ReadCheckpoint, Probe, ProbeFails, SweepNext, SweepDone,
    AdvanceCheckpoint, ReportRecovery, outside, database
<1>2. intakeFaults' \in 0 .. MaxIntakeFaults
  BY <1>0, IntakeFaultCounted DEF CatchUpStep, ReadCheckpoint, Probe, ProbeFails, SweepNext,
    SweepDone, AdvanceCheckpoint, ReportRecovery
<1>3. gap' \in Recoveries
  <2>1. ASSUME NEW result \in Recoveries, Report(result) PROVE gap' \in Recoveries
    BY <1>0, <2>1 DEF Report, IntakeTypeOK
  <2>2. CASE ReportRecovery
    <3>1. sweep.result \in Recoveries
      BY <1>0, <2>2 DEF ReportRecovery, IntakeTypeOK, Sweeps, NoSweep
    <3> QED
      BY <2>1, <2>2, <3>1 DEF ReportRecovery
  <2>3. {"NOT_ATTEMPTED", "RECOVERED", "FAILED"} \subseteq Recoveries
    BY DEF Recoveries
  <2>4. CASE gap' = gap
    BY <1>0, <2>4 DEF IntakeTypeOK
  <2> QED
    BY <2>1, <2>2, <2>3, <2>4 DEF CatchUpStep, ReadCheckpoint, Probe, ProbeFails,
      SweepNext, SweepDone, AdvanceCheckpoint, database
<1>4. sweep' \in Sweeps /\ checkpoint' \in Times
  <2>1. CASE sweep' = NoSweep /\ checkpoint' = checkpoint
    BY <1>0, <2>1 DEF Sweeps, IntakeTypeOK
  <2>2. CASE ReadCheckpoint
    <3>1. CASE sweep' = NoSweep
      BY <2>1, <2>2, <3>1 DEF ReadCheckpoint
    <3>2. CASE sweep' # NoSweep
      <4>1. PICK since \in Int : sweep' = [pc |-> "probe", since |-> since, now |-> clock,
                                           cut |-> since > checkpoint]
        <5>1. checkpoint \in Int /\ clock - MaxLookback \in Int
          BY <1>0, IntakeBounds DEF IntakeTypeOK, Times
        <5> QED
          BY <2>2, <3>2, <5>1 DEF ReadCheckpoint
      <4>2. sweep' \in Sweeps
        BY <1>0, <4>1 DEF Sweeps, IntakeTypeOK
      <4> QED
        BY <1>0, <2>2, <4>2 DEF ReadCheckpoint, IntakeTypeOK
    <3> QED
      BY <3>1, <3>2
  <2>3. ASSUME NEW found \in SUBSET Inbound, Probe(found)
        PROVE  <1>4
    <3>1. sweep.now \in Times
      BY <1>0, <2>3 DEF Probe, IntakeTypeOK, Sweeps, NoSweep
    <3>2. PICK pc \in {"report", "recover"}, whole \in BOOLEAN, result \in {"PARTIAL", "RECOVERED"} :
            sweep' = [pc |-> pc, left |-> found, now |-> sweep.now, newest |-> 0,
                      whole |-> whole, result |-> result]
      BY <2>3 DEF Probe
    <3>3. 0 \in Times
      BY IntakeBounds DEF Times
    <3>4. sweep' \in Sweeps
      BY <3>1, <3>2, <3>3 DEF Sweeps, Recoveries
    <3> QED
      BY <1>0, <2>3, <3>4 DEF Probe, database, IntakeTypeOK
  <2>4. CASE (\E m \in Inbound : SweepNext(m)) \/ SweepDone \/ AdvanceCheckpoint
    <3>1. sweep \in [pc: {"recover", "advance", "report"}, left: SUBSET Inbound, now: Times,
                     newest: Times, whole: BOOLEAN, result: Recoveries]
      <4>1. sweep.pc \in {"recover", "advance"}
        BY <2>4 DEF SweepNext, SweepDone, AdvanceCheckpoint
      <4>2. sweep \in Sweeps
        BY <1>0 DEF IntakeTypeOK
      <4> QED
        BY <4>1, <4>2 DEF Sweeps, NoSweep
    <3>2. ASSUME NEW m \in Inbound, SweepNext(m) PROVE <1>4
      <4>1. /\ sweep' = [sweep EXCEPT !.left = sweep.left \ {m}, !.newest = sent[m]]
            /\ sent[m] \in Times
        BY <1>0, <3>1, <3>2 DEF SweepNext, IntakeTypeOK
      <4>2. sweep' \in Sweeps
        BY <3>1, <4>1 DEF Sweeps
      <4> QED
        BY <1>0, <3>2, <4>2 DEF SweepNext, database, IntakeTypeOK
    <3>3. ASSUME SweepDone PROVE <1>4
      <4>1. PICK pc \in {"advance", "report"} : sweep' = [sweep EXCEPT !.pc = pc]
        BY <3>3 DEF SweepDone
      <4>2. sweep' \in Sweeps
        BY <3>1, <4>1 DEF Sweeps
      <4> QED
        BY <1>0, <3>3, <4>2 DEF SweepDone, database, IntakeTypeOK
    <3>4. ASSUME AdvanceCheckpoint PROVE <1>4
      <4>1. sweep' \in Sweeps
        BY <3>1, <3>4 DEF AdvanceCheckpoint, Sweeps
      <4>2. checkpoint' \in Times
        BY <1>0, <3>1, <3>4 DEF AdvanceCheckpoint, IntakeTypeOK
      <4> QED
        BY <4>1, <4>2
    <3> QED
      BY <2>4, <3>2, <3>3, <3>4
  <2> QED
    BY <2>1, <2>2, <2>3, <2>4 DEF CatchUpStep, ProbeFails, ReportRecovery
<1>5. /\ work' \in [Readers -> Works]
      /\ \A q \in Readers : work'[q] = work[q] \/ work'[q].pc = "persist"
  <2>1. CASE work' = work
    BY <1>0, <2>1 DEF IntakeTypeOK
  <2>2. ASSUME NEW m \in Inbound, SweepNext(m) PROVE <1>5
    <3>1. Automates(m, sweep.now) \in BOOLEAN /\ 0 \in 0 .. Retries /\ CatchUp \in Readers
      BY IntakeBounds DEF Automates
    <3>2. work' = Work(CatchUp, m, Automates(m, sweep.now), 0)
      BY <2>2 DEF SweepNext
    <3> QED
      BY <1>0, <3>1, <3>2, Beginning
  <2> QED
    BY <2>1, <2>2 DEF CatchUpStep, ReadCheckpoint, Probe, ProbeFails, SweepDone,
      AdvanceCheckpoint, ReportRecovery
<1>6. IntakeTypeOK'
  BY <1>0, <1>1, <1>2, <1>3, <1>4, <1>5 DEF IntakeTypeOK
<1> QED
  BY <1>1, <1>5, <1>6, IntakeQuiet

LEMMA PassesKeepIntakeIInv ==
  ASSUME IntakeIInv, NEW l \in Loops, PassStep(l)
  PROVE  IntakeIInv'
<1>0. IntakeTypeOK /\ l \in Readers
  BY IntakeBounds DEF IntakeIInv
<1>1. /\ UNCHANGED <<messageRow, checkpoint, gap, sent, session, clock, outages, sweep, missed,
                     handled>>
      /\ intakeFaults' \in 0 .. MaxIntakeFaults
  BY <1>0, IntakeFaultCounted DEF PassStep, PassBegins, PassNext, PassDone, outside, database
<1>2. loop' \in [Loops -> LoopPasses]
  <2>1. ASSUME NEW n \in LoopPasses, loop' = [loop EXCEPT ![l] = n] PROVE <1>2
    BY <1>0, <2>1 DEF IntakeTypeOK
  <2>2. ASSUME NEW found \in SUBSET Inbound, PassBegins(l, found) PROVE <1>2
    <3>1. [pc |-> "recover", left |-> {m \in found : messageRow[m] = "ABSENT"}, now |-> clock]
            \in LoopPasses
      BY <1>0 DEF LoopPasses, IntakeTypeOK
    <3> QED
      BY <2>1, <2>2, <3>1 DEF PassBegins
  <2>3. ASSUME NEW m \in Inbound, PassNext(l, m) PROVE <1>2
    <3>1. loop[l] \in [pc: {"recover"}, left: SUBSET Inbound, now: Times]
      BY <1>0, <2>3 DEF PassNext, IntakeTypeOK, LoopPasses, NoPass
    <3>2. [loop[l] EXCEPT !.left = loop[l].left \ {m}] \in LoopPasses
      BY <3>1 DEF LoopPasses
    <3>3. loop' = [loop EXCEPT ![l] = [loop[l] EXCEPT !.left = loop[l].left \ {m}]]
      BY <1>0, <2>3 DEF PassNext, IntakeTypeOK
    <3> QED
      BY <2>1, <3>2, <3>3
  <2>4. PassDone(l) => <1>2
    BY <2>1 DEF PassDone, LoopPasses
  <2> QED
    BY <2>2, <2>3, <2>4 DEF PassStep
<1>3. /\ work' \in [Readers -> Works]
      /\ \A q \in Readers : work'[q] = work[q] \/ work'[q].pc = "persist"
  <2>1. CASE work' = work
    BY <1>0, <2>1 DEF IntakeTypeOK
  <2>2. ASSUME NEW m \in Inbound, PassNext(l, m) PROVE <1>3
    <3>1. Automates(m, loop[l].now) \in BOOLEAN /\ 0 \in 0 .. Retries
      BY IntakeBounds DEF Automates
    <3>2. work' = Work(l, m, Automates(m, loop[l].now), 0)
      BY <2>2 DEF PassNext
    <3> QED
      BY <1>0, <3>1, <3>2, Beginning
  <2> QED
    BY <2>1, <2>2 DEF PassStep, PassBegins, PassDone
<1>4. IntakeTypeOK'
  BY <1>0, <1>1, <1>2, <1>3 DEF IntakeTypeOK
<1> QED
  BY <1>1, <1>3, <1>4, IntakeQuiet

LEMMA OutsideKeepsIntakeIInv ==
  ASSUME IntakeIInv, Outside
  PROVE  IntakeIInv'
<1>0. IntakeTypeOK /\ clock \in Times
  BY DEF IntakeIInv, IntakeTypeOK
<1>1. UNCHANGED <<messageRow, checkpoint, handled>>
  BY DEF Outside, TimePasses, Arrive, Drop, WorkerCrashes, Connect, database
<1>2. CASE TimePasses
  <2>1. clock' \in Times
    BY <1>0, <1>2, IntakeBounds DEF TimePasses, Times
  <2>2. IntakeTypeOK'
    BY <1>0, <1>2, <2>1 DEF TimePasses, database, IntakeTypeOK
  <2> QED
    BY <1>1, <1>2, <2>2, IntakeQuiet DEF TimePasses
<1>3. ASSUME NEW m \in Inbound, NEW pushed \in BOOLEAN, Arrive(m, pushed)
      PROVE  IntakeIInv'
  <2>1. /\ UNCHANGED <<gap, session, clock, sweep, loop, outages>>
        /\ sent' \in [Inbound -> Times] /\ missed' \subseteq Inbound
        /\ intakeFaults' \in 0 .. MaxIntakeFaults
    BY <1>0, <1>3, IntakeFaultCounted DEF Arrive, database, IntakeTypeOK
  <2>2. /\ work' \in [Readers -> Works]
        /\ \A q \in Readers : work'[q] = work[q] \/ work'[q].pc = "persist"
    <3>1. CASE work' = work
      BY <1>0, <3>1 DEF IntakeTypeOK
    <3>2. CASE work' = Work(m, m, TRUE, 0)
      <4>1. m \in Readers /\ 0 \in 0 .. Retries /\ TRUE \in BOOLEAN
        BY IntakeBounds
      <4> QED
        BY <1>0, <3>2, <4>1, Beginning
    <3> QED
      BY <1>3, <3>1, <3>2 DEF Arrive
  <2>3. IntakeTypeOK'
    BY <1>0, <1>1, <2>1, <2>2 DEF IntakeTypeOK
  <2> QED
    BY <1>1, <2>2, <2>3, IntakeQuiet
<1>4. CASE Drop
  <2>1. IntakeTypeOK'
    BY <1>0, <1>4, IntakeBounds DEF Drop, IntakeTypeOK, Recoveries
  <2> QED
    BY <1>1, <1>4, <2>1, IntakeQuiet DEF Drop
<1>5. CASE WorkerCrashes
  <2>1. work' \in [Readers -> Works] /\ \A r \in Readers : work'[r].pc = "idle"
    BY <1>5 DEF WorkerCrashes, Works, NoWork
  <2>2. /\ sweep' \in Sweeps /\ loop' \in [Loops -> LoopPasses]
        /\ gap' \in Recoveries /\ missed' \subseteq Inbound
        /\ outages' \in 0 .. MaxOutages
    BY <1>0, <1>5, IntakeBounds DEF WorkerCrashes, Sweeps, LoopPasses, Recoveries, IntakeTypeOK
  <2>3. IntakeTypeOK'
    BY <1>0, <1>5, <2>1, <2>2 DEF WorkerCrashes, IntakeTypeOK
  <2> QED
    BY <1>1, <2>1, <2>3, IntakeQuiet
<1>6. CASE Connect
  <2>1. sweep' \in Sweeps
    BY <1>6 DEF Connect, Sweeps
  <2>2. IntakeTypeOK'
    BY <1>0, <1>6, <2>1 DEF Connect, database, IntakeTypeOK
  <2> QED
    BY <1>1, <1>6, <2>2, IntakeQuiet DEF Connect
<1> QED
  BY <1>2, <1>3, <1>4, <1>5, <1>6 DEF Outside

----------------------------------------------------------------------------
LEMMA NextKeepsIntakeIInv == IntakeIInv /\ [IntakeNext]_intakeVars => IntakeIInv'
<1> SUFFICES ASSUME IntakeIInv, [IntakeNext]_intakeVars PROVE IntakeIInv'
  OBVIOUS
<1>1. ASSUME NEW r \in Readers, WorkStep(r) \/ WorkFails(r) PROVE IntakeIInv'
  BY <1>1, PersistKeepsIntakeIInv, AutomateKeepsIntakeIInv, OtherWorkKeepsIntakeIInv,
    WorkFailsKeepsIntakeIInv DEF WorkStep
<1>2. CASE CatchUpStep
  BY <1>2, CatchUpKeepsIntakeIInv
<1>3. ASSUME NEW l \in Loops, PassStep(l) PROVE IntakeIInv'
  BY <1>3, PassesKeepIntakeIInv
<1>4. CASE Outside
  BY <1>4, OutsideKeepsIntakeIInv
<1>5. CASE UNCHANGED intakeVars
  <2>1. IntakeTypeOK' /\ UNCHANGED <<messageRow, work, handled>>
    BY <1>5 DEF intakeVars, IntakeIInv, IntakeTypeOK
  <2> QED
    BY <2>1, IntakeQuiet
<1> QED
  BY <1>1, <1>2, <1>3, <1>4, <1>5 DEF IntakeNext

(* The inductive invariant holds in every reachable state: who works on a  *)
(* message, and how often that was tried.                                  *)
THEOREM IntakeInvariant == IntakeSpec => []IntakeIInv
BY InitIntakeIInv, NextKeepsIntakeIInv, PTL DEF IntakeSpec

(* Rows, readers, sweep and passes stay what their columns and fields      *)
(* allow.                                                                  *)
THEOREM IntakeTypeCorrect == IntakeSpec => []IntakeTypeOK
<1>1. IntakeIInv => IntakeTypeOK
  BY DEF IntakeIInv
<1> QED
  BY <1>1, IntakeInvariant, PTL

(* The automation gets each message once, however many readers offer it    *)
(* and whatever is tried again (processIncomingMessage.ts:549-665).        *)
THEOREM AutomationGetsItOnce == IntakeSpec => []HandledOnce
<1>1. IntakeIInv => HandledOnce
  BY DEF IntakeIInv, HandlingInv, HandledOnce
<1> QED
  BY <1>1, IntakeInvariant, PTL
================================================================================
