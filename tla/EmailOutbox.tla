---------------------------- MODULE EmailOutbox ----------------------------
(***************************************************************************)
(* A project's email queue and the settings it sends under                 *)
(* (apps/worker/src/email/outboxProcessor.ts, apps/web/.../emailSettings,  *)
(* clientMessages).  A tick recovers rows left in SENDING, reads the       *)
(* settings, claims one row under the rate lock, checks, hands it to SMTP  *)
(* and records the answer; a TEST row's answer verifies the settings.      *)
(*                                                                         *)
(* Workers may be more than one (the claim is written for that), a worker  *)
(* may die at any await, and people save settings, queue mail and withdraw *)
(* consent meanwhile.                                                      *)
(***************************************************************************)
EXTENDS Integers, FiniteSets

CONSTANTS
  Mails,         \* rows of EmailOutbox, one per idempotency key
  TestMails,     \* those of purpose TEST; the others are CLIENT_MESSAGEs
  Workers,       \* email loops
  Savers,        \* people with the settings form open
  Connections,   \* what the settings can say of host, user, password, sender
  EmailMaxAttempts,   \* EMAIL_MAX_ATTEMPTS
  MaxPerMinute,  \* EmailSettings.maxPerMinute (maxPerDay is the same rule)
  Minute,        \* the window of the limit, in units of the clock
  Stuck,         \* EMAIL_STUCK_SENDING_MS, in units of the clock
  MaxTime,       \* bound: the clock
  MaxVersion,    \* bound: settingsVersion
  MaxCrashes     \* bound: workers that die

ASSUME EmailOutboxConstants ==
  /\ IsFiniteSet(Mails)
  /\ TestMails \subseteq Mails
  /\ EmailMaxAttempts \in Nat \ {0}
  /\ MaxPerMinute \in Nat \ {0}
  /\ Minute \in Nat
  /\ Stuck \in Nat
  /\ MaxTime \in Nat \ {0}
  /\ MaxVersion \in Nat \ {0}
  /\ MaxCrashes \in Nat

VARIABLES
  mail,      \* EmailOutbox
  settings,  \* EmailSettings
  optedOut,  \* CLIENT_MESSAGEs whose client withdrew consent
  worker,    \* the tick of each loop: memory
  saver,     \* saveEmailSettings of each person: memory
  clock,     \* minutes, coarsely
  crashes,   \* workers that died
  accepted,  \* history: how often the server took each mail
  proven,    \* history: connections under which the server took a test
  stale      \* history: a save that compared with older settings left the version as it was

web == <<settings, optedOut, saver>>
mailHistory == <<accepted, proven, stale>>
emailVars == <<mail, settings, optedOut, worker, saver, clock, crashes, mailHistory>>

----------------------------------------------------------------------------
MailStates == {"NONE", "QUEUED", "SENDING", "ACCEPTED", "FAILED", "UNKNOWN"}
Counted == {"SENDING", "ACCEPTED", "UNKNOWN"}
Answers == {"OK", "UNKNOWN", "AUTH", "PERMANENT", "NOT_SENT", "TEMPORARY"}
Times == 0 .. MaxTime  \* 0: no time
Versions == 1 .. MaxVersion
MailRecords ==
  [status: MailStates, attempts: 0 .. EmailMaxAttempts, sendingStartedAt: Times,
   version: Versions \cup {0}]
Settings ==
  [connection: Connections, version: Versions, verified: Versions \cup {0},
   enabled: BOOLEAN]
(* ok: the answer that recordTest will write.                              *)
NoTick == [pc |-> "idle"]
Ticks ==
  {NoTick} \cup [pc: {"settings"}, now: Times]
    \cup [pc: {"claim"}, now: Times, read: Settings]
    \cup [pc: {"check", "send"}, now: Times, read: Settings, mail: Mails]
    \cup [pc: {"answered"}, now: Times, read: Settings, mail: Mails, answer: Answers]
    \cup [pc: {"record"}, mail: Mails, ok: BOOLEAN]
NoSave == [pc |-> "idle"]
Saves == {NoSave} \cup [pc: {"compared"}, saw: Connections]

EmailInit ==
  /\ mail = [m \in Mails |->
       [status |-> "NONE", attempts |-> 0, sendingStartedAt |-> 0, version |-> 0]]
  /\ \E c \in Connections :
       settings = [connection |-> c, version |-> 1, verified |-> 0, enabled |-> TRUE]
  /\ optedOut = {}
  /\ worker = [w \in Workers |-> NoTick]
  /\ saver = [p \in Savers |-> NoSave]
  /\ clock = 1
  /\ crashes = 0
  /\ accepted = [m \in Mails |-> 0]
  /\ proven = {}
  /\ stale = FALSE

----------------------------------------------------------------------------
(* The dashboard.                                                          *)

(* saveEmailSettings finds the row, compares, and updates it: the version  *)
(* moves if the connection is not what was found.                          *)
SaveReads(p) ==
  /\ saver[p] = NoSave
  /\ saver' = [saver EXCEPT ![p] = [pc |-> "compared", saw |-> settings.connection]]
  /\ UNCHANGED <<mail, settings, optedOut, worker, clock, crashes, mailHistory>>

SaveWrites(p, connection) ==
  /\ saver[p].pc = "compared"
  /\ settings' = [settings EXCEPT !.connection = connection,
                    !.version = IF connection = saver[p].saw THEN @ ELSE @ + 1]
  /\ settings'.version <= MaxVersion
  /\ saver' = [saver EXCEPT ![p] = NoSave]
  /\ stale' = (connection = saver[p].saw /\ (stale \/ connection # settings.connection))
  /\ UNCHANGED <<mail, optedOut, worker, clock, crashes, accepted, proven>>

SetEmailEnabled ==
  /\ settings' = [settings EXCEPT !.enabled = ~@]
  /\ UNCHANGED <<mail, optedOut, worker, saver, clock, crashes, mailHistory>>

Enqueue(m) ==
  /\ mail[m].status = "NONE"
  /\ mail' = [mail EXCEPT ![m].status = "QUEUED", ![m].version = settings.version]
  /\ UNCHANGED <<web, worker, clock, crashes, mailHistory>>

(* The look for another open test is no lock: two people can queue two.    *)
SendTestEmail(m) == m \in TestMails /\ Enqueue(m)

(* sendClientEmail, approveMessageBatch: the channel is connected and on.  *)
(* A second submission meets the unique key.                               *)
SendClientEmail(m) ==
  /\ m \notin TestMails \cup optedOut
  /\ settings.enabled
  /\ settings.verified = settings.version
  /\ Enqueue(m)

OptOut(m) ==
  /\ m \notin TestMails \cup optedOut
  /\ optedOut' = optedOut \cup {m}
  /\ UNCHANGED <<mail, settings, worker, saver, clock, crashes, mailHistory>>

----------------------------------------------------------------------------
(* A tick.  It carries the time it began with to the end.                  *)

TickAt(w, pc) == worker[w].pc = pc
Becomes(w, t) == worker' = [worker EXCEPT ![w] = t]

(* Mutant: a row left in SENDING is queued again.                          *)
TickRequeuesStuck(w) ==
  /\ TickAt(w, "idle")
  /\ mail' = [m \in Mails |->
       IF mail[m].status = "SENDING" /\ mail[m].sendingStartedAt < clock - Stuck
       THEN [mail[m] EXCEPT !.status = "QUEUED"] ELSE mail[m]]
  /\ Becomes(w, [pc |-> "settings", now |-> clock])
  /\ UNCHANGED <<web, clock, crashes, mailHistory>>
(* recoverStuckSends                                                       *)
TickBegins(w) ==
  /\ TickAt(w, "idle")
  /\ mail' = [m \in Mails |->
       IF mail[m].status = "SENDING" /\ mail[m].sendingStartedAt < clock - Stuck
       THEN [mail[m] EXCEPT !.status = "UNKNOWN"] ELSE mail[m]]
  /\ Becomes(w, [pc |-> "settings", now |-> clock])
  /\ UNCHANGED <<web, clock, crashes, mailHistory>>

ReadSettings(w) ==
  /\ TickAt(w, "settings")
  /\ Becomes(w, [pc |-> "claim", now |-> worker[w].now, read |-> settings])
  /\ UNCHANGED <<mail, web, clock, crashes, mailHistory>>

Started(now) ==
  {m \in Mails : mail[m].status \in Counted /\ mail[m].sendingStartedAt >= now - Minute}

(* claimNextEmail: one transaction under the project's advisory lock.      *)
(* Which row is due is a matter of backoffs.                               *)
(* Mutant: what has been sent does not count.                              *)
ClaimIgnoresAccepted(w, m) ==
  /\ TickAt(w, "claim")
  /\ mail[m].status = "QUEUED"
  /\ Cardinality({n \in Started(worker[w].now) : mail[n].status # "ACCEPTED"}) < MaxPerMinute
  /\ mail' = [mail EXCEPT ![m].status = "SENDING", ![m].attempts = @ + 1,
                          ![m].sendingStartedAt = worker[w].now]
  /\ Becomes(w, [pc |-> "check", now |-> worker[w].now, read |-> worker[w].read, mail |-> m])
  /\ UNCHANGED <<web, clock, crashes, mailHistory>>
Claim(w, m) ==
  /\ TickAt(w, "claim")
  /\ mail[m].status = "QUEUED"
  /\ Cardinality(Started(worker[w].now)) < MaxPerMinute
  /\ mail' = [mail EXCEPT ![m].status = "SENDING", ![m].attempts = @ + 1,
                          ![m].sendingStartedAt = worker[w].now]
  /\ Becomes(w, [pc |-> "check", now |-> worker[w].now, read |-> worker[w].read, mail |-> m])
  /\ UNCHANGED <<web, clock, crashes, mailHistory>>

NothingToClaim(w) ==
  /\ TickAt(w, "claim")
  /\ Becomes(w, NoTick)
  /\ UNCHANGED <<mail, web, clock, crashes, mailHistory>>

(* Mutant: whatever the row has become.                                    *)
SettleAnyway(m, status) ==
  mail' = [mail EXCEPT ![m].status = status,
                       ![m].sendingStartedAt = IF status = "QUEUED" THEN 0 ELSE @]
(* finish: only a row that is still SENDING.                               *)
Settle(m, status) ==
  mail' = IF mail[m].status # "SENDING" THEN mail
          ELSE [mail EXCEPT ![m].status = status,
                            ![m].sendingStartedAt = IF status = "QUEUED" THEN 0 ELSE @]

(* The test's own version; clientMessageRefusal: the settings as read      *)
(* before the claim, the consent as it is.                                 *)
MustNotGo(w) ==
  LET m == worker[w].mail
      s == worker[w].read IN
  IF m \in TestMails THEN mail[m].version # s.version
  ELSE ~s.enabled \/ s.verified # s.version \/ m \in optedOut

Check(w) ==
  /\ TickAt(w, "check")
  /\ IF MustNotGo(w)
     THEN Settle(worker[w].mail, "FAILED") /\ Becomes(w, NoTick)
     ELSE mail' = mail /\ worker' = [worker EXCEPT ![w].pc = "send"]
  /\ UNCHANGED <<web, clock, crashes, mailHistory>>

(* SMTP.  An error says at which stage it happened: once the body has been *)
(* handed over a lost connection is UNKNOWN, and the server may have taken *)
(* the mail or not.                                                        *)
HandOver(w, answer, taken) ==
  /\ TickAt(w, "send")
  /\ CASE answer = "OK" -> taken
       [] answer = "UNKNOWN" -> taken \in BOOLEAN
       [] OTHER -> ~taken
  /\ accepted' = IF taken THEN [accepted EXCEPT ![worker[w].mail] = @ + 1] ELSE accepted
  /\ proven' = IF answer = "OK" /\ worker[w].mail \in TestMails
               THEN proven \cup {worker[w].read.connection} ELSE proven
  /\ Becomes(w, [pc |-> "answered", now |-> worker[w].now, read |-> worker[w].read,
                 mail |-> worker[w].mail, answer |-> answer])
  /\ UNCHANGED <<mail, web, clock, crashes, stale>>

(* Mutant: no answer is taken for a refusal.                               *)
StatusUnlessRefused(answer, attempts) ==
  CASE answer = "OK" -> "ACCEPTED"
    [] answer \in {"AUTH", "PERMANENT", "UNKNOWN"} -> "FAILED"
    [] OTHER -> IF attempts < EmailMaxAttempts THEN "QUEUED" ELSE "FAILED"
(* handleFailure                                                           *)
StatusAfter(answer, attempts) ==
  CASE answer = "OK" -> "ACCEPTED"
    [] answer = "UNKNOWN" -> "UNKNOWN"
    [] answer \in {"AUTH", "PERMANENT"} -> "FAILED"
    [] OTHER -> IF attempts < EmailMaxAttempts THEN "QUEUED" ELSE "FAILED"

(* The attempts are those of the row as it was read after the claim.       *)
RecordAnswer(w) ==
  LET m == worker[w].mail
      status == StatusAfter(worker[w].answer, mail[m].attempts) IN
  /\ TickAt(w, "answered")
  /\ Settle(m, status)
  /\ Becomes(w, IF m \in TestMails /\ status # "QUEUED"
                THEN [pc |-> "record", mail |-> m, ok |-> status = "ACCEPTED"] ELSE NoTick)
  /\ UNCHANGED <<web, clock, crashes, mailHistory>>

(* Mutant: the settings of now are verified, whichever the test was for.   *)
RecordTestOfNow(w) ==
  /\ TickAt(w, "record")
  /\ settings' = IF worker[w].ok THEN [settings EXCEPT !.verified = settings.version]
                 ELSE settings
  /\ Becomes(w, NoTick)
  /\ UNCHANGED <<mail, optedOut, saver, clock, crashes, mailHistory>>
(* recordTestResult: only if the settings are still those of the test.     *)
RecordTest(w) ==
  /\ TickAt(w, "record")
  /\ settings' = IF worker[w].ok /\ settings.version = mail[worker[w].mail].version
                 THEN [settings EXCEPT !.verified = settings.version] ELSE settings
  /\ Becomes(w, NoTick)
  /\ UNCHANGED <<mail, optedOut, saver, clock, crashes, mailHistory>>

WorkerDies(w) ==
  /\ worker[w] # NoTick
  /\ crashes < MaxCrashes
  /\ crashes' = crashes + 1
  /\ Becomes(w, NoTick)
  /\ UNCHANGED <<mail, web, clock, mailHistory>>

TimePasses ==
  /\ clock < MaxTime
  /\ clock' = clock + 1
  /\ UNCHANGED <<mail, web, worker, crashes, mailHistory>>

----------------------------------------------------------------------------
Tick(w) ==
  \/ TickBegins(w)
  \/ ReadSettings(w)
  \/ \E m \in Mails : Claim(w, m)
  \/ NothingToClaim(w)
  \/ Check(w)
  \/ \E answer \in Answers, taken \in BOOLEAN : HandOver(w, answer, taken)
  \/ RecordAnswer(w)
  \/ RecordTest(w)

People ==
  \/ \E p \in Savers : SaveReads(p) \/ \E c \in Connections : SaveWrites(p, c)
  \/ SetEmailEnabled
  \/ \E m \in Mails : SendTestEmail(m) \/ SendClientEmail(m) \/ OptOut(m)

EmailNext ==
  \/ \E w \in Workers : Tick(w) \/ WorkerDies(w)
  \/ People
  \/ TimePasses

EmailSpec == EmailInit /\ [][EmailNext]_emailVars

----------------------------------------------------------------------------
EmailTypeOK ==
  /\ mail \in [Mails -> MailRecords]
  /\ settings \in Settings
  /\ optedOut \subseteq Mails
  /\ worker \in [Workers -> Ticks]
  /\ saver \in [Savers -> Saves]
  /\ clock \in Times
  /\ crashes \in 0 .. MaxCrashes
  /\ accepted \in [Mails -> Nat]
  /\ proven \subseteq Connections
  /\ stale \in BOOLEAN

(* Whatever is lost, dies or is tried again, the mail server takes no      *)
(* email twice: UNKNOWN is never retried by itself                         *)
(* (outboxProcessor.ts:11-22, 57-62, 174-202).                             *)
AcceptedAtMostOnce == \A m \in Mails : accepted[m] <= 1

(* What the row says of an email is true: ACCEPTED was taken by the        *)
(* server, FAILED and QUEUED were not; only UNKNOWN leaves it open.        *)
HonestOutcome ==
  \A m \in Mails :
    /\ mail[m].status = "ACCEPTED" => accepted[m] = 1
    /\ mail[m].status \in {"NONE", "QUEUED", "FAILED"} => accepted[m] = 0

(* By the times the rows carry no window of a minute holds more sends than *)
(* the project allows, however many loops claim (claimNextEmail:79-113).   *)
(* A row carries the time its tick began with: a tick that is slow to      *)
(* claim sends later than its row says, and the sends themselves may lie   *)
(* closer together.                                                        *)
WithinLimit ==
  \A t \in Times :
    Cardinality({m \in Mails : /\ mail[m].status \in Counted
                               /\ mail[m].sendingStartedAt \in t - Minute .. t}) <= MaxPerMinute

(* A channel shown as connected has had a test accepted under the very     *)
(* connection it has now: "a test of OLD settings must never verify NEW    *)
(* ones" (recordTestResult:226-236; emailConnectionState).  Not so from a  *)
(* save that compared with older settings (emailSettings.ts:62, 76, 91) to *)
(* the next that moves the version: it changes the connection and leaves   *)
(* the version, and with it the verdict, as it was.                        *)
VerifiedWasTested ==
  settings.verified = settings.version /\ ~stale => settings.connection \in proven
----------------------------------------------------------------------------
(* The inductive strengthening of the safety properties.                   *)

(* A row that may be claimed has an attempt left.  Until its answer is     *)
(* recorded a tick holds its mail, also when another has given the row up  *)
(* as UNKNOWN meanwhile.                                                   *)
Holds(w, m) == worker[w].pc \in {"check", "send", "answered"} /\ worker[w].mail = m
Refused == {"AUTH", "PERMANENT", "NOT_SENT", "TEMPORARY"}

HoldInv ==
  /\ \A m \in Mails :
       mail[m].status \in {"NONE", "QUEUED"} => mail[m].attempts < EmailMaxAttempts
  /\ \A v, w \in Workers, m \in Mails : Holds(v, m) /\ Holds(w, m) => v = w
  /\ \A w \in Workers, m \in Mails :
       Holds(w, m) =>
         /\ mail[m].status \in {"SENDING", "UNKNOWN"}
         /\ worker[w].pc \in {"check", "send"} => accepted[m] = 0
         /\ worker[w].pc = "answered" /\ worker[w].answer = "OK" => accepted[m] = 1
         /\ worker[w].pc = "answered" /\ worker[w].answer \in Refused => accepted[m] = 0

(* What a tick has read is the connection of its version, a test in the    *)
(* hands of SMTP is one of the settings it was read with, and an answer    *)
(* not recorded yet proves what it is about to verify.                     *)
Reads(w) == worker[w].pc \in {"claim", "check", "send", "answered"}
UpToDate(read) ==
  /\ read.version <= settings.version
  /\ read.version = settings.version /\ ~stale => read.connection = settings.connection

TestInv ==
  /\ settings.verified <= settings.version
  /\ \A m \in Mails : mail[m].version <= settings.version
  /\ \A w \in Workers :
       /\ Reads(w) => UpToDate(worker[w].read)
       /\ LET m == worker[w].mail IN
          /\ worker[w].pc \in {"send", "answered"} /\ m \in TestMails
               => mail[m].version = worker[w].read.version
          /\ worker[w].pc = "answered" /\ m \in TestMails /\ worker[w].answer = "OK"
               => worker[w].read.connection \in proven
          /\ worker[w].pc = "record" => mail[m].status # "NONE"
          /\ worker[w].pc = "record" /\ worker[w].ok
                /\ mail[m].version = settings.version /\ ~stale
               => settings.connection \in proven

EmailIInv ==
  /\ EmailTypeOK
  /\ AcceptedAtMostOnce
  /\ HonestOutcome
  /\ HoldInv
  /\ VerifiedWasTested
  /\ TestInv
  /\ WithinLimit
=============================================================================
