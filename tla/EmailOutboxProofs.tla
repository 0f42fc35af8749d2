------------------------- MODULE EmailOutboxProofs -------------------------
(***************************************************************************)
(* Safety of the email queue for any mails, loops, people and connections, *)
(* any limit per minute and any number of crashes.                         *)
(***************************************************************************)
EXTENDS EmailOutboxRefinement, FiniteSetTheorems, TLAPS

(* An empty window holds no more than the limit.                           *)
LEMMA NobodyStarted ==
  ASSUME \A m \in Mails : mail[m].status \notin Counted
  PROVE  WithinLimit
<1> SUFFICES ASSUME NEW t \in Times
             PROVE  Cardinality({m \in Mails :
                      /\ mail[m].status \in Counted
                      /\ mail[m].sendingStartedAt \in t - Minute .. t}) <= MaxPerMinute
  BY DEF WithinLimit
<1>1. {m \in Mails : /\ mail[m].status \in Counted
                     /\ mail[m].sendingStartedAt \in t - Minute .. t} = {}
  OBVIOUS
<1> QED
  BY <1>1, FS_EmptySet, EmailOutboxConstants

LEMMA InitIInv == EmailInit => EmailIInv
<1> SUFFICES ASSUME EmailInit PROVE EmailIInv
  OBVIOUS
<1>1. EmailTypeOK
  <2>1. /\ MaxTime \in Nat \ {0} /\ MaxVersion \in Nat \ {0} /\ MaxCrashes \in Nat
        /\ EmailMaxAttempts \in Nat
    BY EmailOutboxConstants
  <2>2. mail \in [Mails -> MailRecords] /\ accepted \in [Mails -> Nat]
    BY <2>1 DEF EmailInit, MailRecords, MailStates, Times
  <2>3. settings \in Settings
    BY <2>1 DEF EmailInit, Settings, Versions
  <2>4. worker \in [Workers -> Ticks] /\ saver \in [Savers -> Saves]
    BY DEF EmailInit, Ticks, Saves
  <2>5. optedOut \subseteq Mails /\ proven \subseteq Connections /\ stale \in BOOLEAN
    BY DEF EmailInit
  <2>6. clock \in Times /\ crashes \in 0 .. MaxCrashes
    BY <2>1 DEF EmailInit, Times
  <2> QED
    BY <2>2, <2>3, <2>4, <2>5, <2>6 DEF EmailTypeOK
<1>2. \A m \in Mails : mail[m].status = "NONE" /\ mail[m].attempts = 0 /\ accepted[m] = 0
  BY DEF EmailInit
<1>3. \A w \in Workers : worker[w].pc = "idle"
  BY DEF EmailInit, NoTick
<1>4. AcceptedAtMostOnce /\ HonestOutcome /\ HoldInv
  BY <1>2, <1>3, EmailOutboxConstants DEF AcceptedAtMostOnce, HonestOutcome, HoldInv, Holds
<1>5. VerifiedWasTested /\ TestInv
  <2>1. settings.version = 1 /\ settings.verified = 0
    BY DEF EmailInit
  <2>2. \A m \in Mails : mail[m].version <= settings.version
    BY <2>1 DEF EmailInit
  <2> QED
    BY <1>3, <2>1, <2>2 DEF VerifiedWasTested, TestInv, Reads
<1>6. WithinLimit
  BY <1>2, NobodyStarted DEF Counted
<1> QED
  BY <1>1, <1>4, <1>5, <1>6 DEF EmailIInv

----------------------------------------------------------------------------
(* What keeps each part of the invariant.                                  *)

(* The limit: nothing new is counted.                                      *)
LEMMA LimitKept ==
  ASSUME WithinLimit,
         \A m \in Mails : mail'[m].status \in Counted =>
           mail[m].status \in Counted /\ mail'[m].sendingStartedAt = mail[m].sendingStartedAt
  PROVE  WithinLimit'
<1> DEFINE In(t) == {m \in Mails : /\ mail[m].status \in Counted
                                   /\ mail[m].sendingStartedAt \in t - Minute .. t}
<1> SUFFICES ASSUME NEW t \in Times PROVE Cardinality(In(t)') <= MaxPerMinute
  BY DEF WithinLimit
<1>1. In(t)' \subseteq In(t)
  OBVIOUS
<1>2. IsFiniteSet(In(t))
  BY FS_Subset, EmailOutboxConstants
<1>3. Cardinality(In(t)') <= Cardinality(In(t)) /\ Cardinality(In(t)') \in Nat
  BY <1>1, <1>2, FS_Subset, FS_CardinalityType
<1>4. Cardinality(In(t)) <= MaxPerMinute /\ Cardinality(In(t)) \in Nat
  BY <1>2, FS_CardinalityType DEF WithinLimit
<1> QED
  BY <1>3, <1>4, EmailOutboxConstants

(* The hands: nobody takes a mail and the server takes none; a status that *)
(* changes is that of a mail given up, new or nobody's.                    *)
LEMMA HoldsKept ==
  ASSUME HoldInv, UNCHANGED accepted,
         \A w \in Workers : \/ worker'[w] = worker[w]
                            \/ worker'[w].pc \in {"idle", "settings", "claim", "record"},
         \A m \in Mails :
           /\ \/ mail'[m].status = mail[m].status
              \/ mail[m].status = "SENDING" /\ mail'[m].status = "UNKNOWN"
              \/ \A w \in Workers : ~Holds(w, m)'
           /\ mail'[m].status \in {"NONE", "QUEUED"} => mail'[m].attempts < EmailMaxAttempts
  PROVE  HoldInv'
<1>1. ASSUME NEW w \in Workers, NEW m \in Mails, Holds(w, m)'
      PROVE  Holds(w, m) /\ worker'[w] = worker[w]
  BY <1>1 DEF Holds
<1>2. \A v, w \in Workers, m \in Mails : Holds(v, m)' /\ Holds(w, m)' => v = w
  BY <1>1 DEF HoldInv
<1>3. ASSUME NEW w \in Workers, NEW m \in Mails, Holds(w, m)'
      PROVE  /\ mail'[m].status \in {"SENDING", "UNKNOWN"}
             /\ worker'[w].pc \in {"check", "send"} => accepted'[m] = 0
             /\ worker'[w].pc = "answered" /\ worker'[w].answer = "OK" => accepted'[m] = 1
             /\ worker'[w].pc = "answered" /\ worker'[w].answer \in Refused => accepted'[m] = 0
  BY <1>1, <1>3 DEF HoldInv
<1> QED
  BY <1>2, <1>3 DEF HoldInv

(* The settings move on: a save leaves the version as it was only if it    *)
(* leaves the connection too, or is stale.                                 *)
SettingsGoOn ==
  /\ settings' \in Settings /\ settings.version <= settings'.version
  /\ settings'.version = settings.version /\ ~stale' =>
       ~stale /\ settings'.connection = settings.connection

LEMMA StayCurrent ==
  ASSUME EmailTypeOK, SettingsGoOn, NEW read \in Settings, UpToDate(read)
  PROVE  UpToDate(read)'
<1>1. settings.version \in Nat /\ settings'.version \in Nat /\ read.version \in Nat
  BY DEF EmailTypeOK, SettingsGoOn, Settings, Versions
<1> QED
  BY <1>1 DEF UpToDate, SettingsGoOn

(* The tests: no row that is queued changes its version, and no tick has   *)
(* more to say of a test.                                                  *)
LEMMA TestsKept ==
  ASSUME EmailTypeOK, HoldInv, TestInv, SettingsGoOn, mail' \in [Mails -> MailRecords],
         settings'.verified <= settings'.version, UNCHANGED proven,
         \A w \in Workers : \/ worker'[w] = worker[w]
                            \/ worker'[w].pc \in {"idle", "settings"}
                            \/ worker'[w].pc \in {"claim", "check"} /\ UpToDate(worker[w].read)',
         \A m \in Mails :
           /\ mail[m].status # "NONE" =>
                mail'[m].version = mail[m].version /\ mail'[m].status # "NONE"
           /\ mail'[m].version \in {mail[m].version, settings.version}
  PROVE  TestInv'
<1>1. \A m \in Mails : mail[m].version \in Nat /\ mail'[m].version \in Nat
  BY DEF EmailTypeOK, MailRecords, Versions
<1>2. settings.version \in Nat /\ settings'.version \in Nat
  BY DEF EmailTypeOK, SettingsGoOn, Settings, Versions
<1>3. \A m \in Mails : mail'[m].version <= settings'.version
  BY <1>1, <1>2 DEF TestInv, SettingsGoOn
<1>4. ASSUME NEW w \in Workers, Reads(w)' PROVE UpToDate(worker[w].read)'
  <2>1. CASE worker'[w] = worker[w]
    <3>1. PICK read \in Settings : read = worker[w].read /\ UpToDate(read)
      BY <1>4, <2>1 DEF TestInv, Reads, EmailTypeOK, Ticks, NoTick
    <3>2. UpToDate(read)' /\ read = worker'[w].read
      BY <2>1, <3>1, StayCurrent
    <3> QED
      BY <3>2 DEF UpToDate
  <2>2. CASE worker'[w] # worker[w]
    BY <1>4, <2>2 DEF Reads
  <2> QED
    BY <2>1, <2>2
<1>5. ASSUME NEW w \in Workers, worker'[w] = worker[w],
             worker[w].pc \in {"send", "answered", "record"}
      PROVE  LET m == worker[w].mail IN
        /\ worker[w].pc \in {"send", "answered"} /\ m \in TestMails =>
             mail'[m].version = worker[w].read.version
        /\ worker[w].pc = "record" => mail'[m].status # "NONE"
        /\ worker[w].pc = "record" /\ worker[w].ok
             /\ mail'[m].version = settings'.version /\ ~stale'
             => settings'.connection \in proven
  <2>1. worker[w].mail \in Mails
    BY <1>5 DEF EmailTypeOK, Ticks, NoTick
  <2>2. worker[w].pc \in {"send", "answered"} => Holds(w, worker[w].mail)
    BY DEF Holds
  <2>3. mail[worker[w].mail].status # "NONE"
    BY <1>5, <2>1, <2>2 DEF HoldInv, TestInv
  <2>4. mail'[worker[w].mail].version = mail[worker[w].mail].version
    BY <2>1, <2>3
  <2>5. ASSUME mail'[worker[w].mail].version = settings'.version, ~stale'
        PROVE  /\ mail[worker[w].mail].version = settings.version /\ ~stale
               /\ settings'.connection = settings.connection
    <3>1. settings'.version <= settings.version
      BY <1>1, <1>2, <2>1, <2>4, <2>5 DEF TestInv
    <3> QED
      BY <1>2, <2>4, <2>5, <3>1 DEF SettingsGoOn
  <2> QED
    BY <1>5, <2>1, <2>3, <2>4, <2>5 DEF TestInv
<1>6. ASSUME NEW w \in Workers, worker'[w].pc \in {"send", "answered", "record"}
      PROVE  worker'[w] = worker[w] /\ worker[w].pc \in {"send", "answered", "record"}
  BY <1>6
<1>7. \A w \in Workers :
        worker[w].pc = "answered" /\ worker[w].mail \in TestMails /\ worker[w].answer = "OK"
          => worker[w].read.connection \in proven
  BY DEF TestInv
<1> QED
  BY <1>3, <1>4, <1>5, <1>6, <1>7 DEF TestInv

----------------------------------------------------------------------------
(* The dashboard: no row that exists changes and no tick moves.            *)
LEMMA PeopleKeepEmailIInv ==
  ASSUME EmailIInv, People
  PROVE  EmailIInv'
<1>0. /\ EmailTypeOK /\ WithinLimit /\ HoldInv /\ TestInv /\ VerifiedWasTested
      /\ AcceptedAtMostOnce /\ HonestOutcome
  BY DEF EmailIInv
<1>1. UNCHANGED <<worker, clock, crashes, accepted, proven>>
  BY DEF People, SaveReads, SaveWrites, SetEmailEnabled, SendTestEmail, SendClientEmail,
    Enqueue, OptOut, mailHistory, web
<1>2. /\ mail' \in [Mails -> MailRecords]
      /\ \A m \in Mails : \/ mail'[m] = mail[m]
                          \/ /\ mail[m].status = "NONE" /\ mail'[m].status = "QUEUED"
                             /\ mail'[m].attempts = mail[m].attempts
                             /\ mail'[m].version = settings.version
  <2>1. CASE mail' = mail
    BY <1>0, <2>1 DEF EmailTypeOK
  <2>2. ASSUME NEW m \in Mails, Enqueue(m)
        PROVE  /\ mail' \in [Mails -> MailRecords]
               /\ mail[m].status = "NONE" /\ mail'[m].status = "QUEUED"
               /\ mail'[m].attempts = mail[m].attempts
               /\ mail'[m].version = settings.version
               /\ \A n \in Mails \ {m} : mail'[n] = mail[n]
    <3>1. mail[m] \in MailRecords /\ settings.version \in Versions
      BY <1>0 DEF EmailTypeOK, Settings
    <3>2. [mail[m] EXCEPT !.status = "QUEUED", !.version = settings.version] \in MailRecords
      BY <3>1 DEF MailRecords, MailStates
    <3>3. mail' = [mail EXCEPT ![m] =
                     [mail[m] EXCEPT !.status = "QUEUED", !.version = settings.version]]
      BY <2>2, <1>0 DEF Enqueue, EmailTypeOK
    <3> QED
      BY <1>0, <2>2, <3>1, <3>2, <3>3 DEF Enqueue, EmailTypeOK, MailRecords
  <2>3. mail' = mail \/ \E m \in Mails : Enqueue(m)
    BY DEF People, SaveReads, SaveWrites, SetEmailEnabled, SendTestEmail,
      SendClientEmail, OptOut
  <2> QED
    BY <2>1, <2>2, <2>3
<1>3. /\ settings'.verified = settings.verified /\ stale' \in BOOLEAN
      /\ settings' \in Settings
      /\ \/ settings'.version = settings.version + 1
         \/ /\ settings'.version = settings.version
            /\ ~stale' => ~stale /\ settings'.connection = settings.connection
  <2>1. settings \in Settings /\ settings.version \in Nat /\ stale \in BOOLEAN
    BY <1>0 DEF EmailTypeOK, Settings, Versions
  <2>2. ASSUME NEW p \in Savers, NEW c \in Connections, SaveWrites(p, c)
        PROVE  <1>3!1 /\ <1>3!2 /\ <1>3!3
    <3>1. PICK v \in {settings.version, settings.version + 1} :
            /\ settings' = [settings EXCEPT !.connection = c, !.version = v]
            /\ v = settings.version => c = saver[p].saw
      <4>1. CASE c = saver[p].saw
        BY <2>2, <4>1 DEF SaveWrites
      <4>2. CASE c # saver[p].saw
        <5>1. settings.version + 1 # settings.version
          BY <2>1
        <5> QED
          BY <2>2, <4>2, <5>1 DEF SaveWrites
      <4> QED
        BY <4>1, <4>2
    <3>2. /\ settings'.version = v /\ settings'.verified = settings.verified
          /\ settings'.connection = c
      BY <2>1, <3>1 DEF Settings
    <3>3. v \in Versions
      BY <2>1, <2>2, <3>2, EmailOutboxConstants DEF SaveWrites, Settings, Versions
    <3>4. settings' \in Settings
      BY <2>1, <3>1, <3>3 DEF Settings
    <3>5. stale' \in BOOLEAN
      BY <2>2 DEF SaveWrites
    <3>6. v = settings.version /\ ~stale' => ~stale /\ c = settings.connection
      BY <2>2, <3>1 DEF SaveWrites
    <3> QED
      BY <3>1, <3>2, <3>4, <3>5, <3>6
  <2>3. CASE SetEmailEnabled
    BY <2>1, <2>3 DEF SetEmailEnabled, Settings, mailHistory
  <2>4. CASE settings' = settings /\ stale' = stale
    BY <2>1, <2>4
  <2> QED
    BY <2>2, <2>3, <2>4 DEF People, SaveReads, SendTestEmail, SendClientEmail, Enqueue,
      OptOut, web, mailHistory
<1>4. saver' \in [Savers -> Saves] /\ optedOut' \subseteq Mails
  <2>1. ASSUME NEW p \in Savers, SaveReads(p) PROVE saver' \in [Savers -> Saves]
    BY <1>0, <2>1 DEF SaveReads, EmailTypeOK, Saves, Settings
  <2>2. ASSUME NEW p \in Savers, NEW c \in Connections, SaveWrites(p, c)
        PROVE  saver' \in [Savers -> Saves]
    BY <1>0, <2>2 DEF SaveWrites, EmailTypeOK, Saves
  <2>3. (\E m \in Mails : OptOut(m)) => optedOut' \subseteq Mails
    BY <1>0 DEF OptOut, EmailTypeOK
  <2> QED
    BY <1>0, <2>1, <2>2, <2>3 DEF People, SaveReads, SaveWrites, SetEmailEnabled,
      SendTestEmail, SendClientEmail, Enqueue, OptOut, web, EmailTypeOK
<1>5. EmailTypeOK'
  BY <1>0, <1>1, <1>2, <1>3, <1>4 DEF EmailTypeOK
<1>6. AcceptedAtMostOnce' /\ HonestOutcome'
  BY <1>0, <1>1, <1>2 DEF AcceptedAtMostOnce, HonestOutcome
<1>7. WithinLimit'
  BY <1>0, <1>2, LimitKept DEF Counted
<1>8. HoldInv'
  <2>1. ASSUME NEW m \in Mails, mail[m].status = "NONE", NEW w \in Workers
        PROVE  ~Holds(w, m)'
    BY <1>0, <1>1, <2>1 DEF HoldInv, Holds
  <2> QED
    BY <1>0, <1>1, <1>2, <2>1, HoldsKept DEF HoldInv
<1>9. settings.version \in Nat /\ settings.verified \in Nat
  BY <1>0 DEF EmailTypeOK, Settings, Versions
<1>10. VerifiedWasTested' /\ settings'.verified <= settings'.version
  BY <1>0, <1>1, <1>3, <1>9 DEF VerifiedWasTested, TestInv
<1>11. SettingsGoOn
  BY <1>3, <1>9 DEF SettingsGoOn
<1>12. TestInv'
  BY <1>0, <1>1, <1>2, <1>10, <1>11, TestsKept
<1> QED
  BY <1>5, <1>6, <1>7, <1>8, <1>10, <1>12 DEF EmailIInv

----------------------------------------------------------------------------
(* A tick.                                                                 *)

LEMMA Turning ==
  ASSUME EmailTypeOK, NEW w \in Workers, NEW t \in Ticks, Becomes(w, t)
  PROVE  /\ worker' \in [Workers -> Ticks]
         /\ worker'[w] = t
         /\ \A v \in Workers \ {w} : worker'[v] = worker[v]
  BY DEF Becomes, EmailTypeOK

(* What a tick remembers, by the step it is at.                            *)
LEMMA TickFacts ==
  ASSUME EmailTypeOK, NEW w \in Workers
  PROVE  /\ worker[w] \in Ticks
         /\ worker[w].pc \in {"settings", "claim", "check", "send", "answered"} =>
              worker[w].now \in Times
         /\ worker[w].pc \in {"claim", "check", "send", "answered"} =>
              worker[w].read \in Settings
         /\ worker[w].pc \in {"check", "send", "answered", "record"} =>
              worker[w].mail \in Mails
         /\ worker[w].pc = "answered" => worker[w].answer \in Answers
         /\ worker[w].pc = "record" => worker[w].ok \in BOOLEAN
  BY DEF EmailTypeOK, Ticks, NoTick

LEMMA SettingsStay ==
  ASSUME EmailTypeOK, UNCHANGED <<settings, stale>>
  PROVE  SettingsGoOn
BY DEF SettingsGoOn, EmailTypeOK, Settings, Versions

(* A step that only gives rows up, and leaves a tick with no mail.         *)
LEMMA QuietTick ==
  ASSUME EmailIInv, EmailTypeOK', UNCHANGED <<settings, accepted, proven, stale>>,
         \A w \in Workers : \/ worker'[w] = worker[w]
                            \/ worker'[w].pc \in {"idle", "settings"}
                            \/ worker'[w].pc = "claim" /\ worker'[w].read = settings,
         \A m \in Mails :
           \/ mail'[m] = mail[m]
           \/ /\ mail[m].status = "SENDING" /\ mail'[m].status = "UNKNOWN"
              /\ mail'[m].version = mail[m].version
              /\ mail'[m].sendingStartedAt = mail[m].sendingStartedAt
  PROVE  EmailIInv'
<1>0. /\ EmailTypeOK /\ WithinLimit /\ HoldInv /\ TestInv /\ VerifiedWasTested
      /\ AcceptedAtMostOnce /\ HonestOutcome
  BY DEF EmailIInv
<1>1. AcceptedAtMostOnce' /\ HonestOutcome' /\ VerifiedWasTested'
  BY <1>0 DEF AcceptedAtMostOnce, HonestOutcome, VerifiedWasTested
<1>2. WithinLimit'
  BY <1>0, LimitKept DEF Counted
<1>3. HoldInv'
  BY <1>0, HoldsKept DEF HoldInv
<1>4. SettingsGoOn
  BY <1>0, SettingsStay
<1>5. settings.verified <= settings.version
  BY <1>0 DEF TestInv
<1>6. \A w \in Workers : worker'[w].read = settings => UpToDate(worker[w].read)'
  BY <1>0 DEF UpToDate, EmailTypeOK, Settings, Versions
<1>7. TestInv'
  BY <1>0, <1>4, <1>5, <1>6, TestsKept DEF EmailTypeOK
<1> QED
  BY <1>1, <1>2, <1>3, <1>7 DEF EmailIInv

LEMMA QuietTicksKeepEmailIInv ==
  ASSUME EmailIInv, NEW w \in Workers,
         TickBegins(w) \/ ReadSettings(w) \/ NothingToClaim(w) \/ WorkerDies(w)
  PROVE  EmailIInv'
<1>0. EmailTypeOK
  BY DEF EmailIInv
<1>1. CASE TickBegins(w)
  <2>1. [pc |-> "settings", now |-> clock] \in Ticks
    BY <1>0 DEF EmailTypeOK, Ticks
  <2>2. /\ worker' \in [Workers -> Ticks] /\ worker'[w].pc = "settings"
        /\ \A v \in Workers \ {w} : worker'[v] = worker[v]
    BY <1>0, <1>1, <2>1, Turning DEF TickBegins
  <2>3. ASSUME NEW m \in Mails
        PROVE  /\ mail'[m] \in MailRecords
               /\ \/ mail'[m] = mail[m]
                  \/ /\ mail[m].status = "SENDING" /\ mail'[m].status = "UNKNOWN"
                     /\ mail'[m].version = mail[m].version
                     /\ mail'[m].sendingStartedAt = mail[m].sendingStartedAt
    <3>1. mail[m] \in MailRecords
      BY <1>0 DEF EmailTypeOK
    <3>2. \/ mail'[m] = mail[m]
          \/ /\ mail'[m] = [mail[m] EXCEPT !.status = "UNKNOWN"]
             /\ mail[m].status = "SENDING"
      BY <1>1 DEF TickBegins
    <3> QED
      BY <3>1, <3>2 DEF MailRecords, MailStates
  <2>4. mail' \in [Mails -> MailRecords]
    BY <1>1, <2>3 DEF TickBegins
  <2>5. EmailTypeOK'
    BY <1>0, <1>1, <2>2, <2>4 DEF TickBegins, web, mailHistory, EmailTypeOK
  <2> QED
    BY <1>1, <2>2, <2>3, <2>5, QuietTick DEF TickBegins, web, mailHistory
<1>2. CASE ReadSettings(w) \/ NothingToClaim(w) \/ WorkerDies(w)
  <2>1. [pc |-> "claim", now |-> worker[w].now, read |-> settings] \in Ticks
        \/ ~ReadSettings(w)
    BY <1>0, TickFacts DEF ReadSettings, TickAt, EmailTypeOK, Ticks
  <2>2. PICK t \in Ticks :
          Becomes(w, t) /\ (t.pc = "idle" \/ (t.pc = "claim" /\ t.read = settings))
    <3>1. CASE ReadSettings(w)
      BY <2>1, <3>1 DEF ReadSettings
    <3>2. CASE NothingToClaim(w) \/ WorkerDies(w)
      BY <3>2 DEF NothingToClaim, WorkerDies, Ticks, NoTick
    <3> QED
      BY <1>2, <3>1, <3>2
  <2>3. /\ worker' \in [Workers -> Ticks]
        /\ worker'[w].pc = "idle" \/ (worker'[w].pc = "claim" /\ worker'[w].read = settings)
        /\ \A v \in Workers \ {w} : worker'[v] = worker[v]
    <3>1. /\ worker' \in [Workers -> Ticks] /\ worker'[w] = t
          /\ \A v \in Workers \ {w} : worker'[v] = worker[v]
      BY <1>0, <2>2 DEF Becomes, EmailTypeOK
    <3> QED
      BY <2>2, <3>1
  <2>4. UNCHANGED <<mail, settings, optedOut, saver, clock, accepted, proven, stale>>
    BY <1>2 DEF ReadSettings, NothingToClaim, WorkerDies, web, mailHistory
  <2>5. crashes' \in 0 .. MaxCrashes
    BY <1>0, <1>2, EmailOutboxConstants DEF ReadSettings, NothingToClaim, WorkerDies,
      EmailTypeOK
  <2>6. EmailTypeOK'
    BY <1>0, <2>3, <2>4, <2>5 DEF EmailTypeOK
  <2> QED
    BY <2>3, <2>4, <2>6, QuietTick
<1> QED
  BY <1>1, <1>2

(* Settling touches a row that is SENDING, and nothing but its status and, *)
(* if it is queued again, the time.                                        *)
LEMMA Settling ==
  ASSUME EmailTypeOK, NEW m \in Mails,
         NEW status \in {"ACCEPTED", "FAILED", "UNKNOWN", "QUEUED"}, Settle(m, status)
  PROVE  /\ mail' \in [Mails -> MailRecords]
         /\ \A n \in Mails \ {m} : mail'[n] = mail[n]
         /\ \/ mail'[m] = mail[m] /\ mail[m].status # "SENDING"
            \/ /\ mail[m].status = "SENDING" /\ mail'[m].status = status
               /\ mail'[m].attempts = mail[m].attempts
               /\ mail'[m].version = mail[m].version
               /\ status # "QUEUED" => mail'[m].sendingStartedAt = mail[m].sendingStartedAt
<1>1. mail[m] \in MailRecords /\ 0 \in Times
  BY EmailOutboxConstants DEF EmailTypeOK, Times
<1>2. CASE mail[m].status # "SENDING"
  BY <1>2 DEF Settle, EmailTypeOK
<1>3. CASE mail[m].status = "SENDING"
  <2>1. PICK at \in {0, mail[m].sendingStartedAt} :
          /\ mail' = [mail EXCEPT ![m] =
                       [mail[m] EXCEPT !.status = status, !.sendingStartedAt = at]]
          /\ status # "QUEUED" => at = mail[m].sendingStartedAt
    BY <1>3 DEF Settle, EmailTypeOK
  <2>2. [mail[m] EXCEPT !.status = status, !.sendingStartedAt = at] \in MailRecords
    BY <1>1 DEF MailRecords, MailStates
  <2> QED
    BY <1>1, <1>3, <2>1, <2>2 DEF EmailTypeOK, MailRecords
<1> QED
  BY <1>2, <1>3

(* A tick lets go of its mail with a status that tells what the server did.*)
LEMMA LettingGo ==
  ASSUME EmailIInv, NEW w \in Workers, NEW m \in Mails, Holds(w, m),
         NEW status \in {"ACCEPTED", "FAILED", "UNKNOWN", "QUEUED"}, Settle(m, status),
         status = "ACCEPTED" => accepted[m] = 1,
         status \in {"FAILED", "QUEUED"} => accepted[m] = 0,
         status = "QUEUED" => mail[m].attempts < EmailMaxAttempts,
         NEW t \in Ticks, Becomes(w, t), t.pc \in {"idle", "record"},
         t.pc = "record" =>
           t.mail = m /\ (t.ok /\ mail[m].version = settings.version /\ ~stale
                            => settings.connection \in proven),
         UNCHANGED <<web, clock, crashes, mailHistory>>
  PROVE  EmailIInv'
<1>0. /\ EmailTypeOK /\ WithinLimit /\ HoldInv /\ TestInv /\ VerifiedWasTested
      /\ AcceptedAtMostOnce /\ HonestOutcome
      /\ UNCHANGED <<settings, optedOut, saver, clock, crashes, accepted, proven, stale>>
  BY DEF EmailIInv, web, mailHistory
<1>1. /\ mail' \in [Mails -> MailRecords]
      /\ \A n \in Mails \ {m} : mail'[n] = mail[n]
      /\ \/ mail'[m] = mail[m] /\ mail[m].status # "SENDING"
         \/ /\ mail[m].status = "SENDING" /\ mail'[m].status = status
            /\ mail'[m].attempts = mail[m].attempts
            /\ mail'[m].version = mail[m].version
            /\ status # "QUEUED" => mail'[m].sendingStartedAt = mail[m].sendingStartedAt
  BY <1>0, Settling
<1>2. /\ worker' \in [Workers -> Ticks] /\ worker'[w] = t
      /\ \A v \in Workers \ {w} : worker'[v] = worker[v]
  BY <1>0, Turning
<1>3. EmailTypeOK'
  BY <1>0, <1>1, <1>2 DEF EmailTypeOK
<1>4. AcceptedAtMostOnce' /\ VerifiedWasTested'
  BY <1>0 DEF AcceptedAtMostOnce, VerifiedWasTested
<1>5. HonestOutcome'
  BY <1>0, <1>1 DEF HonestOutcome
<1>6. WithinLimit'
  BY <1>0, <1>1, LimitKept DEF Counted
<1>7. \A v \in Workers : ~Holds(v, m)'
  BY <1>0, <1>2 DEF HoldInv, Holds
<1>8. HoldInv'
  BY <1>0, <1>1, <1>2, <1>7, HoldsKept DEF HoldInv
<1>9. \A n \in Mails : mail'[n].version = mail[n].version /\
                       (mail[n].status # "NONE" => mail'[n].status # "NONE")
  BY <1>1
<1>10. mail[m].status # "NONE"
  BY <1>0 DEF HoldInv
<1>11. TestInv'
  <2>1. \A v \in Workers : worker[v].pc \in {"send", "answered", "record"} =>
          worker[v].mail \in Mails
    BY <1>0, TickFacts
  <2>2. \A v \in Workers : Reads(v)' => v # w /\ worker'[v] = worker[v] /\ Reads(v)
    BY <1>2 DEF Reads
  <2>3. \A v \in Workers : Reads(v) => UpToDate(worker[v].read)
    BY <1>0 DEF TestInv
  <2>4. \A v \in Workers : Reads(v)' => UpToDate(worker[v].read)'
    BY <1>0, <2>2, <2>3 DEF UpToDate
  <2>5. ASSUME NEW v \in Workers \ {w} PROVE
          LET k == worker[v].mail IN
          /\ worker[v].pc \in {"send", "answered"} /\ k \in TestMails
               => mail'[k].version = worker[v].read.version
          /\ worker[v].pc = "record" => mail'[k].status # "NONE"
          /\ worker[v].pc = "record" /\ worker[v].ok
                /\ mail'[k].version = settings.version /\ ~stale
               => settings.connection \in proven
    BY <1>0, <1>9, <2>1 DEF TestInv
  <2>6. /\ settings.verified <= settings.version
        /\ \A k \in Mails : mail'[k].version <= settings.version
        /\ \A v \in Workers \ {w} :
             worker[v].pc = "answered" /\ worker[v].mail \in TestMails /\ worker[v].answer = "OK"
               => worker[v].read.connection \in proven
    BY <1>0, <1>9 DEF TestInv
  <2>7. t.pc = "record" => /\ mail'[m].status # "NONE"
                           /\ t.ok /\ mail'[m].version = settings.version /\ ~stale
                                => settings.connection \in proven
    BY <1>9, <1>10
  <2> QED
    BY <1>0, <1>2, <2>4, <2>5, <2>6, <2>7 DEF TestInv
<1> QED
  BY <1>3, <1>4, <1>5, <1>6, <1>8, <1>11 DEF EmailIInv

LEMMA CheckKeepsEmailIInv ==
  ASSUME EmailIInv, NEW w \in Workers, Check(w)
  PROVE  EmailIInv'
<1>0. /\ EmailTypeOK /\ WithinLimit /\ HoldInv /\ TestInv /\ VerifiedWasTested
      /\ AcceptedAtMostOnce /\ HonestOutcome
      /\ UNCHANGED <<settings, optedOut, saver, clock, crashes, accepted, proven, stale>>
  BY DEF EmailIInv, Check, web, mailHistory
<1> DEFINE m == worker[w].mail
<1>1. worker[w].pc = "check" /\ m \in Mails /\ Holds(w, m)
  BY <1>0, TickFacts DEF Check, TickAt, Holds
<1>2. CASE MustNotGo(w)
  <2>1. accepted[m] = 0
    BY <1>0, <1>1 DEF HoldInv
  <2>2. NoTick \in Ticks /\ NoTick.pc = "idle"
    BY DEF Ticks, NoTick
  <2>3. Settle(m, "FAILED") /\ Becomes(w, NoTick)
    BY <1>2 DEF Check
  <2> HIDE DEF m
  <2> QED
    BY <1>1, <2>1, <2>2, <2>3, LettingGo DEF Check
<1>3. CASE ~MustNotGo(w)
  <2> DEFINE t == [worker[w] EXCEPT !.pc = "send"]
  <2>1. worker[w] \in [pc: {"check", "send"}, now: Times, read: Settings, mail: Mails]
    BY <1>0, <1>1 DEF EmailTypeOK, Ticks, NoTick
  <2>2. /\ t \in Ticks /\ t.pc = "send" /\ t.mail = m /\ t.read = worker[w].read
    BY <2>1 DEF Ticks
  <2>3. Becomes(w, t) /\ mail' = mail
    BY <1>3 DEF Check, Becomes
  <2>4. /\ worker' \in [Workers -> Ticks] /\ worker'[w] = t
        /\ \A v \in Workers \ {w} : worker'[v] = worker[v]
    BY <1>0, <2>2, <2>3, Turning
  <2>5. EmailTypeOK' /\ AcceptedAtMostOnce' /\ HonestOutcome' /\ VerifiedWasTested'
        /\ WithinLimit'
    BY <1>0, <2>3, <2>4, LimitKept DEF EmailTypeOK, AcceptedAtMostOnce, HonestOutcome,
      VerifiedWasTested
  <2>6. HoldInv'
    <3>1. \A v \in Workers, n \in Mails : Holds(v, n)' <=> Holds(v, n)
      BY <1>1, <2>2, <2>4 DEF Holds
    <3>2. \A v \in Workers : \/ worker'[v] = worker[v]
                             \/ worker[v].pc = "check" /\ worker'[v].pc = "send"
      BY <1>1, <2>2, <2>4
    <3> HIDE DEF t, m
    <3>3. ASSUME NEW v \in Workers, NEW n \in Mails, Holds(v, n)
          PROVE  /\ mail[n].status \in {"SENDING", "UNKNOWN"}
                 /\ worker'[v].pc \in {"check", "send"} => accepted[n] = 0
                 /\ worker'[v].pc = "answered" /\ worker'[v].answer = "OK" => accepted[n] = 1
                 /\ worker'[v].pc = "answered" /\ worker'[v].answer \in Refused => accepted[n] = 0
      BY <1>0, <3>2, <3>3 DEF HoldInv
    <3> QED
      BY <1>0, <2>3, <3>1, <3>3 DEF HoldInv
  <2>7. m \in TestMails => mail[m].version = worker[w].read.version
    BY <1>3 DEF MustNotGo
  <2>8. TestInv'
    <3>1. \A v \in Workers : Reads(v)' => Reads(v) /\ worker'[v].read = worker[v].read
      BY <1>1, <2>2, <2>4 DEF Reads
    <3>2. \A v \in Workers : Reads(v)' => UpToDate(worker[v].read)'
      BY <1>0, <3>1 DEF UpToDate, TestInv
    <3> HIDE DEF t, m
    <3> QED
      BY <1>0, <2>2, <2>3, <2>4, <2>7, <3>2 DEF TestInv
  <2> QED
    BY <2>5, <2>6, <2>8 DEF EmailIInv
<1> QED
  BY <1>2, <1>3

LEMMA RecordAnswerKeepsEmailIInv ==
  ASSUME EmailIInv, NEW w \in Workers, RecordAnswer(w)
  PROVE  EmailIInv'
<1>0. EmailTypeOK /\ HoldInv /\ TestInv
  BY DEF EmailIInv
<1> DEFINE m == worker[w].mail
           a == worker[w].answer
           status == StatusAfter(a, mail[m].attempts)
           t == IF m \in TestMails /\ status # "QUEUED"
                THEN [pc |-> "record", mail |-> m, ok |-> status = "ACCEPTED"] ELSE NoTick
<1>1. worker[w].pc = "answered" /\ m \in Mails /\ a \in Answers /\ Holds(w, m)
  BY <1>0, TickFacts DEF RecordAnswer, TickAt, Holds
<1>2. /\ status \in {"ACCEPTED", "FAILED", "UNKNOWN", "QUEUED"}
      /\ status = "ACCEPTED" => a = "OK"
      /\ status \in {"FAILED", "QUEUED"} => a \in Refused
      /\ status = "QUEUED" => mail[m].attempts < EmailMaxAttempts
  BY <1>1 DEF StatusAfter, Answers, Refused
<1>3. /\ status = "ACCEPTED" => accepted[m] = 1
      /\ status \in {"FAILED", "QUEUED"} => accepted[m] = 0
  BY <1>0, <1>1, <1>2 DEF HoldInv
<1>4. Settle(m, status) /\ Becomes(w, t) /\ UNCHANGED <<web, clock, crashes, mailHistory>>
  BY DEF RecordAnswer
<1> HIDE DEF status
<1>5. t \in Ticks /\ t.pc \in {"idle", "record"}
  BY <1>1 DEF Ticks, NoTick
<1>6. t.pc = "record" =>
        t.mail = m /\ (t.ok /\ mail[m].version = settings.version /\ ~stale
                         => settings.connection \in proven)
  <2>1. ASSUME a = "OK", m \in TestMails, mail[m].version = settings.version, ~stale
        PROVE  settings.connection \in proven
    <3>1. /\ worker[w].read.connection \in proven /\ UpToDate(worker[w].read)
          /\ worker[w].read.version = settings.version
      BY <1>0, <1>1, <2>1 DEF TestInv, Reads
    <3> QED
      BY <2>1, <3>1 DEF UpToDate
  <2> QED
    BY <1>2, <2>1 DEF NoTick
<1> HIDE DEF m, a, t
<1> QED
  BY <1>1, <1>2, <1>3, <1>4, <1>5, <1>6, LettingGo

(* The claim takes a row nobody holds and the server never had; it counts  *)
(* at the time of the tick, and all that counts in a window with that time *)
(* was counted by the claim.                                               *)
LEMMA ClaimKeepsLimit ==
  ASSUME EmailIInv, NEW w \in Workers, NEW m \in Mails, Claim(w, m)
  PROVE  WithinLimit'
<1> DEFINE now == worker[w].now
           In(t) == {n \in Mails : /\ mail[n].status \in Counted
                                   /\ mail[n].sendingStartedAt \in t - Minute .. t}
<1>0. EmailTypeOK /\ WithinLimit /\ now \in Times /\ Minute \in Nat /\ MaxPerMinute \in Nat
      /\ MaxTime \in Nat /\ IsFiniteSet(Mails)
  BY TickFacts, EmailOutboxConstants DEF EmailIInv, Claim, TickAt
<1>1. /\ mail'[m].sendingStartedAt = now
      /\ \A n \in Mails \ {m} : mail'[n] = mail[n]
  BY <1>0 DEF Claim, EmailTypeOK, MailRecords
<1> SUFFICES ASSUME NEW t \in Times PROVE Cardinality(In(t)') <= MaxPerMinute
  BY DEF WithinLimit
<1>2. In(t)' \subseteq In(t) \cup {m}
  BY <1>1
<1>3. IsFiniteSet(In(t)) /\ IsFiniteSet(In(t)')
  BY <1>0, FS_Subset
<1>4. CASE now \in t - Minute .. t
  <2>1. In(t) \subseteq Started(now)
    <3> SUFFICES ASSUME NEW n \in In(t) PROVE n \in Started(now)
      OBVIOUS
    <3>1. mail[n].sendingStartedAt \in Nat /\ now \in Nat /\ t \in Nat
      BY <1>0 DEF EmailTypeOK, MailRecords, Times
    <3>2. mail[n].sendingStartedAt >= now - Minute
      BY <1>0, <1>4, <3>1
    <3> QED
      BY <3>2 DEF Started
  <2>2. IsFiniteSet(Started(now)) /\ Cardinality(Started(now)) < MaxPerMinute
    BY <1>0, FS_Subset DEF Started, Claim
  <2>3. /\ Cardinality(In(t)) < MaxPerMinute
        /\ Cardinality(In(t)) \in Nat
    BY <1>0, <1>3, <2>1, <2>2, FS_Subset, FS_CardinalityType
  <2>4. /\ Cardinality(In(t) \cup {m}) <= Cardinality(In(t)) + 1
        /\ Cardinality(In(t) \cup {m}) \in Nat
        /\ IsFiniteSet(In(t) \cup {m})
    <3> HIDE DEF In
    <3>1. /\ IsFiniteSet(In(t) \cup {m})
          /\ Cardinality(In(t) \cup {m}) \in {Cardinality(In(t)), Cardinality(In(t)) + 1}
      BY <1>3, FS_AddElement
    <3> QED
      BY <2>3, <3>1
  <2>5. Cardinality(In(t)') <= Cardinality(In(t) \cup {m}) /\ Cardinality(In(t)') \in Nat
    BY <1>2, <1>3, <2>4, FS_Subset, FS_CardinalityType
  <2> HIDE DEF In
  <2> QED
    BY <1>0, <2>3, <2>4, <2>5
<1>5. CASE now \notin t - Minute .. t
  <2>1. In(t)' \subseteq In(t)
    BY <1>1, <1>5
  <2>2. Cardinality(In(t)') <= Cardinality(In(t)) /\ Cardinality(In(t)') \in Nat
    BY <1>3, <2>1, FS_Subset, FS_CardinalityType
  <2>3. Cardinality(In(t)) <= MaxPerMinute /\ Cardinality(In(t)) \in Nat
    BY <1>0, <1>3, FS_CardinalityType DEF WithinLimit
  <2> HIDE DEF In
  <2> QED
    BY <1>0, <2>2, <2>3
<1> QED
  BY <1>4, <1>5

LEMMA ClaimKeepsEmailIInv ==
  ASSUME EmailIInv, NEW w \in Workers, NEW m \in Mails, Claim(w, m)
  PROVE  EmailIInv'
<1> DEFINE n == [mail[m] EXCEPT !.status = "SENDING", !.attempts = mail[m].attempts + 1,
                                !.sendingStartedAt = worker[w].now]
           t == [pc |-> "check", now |-> worker[w].now, read |-> worker[w].read, mail |-> m]
<1>0. /\ EmailTypeOK /\ HoldInv /\ TestInv /\ VerifiedWasTested
      /\ AcceptedAtMostOnce /\ HonestOutcome
      /\ UNCHANGED <<settings, optedOut, saver, clock, crashes, accepted, proven, stale>>
  BY DEF EmailIInv, Claim, web, mailHistory
<1>1. worker[w].now \in Times /\ worker[w].read \in Settings /\ mail[m] \in MailRecords
  BY <1>0, TickFacts DEF Claim, TickAt, EmailTypeOK
<1>2. mail[m].status = "QUEUED" /\ mail[m].attempts < EmailMaxAttempts /\ accepted[m] = 0
  BY <1>0 DEF Claim, HoldInv, HonestOutcome
<1>3. n \in MailRecords /\ n.status = "SENDING" /\ n.version = mail[m].version
  <2>1. mail[m].attempts + 1 \in 0 .. EmailMaxAttempts
    BY <1>1, <1>2, EmailOutboxConstants DEF MailRecords
  <2> QED
    BY <1>1, <2>1 DEF MailRecords, MailStates
<1>4. mail' = [mail EXCEPT ![m] = n] /\ Becomes(w, t)
  <2>1. mail' = [mail EXCEPT ![m] = n]
    BY <1>0, <1>1 DEF Claim, EmailTypeOK, MailRecords
  <2>2. Becomes(w, t)
    BY DEF Claim
  <2> QED
    BY <2>1, <2>2
<1>5. t \in Ticks /\ t.pc = "check" /\ t.mail = m /\ t.read = worker[w].read
  BY <1>1 DEF Ticks
<1> HIDE DEF n, t
<1>6. /\ mail' \in [Mails -> MailRecords] /\ mail'[m] = n
      /\ \A k \in Mails \ {m} : mail'[k] = mail[k]
  BY <1>0, <1>3, <1>4 DEF EmailTypeOK
<1>7. /\ worker' \in [Workers -> Ticks] /\ worker'[w] = t
      /\ \A v \in Workers \ {w} : worker'[v] = worker[v]
  BY <1>0, <1>4, <1>5, Turning
<1>8. EmailTypeOK' /\ AcceptedAtMostOnce' /\ VerifiedWasTested'
  BY <1>0, <1>6, <1>7 DEF EmailTypeOK, AcceptedAtMostOnce, VerifiedWasTested
<1>9. HonestOutcome'
  BY <1>0, <1>3, <1>6 DEF HonestOutcome
<1>10. HoldInv'
  <2>1. \A v \in Workers : ~Holds(v, m)
    BY <1>0, <1>2 DEF HoldInv
  <2>2. ~Holds(w, m)' \/ worker'[w].pc = "check"
    BY <1>5, <1>7
  <2>3. \A k \in Mails \ {m} : ~Holds(w, k)'
    BY <1>5, <1>7 DEF Holds
  <2>4. \A v \in Workers \ {w}, k \in Mails : Holds(v, k)' <=> Holds(v, k)
    BY <1>7 DEF Holds
  <2>5. \A v, u \in Workers, k \in Mails : Holds(v, k)' /\ Holds(u, k)' => v = u
    BY <1>0, <2>1, <2>3, <2>4 DEF HoldInv
  <2>6. ASSUME NEW k \in Mails PROVE
          mail'[k].status \in {"NONE", "QUEUED"} => mail'[k].attempts < EmailMaxAttempts
    BY <1>0, <1>3, <1>6 DEF HoldInv
  <2>7. ASSUME NEW v \in Workers, NEW k \in Mails, Holds(v, k)'
        PROVE  /\ mail'[k].status \in {"SENDING", "UNKNOWN"}
               /\ worker'[v].pc \in {"check", "send"} => accepted'[k] = 0
               /\ worker'[v].pc = "answered" /\ worker'[v].answer = "OK" => accepted'[k] = 1
               /\ worker'[v].pc = "answered" /\ worker'[v].answer \in Refused => accepted'[k] = 0
    <3>1. CASE v = w
      BY <1>0, <1>2, <1>3, <1>5, <1>6, <1>7, <2>3, <2>7, <3>1
    <3>2. CASE v # w
      <4>1. Holds(v, k) /\ k # m
        BY <2>1, <2>4, <2>7, <3>2
      <4> QED
        BY <1>0, <1>6, <1>7, <3>2, <4>1 DEF HoldInv
    <3> QED
      BY <3>1, <3>2
  <2> QED
    BY <2>5, <2>6, <2>7 DEF HoldInv
<1>11. TestInv'
  <2>1. \A k \in Mails :
          /\ mail'[k].version = mail[k].version
          /\ mail[k].status # "NONE" => mail'[k].status # "NONE"
    BY <1>3, <1>6
  <2>2. settings'.verified <= settings'.version /\ SettingsGoOn
    BY <1>0, SettingsStay DEF TestInv
  <2>3. UpToDate(worker[w].read) /\ worker'[w].read = worker[w].read
    BY <1>0, <1>5, <1>7 DEF TestInv, Reads, Claim, TickAt
  <2>4. UpToDate(worker[w].read)'
    BY <1>0, <2>3 DEF UpToDate
  <2> QED
    BY <1>0, <1>5, <1>6, <1>7, <2>1, <2>2, <2>4, TestsKept
<1>12. WithinLimit'
  BY ClaimKeepsLimit
<1> QED
  BY <1>8, <1>9, <1>10, <1>11, <1>12 DEF EmailIInv

(* SMTP takes a mail that it never had: the tick that hands it over is the *)
(* only one to hold it.                                                    *)
LEMMA HandOverKeepsEmailIInv ==
  ASSUME EmailIInv, NEW w \in Workers, NEW answer \in Answers, NEW taken \in BOOLEAN,
         HandOver(w, answer, taken)
  PROVE  EmailIInv'
<1> DEFINE m == worker[w].mail
           t == [pc |-> "answered", now |-> worker[w].now, read |-> worker[w].read,
                 mail |-> m, answer |-> answer]
<1>0. /\ EmailTypeOK /\ HoldInv /\ TestInv /\ VerifiedWasTested /\ WithinLimit
      /\ AcceptedAtMostOnce /\ HonestOutcome
      /\ UNCHANGED <<mail, settings, optedOut, saver, clock, crashes, stale>>
  BY DEF EmailIInv, HandOver, web
<1>1. /\ worker[w].pc = "send" /\ m \in Mails /\ worker[w].read \in Settings
      /\ worker[w].now \in Times
  BY <1>0, TickFacts DEF HandOver, TickAt
<1>2. Holds(w, m)
  BY <1>1 DEF Holds
<1>3. accepted[m] = 0 /\ mail[m].status \in {"SENDING", "UNKNOWN"}
  BY <1>0, <1>1, <1>2 DEF HoldInv
<1>4. Becomes(w, t)
  BY DEF HandOver
<1>5. t \in Ticks /\ t.pc = "answered" /\ t.mail = m /\ t.answer = answer
      /\ t.read = worker[w].read
  BY <1>1 DEF Ticks
<1> HIDE DEF t
<1>6. /\ worker' \in [Workers -> Ticks] /\ worker'[w] = t
      /\ \A v \in Workers \ {w} : worker'[v] = worker[v]
  BY <1>0, <1>4, <1>5, Turning
<1>7. /\ accepted' \in [Mails -> Nat]
      /\ \A n \in Mails \ {m} : accepted'[n] = accepted[n]
      /\ accepted'[m] \in {0, 1}
      /\ answer = "OK" => accepted'[m] = 1
      /\ answer \in Refused => accepted'[m] = 0
  <2>1. /\ answer = "OK" => taken
        /\ answer \in Refused => ~taken
    BY DEF HandOver, Refused
  <2>2. CASE taken
    <3>1. accepted' = [accepted EXCEPT ![m] = 1]
      BY <1>0, <1>3, <2>2 DEF HandOver, EmailTypeOK
    <3> QED
      BY <1>0, <1>1, <2>1, <2>2, <3>1 DEF EmailTypeOK
  <2>3. CASE ~taken
    BY <1>0, <1>1, <1>3, <2>1, <2>3 DEF HandOver, EmailTypeOK
  <2> QED
    BY <2>2, <2>3
<1>8. /\ proven \subseteq proven' /\ proven' \subseteq Connections
      /\ answer = "OK" /\ m \in TestMails => worker[w].read.connection \in proven'
  BY <1>0, <1>1 DEF HandOver, EmailTypeOK, Settings
<1>9. EmailTypeOK'
  BY <1>0, <1>6, <1>7, <1>8 DEF EmailTypeOK
<1>10. AcceptedAtMostOnce' /\ HonestOutcome' /\ VerifiedWasTested' /\ WithinLimit'
  <2>1. AcceptedAtMostOnce'
    BY <1>0, <1>1, <1>7 DEF AcceptedAtMostOnce
  <2>2. HonestOutcome'
    BY <1>0, <1>1, <1>3, <1>7 DEF HonestOutcome
  <2>3. VerifiedWasTested'
    BY <1>0, <1>8 DEF VerifiedWasTested
  <2>4. WithinLimit'
    BY <1>0, LimitKept
  <2> QED
    BY <2>1, <2>2, <2>3, <2>4
<1>11. HoldInv'
  <2>1. \A v \in Workers, n \in Mails : Holds(v, n)' <=> Holds(v, n)
    BY <1>1, <1>5, <1>6 DEF Holds
  <2>2. ASSUME NEW v \in Workers, NEW n \in Mails, Holds(v, n)
        PROVE  /\ mail[n].status \in {"SENDING", "UNKNOWN"}
               /\ worker'[v].pc \in {"check", "send"} => accepted'[n] = 0
               /\ worker'[v].pc = "answered" /\ worker'[v].answer = "OK" => accepted'[n] = 1
               /\ worker'[v].pc = "answered" /\ worker'[v].answer \in Refused
                    => accepted'[n] = 0
    <3>1. CASE v = w
      <4>1. n = m
        BY <2>2, <3>1 DEF Holds
      <4> QED
        BY <1>3, <1>5, <1>6, <1>7, <3>1, <4>1
    <3>2. CASE v # w
      <4>1. n # m
        BY <1>0, <1>1, <1>2, <2>2, <3>2 DEF HoldInv
      <4>2. worker'[v] = worker[v] /\ accepted'[n] = accepted[n]
        BY <1>6, <1>7, <3>2, <4>1
      <4> HIDE DEF m
      <4> QED
        BY <1>0, <2>2, <4>2 DEF HoldInv
    <3> QED
      BY <3>1, <3>2
  <2> QED
    BY <1>0, <2>1, <2>2 DEF HoldInv
<1>12. TestInv'
  <2>1. m \in TestMails => mail[m].version = worker[w].read.version
    BY <1>0, <1>1 DEF TestInv
  <2>2. /\ worker'[w].pc = "answered" /\ worker'[w].mail = m /\ worker'[w].answer = answer
        /\ worker'[w].read = worker[w].read
    BY <1>5, <1>6
  <2>3. \A v \in Workers : Reads(v)' => Reads(v) /\ worker'[v].read = worker[v].read
    BY <1>1, <1>6, <2>2 DEF Reads
  <2>4. \A v \in Workers : Reads(v)' => UpToDate(worker[v].read)'
    BY <1>0, <2>3 DEF UpToDate, TestInv
  <2> HIDE DEF m
  <2> QED
    BY <1>0, <1>6, <1>8, <2>1, <2>2, <2>4 DEF TestInv
<1> QED
  BY <1>9, <1>10, <1>11, <1>12 DEF EmailIInv

(* A test verifies the settings of now only if they are those it tested.   *)
LEMMA RecordTestKeepsEmailIInv ==
  ASSUME EmailIInv, NEW w \in Workers, RecordTest(w)
  PROVE  EmailIInv'
<1>0. /\ EmailTypeOK /\ HoldInv /\ TestInv /\ VerifiedWasTested /\ WithinLimit
      /\ AcceptedAtMostOnce /\ HonestOutcome
      /\ UNCHANGED <<mail, optedOut, saver, clock, crashes, accepted, proven, stale>>
  BY DEF EmailIInv, RecordTest, mailHistory
<1>1. NoTick \in Ticks /\ NoTick.pc = "idle"
  BY DEF Ticks, NoTick
<1>2. /\ worker' \in [Workers -> Ticks] /\ worker'[w] = NoTick
      /\ \A v \in Workers \ {w} : worker'[v] = worker[v]
  BY <1>0, <1>1, Turning DEF RecordTest
<1>3. /\ settings' \in Settings
      /\ settings'.version = settings.version /\ settings'.connection = settings.connection
      /\ \/ settings'.verified = settings.verified
         \/ /\ settings'.verified = settings.version
            /\ ~stale => settings.connection \in proven
  <2>1. settings \in Settings
    BY <1>0 DEF EmailTypeOK
  <2>2. \/ settings' = settings
        \/ /\ settings' = [settings EXCEPT !.verified = settings.version]
           /\ ~stale => settings.connection \in proven
    BY <1>0 DEF RecordTest, TickAt, TestInv
  <2> QED
    BY <2>1, <2>2 DEF Settings
<1>4. EmailTypeOK'
  BY <1>0, <1>2, <1>3 DEF EmailTypeOK
<1>5. AcceptedAtMostOnce' /\ HonestOutcome' /\ WithinLimit'
  BY <1>0, LimitKept DEF AcceptedAtMostOnce, HonestOutcome
<1>6. HoldInv'
  BY <1>0, <1>1, <1>2, HoldsKept DEF HoldInv
<1>7. VerifiedWasTested' /\ settings'.verified <= settings'.version
  <2>1. settings.version \in Nat
    BY <1>0 DEF EmailTypeOK, Settings, Versions
  <2> QED
    BY <1>0, <1>3, <2>1 DEF VerifiedWasTested, TestInv
<1>8. SettingsGoOn
  BY <1>0, <1>3 DEF SettingsGoOn, EmailTypeOK, Settings, Versions
<1>9. TestInv'
  BY <1>0, <1>1, <1>2, <1>7, <1>8, TestsKept DEF EmailTypeOK
<1> QED
  BY <1>4, <1>5, <1>6, <1>7, <1>9 DEF EmailIInv

----------------------------------------------------------------------------
LEMMA NextKeepsEmailIInv == EmailIInv /\ [EmailNext]_emailVars => EmailIInv'
<1> SUFFICES ASSUME EmailIInv, [EmailNext]_emailVars PROVE EmailIInv'
  OBVIOUS
<1>1. CASE People
  BY <1>1, PeopleKeepEmailIInv
<1>2. CASE TimePasses \/ \E w \in Workers : WorkerDies(w)
  <2>1. CASE \E w \in Workers : WorkerDies(w)
    BY <2>1, QuietTicksKeepEmailIInv
  <2>2. CASE TimePasses
    <3>1. UNCHANGED <<mail, settings, worker, accepted, proven, stale>>
      BY <2>2 DEF TimePasses, web, mailHistory
    <3>2. EmailTypeOK'
      BY <2>2, EmailOutboxConstants DEF TimePasses, web, mailHistory, EmailIInv,
        EmailTypeOK, Times
    <3> QED
      BY <3>1, <3>2, QuietTick
  <2> QED
    BY <1>2, <2>1, <2>2
<1>3. ASSUME NEW w \in Workers, Tick(w) PROVE EmailIInv'
  BY <1>3, QuietTicksKeepEmailIInv, ClaimKeepsEmailIInv, CheckKeepsEmailIInv,
    HandOverKeepsEmailIInv, RecordAnswerKeepsEmailIInv, RecordTestKeepsEmailIInv DEF Tick
<1>4. CASE UNCHANGED emailVars
  <2>1. UNCHANGED <<mail, settings, worker, accepted, proven, stale>> /\ EmailTypeOK'
    BY <1>4 DEF emailVars, mailHistory, EmailIInv, EmailTypeOK
  <2> QED
    BY <2>1, QuietTick
<1> QED
  BY <1>1, <1>2, <1>3, <1>4 DEF EmailNext

(* The invariant holds however many loops, savers and mails there are.     *)
THEOREM EmailInvariant == EmailSpec => []EmailIInv
BY InitIInv, NextKeepsEmailIInv, PTL DEF EmailSpec

(* Every row, every tick and the settings stay what their columns allow.   *)
THEOREM EmailTypeCorrect == EmailSpec => []EmailTypeOK
<1>1. EmailIInv => EmailTypeOK
  BY DEF EmailIInv
<1> QED
  BY <1>1, EmailInvariant, PTL

(* No mail is taken twice: UNKNOWN is never retried by itself              *)
(* (outboxProcessor.ts:11-22, 57-62, 174-202).                             *)
THEOREM NoMailTwice == EmailSpec => []AcceptedAtMostOnce
<1>1. EmailIInv => AcceptedAtMostOnce
  BY DEF EmailIInv
<1> QED
  BY <1>1, EmailInvariant, PTL

(* ACCEPTED, FAILED and QUEUED are true of the server                      *)
(* (outboxProcessor.ts:116-202).                                           *)
THEOREM OutcomesAreHonest == EmailSpec => []HonestOutcome
<1>1. EmailIInv => HonestOutcome
  BY DEF EmailIInv
<1> QED
  BY <1>1, EmailInvariant, PTL

(* By the times the rows carry, those their ticks began with, no window    *)
(* holds more than the limit, whichever loops claim; of the times of the   *)
(* sends themselves it says nothing (outboxProcessor.ts:79-113).           *)
THEOREM LimitHolds == EmailSpec => []WithinLimit
<1>1. EmailIInv => WithinLimit
  BY DEF EmailIInv
<1> QED
  BY <1>1, EmailInvariant, PTL

(* Only a connection under which the server took a test is shown as        *)
(* connected, but for a save that compared with older settings             *)
(* (outboxProcessor.ts:226-236; emailSettings.ts:62-91).                   *)
THEOREM OnlyProvenIsVerified == EmailSpec => []VerifiedWasTested
<1>1. EmailIInv => VerifiedWasTested
  BY DEF EmailIInv
<1> QED
  BY <1>1, EmailInvariant, PTL
----------------------------------------------------------------------------
(* The outbox implements ReplyDelivery: each step is one of its steps or   *)
(* leaves it unchanged.                                                    *)

Open == {"QUEUED", "SENDING"}

LEMMA SameFates ==
  ASSUME \A m \in Mails : \/ mail'[m].status = mail[m].status
                          \/ {mail[m].status, mail'[m].status} \subseteq Open,
         UNCHANGED accepted
  PROVE  UNCHANGED MailDelivery!vars
<1>1. \A m \in Mails : FateOfMail(m)' = FateOfMail(m)
  BY DEF FateOfMail, Open
<1> QED
  BY <1>1 DEF MailDelivery!vars

(* A step that moves the status of some mails moves their fates alone.     *)
LEMMA FatesMove ==
  ASSUME NEW ms \in SUBSET Mails, NEW f, \A m \in ms : FateOfMail(m)' = f,
         \A m \in Mails : m \notin ms => mail'[m] = mail[m]
  PROVE  MailDelivery!BecomeAll(ms, f)
<1>1. \A m \in Mails : m \notin ms => FateOfMail(m)' = FateOfMail(m)
  BY DEF FateOfMail
<1> QED
  BY <1>1 DEF MailDelivery!BecomeAll

LEMMA InitRefines == EmailInit => MailDelivery!Init
<1> SUFFICES ASSUME EmailInit PROVE MailDelivery!Init
  OBVIOUS
<1>1. \A m \in Mails : mail[m].status = "NONE"
  BY DEF EmailInit
<1>2. \A m \in Mails : FateOfMail(m) = "none"
  BY <1>1 DEF FateOfMail
<1> QED
  BY <1>2 DEF EmailInit, MailDelivery!Init

LEMMA EnqueueRefines ==
  ASSUME EmailTypeOK, NEW m \in Mails, Enqueue(m)
  PROVE  MailDelivery!Next
<1>1. /\ mail[m].status = "NONE" /\ mail'[m].status = "QUEUED"
      /\ \A n \in Mails \ {m} : mail'[n] = mail[n]
      /\ UNCHANGED accepted
  BY DEF Enqueue, EmailTypeOK, MailRecords, mailHistory
<1>2. FateOfMail(m) = "none" /\ FateOfMail(m)' = "open"
  BY <1>1 DEF FateOfMail
<1>3. MailDelivery!BecomeAll({m}, "open")
  BY <1>1, <1>2, FatesMove
<1>4. MailDelivery!Accept(m)
  BY <1>1, <1>2, <1>3 DEF MailDelivery!Accept, MailDelivery!Become
<1> QED
  BY <1>4 DEF MailDelivery!Next

(* recoverStuckSends loses track of all that is stuck at once.             *)
LEMMA RecoveryRefines ==
  ASSUME EmailTypeOK, NEW w \in Workers, TickBegins(w)
  PROVE  MailDelivery!Next
<1> DEFINE stuck ==
      {m \in Mails : mail[m].status = "SENDING" /\ mail[m].sendingStartedAt < clock - Stuck}
<1>1. /\ mail' = [m \in Mails |->
             IF m \in stuck THEN [mail[m] EXCEPT !.status = "UNKNOWN"] ELSE mail[m]]
      /\ UNCHANGED accepted
  BY DEF TickBegins, mailHistory
<1>2. ASSUME NEW m \in stuck
      PROVE  FateOfMail(m) = "open" /\ FateOfMail(m)' = "unknown"
  <2>1. mail[m].status = "SENDING" /\ mail'[m].status = "UNKNOWN"
    BY <1>1 DEF EmailTypeOK, MailRecords
  <2> QED
    BY <2>1 DEF FateOfMail
<1>3. stuck \in SUBSET Mails /\ \A m \in Mails : m \notin stuck => mail'[m] = mail[m]
  BY <1>1
<1> HIDE DEF stuck
<1>4. MailDelivery!LoseTrack(stuck)
  BY <1>1, <1>2, <1>3, FatesMove DEF MailDelivery!LoseTrack
<1> QED
  BY <1>3, <1>4 DEF MailDelivery!Next

(* A tick settles its mail by what the server did, or finds it given up.   *)
LEMMA SettlingRefines ==
  ASSUME EmailTypeOK, NEW m \in Mails,
         NEW status \in {"ACCEPTED", "FAILED", "UNKNOWN", "QUEUED"}, Settle(m, status),
         status = "ACCEPTED" => accepted[m] = 1,
         status \in {"FAILED", "QUEUED"} => accepted[m] = 0,
         UNCHANGED accepted
  PROVE  MailDelivery!Next \/ UNCHANGED MailDelivery!vars
<1>1. /\ \A n \in Mails \ {m} : mail'[n] = mail[n]
      /\ \/ mail'[m] = mail[m]
         \/ mail[m].status = "SENDING" /\ mail'[m].status = status
  BY Settling
<1>2. CASE mail'[m].status = mail[m].status \/ status = "QUEUED"
  BY <1>1, <1>2, SameFates DEF Open
<1>3. CASE mail'[m].status # mail[m].status /\ status # "QUEUED"
  <2>1. FateOfMail(m) = "open"
    BY <1>1, <1>3 DEF FateOfMail
  <2>2. MailDelivery!BecomeAll({m}, FateOfMail(m)')
    BY <1>1, FatesMove
  <2>3. CASE status = "ACCEPTED"
    <3>1. FateOfMail(m)' = "sent"
      BY <1>1, <1>3, <2>3 DEF FateOfMail
    <3>2. MailDelivery!Sent(m)
      BY <2>1, <2>2, <2>3, <3>1 DEF MailDelivery!Sent, MailDelivery!Become
    <3> QED
      BY <3>2 DEF MailDelivery!Next
  <2>4. CASE status = "FAILED"
    <3>1. FateOfMail(m)' = "notSent"
      BY <1>1, <1>3, <2>4 DEF FateOfMail
    <3>2. MailDelivery!GiveUp({m})
      BY <2>1, <2>2, <2>4, <3>1 DEF MailDelivery!GiveUp, MailDelivery!Accounted
    <3> QED
      BY <3>2 DEF MailDelivery!Next
  <2>5. CASE status = "UNKNOWN"
    <3>1. FateOfMail(m)' = "unknown"
      BY <1>1, <1>3, <2>5 DEF FateOfMail
    <3>2. MailDelivery!LoseTrack({m})
      BY <2>1, <2>2, <3>1 DEF MailDelivery!LoseTrack
    <3> QED
      BY <3>2 DEF MailDelivery!Next
  <2> QED
    BY <1>3, <2>3, <2>4, <2>5
<1> QED
  BY <1>2, <1>3

LEMMA TickRefines ==
  ASSUME EmailIInv, NEW w \in Workers, Tick(w)
  PROVE  MailDelivery!Next \/ UNCHANGED MailDelivery!vars
<1> DEFINE m == worker[w].mail
<1>0. EmailTypeOK /\ HoldInv
  BY DEF EmailIInv
<1>1. CASE TickBegins(w)
  BY <1>0, <1>1, RecoveryRefines
<1>2. CASE ReadSettings(w) \/ NothingToClaim(w) \/ RecordTest(w)
  <2>1. UNCHANGED <<mail, accepted>>
    BY <1>2 DEF ReadSettings, NothingToClaim, RecordTest, mailHistory
  <2> QED
    BY <2>1, SameFates
<1>3. ASSUME NEW n \in Mails, Claim(w, n) PROVE UNCHANGED MailDelivery!vars
  <2>1. /\ mail[n].status = "QUEUED" /\ mail'[n].status = "SENDING"
        /\ \A k \in Mails \ {n} : mail'[k] = mail[k]
        /\ UNCHANGED accepted
    BY <1>0, <1>3 DEF Claim, EmailTypeOK, MailRecords, mailHistory
  <2> QED
    BY <2>1, SameFates DEF Open
<1>4. ASSUME worker[w].pc \in {"check", "send", "answered"}
      PROVE  m \in Mails /\ Holds(w, m)
  BY <1>0, <1>4, TickFacts DEF Holds
<1>5. CASE Check(w)
  <2>1. m \in Mails /\ accepted[m] = 0
    BY <1>0, <1>4, <1>5 DEF Check, TickAt, HoldInv
  <2>2. UNCHANGED accepted /\ (Settle(m, "FAILED") \/ UNCHANGED mail)
    BY <1>5 DEF Check, mailHistory
  <2> HIDE DEF m
  <2>3. CASE UNCHANGED mail
    BY <2>2, <2>3, SameFates
  <2>4. CASE Settle(m, "FAILED")
    BY <1>0, <2>1, <2>2, <2>4, SettlingRefines
  <2> QED
    BY <2>2, <2>3, <2>4
<1>6. ASSUME NEW answer \in Answers, NEW taken \in BOOLEAN, HandOver(w, answer, taken)
      PROVE  MailDelivery!Next \/ UNCHANGED MailDelivery!vars
  <2>1. m \in Mails /\ accepted[m] = 0 /\ mail[m].status \in {"SENDING", "UNKNOWN"}
    BY <1>0, <1>4, <1>6 DEF HandOver, TickAt, HoldInv
  <2>2. /\ UNCHANGED mail
        /\ accepted' = IF taken THEN [accepted EXCEPT ![m] = @ + 1] ELSE accepted
    BY <1>6 DEF HandOver
  <2> HIDE DEF m
  <2>3. CASE taken
    <3>1. FateOfMail(m) \in {"open", "unknown"}
      BY <2>1 DEF FateOfMail
    <3>2. [n \in Mails |-> FateOfMail(n)]' = [n \in Mails |-> FateOfMail(n)]
      BY <2>2 DEF FateOfMail
    <3>3. MailDelivery!HandOver(m)
      BY <2>1, <2>2, <2>3, <3>1, <3>2 DEF MailDelivery!HandOver, MailDelivery!Accounted
    <3> QED
      BY <2>1, <3>3 DEF MailDelivery!Next
  <2>4. CASE ~taken
    BY <2>2, <2>4, SameFates
  <2> QED
    BY <2>3, <2>4
<1>7. CASE RecordAnswer(w)
  <2> DEFINE a == worker[w].answer
             status == StatusAfter(a, mail[m].attempts)
  <2>1. worker[w].pc = "answered" /\ m \in Mails /\ a \in Answers /\ Holds(w, m)
    BY <1>0, <1>4, <1>7, TickFacts DEF RecordAnswer, TickAt
  <2>2. /\ status \in {"ACCEPTED", "FAILED", "UNKNOWN", "QUEUED"}
        /\ status = "ACCEPTED" => a = "OK"
        /\ status \in {"FAILED", "QUEUED"} => a \in Refused
    BY <2>1 DEF StatusAfter, Answers, Refused
  <2>3. /\ status = "ACCEPTED" => accepted[m] = 1
        /\ status \in {"FAILED", "QUEUED"} => accepted[m] = 0
    BY <1>0, <2>1, <2>2 DEF HoldInv
  <2>4. Settle(m, status) /\ UNCHANGED accepted
    BY <1>7 DEF RecordAnswer, mailHistory
  <2> HIDE DEF status, m, a
  <2> QED
    BY <1>0, <2>1, <2>2, <2>3, <2>4, SettlingRefines
<1> QED
  BY <1>1, <1>2, <1>3, <1>5, <1>6, <1>7 DEF Tick

LEMMA StepRefines ==
  ASSUME EmailIInv, [EmailNext]_emailVars
  PROVE  [MailDelivery!Next]_(MailDelivery!vars)
<1>1. CASE \/ UNCHANGED emailVars \/ TimePasses
           \/ \E w \in Workers : WorkerDies(w)
           \/ \E p \in Savers : SaveReads(p) \/ \E c \in Connections : SaveWrites(p, c)
           \/ SetEmailEnabled
           \/ \E m \in Mails : OptOut(m)
  <2>1. UNCHANGED <<mail, accepted>>
    BY <1>1 DEF emailVars, TimePasses, WorkerDies, SaveReads, SaveWrites, SetEmailEnabled,
      OptOut, mailHistory
  <2> QED
    BY <2>1, SameFates
<1>2. ASSUME NEW m \in Mails, SendTestEmail(m) \/ SendClientEmail(m)
      PROVE  MailDelivery!Next
  BY <1>2, EnqueueRefines DEF SendTestEmail, SendClientEmail, EmailIInv
<1>3. ASSUME NEW w \in Workers, Tick(w)
      PROVE  MailDelivery!Next \/ UNCHANGED MailDelivery!vars
  BY <1>3, TickRefines
<1> QED
  BY <1>1, <1>2, <1>3 DEF EmailNext, People

(* Every behaviour of the outbox is one that the at-most-once promise of   *)
(* ReplyDelivery allows: a late answer moves nothing that was given up     *)
(* (outboxProcessor.ts:49-62, 222-224).                                    *)
THEOREM OutboxImplementsDelivery == EmailSpec => EmailImplementsDelivery
<1>1. EmailIInv /\ [EmailNext]_emailVars => [MailDelivery!Next]_(MailDelivery!vars)
  BY StepRefines
<1> QED
  BY <1>1, InitRefines, EmailInvariant, PTL
  DEF EmailSpec, EmailImplementsDelivery, MailDelivery!Spec
============================================================================
