------------------------- MODULE ChannelThreadProofs -------------------------
(***************************************************************************)
(* Safety of a Messenger or Instagram conversation for any replies, texts, *)
(* requests and messages from elsewhere, and any limits.                   *)
(***************************************************************************)
EXTENDS ChannelThread, FiniteSetTheorems, WellFoundedInduction, TLAPS

LEMMA Bounds ==
  /\ SendMaxAttempts \in Nat \ {0} /\ MaxResends \in Nat /\ MaxMishaps \in Nat
  /\ MaxCopies \in Nat /\ MaxCopies = 1 + MaxResends
  /\ Cardinality(Replies) \in Nat /\ Places = 0 .. Cardinality(Replies)
  BY ChannelThreadConstants, FS_CardinalityType DEF MaxCopies, Places

LEMMA WrittenFits == Written \in Places
<1>1. {r \in Replies : reply[r].status # "NONE"} \subseteq Replies
  OBVIOUS
<1>2. Written \in Nat /\ Written <= Cardinality(Replies)
  BY <1>1, ChannelThreadConstants, FS_Subset, FS_CardinalityType DEF Written
<1> QED
  BY <1>2, Bounds

LEMMA RoomForOneMore ==
  ASSUME NEW r \in Replies, reply[r].status = "NONE"
  PROVE  Written + 1 \in Places
<1> DEFINE rest == Replies \ {r}
<1>1. {q \in Replies : reply[q].status # "NONE"} \subseteq rest
  OBVIOUS
<1>2. IsFiniteSet(rest) /\ Cardinality(rest) = Cardinality(Replies) - 1
  BY ChannelThreadConstants, FS_RemoveElement
<1> HIDE DEF rest
<1>3. Written \in Nat /\ Written <= Cardinality(rest)
  BY <1>1, <1>2, FS_Subset, FS_CardinalityType DEF Written
<1> QED
  BY <1>2, <1>3, Bounds

LEMMA InitThreadIInv == ThreadInit => ThreadIInv
<1> SUFFICES ASSUME ThreadInit PROVE ThreadIInv
  OBVIOUS
<1>1. ThreadTypeOK
  BY Bounds DEF ThreadInit, ThreadTypeOK, ReplyRecords, DeliveryStates, Sends, Events,
    Resends, Echoes
<1>2. ASSUME NEW r \in Replies PROVE ReplyInv(r) /\ OneRowInv(r)
  <2>1. /\ reply[r].status = "NONE" /\ reply[r].attempts = 0 /\ reply[r].id = NoId
        /\ reply[r].resends = 0 /\ posted[r] = 0 /\ fresh[r] = 0 /\ agreed[r] = 0
    BY DEF ThreadInit
  <2> QED
    BY <2>1, Bounds DEF ReplyInv, OneRowInv, Unsent, Receipts
<1>3. SenderInv /\ ReaderInv /\ EchoInv /\ DeskInv
  BY DEF ThreadInit, SenderInv, ReaderInv, EchoInv, DeskInv, NoSend, NoEvent
<1> QED
  BY <1>1, <1>2, <1>3 DEF ThreadIInv

----------------------------------------------------------------------------
(* What a state's types say of the two loops.                              *)
LEMMA SenderKinds ==
  ASSUME ThreadTypeOK, sender.pc # "idle"
  PROVE  /\ sender.reply \in Replies /\ sender.pc \in {"check", "answered", "mark"}
         /\ sender.pc = "answered" => sender.outcome \in Outcomes
         /\ sender.pc = "mark" => sender.saw \in Ids \cup {NoId}
  BY DEF ThreadTypeOK, Sends, NoSend

LEMMA ReaderKinds ==
  ASSUME ThreadTypeOK, reader.pc # "idle"
  PROVE  /\ reader.pc \in {"match", "create", "pause", "attach", "receipt"}
         /\ reader.pc # "receipt" => reader.echo \in Echoes
         /\ reader.pc = "attach" => reader.to \in Replies
         /\ reader.pc = "receipt" =>
              /\ reader = [pc |-> "receipt", kind |-> reader.kind, left |-> reader.left]
              /\ reader.kind \in Receipts /\ reader.left \subseteq Replies \X DeliveryStates
  BY DEF ThreadTypeOK, Events, NoEvent

LEMMA RowFacts ==
  ASSUME ThreadTypeOK, NEW r \in Replies
  PROVE  /\ reply[r] \in ReplyRecords /\ posted[r] \in 0 .. MaxCopies
         /\ fresh[r] \in 0 .. 1 /\ agreed[r] \in 0 .. MaxResends
  BY DEF ThreadTypeOK

LEMMA IdKinds ==
  ASSUME NEW id \in Ids
  PROVE  /\ Ours(id) => id[1] \in Replies /\ id[2] \in 1 .. MaxCopies /\ id = <<id[1], id[2]>>
         /\ ~Ours(id) => id \in Elsewhere
         /\ id # NoId
  BY ChannelThreadConstants DEF Ids, Ours, MaxCopies

LEMMA OwnIds ==
  ASSUME NEW r \in Replies, NEW n \in 1 .. MaxCopies
  PROVE  <<r, n>> \in Ids /\ Ours(<<r, n>>)
  BY ChannelThreadConstants DEF Ids, Ours, MaxCopies

----------------------------------------------------------------------------
(* Messages only ever leave: an id that fits keeps fitting.                *)
PostsGrow ==
  \A m \in Replies \cup Elsewhere :
    posted[m] <= posted'[m] /\ (posted[m] = 1 /\ m \in Elsewhere => posted'[m] = 1)

LEMMA PostsStand == ASSUME ThreadTypeOK, UNCHANGED posted PROVE PostsGrow
  BY Bounds DEF PostsGrow, ThreadTypeOK

LEMMA StaysPosted ==
  ASSUME ThreadTypeOK, ThreadTypeOK', PostsGrow, NEW id \in Ids, Posted(id)
  PROVE  Posted(id)'
<1>1. CASE Ours(id)
  <2>1. id[1] \in Replies /\ id[2] \in 1 .. posted[id[1]]
    BY <1>1, IdKinds DEF Posted
  <2>2. posted[id[1]] \in Nat /\ posted'[id[1]] \in Nat /\ posted[id[1]] <= posted'[id[1]]
    BY <2>1, Bounds DEF ThreadTypeOK, PostsGrow
  <2> QED
    BY <1>1, <2>1, <2>2 DEF Posted, Ours
<1>2. CASE ~Ours(id)
  BY <1>2, IdKinds DEF Posted, PostsGrow, Ours
<1> QED
  BY <1>1, <1>2

LEMMA StaysArrived ==
  ASSUME ThreadTypeOK, ThreadTypeOK', PostsGrow, NEW text, TextArrived(text)
  PROVE  TextArrived(text)'
<1>1. PICK m \in Replies \cup Elsewhere : TextOf[m] = text /\ posted[m] >= 1
  BY DEF TextArrived
<1>2. posted[m] \in Nat /\ posted'[m] \in Nat /\ posted[m] <= posted'[m]
  BY Bounds DEF ThreadTypeOK, PostsGrow
<1> QED
  BY <1>1, <1>2 DEF TextArrived

LEMMA FittingArrived ==
  ASSUME ThreadTypeOK, NEW r \in Replies, NEW id \in Ids, Fits(id, r)
  PROVE  TextArrived(TextOf[r])
<1>1. CASE Ours(id)
  <2>1. id[1] \in Replies /\ posted[id[1]] \in Nat /\ id[2] \in 1 .. posted[id[1]]
        /\ TextOf[id[1]] = TextOf[r]
    BY <1>1, IdKinds, Bounds DEF Fits, Posted, Content, ThreadTypeOK
  <2>2. posted[id[1]] >= 1
    BY <2>1
  <2> QED
    BY <2>1, <2>2 DEF TextArrived
<1>2. CASE ~Ours(id)
  BY <1>2, IdKinds DEF Fits, Posted, Content, TextArrived
<1> QED
  BY <1>1, <1>2

----------------------------------------------------------------------------
(* What a step leaves alone stays as the invariant says.                   *)
LEMMA ReplyKept ==
  ASSUME ThreadIInv, ThreadTypeOK', PostsGrow, UNCHANGED platform, NEW r \in Replies,
         reply'[r] = reply[r], posted'[r] = posted[r], fresh'[r] = fresh[r],
         agreed'[r] = agreed[r]
  PROVE  ReplyInv(r)'
<1>1. ReplyInv(r) /\ ThreadTypeOK
  BY DEF ThreadIInv
<1>2. reply[r].id # NoId => Posted(reply[r].id)'
  BY <1>1, RowFacts, StaysPosted DEF ReplyInv, Fits, ReplyRecords
<1>3. TextArrived(TextOf[r]) => TextArrived(TextOf[r])'
  BY <1>1, StaysArrived
<1> QED
  BY <1>1, <1>2, <1>3 DEF ReplyInv, Unsent, Fits

LEMMA OneRowKept ==
  ASSUME ThreadIInv, NEW r \in Replies, reply'[r] = reply[r], posted'[r] = posted[r],
         business' \subseteq business
  PROVE  OneRowInv(r)'
  BY DEF ThreadIInv, OneRowInv

LEMMA RowsKept ==
  ASSUME ThreadIInv, ThreadTypeOK', UNCHANGED <<platform, reply, business, posted, fresh, agreed>>
  PROVE  \A r \in Replies : ReplyInv(r)' /\ OneRowInv(r)'
<1>1. PostsGrow
  BY PostsStand DEF ThreadIInv
<1> QED
  BY <1>1, ReplyKept, OneRowKept

(* A step that moves one row, which may have left SENT but not entered it. *)
LEMMA OtherRowsKept ==
  ASSUME ThreadIInv, ThreadTypeOK', PostsGrow, UNCHANGED platform, business' \subseteq business,
         NEW r \in Replies, ReplyInv(r)', OneRowInv(r)',
         \A q \in Replies : q # r =>
           /\ reply'[q] = reply[q] /\ posted'[q] = posted[q] /\ fresh'[q] = fresh[q]
           /\ agreed'[q] = agreed[q]
  PROVE  \A q \in Replies : ReplyInv(q)' /\ OneRowInv(q)'
  BY ReplyKept, OneRowKept

LEMMA SenderKept ==
  ASSUME ThreadIInv, ThreadTypeOK', PostsGrow, UNCHANGED sender,
         \A r \in Replies : sender.pc # "idle" /\ sender.reply = r =>
           /\ reply'[r].status = reply[r].status /\ posted'[r] = posted[r]
           /\ fresh'[r] = fresh[r] /\ agreed'[r] = agreed[r]
  PROVE  SenderInv'
<1> SUFFICES ASSUME sender.pc # "idle" PROVE SenderInv'
  BY DEF SenderInv
<1>1. PICK r \in Replies : r = sender.reply
  BY SenderKinds DEF ThreadIInv
<1>2. sender.pc = "mark" /\ sender.saw # NoId => Posted(sender.saw) /\ Posted(sender.saw)'
  BY SenderKinds, StaysPosted DEF ThreadIInv, SenderInv, Fits
<1> QED
  BY <1>1, <1>2 DEF ThreadIInv, SenderInv, Unsent, Fits

LEMMA ReaderKept ==
  ASSUME ThreadIInv, ThreadTypeOK', PostsGrow, UNCHANGED <<platform, reader>>
  PROVE  ReaderInv'
<1>1. ThreadTypeOK /\ ReaderInv
  BY DEF ThreadIInv
<1>2. reader.pc \in {"match", "attach", "create", "pause"} => Posted(reader.echo.id)'
  BY <1>1, ReaderKinds, StaysPosted DEF ReaderInv, Echoes
<1>3. \A r \in Replies : TextArrived(TextOf[r]) => TextArrived(TextOf[r])'
  BY <1>1, StaysArrived
<1> QED
  BY <1>1, <1>2, <1>3 DEF ReaderInv

LEMMA EchoesKept ==
  ASSUME ThreadIInv, ThreadTypeOK', PostsGrow, UNCHANGED <<platform, pausedFor>>,
         echoes' \subseteq echoes, business' \subseteq business
  PROVE  EchoInv'
<1>1. ASSUME NEW e \in echoes \cup business PROVE Posted(e.id)'
  <2>1. e.id \in Ids /\ Posted(e.id)
    BY DEF ThreadIInv, ThreadTypeOK, Echoes, EchoInv
  <2> QED
    BY <2>1, StaysPosted DEF ThreadIInv
<1> QED
  BY <1>1 DEF ThreadIInv, EchoInv

LEMMA DesksKept == ASSUME ThreadIInv, UNCHANGED desk PROVE DeskInv'
  BY DEF ThreadIInv, DeskInv

----------------------------------------------------------------------------
(* A row that is not SENDING is in no send's hands.                        *)
LEMMA NotHeld ==
  ASSUME ThreadIInv, NEW r \in Replies, reply[r].status # "SENDING",
         sender.pc # "idle"
  PROVE  sender.reply # r
  BY DEF ThreadIInv, SenderInv

(* People and Meta move one row that no send holds, and touch no loop.     *)
LEMMA OutsideStep ==
  ASSUME ThreadIInv, ThreadTypeOK',
         UNCHANGED <<platform, business, echoes, sender, reader, posted, pausedFor>>,
         NEW r \in Replies, reply[r].status # "SENDING", ReplyInv(r)',
         reply'[r].status # "SENT",
         \A q \in Replies : q # r =>
           reply'[q] = reply[q] /\ fresh'[q] = fresh[q] /\ agreed'[q] = agreed[q],
         DeskInv'
  PROVE  ThreadIInv'
<1>1. PostsGrow
  BY PostsStand DEF ThreadIInv
<1>2. OneRowInv(r)'
  BY DEF OneRowInv
<1>3. \A q \in Replies : ReplyInv(q)' /\ OneRowInv(q)'
  BY <1>1, <1>2, OtherRowsKept
<1>4. SenderInv'
  BY <1>1, NotHeld, SenderKept
<1>5. ReaderInv' /\ EchoInv'
  BY <1>1, ReaderKept, EchoesKept
<1> QED
  BY <1>3, <1>4, <1>5 DEF ThreadIInv

LEMMA QueueReplyKeeps ==
  ASSUME ThreadIInv, NEW r \in Replies, QueueReply(r)
  PROVE  ThreadIInv'
<1>1. ThreadTypeOK /\ ReplyInv(r)
  BY DEF ThreadIInv
<1>2. /\ reply[r].status = "NONE"
      /\ reply' = [reply EXCEPT ![r] = [reply[r] EXCEPT !.status = "QUEUED", !.at = Written + 1]]
      /\ UNCHANGED <<platform, business, echoes, sender, reader, desk, mishaps, posted, fresh,
                     agreed, pausedFor>>
  BY <1>1 DEF QueueReply, posts, ThreadTypeOK
<1>3. [reply[r] EXCEPT !.status = "QUEUED", !.at = Written + 1] \in ReplyRecords
  BY <1>1, <1>2, RoomForOneMore, RowFacts DEF ReplyRecords, DeliveryStates
<1>4. ThreadTypeOK'
  BY <1>1, <1>2, <1>3 DEF ThreadTypeOK
<1>5. /\ reply'[r].status = "QUEUED" /\ reply'[r].attempts = reply[r].attempts
      /\ reply'[r].id = reply[r].id /\ reply'[r].resends = reply[r].resends
      /\ \A q \in Replies : q # r => reply'[q] = reply[q]
  BY <1>1, <1>2 DEF ThreadTypeOK, ReplyRecords
<1>6. ReplyInv(r)'
  BY <1>1, <1>2, <1>5 DEF ReplyInv, Unsent, Fits, Posted, Receipts
<1> QED
  BY <1>2, <1>4, <1>5, <1>6, DesksKept, OutsideStep

LEMMA ReadForResendKeeps ==
  ASSUME ThreadIInv, NEW r \in Replies, NEW d \in Desks, ReadForResend(d, r)
  PROVE  ThreadIInv'
<1>1. ThreadTypeOK
  BY DEF ThreadIInv
<1>2. /\ UNCHANGED <<platform, reply, business, echoes, sender, reader, posted, fresh, agreed,
                     pausedFor>>
      /\ reply[r].status \in {"FAILED", "UNKNOWN"} /\ reply[r].resends < MaxResends
      /\ mishaps < MaxMishaps /\ mishaps' = mishaps + 1
      /\ desk' = [desk EXCEPT ![d] = [status |-> reply[r].status, reply |-> r,
                                      resends |-> reply[r].resends]]
  BY DEF ReadForResend, rows, posts
<1>3. ThreadTypeOK'
  <2>1. mishaps' \in 0 .. MaxMishaps
    BY <1>1, <1>2, Bounds DEF ThreadTypeOK
  <2>2. [status |-> reply[r].status, reply |-> r, resends |-> reply[r].resends] \in Resends
    BY <1>1, <1>2, RowFacts DEF Resends, ReplyRecords
  <2> QED
    BY <1>1, <1>2, <2>1, <2>2 DEF ThreadTypeOK
<1>4. DeskInv'
  BY <1>1, <1>2 DEF ThreadIInv, DeskInv, ThreadTypeOK
<1>5. PostsGrow
  BY <1>1, <1>2, PostsStand
<1> QED
  BY <1>2, <1>3, <1>4, <1>5, RowsKept, SenderKept, ReaderKept, EchoesKept DEF ThreadIInv

(* A resend that finds the row as read gives it a fresh life; of a row that*)
(* may have arrived it carries a person's word.                            *)
LEMMA ResendKeeps ==
  ASSUME ThreadIInv, NEW d \in Desks, Resend(d)
  PROVE  ThreadIInv'
<1>1. ThreadTypeOK /\ DeskInv
  BY DEF ThreadIInv
<1>2. /\ desk[d] # NoResend /\ desk' = [desk EXCEPT ![d] = NoResend]
      /\ UNCHANGED <<platform, business, echoes, sender, reader, mishaps, posted, pausedFor>>
  BY DEF Resend
<1>3. DeskInv'
  BY <1>1, <1>2 DEF DeskInv, ThreadTypeOK
<1>4. desk' \in [Desks -> Resends]
  BY <1>1, <1>2 DEF ThreadTypeOK, Resends
<1>5. CASE UNCHANGED <<reply, fresh, agreed>>
  <2>1. ThreadTypeOK' /\ PostsGrow
    BY <1>1, <1>2, <1>4, <1>5, PostsStand DEF ThreadTypeOK
  <2> QED
    BY <1>2, <1>3, <1>5, <2>1, RowsKept, SenderKept, ReaderKept, EchoesKept DEF ThreadIInv
<1>6. CASE ~UNCHANGED <<reply, fresh, agreed>>
  <2>1. PICK r \in Replies : r = desk[d].reply
    BY <1>1, <1>2 DEF ThreadTypeOK, Resends
  <2>2. /\ reply[r].status = desk[d].status /\ reply[r].resends = desk[d].resends
        /\ reply' = [reply EXCEPT ![r] = [reply[r] EXCEPT !.status = "QUEUED", !.attempts = 0,
                                                         !.resends = reply[r].resends + 1]]
        /\ fresh' = [fresh EXCEPT ![r] = 0]
        /\ agreed' = IF desk[d].status = "UNKNOWN" THEN [agreed EXCEPT ![r] = agreed[r] + 1]
                     ELSE agreed
    BY <1>1, <1>6, <2>1 DEF Resend, ThreadTypeOK
  <2>3. /\ reply[r].status \in {"FAILED", "UNKNOWN"} /\ reply[r].resends < MaxResends
        /\ ReplyInv(r)
    BY <1>1, <1>2, <2>2 DEF ThreadTypeOK, Resends, DeskInv, ThreadIInv
  <2>4. /\ reply[r].resends \in 0 .. MaxResends /\ reply[r].resends + 1 \in 0 .. MaxResends
        /\ agreed[r] \in 0 .. MaxResends /\ agreed[r] + 1 \in 0 .. MaxResends
        /\ posted[r] \in 0 .. MaxCopies /\ fresh[r] \in 0 .. 1
    BY <1>1, <2>3, RowFacts, Bounds DEF ReplyRecords, ReplyInv
  <2>5. [reply[r] EXCEPT !.status = "QUEUED", !.attempts = 0, !.resends = reply[r].resends + 1]
          \in ReplyRecords
    <3>1. reply[r] \in ReplyRecords /\ 0 \in 0 .. SendMaxAttempts
      BY <1>1, RowFacts, Bounds
    <3> QED
      BY <2>4, <3>1 DEF ReplyRecords, DeliveryStates
  <2>6. ThreadTypeOK'
    BY <1>1, <1>2, <1>4, <2>2, <2>4, <2>5 DEF ThreadTypeOK
  <2>7. /\ reply'[r].status = "QUEUED" /\ reply'[r].attempts = 0
        /\ reply'[r].id = reply[r].id /\ reply'[r].resends = reply[r].resends + 1
        /\ fresh'[r] = 0
        /\ agreed'[r] = IF reply[r].status = "UNKNOWN" THEN agreed[r] + 1 ELSE agreed[r]
        /\ \A q \in Replies : q # r =>
             reply'[q] = reply[q] /\ fresh'[q] = fresh[q] /\ agreed'[q] = agreed[q]
    BY <1>1, <2>2 DEF ThreadTypeOK, ReplyRecords
  <2>8. posted[r] <= agreed'[r] /\ agreed'[r] <= reply'[r].resends
    BY <2>3, <2>4, <2>7, Bounds DEF ReplyInv, Unsent
  <2>9. ReplyInv(r)'
    <3>1. posted'[r] = posted[r] /\ 0 <= posted[r] /\ posted[r] <= 1 + agreed'[r]
      BY <1>2, <2>4, <2>7, <2>8, Bounds
    <3> QED
      BY <1>2, <2>3, <2>7, <2>8, <3>1, Bounds DEF ReplyInv, Unsent, Fits, Posted, Receipts
  <2> QED
    BY <1>2, <1>3, <2>3, <2>6, <2>7, <2>9, OutsideStep
<1> QED
  BY <1>5, <1>6

LEMMA DisconnectKeeps ==
  ASSUME ThreadIInv, Disconnect
  PROVE  ThreadIInv'
<1>1. ThreadTypeOK
  BY DEF ThreadIInv
<1>2. /\ UNCHANGED <<platform, business, echoes, sender, reader, desk, posted, fresh, agreed,
                     pausedFor>>
      /\ mishaps < MaxMishaps /\ mishaps' = mishaps + 1
      /\ reply' = [r \in Replies |->
           IF reply[r].status = "QUEUED" THEN [reply[r] EXCEPT !.status = "FAILED"] ELSE reply[r]]
  BY DEF Disconnect, posts
<1>3. ASSUME NEW r \in Replies
      PROVE  /\ reply'[r] \in ReplyRecords
             /\ reply[r].status # "QUEUED" => reply'[r] = reply[r]
             /\ reply[r].status = "QUEUED" =>
                  /\ reply'[r].status = "FAILED" /\ reply'[r].attempts = reply[r].attempts
                  /\ reply'[r].id = reply[r].id /\ reply'[r].resends = reply[r].resends
  BY <1>1, <1>2, RowFacts DEF ReplyRecords, DeliveryStates
<1>4. ThreadTypeOK'
  <2>1. mishaps' \in 0 .. MaxMishaps
    BY <1>1, <1>2, Bounds DEF ThreadTypeOK
  <2>2. reply' \in [Replies -> ReplyRecords]
    BY <1>2, <1>3
  <2> QED
    BY <1>1, <1>2, <2>1, <2>2 DEF ThreadTypeOK
<1>5. PostsGrow
  BY <1>1, <1>2, PostsStand
<1>6. ASSUME NEW r \in Replies PROVE ReplyInv(r)' /\ OneRowInv(r)'
  <2>1. CASE reply[r].status = "QUEUED"
    <3>1. ReplyInv(r)
      BY DEF ThreadIInv
    <3> QED
      BY <1>2, <1>3, <2>1, <3>1 DEF ReplyInv, OneRowInv, Unsent, Fits, Posted, Receipts
  <2>2. CASE reply[r].status # "QUEUED"
    BY <1>2, <1>3, <1>4, <1>5, <2>2, ReplyKept, OneRowKept
  <2> QED
    BY <2>1, <2>2
<1>7. SenderInv'
  <2>1. \A r \in Replies : sender.pc # "idle" /\ sender.reply = r => reply'[r] = reply[r]
    BY <1>3, NotHeld
  <2> QED
    BY <1>2, <1>4, <1>5, <2>1, SenderKept
<1> QED
  BY <1>2, <1>4, <1>5, <1>6, <1>7, ReaderKept, EchoesKept, DesksKept DEF ThreadIInv

LEMMA WriteElsewhereKeeps ==
  ASSUME ThreadIInv, NEW m \in Elsewhere, WriteElsewhere(m)
  PROVE  ThreadIInv'
<1>1. ThreadTypeOK
  BY DEF ThreadIInv
<1>2. /\ UNCHANGED <<platform, reply, business, sender, reader, desk, mishaps, fresh, agreed,
                     pausedFor>>
      /\ posted[m] = 0 /\ posted' = [posted EXCEPT ![m] = 1]
      /\ echoes' = echoes \cup {[id |-> m, at |-> Written]}
  BY DEF WriteElsewhere, rows
<1>3. ThreadTypeOK'
  <2>1. posted' \in [Replies \cup Elsewhere -> 0 .. MaxCopies]
    BY <1>1, <1>2, Bounds DEF ThreadTypeOK
  <2>2. [id |-> m, at |-> Written] \in Echoes
    BY WrittenFits DEF Echoes, Ids
  <2> QED
    BY <1>1, <1>2, <2>1, <2>2 DEF ThreadTypeOK
<1>4. \A q \in Replies : posted'[q] = posted[q]
  BY <1>1, <1>2, ChannelThreadConstants DEF ThreadTypeOK
<1>5. PostsGrow
  BY <1>1, <1>2, Bounds DEF PostsGrow, ThreadTypeOK
<1>6. EchoInv'
  <2>1. Posted(m)'
    BY <1>1, <1>2 DEF Posted, Ours, ThreadTypeOK
  <2>2. ASSUME NEW e \in echoes \cup business PROVE Posted(e.id)'
    BY <1>1, <1>3, <1>5, StaysPosted DEF ThreadIInv, EchoInv, ThreadTypeOK, Echoes
  <2> QED
    BY <1>2, <2>1, <2>2 DEF ThreadIInv, EchoInv
<1> QED
  BY <1>2, <1>3, <1>4, <1>5, <1>6, ReplyKept, OneRowKept, SenderKept, ReaderKept, DesksKept
    DEF ThreadIInv

----------------------------------------------------------------------------
(* The outbound loop.                                                      *)

LEMMA InSend ==
  ASSUME ThreadIInv, NEW r \in Replies, sender.pc # "idle", sender.reply = r
  PROVE  /\ ThreadTypeOK /\ ReplyInv(r) /\ reply[r].status = "SENDING"
         /\ sender.pc \in {"check", "answered", "mark"}
  BY SenderKinds DEF ThreadIInv, SenderInv

(* A status that says nothing of a delivery is written.                    *)
LEMMA StatusMoves ==
  ASSUME ThreadIInv, NEW r \in Replies, NEW status \in {"QUEUED", "FAILED", "UNKNOWN"},
         reply' = [reply EXCEPT ![r].status = status],
         UNCHANGED <<platform, posted, fresh, agreed>>,
         status \in {"QUEUED", "FAILED"} => Unsent(r),
         status = "QUEUED" => reply[r].attempts < SendMaxAttempts
  PROVE  /\ reply' \in [Replies -> ReplyRecords] /\ ReplyInv(r)' /\ OneRowInv(r)'
         /\ \A q \in Replies : q # r => reply'[q] = reply[q]
<1>1. ThreadTypeOK /\ ReplyInv(r)
  BY DEF ThreadIInv
<1>2. reply' = [reply EXCEPT ![r] = [reply[r] EXCEPT !.status = status]]
  BY <1>1 DEF ThreadTypeOK
<1>3. [reply[r] EXCEPT !.status = status] \in ReplyRecords
  BY <1>1, RowFacts DEF ReplyRecords, DeliveryStates
<1>4. /\ reply'[r].status = status /\ reply'[r].attempts = reply[r].attempts
      /\ reply'[r].id = reply[r].id /\ reply'[r].resends = reply[r].resends
  BY <1>1, <1>2 DEF ThreadTypeOK, ReplyRecords
<1>5. ReplyInv(r)' /\ OneRowInv(r)'
  BY <1>1, <1>4 DEF ReplyInv, OneRowInv, Unsent, Fits, Posted, Receipts
<1> QED
  BY <1>1, <1>2, <1>3, <1>5 DEF ThreadTypeOK

LEMMA LoopStep ==
  ASSUME ThreadIInv, ThreadTypeOK', SenderInv',
         UNCHANGED <<platform, echoes, reader, desk, posted, fresh, agreed, pausedFor>>,
         business' \subseteq business,
         NEW r \in Replies, ReplyInv(r)', OneRowInv(r)',
         \A q \in Replies : q # r => reply'[q] = reply[q]
  PROVE  ThreadIInv'
<1>1. PostsGrow
  BY PostsStand DEF ThreadIInv
<1> QED
  BY <1>1, OtherRowsKept, ReaderKept, EchoesKept, DesksKept DEF ThreadIInv

LEMMA SenderClaimsKeeps ==
  ASSUME ThreadIInv, NEW r \in Replies, SenderClaims(r)
  PROVE  ThreadIInv'
<1>1. ThreadTypeOK /\ ReplyInv(r)
  BY DEF ThreadIInv
<1>2. /\ reply[r].status = "QUEUED"
      /\ reply' = [reply EXCEPT ![r] = [reply[r] EXCEPT !.status = "SENDING",
                                                       !.attempts = reply[r].attempts + 1]]
      /\ sender' = [pc |-> "check", reply |-> r]
      /\ UNCHANGED <<platform, business, echoes, reader, desk, mishaps, posted, fresh, agreed,
                     pausedFor>>
  BY <1>1 DEF SenderClaims, posts, ThreadTypeOK
<1>3. Unsent(r) /\ reply[r].attempts < SendMaxAttempts
  BY <1>1, <1>2 DEF ReplyInv
<1>4. [reply[r] EXCEPT !.status = "SENDING", !.attempts = reply[r].attempts + 1] \in ReplyRecords
  <2>1. reply[r] \in ReplyRecords /\ reply[r].attempts + 1 \in 0 .. SendMaxAttempts
    BY <1>1, <1>3, RowFacts, Bounds DEF ReplyRecords
  <2> QED
    BY <2>1 DEF ReplyRecords, DeliveryStates
<1>5. ThreadTypeOK'
  BY <1>1, <1>2, <1>4 DEF ThreadTypeOK, Sends
<1>6. /\ reply'[r].status = "SENDING" /\ reply'[r].id = reply[r].id
      /\ reply'[r].resends = reply[r].resends
      /\ \A q \in Replies : q # r => reply'[q] = reply[q]
  BY <1>1, <1>2 DEF ThreadTypeOK, ReplyRecords
<1>7. ReplyInv(r)' /\ OneRowInv(r)'
  BY <1>1, <1>2, <1>6 DEF ReplyInv, OneRowInv, Unsent, Fits, Posted, Receipts
<1>8. SenderInv'
  BY <1>2, <1>3, <1>6 DEF SenderInv, Unsent
<1> QED
  BY <1>2, <1>5, <1>6, <1>7, <1>8, LoopStep

LEMMA SenderEndsKeeps ==
  ASSUME ThreadIInv, SenderRefuses \/ SenderFinishes
  PROVE  ThreadIInv'
<1>1. PICK r \in Replies : r = sender.reply
  BY SenderKinds DEF ThreadIInv, SenderRefuses, SenderFinishes
<1>2. /\ ThreadTypeOK /\ ReplyInv(r) /\ reply[r].status = "SENDING" /\ SenderInv
  BY <1>1, InSend DEF ThreadIInv, SenderRefuses, SenderFinishes
<1>3. PICK status \in {"QUEUED", "FAILED", "UNKNOWN"} :
        /\ reply' = [reply EXCEPT ![r].status = status]
        /\ status \in {"QUEUED", "FAILED"} => Unsent(r)
        /\ status = "QUEUED" => reply[r].attempts < SendMaxAttempts
  <2>1. CASE SenderRefuses
    BY <1>1, <1>2, <2>1 DEF SenderRefuses, Finish, SenderInv
  <2>2. CASE SenderFinishes
    <3>1. sender.outcome \in {"UNKNOWN", "REFUSED", "TRY_LATER"}
      BY <1>2, <2>2, SenderKinds DEF SenderFinishes, Outcomes
    <3>2. sender.outcome # "UNKNOWN" => Unsent(r)
      BY <1>1, <1>2, <2>2, <3>1 DEF SenderFinishes, SenderInv
    <3>3. reply' = [reply EXCEPT ![r].status =
                      StatusAfterCall(sender.outcome, reply[r].attempts)]
      BY <1>1, <1>2, <2>2 DEF SenderFinishes, Finish
    <3> QED
      BY <3>1, <3>2, <3>3 DEF StatusAfterCall
  <2> QED
    BY <2>1, <2>2
<1>4. /\ UNCHANGED <<platform, business, echoes, reader, desk, mishaps, posted, fresh, agreed,
                     pausedFor>>
      /\ sender' = NoSend
  BY DEF SenderRefuses, SenderFinishes, posts
<1>5. /\ reply' \in [Replies -> ReplyRecords] /\ ReplyInv(r)' /\ OneRowInv(r)'
      /\ \A q \in Replies : q # r => reply'[q] = reply[q]
  BY <1>3, <1>4, StatusMoves
<1>6. ThreadTypeOK' /\ SenderInv'
  BY <1>2, <1>4, <1>5 DEF ThreadTypeOK, Sends, SenderInv, NoSend
<1> QED
  BY <1>4, <1>5, <1>6, LoopStep

LEMMA SweepStuckKeeps ==
  ASSUME ThreadIInv, NEW r \in Replies, SweepStuck(r)
  PROVE  ThreadIInv'
<1>1. /\ reply' = [reply EXCEPT ![r].status = "UNKNOWN"] /\ sender.pc = "idle"
      /\ UNCHANGED <<platform, business, echoes, sender, reader, desk, mishaps, posted, fresh,
                     agreed, pausedFor>>
  BY DEF SweepStuck, posts
<1>2. /\ reply' \in [Replies -> ReplyRecords] /\ ReplyInv(r)' /\ OneRowInv(r)'
      /\ \A q \in Replies : q # r => reply'[q] = reply[q]
  BY <1>1, StatusMoves
<1>3. ThreadTypeOK' /\ SenderInv'
  BY <1>1, <1>2 DEF ThreadIInv, ThreadTypeOK, SenderInv
<1> QED
  BY <1>1, <1>2, <1>3, LoopStep

(* The request to Meta: a copy leaves, and its echo with it.               *)
LEMMA SenderCallsKeeps ==
  ASSUME ThreadIInv, NEW outcome \in Outcomes, NEW accepted \in BOOLEAN,
         SenderCalls(outcome, accepted)
  PROVE  ThreadIInv'
<1>1. PICK r \in Replies : r = sender.reply
  BY SenderKinds DEF ThreadIInv, SenderCalls
<1>2. /\ ThreadTypeOK /\ ReplyInv(r) /\ reply[r].status = "SENDING" /\ Unsent(r)
  BY <1>1, InSend DEF ThreadIInv, SenderCalls, SenderInv
<1>3. /\ UNCHANGED <<platform, reply, business, reader, desk, agreed, pausedFor>>
      /\ sender' = [pc |-> "answered", reply |-> r, outcome |-> outcome]
      /\ outcome # "UNKNOWN" => accepted = (outcome = "SENT")
      /\ mishaps' \in 0 .. MaxMishaps
  BY <1>1, <1>2, Bounds DEF SenderCalls, rows, ThreadTypeOK
<1>4. sender' \in Sends
  BY <1>3 DEF Sends
<1>5. CASE ~accepted
  <2>1. UNCHANGED <<posted, fresh, echoes>>
    BY <1>5 DEF SenderCalls, posts
  <2>2. ThreadTypeOK' /\ PostsGrow
    BY <1>2, <1>3, <1>4, <2>1, PostsStand DEF ThreadTypeOK
  <2>3. SenderInv'
    BY <1>2, <1>3, <1>5, <2>1 DEF SenderInv, Unsent
  <2> QED
    BY <1>3, <2>1, <2>2, <2>3, RowsKept, ReaderKept, EchoesKept, DesksKept DEF ThreadIInv
<1>6. CASE accepted
  <2>1. /\ posted' = [posted EXCEPT ![r] = posted[r] + 1]
        /\ fresh' = [fresh EXCEPT ![r] = fresh[r] + 1]
        /\ echoes' = echoes \cup {[id |-> <<r, posted[r] + 1>>, at |-> Written]}
    BY <1>1, <1>2, <1>6 DEF SenderCalls, ThreadTypeOK
  <2>2. /\ posted[r] \in 0 .. MaxCopies /\ posted[r] + 1 \in 1 .. MaxCopies
        /\ fresh[r] = 0 /\ posted[r] + 1 <= 1 + agreed[r] /\ agreed[r] \in 0 .. MaxResends
        /\ reply[r].resends \in 0 .. MaxResends
    BY <1>2, RowFacts, Bounds DEF Unsent, ReplyInv, ReplyRecords
  <2>3. PICK id \in Ids : id = <<r, posted[r] + 1>> /\ Ours(id)
    BY <2>2, OwnIds
  <2>4. /\ posted' \in [Replies \cup Elsewhere -> 0 .. MaxCopies]
        /\ fresh' \in [Replies -> 0 .. 1]
        /\ posted'[r] = posted[r] + 1 /\ fresh'[r] = 1
        /\ \A q \in Replies : q # r => posted'[q] = posted[q] /\ fresh'[q] = fresh[q]
        /\ \A m \in Elsewhere : posted'[m] = posted[m]
    BY <1>2, <2>1, <2>2, Bounds, ChannelThreadConstants DEF ThreadTypeOK
  <2>5. ThreadTypeOK'
    <3>1. [id |-> id, at |-> Written] \in Echoes
      BY <2>3, WrittenFits DEF Echoes
    <3> QED
      BY <1>2, <1>3, <1>4, <2>1, <2>3, <2>4, <3>1 DEF ThreadTypeOK
  <2>6. PostsGrow
    BY <1>2, <2>2, <2>4, Bounds DEF PostsGrow, ThreadTypeOK
  <2>7. ReplyInv(r)' /\ OneRowInv(r)'
    <3>1. reply[r].id # NoId => Posted(reply[r].id)'
      BY <1>2, <1>3, <2>5, <2>6, RowFacts, StaysPosted DEF ReplyInv, Fits, ReplyRecords
    <3>2. /\ fresh'[r] <= posted'[r] /\ posted'[r] <= 1 + agreed'[r]
          /\ agreed'[r] <= reply'[r].resends
      BY <1>2, <1>3, <2>2, <2>4, Bounds DEF ReplyInv
    <3>3. reply' = reply
      BY <1>3
    <3>4. ReplyInv(r)'
      BY <1>2, <3>1, <3>2, <3>3 DEF ReplyInv, Fits, Receipts
    <3>5. OneRowInv(r)'
      BY <1>2, <3>3 DEF OneRowInv
    <3> QED
      BY <3>4, <3>5
  <2>8. SenderInv'
    BY <1>2, <1>3, <1>6, <2>4 DEF SenderInv
  <2>9. EchoInv'
    <3>1. Posted(id)'
      BY <2>2, <2>3, <2>4 DEF Posted, Ours
    <3>2. ASSUME NEW e \in echoes \cup business PROVE Posted(e.id)'
      BY <1>2, <2>5, <2>6, StaysPosted DEF ThreadIInv, EchoInv, ThreadTypeOK, Echoes
    <3> QED
      BY <1>3, <2>1, <2>3, <3>1, <3>2 DEF ThreadIInv, EchoInv
  <2> QED
    BY <1>3, <2>4, <2>5, <2>6, <2>7, <2>8, <2>9, OtherRowsKept, ReaderKept, DesksKept
      DEF ThreadIInv
<1> QED
  BY <1>5, <1>6

(* Another reply that holds the id of this send's message has its text.    *)
LEMMA MarkLooksKeeps ==
  ASSUME ThreadIInv, MarkLooks
  PROVE  ThreadIInv'
<1>1. PICK r \in Replies : r = sender.reply
  BY SenderKinds DEF ThreadIInv, MarkLooks
<1>2. /\ ThreadTypeOK /\ ReplyInv(r) /\ reply[r].status = "SENDING" /\ fresh[r] = 1
  BY <1>1, InSend DEF ThreadIInv, MarkLooks, SenderInv
<1> DEFINE id == <<r, posted[r]>>
<1>3. PICK duplicate \in {"NOBODY", "REPLY", "BUSINESS"} :
        /\ sender' = [pc |-> "mark", reply |-> r, saw |-> reply[r].id, duplicate |-> duplicate]
        /\ duplicate = "REPLY" => Holder(id) = "REPLY" /\ reply[r].id # id
  BY <1>1 DEF MarkLooks, Holder
<1>4. UNCHANGED <<platform, reply, business, echoes, reader, desk, mishaps, posted, fresh, agreed,
                 pausedFor>>
  BY DEF MarkLooks, rows, posts
<1>5. posted[r] \in 1 .. MaxCopies
  BY <1>2, RowFacts, Bounds DEF ReplyInv
<1>6. id \in Ids /\ Ours(id) /\ Content(id) = TextOf[r]
  BY <1>5, OwnIds DEF Content
<1>7. duplicate = "REPLY" => ~OnlyOne(TextOf[r])
  <2> SUFFICES ASSUME duplicate = "REPLY" PROVE ~OnlyOne(TextOf[r])
    OBVIOUS
  <2>1. PICK o \in Replies : reply[o].id = id /\ o # r
    BY <1>3 DEF Holder
  <2>2. TextOf[o] = TextOf[r]
    BY <1>6, <2>1, IdKinds DEF ThreadIInv, ReplyInv, Fits
  <2> QED
    BY <2>1, <2>2 DEF OnlyOne
<1>8. ThreadTypeOK' /\ PostsGrow
  <2>1. sender' \in Sends
    BY <1>2, <1>3, RowFacts DEF Sends, ReplyRecords
  <2> QED
    BY <1>2, <1>4, <2>1, PostsStand DEF ThreadTypeOK
<1>9. SenderInv'
  <2>1. /\ sender'.pc = "mark" /\ sender'.reply = r /\ sender'.saw = reply[r].id
        /\ sender'.duplicate = duplicate
    BY <1>3
  <2>2. reply[r].id # NoId => Fits(reply[r].id, r)'
    BY <1>2, <1>4 DEF ReplyInv, Fits, Posted
  <2> QED
    BY <1>2, <1>4, <1>7, <2>1, <2>2 DEF SenderInv
<1> QED
  BY <1>4, <1>8, <1>9, RowsKept, ReaderKept, EchoesKept, DesksKept DEF ThreadIInv

LEMMA MarkWritesKeeps ==
  ASSUME ThreadIInv, MarkWrites
  PROVE  ThreadIInv'
<1>1. PICK r \in Replies : r = sender.reply
  BY SenderKinds DEF ThreadIInv, MarkWrites
<1>2. /\ ThreadTypeOK /\ ReplyInv(r) /\ reply[r].status = "SENDING" /\ fresh[r] = 1
      /\ sender.saw # NoId => Fits(sender.saw, r)
      /\ sender.duplicate = "REPLY" => ~OnlyOne(TextOf[r])
      /\ sender.saw \in Ids \cup {NoId}
  BY <1>1, InSend, SenderKinds DEF ThreadIInv, MarkWrites, SenderInv
<1> DEFINE id == <<r, posted[r]>>
           kept == IF sender.saw = id \/ sender.duplicate # "REPLY" THEN id ELSE sender.saw
<1>3. posted[r] \in 1 .. MaxCopies
  BY <1>2, RowFacts, Bounds DEF ReplyInv
<1>4. id \in Ids /\ Fits(id, r)
  BY <1>3, OwnIds DEF Fits, Content, Posted
<1>5. /\ kept \in Ids \cup {NoId} /\ (kept # NoId => Fits(kept, r))
      /\ OnlyOne(TextOf[r]) => kept = id
  BY <1>2, <1>4
<1>6. /\ UNCHANGED <<platform, echoes, reader, desk, mishaps, posted, fresh, agreed, pausedFor>>
      /\ sender' = NoSend
  BY DEF MarkWrites, posts
<1>7. sender' \in Sends /\ SenderInv'
  BY <1>6 DEF Sends, SenderInv, NoSend
<1>8. CASE UNCHANGED rows
  <2>1. ThreadTypeOK' /\ PostsGrow
    BY <1>2, <1>6, <1>7, <1>8, PostsStand DEF ThreadTypeOK, rows
  <2> QED
    BY <1>6, <1>7, <1>8, <2>1, RowsKept, ReaderKept, EchoesKept, DesksKept DEF ThreadIInv, rows
<1>9. CASE ~UNCHANGED rows
  <2>1. /\ ~ \E e \in MarkedBusiness(id) : e.id = kept
        /\ business' = MarkedBusiness(id)
        /\ reply' = [reply EXCEPT ![r] = [reply[r] EXCEPT !.status = "SENT", !.id = kept]]
    BY <1>1, <1>2, <1>9 DEF MarkWrites, ThreadTypeOK
  <2> HIDE DEF kept
  <2>2. business' \subseteq business
    BY <2>1 DEF MarkedBusiness
  <2>3. [reply[r] EXCEPT !.status = "SENT", !.id = kept] \in ReplyRecords
    BY <1>2, <1>5, RowFacts DEF ReplyRecords, DeliveryStates
  <2>4. ThreadTypeOK'
    BY <1>2, <1>6, <1>7, <2>1, <2>2, <2>3 DEF ThreadTypeOK
  <2>5. /\ reply'[r].status = "SENT" /\ reply'[r].id = kept
        /\ reply'[r].resends = reply[r].resends
        /\ \A q \in Replies : q # r => reply'[q] = reply[q]
    BY <1>2, <2>1 DEF ThreadTypeOK, ReplyRecords
  <2>6. ReplyInv(r)'
    BY <1>2, <1>5, <1>6, <2>5 DEF ReplyInv, Fits, Posted, Receipts
  <2>7. OneRowInv(r)'
    <3> SUFFICES ASSUME posted[r] = 1, OnlyOne(TextOf[r])
                 PROVE  reply'[r].id = <<r, 1>> /\ ~ \E e \in business' : e.id = <<r, 1>>
      BY <1>6 DEF OneRowInv
    <3>1. kept = <<r, 1>>
      BY <1>5
    <3> QED
      BY <2>1, <2>5, <3>1
  <2> QED
    BY <1>6, <1>7, <2>2, <2>4, <2>5, <2>6, <2>7, LoopStep
<1> QED
  BY <1>8, <1>9

----------------------------------------------------------------------------
(* The inbound loop.                                                       *)

(* A step that writes no row may rest on what its event relies on.         *)
LEMMA ReadingStep ==
  ASSUME ThreadIInv, reader' \in Events, echoes' \subseteq echoes, pausedFor' \subseteq Ids,
         platform = "MESSENGER" => pausedFor' \subseteq Elsewhere,
         mishaps' \in 0 .. MaxMishaps, ReaderInv',
         UNCHANGED <<platform, reply, business, sender, desk, posted, fresh, agreed>>
  PROVE  ThreadIInv'
<1>1. ThreadTypeOK' /\ PostsGrow
  BY PostsStand DEF ThreadIInv, ThreadTypeOK
<1>2. EchoInv'
  BY DEF ThreadIInv, EchoInv, Posted
<1> QED
  BY <1>1, <1>2, RowsKept, SenderKept, DesksKept DEF ThreadIInv

LEMMA EchoBeginsKeeps ==
  ASSUME ThreadIInv, NEW echo \in echoes, EchoBegins(echo)
  PROVE  ThreadIInv'
<1>1. ThreadTypeOK /\ ReaderInv /\ echo \in Echoes /\ Posted(echo.id)
  BY DEF ThreadIInv, ThreadTypeOK, EchoInv
<1>2. UNCHANGED <<platform, reply, business, sender, desk, mishaps, posted, fresh, agreed,
                 pausedFor>>
  BY DEF EchoBegins, rows, posts
<1>3. CASE reader' = reader /\ echoes' \subseteq echoes
  <2>1. ReaderInv'
    BY <1>1, <1>2, <1>3 DEF ReaderInv, Posted, TextArrived
  <2> QED
    BY <1>1, <1>2, <1>3, <2>1, ReadingStep DEF ThreadIInv, ThreadTypeOK, EchoInv
<1>4. CASE reader' = [pc |-> "match", echo |-> echo] /\ UNCHANGED echoes
  <2>1. ReaderInv' /\ reader' \in Events
    BY <1>1, <1>2, <1>4 DEF ReaderInv, Posted, Events
  <2> QED
    BY <1>1, <1>2, <1>4, <2>1, ReadingStep DEF ThreadIInv, ThreadTypeOK, EchoInv
<1> QED
  BY <1>3, <1>4 DEF EchoBegins, Settles

(* Times of day are natural numbers, so among some replies one is oldest.  *)
LEMMA OldestIsOne ==
  ASSUME ThreadTypeOK, NEW some \in SUBSET Replies, some # {}
  PROVE  Oldest(some) \in some
<1> DEFINE times == {reply[r].at : r \in some}
<1>1. times \subseteq Nat /\ times # {}
  BY RowFacts, Bounds DEF ReplyRecords
<1>2. PICK first \in times : \A t \in times : ~(<<t, first>> \in OpToRel(<, Nat))
  <2> HIDE DEF times
  <2> QED
    BY <1>1, NatLessThanWellFounded, WFMin
<1>3. \A t \in times : ~(t < first)
  BY <1>1, <1>2 DEF OpToRel
<1>4. PICK r \in some : reply[r].at = first
  OBVIOUS
<1>5. ASSUME NEW o \in some PROVE reply[r].at <= reply[o].at
  <2>1. reply[o].at \in times /\ reply[o].at \in Nat /\ first \in Nat
    BY <1>1
  <2>2. ~(reply[o].at < first)
    BY <1>3, <2>1
  <2> QED
    BY <1>4, <2>1, <2>2
<1> QED
  BY <1>5 DEF Oldest

(* The event's echo is one that Meta told of, and what a step does with it *)
(* says whom it takes it for.                                              *)
LEMMA EchoMatchesKeeps ==
  ASSUME ThreadIInv, NEW from \in 1 .. Cardinality(Replies) + 1, EchoMatches(from)
  PROVE  ThreadIInv'
<1>1. /\ ThreadTypeOK /\ reader.pc = "match" /\ reader.echo \in Echoes
      /\ Posted(reader.echo.id)
  BY ReaderKinds DEF ThreadIInv, ReaderInv, EchoMatches
<1>2. PICK echo \in Echoes : echo = reader.echo
  BY <1>1
<1>3. echo.id \in Ids /\ Posted(echo.id)
  BY <1>1, <1>2 DEF Echoes
<1>4. UNCHANGED <<platform, reply, business, sender, desk, mishaps, posted, fresh, agreed,
                 pausedFor>>
  BY DEF EchoMatches, rows, posts
<1>5. pausedFor' \subseteq Ids /\ (platform = "MESSENGER" => pausedFor' \subseteq Elsewhere)
      /\ mishaps' \in 0 .. MaxMishaps
  BY <1>1, <1>4 DEF ThreadIInv, EchoInv, ThreadTypeOK
<1>6. CASE reader' = NoEvent /\ Settles(echo)
  <2>1. ReaderInv' /\ reader' \in Events /\ echoes' \subseteq echoes
    BY <1>6 DEF ReaderInv, NoEvent, Events, Settles
  <2> QED
    BY <1>4, <1>5, <2>1, ReadingStep
<1>7. ASSUME NEW to \in Replies, reader' = [pc |-> "attach", echo |-> echo, to |-> to],
             UNCHANGED echoes, TextOf[to] = Content(echo.id)
      PROVE  ThreadIInv'
  <2>1. ReaderInv' /\ reader' \in Events
    BY <1>3, <1>4, <1>7 DEF ReaderInv, Events, Posted, Content, Ours
  <2> QED
    BY <1>4, <1>5, <1>7, <2>1, ReadingStep
<1>8. CASE /\ reader' = [pc |-> "create", echo |-> echo] /\ UNCHANGED echoes
           /\ ~KnownByName(echo.id)
  <2>1. ReaderInv' /\ reader' \in Events
    BY <1>3, <1>4, <1>8 DEF ReaderInv, Events, Posted, Ours, KnownByName
  <2> QED
    BY <1>4, <1>5, <1>8, <2>1, ReadingStep
<1>9. CASE KnownByName(echo.id)
  <2>1. echo.id[1] \in Replies /\ TextOf[echo.id[1]] = Content(echo.id)
    BY <1>3, <1>9, IdKinds DEF KnownByName, Content
  <2> QED
    BY <1>2, <1>6, <1>7, <1>9, <2>1 DEF EchoMatches
<1>10. CASE ~KnownByName(echo.id)
  <2> DEFINE some == {r \in InFlight(echo.id) : reply[r].at >= from}
  <2>1. CASE some = {}
    BY <1>2, <1>8, <1>10, <2>1 DEF EchoMatches
  <2>2. CASE some # {}
    <3>1. some \in SUBSET Replies
      BY DEF InFlight
    <3>2. Oldest(some) \in some
      <4> HIDE DEF some
      <4> QED
        BY <1>1, <2>2, <3>1, OldestIsOne
    <3>3. Oldest(some) \in Replies /\ TextOf[Oldest(some)] = Content(echo.id)
      BY <3>2 DEF InFlight
    <3>4. reader' = [pc |-> "attach", echo |-> echo, to |-> Oldest(some)] /\ UNCHANGED echoes
      BY <1>2, <1>10, <2>2 DEF EchoMatches
    <3> QED
      BY <1>7, <3>3, <3>4
  <2> QED
    BY <2>1, <2>2
<1> QED
  BY <1>9, <1>10

(* The id goes to a row with the message's text, unless a row holds it.    *)
(* A row that was sent once, of a text nobody else has, holds its own.     *)
LEMMA EchoAttachesKeeps ==
  ASSUME ThreadIInv, EchoAttaches
  PROVE  ThreadIInv'
<1>1. /\ ThreadTypeOK /\ reader.pc = "attach" /\ reader.echo \in Echoes
      /\ Posted(reader.echo.id) /\ Content(reader.echo.id) = TextOf[reader.to]
      /\ reader.to \in Replies
  BY ReaderKinds DEF ThreadIInv, ReaderInv, EchoAttaches
<1>2. PICK to \in Replies : to = reader.to
  BY <1>1
<1>3. PICK id \in Ids : id = reader.echo.id /\ Fits(id, to)
  BY <1>1, <1>2 DEF Echoes, Fits
<1>4. /\ UNCHANGED <<platform, business, sender, desk, mishaps, posted, fresh, agreed, pausedFor>>
      /\ reader' = NoEvent /\ echoes' \subseteq echoes
  BY DEF EchoAttaches, posts, Settles
<1>5. ReaderInv' /\ reader' \in Events
  BY <1>4 DEF ReaderInv, NoEvent, Events
<1>6. CASE UNCHANGED reply
  BY <1>1, <1>4, <1>5, <1>6, ReadingStep DEF ThreadIInv, ThreadTypeOK, EchoInv
<1>7. CASE ~UNCHANGED reply
  <2>1. /\ Holder(id) = "NOBODY"
        /\ reply' = [reply EXCEPT ![to] = [reply[to] EXCEPT !.id = id]]
    BY <1>1, <1>2, <1>3, <1>7 DEF EchoAttaches, ThreadTypeOK
  <2>2. [reply[to] EXCEPT !.id = id] \in ReplyRecords
    BY <1>1, RowFacts DEF ReplyRecords
  <2>3. ThreadTypeOK' /\ PostsGrow
    BY <1>1, <1>4, <1>5, <2>1, <2>2, PostsStand DEF ThreadTypeOK
  <2>4. /\ reply'[to].status = reply[to].status /\ reply'[to].attempts = reply[to].attempts
        /\ reply'[to].id = id /\ reply'[to].resends = reply[to].resends
        /\ \A q \in Replies : q # to => reply'[q] = reply[q]
    BY <1>1, <2>1, RowFacts DEF ThreadTypeOK, ReplyRecords
  <2>5. ReplyInv(to)'
    <3>1. ReplyInv(to) /\ Fits(id, to)'
      BY <1>3, <1>4 DEF ThreadIInv, Fits, Posted
    <3> QED
      BY <1>4, <2>4, <3>1 DEF ReplyInv, Unsent, TextArrived
  <2>6. OneRowInv(to)'
    <3> SUFFICES ASSUME reply[to].status = "SENT", posted[to] = 1, OnlyOne(TextOf[to])
                 PROVE  FALSE
      BY <1>4, <2>4 DEF OneRowInv
    <3>1. reply[to].id = <<to, 1>>
      BY DEF ThreadIInv, OneRowInv
    <3>2. id # <<to, 1>>
      BY <2>1, <3>1 DEF Holder
    <3>3. CASE Ours(id)
      <4>1. id[1] \in Replies /\ id = <<id[1], id[2]>> /\ TextOf[id[1]] = TextOf[to]
            /\ id[2] \in 1 .. posted[id[1]]
        BY <1>3, <3>3, IdKinds DEF Fits, Content, Posted
      <4>2. id[1] = to
        BY <4>1 DEF OnlyOne
      <4> QED
        BY <3>2, <4>1, <4>2
    <3>4. CASE ~Ours(id)
      <4>1. id \in Elsewhere /\ TextOf[id] = TextOf[to]
        BY <1>3, <3>4, IdKinds DEF Fits, Content
      <4> QED
        BY <4>1, ChannelThreadConstants DEF OnlyOne
    <3> QED
      BY <3>3, <3>4
  <2>7. \A q \in Replies : ReplyInv(q)' /\ OneRowInv(q)'
    BY <1>4, <2>3, <2>4, <2>5, <2>6, OtherRowsKept
  <2>8. SenderInv' /\ EchoInv' /\ DeskInv'
    BY <1>4, <2>3, <2>4, SenderKept, EchoesKept, DesksKept
  <2> QED
    BY <1>5, <2>3, <2>7, <2>8 DEF ThreadIInv
<1> QED
  BY <1>6, <1>7

(* A row for a message of a person: the reply's own id would be taken.     *)
LEMMA EchoCreatesKeeps ==
  ASSUME ThreadIInv, EchoCreates
  PROVE  ThreadIInv'
<1>1. /\ ThreadTypeOK /\ reader.pc = "create" /\ reader.echo \in Echoes
      /\ Posted(reader.echo.id) /\ (platform = "MESSENGER" => ~Ours(reader.echo.id))
  BY ReaderKinds DEF ThreadIInv, ReaderInv, EchoCreates
<1>2. PICK echo \in Echoes : echo = reader.echo
  BY <1>1
<1>3. echo.id \in Ids /\ Posted(echo.id) /\ (platform = "MESSENGER" => echo.id \in Elsewhere)
  BY <1>1, <1>2, IdKinds DEF Echoes
<1>4. UNCHANGED <<platform, reply, sender, desk, mishaps, posted, fresh, agreed, pausedFor>>
  BY DEF EchoCreates, posts
<1>5. CASE UNCHANGED business /\ reader' = NoEvent /\ echoes' \subseteq echoes
  <2>1. ReaderInv' /\ reader' \in Events
    BY <1>5 DEF ReaderInv, NoEvent, Events
  <2> QED
    BY <1>1, <1>4, <1>5, <2>1, ReadingStep DEF ThreadIInv, ThreadTypeOK, EchoInv
<1>6. CASE /\ Holder(echo.id) = "NOBODY" /\ business' = business \cup {echo}
           /\ reader' = [pc |-> "pause", echo |-> echo] /\ UNCHANGED echoes
  <2>1. ReaderInv' /\ reader' \in Events
    BY <1>1, <1>2, <1>3, <1>4, <1>6 DEF ReaderInv, Events, Posted, Ours
  <2>2. ThreadTypeOK' /\ PostsGrow
    BY <1>1, <1>4, <1>6, <2>1, PostsStand DEF ThreadTypeOK
  <2>3. ASSUME NEW r \in Replies PROVE ReplyInv(r)' /\ OneRowInv(r)'
    <3>1. ReplyInv(r)'
      BY <1>4, <2>2, ReplyKept
    <3>2. OneRowInv(r)'
      BY <1>4, <1>6 DEF ThreadIInv, OneRowInv, Holder
    <3> QED
      BY <3>1, <3>2
  <2>4. EchoInv'
    BY <1>3, <1>4, <1>6 DEF ThreadIInv, EchoInv, Posted
  <2> QED
    BY <1>4, <2>1, <2>2, <2>3, <2>4, SenderKept, DesksKept DEF ThreadIInv
<1> QED
  BY <1>2, <1>5, <1>6 DEF EchoCreates, Settles

(* On Messenger only a message from elsewhere gets this far.               *)
LEMMA EchoPausesKeeps ==
  ASSUME ThreadIInv, EchoPauses
  PROVE  ThreadIInv'
<1>1. /\ ThreadTypeOK /\ reader.echo.id \in Ids
      /\ platform = "MESSENGER" => reader.echo.id \in Elsewhere
  BY ReaderKinds, IdKinds DEF ThreadIInv, ReaderInv, EchoPauses, Echoes
<1>2. /\ UNCHANGED <<platform, reply, business, sender, desk, mishaps, posted, fresh, agreed>>
      /\ reader' = NoEvent /\ echoes' \subseteq echoes
      /\ pausedFor' = pausedFor \cup {reader.echo.id}
  BY DEF EchoPauses, rows, posts, Settles
<1>3. ReaderInv' /\ reader' \in Events
  BY <1>2 DEF ReaderInv, NoEvent, Events
<1> QED
  BY <1>1, <1>2, <1>3, ReadingStep DEF ThreadIInv, ThreadTypeOK, EchoInv

(* On Messenger a row of unknown fate is reached by its id alone, and the  *)
(* id of a row is of a message with its text.                              *)
LEMMA ReceiptBeginsKeeps ==
  ASSUME ThreadIInv, NEW id \in Ids, NEW kind \in Receipts, NEW before \in SUBSET Replies,
         ReceiptBegins(id, kind, before)
  PROVE  ThreadIInv'
<1>1. ThreadTypeOK
  BY DEF ThreadIInv
<1>2. UNCHANGED <<platform, reply, business, echoes, sender, desk, mishaps, posted, fresh, agreed,
                 pausedFor>>
  BY DEF ReceiptBegins, rows, posts
<1>3. PICK meant \in SUBSET Replies :
        /\ reader' = [pc |-> "receipt", kind |-> kind,
                      left |-> {<<r, reply[r].status>> :
                                  r \in {o \in meant : reply[o].status \in OnTheirWay}}]
        /\ platform = "MESSENGER" =>
             \A r \in meant : reply[r].id = id \/ reply[r].status \in {"SENT", "DELIVERED"}
  <2> DEFINE named == {r \in Replies : reply[r].id = id}
             meant == IF platform = "INSTAGRAM" THEN named \cup UpTo(id)
                      ELSE IF kind = "DELIVERED" THEN named \cup before ELSE before
  <2>1. meant \in SUBSET Replies
    BY DEF UpTo
  <2>2. \A r \in before : reply[r].status \in {"SENT", "DELIVERED"}
    BY DEF ReceiptBegins, WithSentAt
  <2>3. platform = "MESSENGER" =>
          \A r \in meant : reply[r].id = id \/ reply[r].status \in {"SENT", "DELIVERED"}
    BY <2>2
  <2> QED
    BY <2>1, <2>3 DEF ReceiptBegins
<1>4. reader' \in Events
  <2>1. reader'.left \in SUBSET (Replies \X DeliveryStates)
    BY <1>1, <1>3, RowFacts DEF ReplyRecords
  <2> QED
    BY <1>3, <2>1 DEF Events
<1>5. ASSUME platform = "MESSENGER", NEW r \in Replies, <<r, "UNKNOWN">> \in reader'.left
      PROVE  TextArrived(TextOf[r])
  <2>1. reply[r].id = id
    BY <1>3, <1>5
  <2>2. Fits(id, r)
    BY <2>1, IdKinds DEF ThreadIInv, ReplyInv
  <2> QED
    BY <1>1, <2>2, FittingArrived
<1>6. ReaderInv'
  <2>1. reader'.left \subseteq Replies \X OnTheirWay
    BY <1>3
  <2> QED
    BY <1>2, <1>3, <1>5, <2>1 DEF ReaderInv, TextArrived
<1> QED
  BY <1>1, <1>2, <1>4, <1>6, ReadingStep DEF ThreadIInv, ThreadTypeOK, EchoInv

(* A receipt moves a row that was read as on its way: Meta took it, or on  *)
(* Messenger something with its text.                                      *)
LEMMA ReceiptMovesKeeps ==
  ASSUME ThreadIInv, NEW pair \in Replies \X DeliveryStates, ReceiptMoves(pair)
  PROVE  ThreadIInv'
<1>1. /\ ThreadTypeOK /\ ReaderInv /\ reader.pc = "receipt" /\ pair \in reader.left
      /\ reader = [pc |-> "receipt", kind |-> reader.kind, left |-> reader.left]
      /\ reader.kind \in Receipts /\ reader.left \subseteq Replies \X DeliveryStates
  BY ReaderKinds DEF ThreadIInv, ReceiptMoves
<1>2. PICK r \in Replies, saw \in DeliveryStates : pair = <<r, saw>>
  OBVIOUS
<1>3. /\ UNCHANGED <<platform, business, echoes, sender, desk, mishaps, posted, fresh, agreed,
                     pausedFor>>
      /\ reader' = IF reader.left = {pair} THEN NoEvent
                   ELSE [reader EXCEPT !.left = reader.left \ {pair}]
  BY DEF ReceiptMoves, posts
<1>4. reader' \in Events /\ ReaderInv'
  <2>1. CASE reader' = NoEvent
    BY <2>1 DEF ReaderInv, NoEvent, Events
  <2>2. CASE reader' = [pc |-> "receipt", kind |-> reader.kind, left |-> reader.left \ {pair}]
    BY <1>1, <1>3, <2>2 DEF ReaderInv, Events, TextArrived
  <2> QED
    BY <1>1, <1>3, <2>1, <2>2
<1>5. CASE UNCHANGED reply
  BY <1>1, <1>3, <1>4, <1>5, ReadingStep DEF ThreadIInv, ThreadTypeOK, EchoInv
<1>6. CASE ~UNCHANGED reply
  <2>1. PICK got \in Receipts :
          /\ reply[r].status = saw
          /\ reply' = [reply EXCEPT ![r] = [reply[r] EXCEPT !.status = got]]
    <3>1. Advance(saw, reader.kind) \in Receipts
      BY <1>1 DEF Advance, Receipts
    <3> QED
      BY <1>1, <1>2, <1>6, <3>1 DEF ReceiptMoves, ThreadTypeOK
  <2>2. [reply[r] EXCEPT !.status = got] \in ReplyRecords
    BY <1>1, RowFacts DEF ReplyRecords, DeliveryStates, Receipts
  <2>3. ThreadTypeOK' /\ PostsGrow
    BY <1>1, <1>3, <1>4, <2>1, <2>2, PostsStand DEF ThreadTypeOK
  <2>4. /\ reply'[r].status = got /\ reply'[r].attempts = reply[r].attempts
        /\ reply'[r].id = reply[r].id /\ reply'[r].resends = reply[r].resends
        /\ \A q \in Replies : q # r => reply'[q] = reply[q]
    BY <1>1, <2>1, RowFacts DEF ThreadTypeOK, ReplyRecords
  <2>5. ReplyInv(r) /\ saw \in OnTheirWay
    BY <1>1, <1>2 DEF ThreadIInv, ReaderInv
  <2>6. platform = "MESSENGER" => TextArrived(TextOf[r])
    <3>1. CASE saw = "SENT"
      <4>1. posted[r] \in Nat /\ posted[r] >= 1
        BY <1>1, <2>1, <2>5, <3>1, RowFacts, Bounds DEF ReplyInv
      <4> QED
        BY <4>1 DEF TextArrived
    <3>2. CASE saw = "DELIVERED"
      BY <2>1, <2>5, <3>2 DEF ReplyInv, Receipts
    <3>3. CASE saw = "UNKNOWN"
      BY <1>1, <1>2, <3>3 DEF ReaderInv
    <3> QED
      BY <2>5, <3>1, <3>2, <3>3 DEF OnTheirWay
  <2>7. ReplyInv(r)' /\ OneRowInv(r)'
    <3>1. got \notin {"NONE", "QUEUED", "FAILED", "SENT"}
      BY DEF Receipts
    <3>2. TextArrived(TextOf[r])' <=> TextArrived(TextOf[r])
      BY <1>3 DEF TextArrived
    <3>3. (reply[r].id # NoId => Fits(reply[r].id, r))'
      BY <1>3, <2>4, <2>5 DEF ReplyInv, Fits, Posted
    <3>4. ReplyInv(r)'
      BY <1>3, <2>4, <2>5, <2>6, <3>1, <3>2, <3>3 DEF ReplyInv
    <3>5. OneRowInv(r)'
      BY <2>4, <3>1 DEF OneRowInv
    <3> QED
      BY <3>4, <3>5
  <2>8. SenderInv'
    <3>1. reply[r].status # "SENDING"
      BY <2>1, <2>5 DEF OnTheirWay
    <3>2. \A q \in Replies : sender.pc # "idle" /\ sender.reply = q => reply'[q] = reply[q]
      BY <2>4, <3>1, NotHeld
    <3> QED
      BY <1>3, <2>3, <3>2, SenderKept
  <2>9. \A q \in Replies : ReplyInv(q)' /\ OneRowInv(q)'
    BY <1>3, <2>3, <2>4, <2>7, OtherRowsKept
  <2> QED
    BY <1>3, <1>4, <2>3, <2>8, <2>9, EchoesKept, DesksKept DEF ThreadIInv
<1> QED
  BY <1>5, <1>6

----------------------------------------------------------------------------
(* What goes wrong forgets; the rows stay.                                 *)
LEMMA ReaderFailsKeeps ==
  ASSUME ThreadIInv, ReaderFails
  PROVE  ThreadIInv'
<1>1. /\ UNCHANGED <<platform, reply, business, echoes, sender, desk, posted, fresh, agreed,
                     pausedFor>>
      /\ reader' = NoEvent /\ mishaps' \in 0 .. MaxMishaps
  BY Bounds DEF ReaderFails, rows, posts, ThreadIInv, ThreadTypeOK
<1>2. ReaderInv' /\ reader' \in Events
  BY <1>1 DEF ReaderInv, NoEvent, Events
<1> QED
  BY <1>1, <1>2, ReadingStep DEF ThreadIInv, ThreadTypeOK, EchoInv

LEMMA SendDiesKeeps ==
  ASSUME ThreadIInv, SendDies
  PROVE  ThreadIInv'
<1>1. /\ UNCHANGED <<platform, reply, business, echoes, desk, posted, fresh, agreed, pausedFor>>
      /\ reader' \in {reader, NoEvent} /\ sender' = NoSend /\ mishaps' \in 0 .. MaxMishaps
  BY Bounds DEF SendDies, rows, posts, ThreadIInv, ThreadTypeOK
<1>2. SenderInv' /\ reader' \in Events /\ sender' \in Sends
  BY <1>1 DEF SenderInv, NoEvent, NoSend, Events, Sends, ThreadIInv, ThreadTypeOK
<1>3. ThreadTypeOK' /\ PostsGrow
  BY <1>1, <1>2, PostsStand DEF ThreadIInv, ThreadTypeOK
<1>4. CASE reader' = reader
  BY <1>1, <1>2, <1>3, <1>4, RowsKept, ReaderKept, EchoesKept, DesksKept DEF ThreadIInv
<1>5. CASE reader' = NoEvent
  <2>1. ReaderInv'
    BY <1>5 DEF ReaderInv, NoEvent
  <2> QED
    BY <1>1, <1>2, <1>3, <2>1, RowsKept, EchoesKept, DesksKept DEF ThreadIInv
<1> QED
  BY <1>1, <1>4, <1>5

----------------------------------------------------------------------------
LEMMA NextKeepsThreadIInv == ThreadIInv /\ [ThreadNext]_threadVars => ThreadIInv'
<1> SUFFICES ASSUME ThreadIInv, [ThreadNext]_threadVars PROVE ThreadIInv'
  OBVIOUS
<1>1. CASE UNCHANGED threadVars
  <2>1. UNCHANGED <<platform, reply, business, echoes, sender, reader, desk, mishaps, posted,
                    fresh, agreed, pausedFor>>
    BY <1>1 DEF threadVars
  <2>2. ThreadTypeOK' /\ PostsGrow
    BY <2>1, PostsStand DEF ThreadIInv, ThreadTypeOK
  <2> QED
    BY <2>1, <2>2, RowsKept, SenderKept, ReaderKept, EchoesKept, DesksKept DEF ThreadIInv
<1>2. CASE \E r \in Replies : QueueReply(r) \/ SenderClaims(r) \/ SweepStuck(r)
  BY <1>2, QueueReplyKeeps, SenderClaimsKeeps, SweepStuckKeeps
<1>3. CASE \E d \in Desks : Resend(d) \/ \E r \in Replies : ReadForResend(d, r)
  BY <1>3, ResendKeeps, ReadForResendKeeps
<1>4. CASE Disconnect \/ \E m \in Elsewhere : WriteElsewhere(m)
  BY <1>4, DisconnectKeeps, WriteElsewhereKeeps
<1>5. CASE SenderRefuses \/ SenderFinishes \/ MarkLooks \/ MarkWrites
  BY <1>5, SenderEndsKeeps, MarkLooksKeeps, MarkWritesKeeps
<1>6. CASE \E outcome \in Outcomes, accepted \in BOOLEAN : SenderCalls(outcome, accepted)
  BY <1>6, SenderCallsKeeps
<1>7. CASE \/ \E echo \in echoes : EchoBegins(echo)
           \/ \E from \in 1 .. Cardinality(Replies) + 1 : EchoMatches(from)
  BY <1>7, EchoBeginsKeeps, EchoMatchesKeeps
<1>8. CASE EchoAttaches \/ EchoCreates \/ EchoPauses
  BY <1>8, EchoAttachesKeeps, EchoCreatesKeeps, EchoPausesKeeps
<1>9. CASE \E id \in Ids, kind \in Receipts, before \in SUBSET Replies :
             ReceiptBegins(id, kind, before)
  BY <1>9, ReceiptBeginsKeeps
<1>10. CASE \E pair \in Replies \X DeliveryStates : ReceiptMoves(pair)
  BY <1>10, ReceiptMovesKeeps
<1>11. CASE ReaderFails \/ SendDies
  BY <1>11, ReaderFailsKeeps, SendDiesKeeps
<1> QED
  BY <1>1, <1>2, <1>3, <1>4, <1>5, <1>6, <1>7, <1>8, <1>9, <1>10, <1>11 DEF ThreadNext

(* What the two loops rely on between their steps holds in every state.    *)
THEOREM ThreadInvariant == ThreadSpec => []ThreadIInv
<1> QED
  BY InitThreadIInv, NextKeepsThreadIInv, PTL DEF ThreadSpec

(* Every variable stays in its range.                                      *)
THEOREM ThreadTypeCorrect == ThreadSpec => []ThreadTypeOK
<1>1. ThreadIInv => ThreadTypeOK
  BY DEF ThreadIInv
<1> QED
  BY <1>1, ThreadInvariant, PTL

(* A customer who gets a reply twice gets it because a person who was told *)
(* so asked for it.                                                        *)
THEOREM CopiesStayConfirmed == ThreadSpec => []CopiesAreConfirmed
<1>1. ThreadIInv => CopiesAreConfirmed
  BY DEF ThreadIInv, ReplyInv, CopiesAreConfirmed
<1> QED
  BY <1>1, ThreadInvariant, PTL

(* A waiting or failed reply was not taken by Meta since it was queued, a  *)
(* SENT one was, once, and on Messenger a DELIVERED or READ one stands for *)
(* a message with its text that was.  Nothing is claimed of an Instagram   *)
(* reply that is marked READ.                                              *)
THEOREM StatusStaysTrue == ThreadSpec => []StatusIsTrue
<1>1. ThreadIInv => StatusIsTrue
  BY DEF ThreadIInv, ReplyInv, Unsent, StatusIsTrue
<1> QED
  BY <1>1, ThreadInvariant, PTL

(* On Messenger no echo of our own send makes a row or silences the AI; on *)
(* either platform a reply that is SENT, was sent once and has a text of   *)
(* its own is not shown a second time.                                     *)
THEOREM OwnEchoStaysRecognised == ThreadSpec => []OwnEchoIsRecognised
<1>1. ThreadIInv => OwnEchoIsRecognised
  BY DEF ThreadIInv, OneRowInv, EchoInv, OwnEchoIsRecognised
<1> QED
  BY <1>1, ThreadInvariant, PTL
=============================================================================
