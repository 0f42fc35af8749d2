---------------------------- MODULE ChannelThread ----------------------------
(***************************************************************************)
(* One Messenger or Instagram conversation as the inbox shows it           *)
(* (apps/worker/src/channels: outboundProcessor, inboundProcessor;         *)
(* apps/web/src/server/channels/replies.ts).  The outbound loop sends      *)
(* queued replies.  Meta echoes every message of the page back through the *)
(* webhook, the ones it got from here and the ones people write elsewhere, *)
(* and reports what the customer got and read.  The inbound loop has to    *)
(* tell which row an event is about, while the row's own send may still be *)
(* under way.                                                              *)
(***************************************************************************)
EXTENDS Naturals, FiniteSets

CONSTANTS
  Replies,          \* outbound ChannelMessages, of people or of the AI
  Elsewhere,        \* messages people send from Meta's own apps
  TextOf,           \* the text of each of both
  Desks,            \* requests to send a reply again
  NoId,             \* null for externalMessageId
  SendMaxAttempts,  \* CHANNEL_SEND_MAX_ATTEMPTS
  MaxResends,       \* FAILED_REPLY_MAX_MANUAL_RETRIES
  MaxMishaps        \* bound: resends, deaths, failing statements, temporary refusals,
                    \* disconnects

ASSUME ChannelThreadConstants ==
  /\ IsFiniteSet(Replies)
  /\ Replies \cap Elsewhere = {}
  /\ (Replies \X (1 .. 1 + MaxResends)) \cap Elsewhere = {}
  /\ NoId \notin (Replies \X (1 .. 1 + MaxResends)) \cup Elsewhere
  /\ SendMaxAttempts \in Nat \ {0}
  /\ MaxResends \in Nat
  /\ MaxMishaps \in Nat

VARIABLES
  platform,   \* ChannelConnection.type
  reply,      \* the replies' rows
  business,   \* rows stored from echoes, with senderType BUSINESS
  echoes,     \* recorded echo events that are still PENDING
  sender,     \* the outbound loop: memory
  reader,     \* the inbound loop: memory
  desk,       \* retryChannelReply: memory
  mishaps,
  posted,     \* history: how often Meta took each message
  fresh,      \* history: how often since the row was last queued
  agreed,     \* history: resends of an UNKNOWN reply, which a person confirms
  pausedFor   \* history: the echoes that paused the AI

rows == <<reply, business>>
posts == <<posted, fresh>>
threadVars ==
  <<platform, reply, business, echoes, sender, reader, desk, mishaps, posted, fresh,
    agreed, pausedFor>>

----------------------------------------------------------------------------
DeliveryStates ==
  {"NONE", "QUEUED", "SENDING", "SENT", "DELIVERED", "READ", "FAILED", "UNKNOWN"}
Receipts == {"DELIVERED", "READ"}
Outcomes == {"SENT", "UNKNOWN", "REFUSED", "TRY_LATER"}
MaxCopies == 1 + MaxResends
(* A message id: the n-th copy of a reply, or a message from elsewhere.    *)
Ids == (Replies \X (1 .. MaxCopies)) \cup Elsewhere
Ours(id) == id \notin Elsewhere
Content(id) == IF Ours(id) THEN TextOf[id[1]] ELSE TextOf[id]
(* occurredAt: a reply's place among the replies, and for an echo how many *)
(* of them were there already.                                             *)
Places == 0 .. Cardinality(Replies)
Written == Cardinality({r \in Replies : reply[r].status # "NONE"})

ReplyRecords ==
  [status: DeliveryStates, attempts: 0 .. SendMaxAttempts, id: Ids \cup {NoId},
   at: Places, resends: 0 .. MaxResends]
Echoes == [id: Ids, at: Places]
NoSend == [pc |-> "idle"]
Sends ==
  {NoSend} \cup [pc: {"check"}, reply: Replies]
    \cup [pc: {"answered"}, reply: Replies, outcome: Outcomes]
    \cup [pc: {"mark"}, reply: Replies, saw: Ids \cup {NoId},
          duplicate: {"NOBODY", "REPLY", "BUSINESS"}]
NoEvent == [pc |-> "idle"]
Events ==
  {NoEvent} \cup [pc: {"match", "create", "pause"}, echo: Echoes]
    \cup [pc: {"attach"}, echo: Echoes, to: Replies]
    \cup [pc: {"receipt"}, kind: Receipts, left: SUBSET (Replies \X DeliveryStates)]
NoResend == [status |-> "NONE"]
Resends ==
  {NoResend} \cup [status: {"FAILED", "UNKNOWN"}, reply: Replies, resends: 0 .. MaxResends]

ThreadInit ==
  /\ platform \in {"MESSENGER", "INSTAGRAM"}
  /\ reply = [r \in Replies |->
       [status |-> "NONE", attempts |-> 0, id |-> NoId, at |-> 0, resends |-> 0]]
  /\ business = {}
  /\ echoes = {}
  /\ sender = NoSend
  /\ reader = NoEvent
  /\ desk = [d \in Desks |-> NoResend]
  /\ mishaps = 0
  /\ posted = [m \in Replies \cup Elsewhere |-> 0]
  /\ fresh = [r \in Replies |-> 0]
  /\ agreed = [r \in Replies |-> 0]
  /\ pausedFor = {}

(* The unique key of a connection's message ids.                           *)
Holder(id) ==
  IF \E e \in business : e.id = id THEN "BUSINESS"
  ELSE IF \E r \in Replies : reply[r].id = id THEN "REPLY" ELSE "NOBODY"

----------------------------------------------------------------------------
(* People and Meta.                                                        *)

(* queueChannelReply, or the AI's upsert.                                  *)
QueueReply(r) ==
  /\ reply[r].status = "NONE"
  /\ reply' = [reply EXCEPT ![r].status = "QUEUED", ![r].at = Written + 1]
  /\ UNCHANGED <<platform, business, echoes, sender, reader, desk, mishaps, posts, agreed,
                 pausedFor>>

(* retryChannelReply reads the row and updates it if it is still as read.  *)
(* An UNKNOWN one needs the person's word that they have looked.           *)
ReadForResend(d, r) ==
  /\ desk[d] = NoResend
  /\ reply[r].status \in {"FAILED", "UNKNOWN"}
  /\ reply[r].resends < MaxResends
  /\ mishaps < MaxMishaps
  /\ mishaps' = mishaps + 1
  /\ desk' = [desk EXCEPT ![d] =
       [status |-> reply[r].status, reply |-> r, resends |-> reply[r].resends]]
  /\ UNCHANGED <<platform, rows, echoes, sender, reader, posts, agreed, pausedFor>>

(* The message id stays where it is.                                       *)
Resend(d) ==
  LET r == desk[d].reply IN
  /\ desk[d] # NoResend
  /\ IF reply[r].status = desk[d].status /\ reply[r].resends = desk[d].resends
     THEN /\ reply' = [reply EXCEPT ![r].status = "QUEUED", ![r].attempts = 0,
                                    ![r].resends = @ + 1]
          /\ fresh' = [fresh EXCEPT ![r] = 0]
          /\ agreed' = IF desk[d].status = "UNKNOWN" THEN [agreed EXCEPT ![r] = @ + 1]
                          ELSE agreed
     ELSE UNCHANGED <<reply, fresh, agreed>>
  /\ desk' = [desk EXCEPT ![d] = NoResend]
  /\ UNCHANGED <<platform, business, echoes, sender, reader, mishaps, posted, pausedFor>>

(* disconnectChannel                                                       *)
Disconnect ==
  /\ mishaps < MaxMishaps
  /\ \E r \in Replies : reply[r].status = "QUEUED"
  /\ mishaps' = mishaps + 1
  /\ reply' = [r \in Replies |->
       IF reply[r].status = "QUEUED" THEN [reply[r] EXCEPT !.status = "FAILED"] ELSE reply[r]]
  /\ UNCHANGED <<platform, business, echoes, sender, reader, desk, posts, agreed, pausedFor>>

WriteElsewhere(m) ==
  /\ posted[m] = 0
  /\ posted' = [posted EXCEPT ![m] = 1]
  /\ echoes' = echoes \cup {[id |-> m, at |-> Written]}
  /\ UNCHANGED <<platform, rows, sender, reader, desk, mishaps, fresh, agreed, pausedFor>>

----------------------------------------------------------------------------
(* The outbound loop, one send at a time.                                  *)

(* The oldest due row: one that waits for a retry may be due or not.       *)
SenderClaims(r) ==
  /\ sender.pc = "idle"
  /\ reply[r].status = "QUEUED"
  /\ \A o \in Replies :
       reply[o].status = "QUEUED" /\ reply[o].attempts = 0 => reply[r].at <= reply[o].at
  /\ reply' = [reply EXCEPT ![r].status = "SENDING", ![r].attempts = @ + 1]
  /\ sender' = [pc |-> "check", reply |-> r]
  /\ UNCHANGED <<platform, business, echoes, reader, desk, mishaps, posts, agreed, pausedFor>>

(* finish: only a row that is still SENDING is written.                    *)
Finish(r, status) ==
  reply' = IF reply[r].status = "SENDING" THEN [reply EXCEPT ![r].status = status] ELSE reply

(* The connection, the credentials, the kill switch or the reply window    *)
(* refuse the send.                                                        *)
SenderRefuses ==
  /\ sender.pc = "check"
  /\ Finish(sender.reply, "FAILED")
  /\ sender' = NoSend
  /\ UNCHANGED <<platform, business, echoes, reader, desk, mishaps, posts, agreed, pausedFor>>

(* The request to Meta.  A lost answer says nothing about the message.     *)
(* Assumed of Meta: what it refuses it has not taken, an HTTP 5xx included *)
(* (channels.ts:637).                                                      *)
SenderCalls(outcome, accepted) ==
  LET r == sender.reply IN
  /\ sender.pc = "check"
  /\ outcome # "UNKNOWN" => accepted = (outcome = "SENT")
  /\ outcome = "TRY_LATER" => mishaps < MaxMishaps
  /\ mishaps' = IF outcome = "TRY_LATER" THEN mishaps + 1 ELSE mishaps
  /\ sender' = [pc |-> "answered", reply |-> r, outcome |-> outcome]
  /\ IF accepted
     THEN /\ posted' = [posted EXCEPT ![r] = @ + 1]
          /\ fresh' = [fresh EXCEPT ![r] = @ + 1]
          /\ echoes' = echoes \cup {[id |-> <<r, posted[r] + 1>>, at |-> Written]}
     ELSE UNCHANGED <<posts, echoes>>
  /\ UNCHANGED <<platform, rows, reader, desk, agreed, pausedFor>>

(* Mutant: a lost answer is a refusal.                                     *)
NoAnswerIsRefused(outcome, attempts) ==
  IF outcome = "TRY_LATER" /\ attempts < SendMaxAttempts THEN "QUEUED" ELSE "FAILED"

(* What a send becomes that did not return an id.                          *)
StatusAfterCall(outcome, attempts) ==
  IF outcome = "UNKNOWN" THEN "UNKNOWN"
  ELSE IF outcome = "TRY_LATER" /\ attempts < SendMaxAttempts THEN "QUEUED" ELSE "FAILED"

SenderFinishes ==
  LET r == sender.reply IN
  /\ sender.pc = "answered"
  /\ sender.outcome # "SENT"
  /\ Finish(r, StatusAfterCall(sender.outcome, reply[r].attempts))
  /\ sender' = NoSend
  /\ UNCHANGED <<platform, business, echoes, reader, desk, mishaps, posts, agreed, pausedFor>>

(* markSent reads the row's id and who else holds the new one ...          *)
MarkLooks ==
  LET r == sender.reply
      id == <<r, posted[r]>>
      others == Holder(id) IN
  /\ sender.pc = "answered"
  /\ sender.outcome = "SENT"
  /\ sender' = [pc |-> "mark", reply |-> r, saw |-> reply[r].id,
                duplicate |-> IF others = "REPLY" /\ reply[r].id = id THEN "NOBODY" ELSE others]
  /\ UNCHANGED <<platform, rows, echoes, reader, desk, mishaps, posts, agreed, pausedFor>>

(* ... and writes: a row stored from this send's own echo is removed.      *)
MarkedBusiness(id) == {e \in business : ~(sender.duplicate = "BUSINESS" /\ e.id = id)}

MarkWrites ==
  LET r == sender.reply
      id == <<r, posted[r]>>
      kept == IF sender.saw = id \/ sender.duplicate # "REPLY" THEN id ELSE sender.saw
      clash == \/ \E e \in MarkedBusiness(id) : e.id = kept
               \/ \E o \in Replies \ {r} : kept # NoId /\ reply[o].id = kept IN
  /\ sender.pc = "mark"
  /\ IF clash /\ reply[r].status = "SENDING"
     THEN UNCHANGED rows
     ELSE /\ business' = MarkedBusiness(id)
          /\ reply' = IF reply[r].status = "SENDING"
                      THEN [reply EXCEPT ![r].status = "SENT", ![r].id = kept]
                      ELSE reply
  /\ sender' = NoSend
  /\ UNCHANGED <<platform, echoes, reader, desk, mishaps, posts, agreed, pausedFor>>

(* Mutant: a stuck row is simply sent again.                               *)
SweepRequeues(r) ==
  /\ sender.pc = "idle"
  /\ reply[r].status = "SENDING"
  /\ reply' = [reply EXCEPT ![r].status = "QUEUED"]
  /\ UNCHANGED <<platform, business, echoes, sender, reader, desk, mishaps, posts, agreed,
                 pausedFor>>

(* recoverStuckSends: five minutes are more than a call takes, so the row  *)
(* belongs to a send that threw or to a worker that died.                  *)
SweepStuck(r) ==
  /\ sender.pc = "idle"
  /\ reply[r].status = "SENDING"
  /\ reply' = [reply EXCEPT ![r].status = "UNKNOWN"]
  /\ UNCHANGED <<platform, business, echoes, sender, reader, desk, mishaps, posts, agreed,
                 pausedFor>>

----------------------------------------------------------------------------
(* The inbound loop, one event at a time.                                  *)

Settles(echo) == echoes' = echoes \ {echo}

(* storeEcho: a row that holds the id settles the event.                   *)
EchoBegins(echo) ==
  /\ reader.pc = "idle"
  /\ echo \in echoes
  /\ IF Holder(echo.id) # "NOBODY"
     THEN Settles(echo) /\ UNCHANGED reader
     ELSE reader' = [pc |-> "match", echo |-> echo] /\ UNCHANGED echoes
  /\ UNCHANGED <<platform, rows, sender, desk, mishaps, posts, agreed, pausedFor>>

(* Mutant: any row in flight, whatever it says.                            *)
AnyInFlight(id) ==
  {r \in Replies : reply[r].id = NoId /\ reply[r].status \in {"SENDING", "UNKNOWN"}}

(* A row in flight with the same text.                                     *)
InFlight(id) ==
  {r \in Replies : /\ reply[r].id = NoId
                   /\ reply[r].status \in {"SENDING", "UNKNOWN"}
                   /\ TextOf[r] = Content(id)}
Oldest(some) == CHOOSE r \in some : \A o \in some : reply[r].at <= reply[o].at

(* Mutant: only while the row has no message id yet.                       *)
KnownUntilSent(id) == platform = "MESSENGER" /\ Ours(id) /\ reply[id[1]].id = NoId

(* Messenger returns the row's name with the echo of our own send.         *)
KnownByName(id) == platform = "MESSENGER" /\ Ours(id)

(* Only rows of the last ten minutes, those from some place on; from a     *)
(* place beyond the last one: none is found, as when Meta changed the text.*)
EchoMatches(from) ==
  LET echo == reader.echo
      some == {r \in InFlight(echo.id) : reply[r].at >= from} IN
  /\ reader.pc = "match"
  /\ IF KnownByName(echo.id)
     THEN IF reply[echo.id[1]].id = NoId
          THEN reader' = [pc |-> "attach", echo |-> echo, to |-> echo.id[1]] /\ UNCHANGED echoes
          ELSE reader' = NoEvent /\ Settles(echo)
     ELSE /\ reader' = IF some = {} THEN [pc |-> "create", echo |-> echo]
                       ELSE [pc |-> "attach", echo |-> echo, to |-> Oldest(some)]
          /\ UNCHANGED echoes
  /\ UNCHANGED <<platform, rows, sender, desk, mishaps, posts, agreed, pausedFor>>

(* attachProviderId gives up on an id that is taken meanwhile.            *)
EchoAttaches ==
  /\ reader.pc = "attach"
  /\ reply' = IF Holder(reader.echo.id) = "NOBODY"
              THEN [reply EXCEPT ![reader.to].id = reader.echo.id] ELSE reply
  /\ reader' = NoEvent
  /\ Settles(reader.echo)
  /\ UNCHANGED <<platform, business, sender, desk, mishaps, posts, agreed, pausedFor>>

(* A person wrote it in Meta's apps.                                       *)
EchoCreates ==
  /\ reader.pc = "create"
  /\ IF Holder(reader.echo.id) = "NOBODY"
     THEN /\ business' = business \cup {reader.echo}
          /\ reader' = [pc |-> "pause", echo |-> reader.echo]
          /\ UNCHANGED echoes
     ELSE reader' = NoEvent /\ Settles(reader.echo) /\ UNCHANGED business
  /\ UNCHANGED <<platform, reply, sender, desk, mishaps, posts, agreed, pausedFor>>

EchoPauses ==
  /\ reader.pc = "pause"
  /\ pausedFor' = pausedFor \cup {reader.echo.id}
  /\ reader' = NoEvent
  /\ Settles(reader.echo)
  /\ UNCHANGED <<platform, rows, sender, desk, mishaps, posts, agreed>>

(* applyReceipt: the customer got or read the message id, or everything up *)
(* to a moment.  Instagram reports reads only, by an id, Messenger reads   *)
(* by a moment and deliveries by both.  The moment is compared with        *)
(* sentAt, which only a row that was SENT has.                             *)
OnTheirWay == {"SENT", "DELIVERED", "UNKNOWN"}
UpTo(id) ==
  LET anchors == {e.at : e \in {b \in business : b.id = id}}
                   \cup {reply[r].at : r \in {o \in Replies : reply[o].id = id}} IN
  {r \in Replies : \E a \in anchors : reply[r].at <= a}
WithSentAt == {r \in Replies : reply[r].status \in {"SENT", "DELIVERED"}}

Advance(status, receipt) ==
  IF status = "DELIVERED" /\ receipt = "DELIVERED" THEN status ELSE receipt

ReceiptBegins(id, kind, before) ==
  LET named == {r \in Replies : reply[r].id = id}
      meant == IF platform = "INSTAGRAM" THEN named \cup UpTo(id)
               ELSE IF kind = "DELIVERED" THEN named \cup before ELSE before IN
  /\ reader.pc = "idle"
  /\ IF Ours(id) THEN id[2] <= posted[id[1]] ELSE posted[id] = 1
  /\ platform = "INSTAGRAM" => kind = "READ" /\ before = {}
  /\ before \subseteq WithSentAt
  /\ \E r \in meant : reply[r].status \in OnTheirWay
  /\ reader' = [pc |-> "receipt", kind |-> kind,
                left |-> {<<r, reply[r].status>> :
                            r \in {o \in meant : reply[o].status \in OnTheirWay}}]
  /\ UNCHANGED <<platform, rows, echoes, sender, desk, mishaps, posts, agreed, pausedFor>>

(* Row by row, if the row is still as read.                                *)
ReceiptMoves(pair) ==
  /\ reader.pc = "receipt"
  /\ pair \in reader.left
  /\ reply' = IF reply[pair[1]].status = pair[2]
              THEN [reply EXCEPT ![pair[1]].status = Advance(pair[2], reader.kind)] ELSE reply
  /\ reader' = IF reader.left = {pair} THEN NoEvent ELSE [reader EXCEPT !.left = @ \ {pair}]
  /\ UNCHANGED <<platform, business, echoes, sender, desk, mishaps, posts, agreed, pausedFor>>

----------------------------------------------------------------------------
(* What goes wrong.                                                        *)

(* A statement throws: the event stays PENDING and is processed again,     *)
(* MAX_ATTEMPTS times, which is more than MaxMishaps.                      *)
ReaderFails ==
  /\ reader # NoEvent
  /\ mishaps < MaxMishaps
  /\ mishaps' = mishaps + 1
  /\ reader' = NoEvent
  /\ UNCHANGED <<platform, rows, echoes, sender, desk, posts, agreed, pausedFor>>

(* A statement of a send throws, or the worker dies with both loops.       *)
SendDies ==
  /\ mishaps < MaxMishaps
  /\ sender # NoSend
  /\ mishaps' = mishaps + 1
  /\ sender' = NoSend
  /\ reader' \in {reader, NoEvent}
  /\ UNCHANGED <<platform, rows, echoes, desk, posts, agreed, pausedFor>>

----------------------------------------------------------------------------
ThreadNext ==
  \/ \E r \in Replies : QueueReply(r) \/ SenderClaims(r) \/ SweepStuck(r)
  \/ \E d \in Desks : Resend(d) \/ \E r \in Replies : ReadForResend(d, r)
  \/ Disconnect
  \/ \E m \in Elsewhere : WriteElsewhere(m)
  \/ SenderRefuses \/ SenderFinishes \/ MarkLooks \/ MarkWrites
  \/ \E outcome \in Outcomes, accepted \in BOOLEAN : SenderCalls(outcome, accepted)
  \/ \E echo \in echoes : EchoBegins(echo)
  \/ \E from \in 1 .. Cardinality(Replies) + 1 : EchoMatches(from)
  \/ EchoAttaches \/ EchoCreates \/ EchoPauses
  \/ \E id \in Ids, kind \in Receipts, before \in SUBSET Replies :
       ReceiptBegins(id, kind, before)
  \/ \E pair \in Replies \X DeliveryStates : ReceiptMoves(pair)
  \/ ReaderFails \/ SendDies

ThreadSpec == ThreadInit /\ [][ThreadNext]_threadVars

----------------------------------------------------------------------------
ThreadTypeOK ==
  /\ platform \in {"MESSENGER", "INSTAGRAM"}
  /\ reply \in [Replies -> ReplyRecords]
  /\ business \subseteq Echoes
  /\ echoes \subseteq Echoes
  /\ sender \in Sends
  /\ reader \in Events
  /\ desk \in [Desks -> Resends]
  /\ mishaps \in 0 .. MaxMishaps
  /\ posted \in [Replies \cup Elsewhere -> 0 .. MaxCopies]
  /\ fresh \in [Replies -> 0 .. 1]
  /\ agreed \in [Replies -> 0 .. MaxResends]
  /\ pausedFor \subseteq Ids

(* The customer gets a second copy of a reply only after a person, told    *)
(* that the first may have arrived, asked for it (retryChannelReply).      *)
CopiesAreConfirmed == \A r \in Replies : posted[r] <= 1 + agreed[r]

(* What the inbox says of a reply is true.  Waiting or failed: Meta did    *)
(* not take it since it was queued.  Sent: Meta did, once.  Delivered or   *)
(* read, on Messenger: Meta took it or a message with the same text.  On   *)
(* Instagram a read of one message is taken for a read of all before it,   *)
(* also of those nobody knows to have left.                                *)
TextArrived(text) == \E m \in Replies \cup Elsewhere : TextOf[m] = text /\ posted[m] >= 1
StatusIsTrue ==
  \A r \in Replies :
    /\ reply[r].status \in {"NONE", "QUEUED", "FAILED"} => fresh[r] = 0
    /\ reply[r].status = "SENT" => fresh[r] = 1
    /\ platform = "MESSENGER" /\ reply[r].status \in Receipts => TextArrived(TextOf[r])

(* An echo of our own send is not taken for a person writing in Meta's     *)
(* apps.  On Messenger never: it makes no row and does not silence the AI  *)
(* (storeEcho).  On Instagram the thread shows a reply that is marked SENT *)
(* once (markSent), if it was sent once and no other message has its text: *)
(* while a send is under way an echo is told by its text.  Nothing is said *)
(* of an Instagram row that never gets the mark: when its echo is stored   *)
(* between the two statements of markSent (outboundProcessor.ts:268-277)   *)
(* the mark meets the echo's id and throws, the sweep makes the row        *)
(* UNKNOWN, and both rows stay.                                            *)
OnlyOne(text) ==
  \A m, o \in Replies \cup Elsewhere : TextOf[m] = text /\ TextOf[o] = text => m = o
OwnEchoIsRecognised ==
  /\ \A r \in Replies : reply[r].status = "SENT" /\ posted[r] = 1 /\ OnlyOne(TextOf[r]) =>
       ~ \E e \in business : e.id = <<r, 1>>
  /\ platform = "MESSENGER" =>
       pausedFor \subseteq Elsewhere /\ \A e \in business : e.id \in Elsewhere
----------------------------------------------------------------------------
(* The inductive strengthening of the safety properties.                   *)

(* Meta took the message with this id.                                     *)
Posted(id) == IF Ours(id) THEN id[2] \in 1 .. posted[id[1]] ELSE posted[id] = 1

(* No copy left since the row was last queued, and every earlier one was   *)
(* answered for by a person.                                               *)
Unsent(r) == fresh[r] = 0 /\ posted[r] <= agreed[r]

(* An id a row may carry: of a message with its text that Meta took.       *)
Fits(id, r) == Content(id) = TextOf[r] /\ Posted(id)

ReplyInv(r) ==
  /\ fresh[r] <= posted[r] /\ posted[r] <= 1 + agreed[r] /\ agreed[r] <= reply[r].resends
  /\ reply[r].status \in {"NONE", "QUEUED"} => reply[r].attempts < SendMaxAttempts
  /\ reply[r].status \in {"NONE", "QUEUED", "FAILED"} => Unsent(r)
  /\ reply[r].status = "SENT" => fresh[r] = 1
  /\ platform = "MESSENGER" /\ reply[r].status \in Receipts => TextArrived(TextOf[r])
  /\ reply[r].id # NoId => Fits(reply[r].id, r)

(* A reply sent once, whose text no other message has, carries its own id  *)
(* and no stored echo does.                                                *)
OneRowInv(r) ==
  reply[r].status = "SENT" /\ posted[r] = 1 /\ OnlyOne(TextOf[r]) =>
    reply[r].id = <<r, 1>> /\ ~ \E e \in business : e.id = <<r, 1>>

(* What a send in progress may rely on: nobody else moves its row.         *)
SenderInv ==
  sender.pc # "idle" =>
    LET r == sender.reply IN
    /\ reply[r].status = "SENDING"
    /\ sender.pc = "check" => Unsent(r)
    /\ sender.pc = "answered" =>
         /\ sender.outcome \in {"REFUSED", "TRY_LATER"} => Unsent(r)
         /\ sender.outcome = "SENT" => fresh[r] = 1
    /\ sender.pc = "mark" =>
         /\ fresh[r] = 1
         /\ sender.saw # NoId => Fits(sender.saw, r)
         /\ sender.duplicate = "REPLY" => ~OnlyOne(TextOf[r])

(* What an event in progress may rely on.                                  *)
ReaderInv ==
  /\ reader.pc \in {"match", "attach", "create", "pause"} => Posted(reader.echo.id)
  /\ reader.pc = "attach" => Content(reader.echo.id) = TextOf[reader.to]
  /\ platform = "MESSENGER" /\ reader.pc \in {"create", "pause"} => ~Ours(reader.echo.id)
  /\ reader.pc = "receipt" => reader.left \subseteq Replies \X OnTheirWay
  /\ platform = "MESSENGER" /\ reader.pc = "receipt" =>
       \A r \in Replies : <<r, "UNKNOWN">> \in reader.left => TextArrived(TextOf[r])

EchoInv ==
  /\ \A e \in echoes \cup business : Posted(e.id)
  /\ platform = "MESSENGER" =>
       pausedFor \subseteq Elsewhere /\ \A e \in business : e.id \in Elsewhere

DeskInv == \A d \in Desks : desk[d] # NoResend => desk[d].resends < MaxResends

ThreadIInv ==
  /\ ThreadTypeOK
  /\ \A r \in Replies : ReplyInv(r) /\ OneRowInv(r)
  /\ SenderInv /\ ReaderInv /\ EchoInv /\ DeskInv
=============================================================================
