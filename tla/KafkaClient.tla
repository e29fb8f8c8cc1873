---------------------------- MODULE KafkaClient ----------------------------
(***************************************************************************)
(* A service that consumes one topic through ZorbitKafkaClient (kafka/     *)
(* kafka-client.ts) and forwards what its handler fails on to the dead     *)
(* letter queue.  kafkajs and the broker are external: eachMessage runs    *)
(* one message at a time, a message it resolves for may be committed from  *)
(* then on, and a consumer that joins starts at the committed offset or,   *)
(* where there is none (fromBeginning: false), at the end of the log: what *)
(* a group without an offset has not dealt with when its consumer goes is  *)
(* passed over by the next one.                                            *)
(***************************************************************************)
EXTENDS Naturals, Sequences

CONSTANTS
  MaxLog,        \* bound on the messages the topic receives
  MaxCrashes,    \* bound on process crashes
  MaxCloses,     \* bound on the service's calls of disconnect()
  BrokerMayFail, \* whether what connects, joins, sends or disconnects may be refused
  ProducerFirst  \* whether the service connects its producer before it consumes

ASSUME Bounds == {MaxLog, MaxCrashes, MaxCloses} \subseteq Nat
ASSUME Switches == {BrokerMayFail, ProducerFirst} \subseteq BOOLEAN

VARIABLES
  log,        \* the topic: each message has a value or is empty
  committed,  \* the group's offset: how many messages it is done with
  producer,   \* this.producer, and how far its connection is
  consumer,   \* this.consumer, and how far it is
  closing,    \* how far disconnect() is
  closes,     \* how often it was called
  position,   \* how many messages the consumer is past
  from,       \* where in the log it joined
  since,      \* history: where the group's first consumer joined, or NoOffset
  jumped,     \* history: the messages since then that were not dealt with when
              \* a consumer joined at the end of the log
  work,       \* what eachMessage is doing
  runs,       \* history: runs[i] is how often the handler was given message i
  taken,      \* history: the messages the handler has returned for
  dropped,    \* history: the failed messages that were let go
  dlq,        \* the messages the dead letter queue holds
  crashes

links == <<producer, consumer, closing, closes>>
broker == <<log, committed, dlq>>
history == <<runs, taken, dropped, crashes>>
joined == <<from, since, jumped>>
place == <<position, joined>>
vars == <<broker, links, place, work, history>>

NoOffset == MaxLog + 1
Indices == 1 .. MaxLog

Init == /\ log = <<>> /\ committed = NoOffset /\ dlq = {}
        /\ producer = "null" /\ consumer = "null" /\ closing = "no" /\ closes = 0
        /\ position = 0 /\ from = 0 /\ since = NoOffset /\ jumped = {} /\ work = "idle"
        /\ runs = [i \in Indices |-> 0] /\ taken = {} /\ dropped = {} /\ crashes = 0

\* Somebody publishes to the topic.
Arrive == /\ Len(log) < MaxLog
          /\ \E value \in {"event", "empty"} : log' = Append(log, value)
          /\ UNCHANGED <<committed, dlq, links, place, work, history>>

-----------------------------------------------------------------------------
(* Connecting.  this.producer and this.consumer are set before connect() is *)
(* awaited, and stay set if that rejects; the service may then try again.   *)

Producer(to) == /\ producer' = to
                /\ UNCHANGED <<broker, consumer, closing, closes, place, work, history>>

ConnectProducer == /\ closing = "no" /\ producer \in {"null", "broken"}
                   /\ Producer("connecting")
ProducerConnects == closing = "no" /\ producer = "connecting" /\ Producer("connected")
ProducerRefused == BrokerMayFail /\ producer = "connecting" /\ Producer("broken")

Consumer(to) == /\ closing # "consumer"
                /\ consumer' = to
                /\ UNCHANGED <<broker, producer, closing, closes, work, history>>

ConnectConsumer ==
  /\ closing = "no" /\ consumer \in {"null", "broken"}
  /\ ProducerFirst => producer = "connected"
  /\ Consumer("connecting") /\ UNCHANGED place
ConsumerConnects == consumer = "connecting" /\ Consumer("connected") /\ UNCHANGED place
ConsumerRefused == /\ BrokerMayFail /\ consumer = "connecting"
                   /\ Consumer("broken") /\ UNCHANGED place

\* subscribe(): while it awaits, the consumer is not in the group yet.  If that
\* rejects, the service may subscribe again.
Subscribe == /\ closing = "no" /\ consumer = "connected"
             /\ Consumer("joining") /\ UNCHANGED place
SubscribeRejected == /\ BrokerMayFail /\ consumer = "joining"
                     /\ Consumer("connected") /\ UNCHANGED place

Settled(i) == log[i] = "empty" \/ i \in taken \cup dlq \cup dropped

Resume == position' = committed /\ UNCHANGED <<since, jumped>>
Begin == /\ position' = Len(log)
         /\ since' = IF since = NoOffset THEN Len(log) ELSE since
         /\ jumped' = jumped \cup {i \in since + 1 .. Len(log) : ~ Settled(i)}
Join == /\ consumer = "joining"
        /\ IF committed = NoOffset THEN Begin ELSE Resume
        /\ from' = position'
        /\ Consumer("running")

-----------------------------------------------------------------------------
(* eachMessage                                                             *)

Current == position + 1
MayDeliver == /\ consumer = "running" /\ closing # "consumer"
              /\ work = "idle" /\ position < Len(log)

Deliver_Commits ==
  /\ MayDeliver
  /\ IF log[Current] = "empty"
     THEN position' = Current /\ UNCHANGED work
     ELSE work' = "handling" /\ UNCHANGED position
  /\ committed' = Current
  /\ UNCHANGED <<log, dlq, links, joined, history>>

\* A message without a value is done with at once.
Deliver ==
  /\ MayDeliver
  /\ IF log[Current] = "empty"
     THEN position' = Current /\ UNCHANGED work
     ELSE work' = "handling" /\ UNCHANGED position
  /\ UNCHANGED <<broker, links, joined, history>>

Resolve == position' = Current /\ work' = "idle"
Drop == Resolve /\ dropped' = dropped \cup {Current}
Count == runs' = [runs EXCEPT ![Current] = @ + 1]

HandlerReturns ==
  /\ work = "handling"
  /\ Count /\ taken' = taken \cup {Current}
  /\ Resolve
  /\ UNCHANGED <<broker, links, joined, dropped, crashes>>

HandlerThrows_NoForward ==
  /\ work = "handling"
  /\ Count \/ UNCHANGED runs
  /\ Resolve
  /\ UNCHANGED <<broker, links, joined, taken, dropped, crashes>>

\* JSON.parse() throws, or the handler.  Without a producer the message is let go.
HandlerThrows ==
  /\ work = "handling"
  /\ Count \/ UNCHANGED runs
  /\ IF producer = "null" THEN Drop ELSE work' = "forwarding" /\ UNCHANGED <<position, dropped>>
  /\ UNCHANGED <<broker, links, joined, taken, crashes>>

ForwardLands ==
  /\ work = "forwarding" /\ producer = "connected"
  /\ dlq' = dlq \cup {Current}
  /\ Resolve
  /\ UNCHANGED <<log, committed, links, joined, history>>

ForwardFails_Rethrows ==
  /\ work = "forwarding"
  /\ BrokerMayFail \/ producer # "connected" \/ closing = "producer"
  /\ work' = "idle"
  /\ UNCHANGED <<broker, links, place, history>>

\* The rejection is logged and eachMessage resolves all the same.
ForwardFails ==
  /\ work = "forwarding"
  /\ BrokerMayFail \/ producer # "connected" \/ closing = "producer"
  /\ Drop
  /\ UNCHANGED <<broker, links, joined, runs, taken, crashes>>

\* There is something to commit once the consumer is past a message it was given.
Committable == consumer = "running" /\ position > from

\* kafkajs commits what eachMessage has resolved for, when it sees fit.
Commit ==
  /\ Committable /\ position # committed
  /\ committed' = position
  /\ UNCHANGED <<log, dlq, links, place, work, history>>

-----------------------------------------------------------------------------
(* disconnect(): the producer first, with the consumer still running, then  *)
(* the consumer, which finishes the message it is at and commits.           *)

Disconnect ==
  /\ closes < MaxCloses /\ closing = "no"
  /\ closes' = closes + 1
  /\ closing' = IF producer # "null" THEN "producer" ELSE "consumer"
  /\ UNCHANGED <<broker, producer, consumer, place, work, history>>

ProducerGone ==
  /\ closing = "producer"
  /\ producer' = "null" /\ closing' = "consumer"
  /\ UNCHANGED <<broker, consumer, closes, place, work, history>>

\* The producer's disconnect() rejects, and with it the whole disconnect().
DisconnectRejects ==
  /\ BrokerMayFail /\ closing = "producer"
  /\ producer' = "broken" /\ closing' = "no"
  /\ UNCHANGED <<broker, consumer, closes, place, work, history>>

ConsumerGone ==
  /\ closing = "consumer" /\ work = "idle"
  /\ committed' = IF Committable THEN position ELSE committed
  /\ consumer' = "null" /\ closing' = "no"
  /\ UNCHANGED <<log, dlq, producer, closes, place, work, history>>

\* The process dies and is started again: only the broker remembers.
Crash ==
  /\ crashes < MaxCrashes
  /\ crashes' = crashes + 1
  /\ producer' = "null" /\ consumer' = "null" /\ closing' = "no"
  /\ work' = "idle"
  /\ UNCHANGED <<broker, closes, place, runs, taken, dropped>>

Connect == ConnectProducer \/ ProducerConnects \/ ConnectConsumer \/ ConsumerConnects
Refused == ProducerRefused \/ ConsumerRefused \/ SubscribeRejected
Close == ProducerGone \/ ConsumerGone
EachMessage == Deliver \/ HandlerReturns \/ HandlerThrows \/ ForwardLands \/ ForwardFails

Next == \/ Arrive
        \/ Connect \/ Subscribe \/ Join \/ Refused
        \/ EachMessage \/ Commit
        \/ Disconnect \/ Close \/ DisconnectRejects
        \/ Crash

Spec == Init /\ [][Next]_vars

\* The service consumes, and again after a crash, a refusal or a disconnect; the
\* broker does not refuse its consumer for ever; kafkajs delivers, commits and
\* disconnects; a handler settles.  (With ProducerFirst the producer would have
\* to connect too.)
FairSpec == Spec /\ WF_vars(ConnectConsumer) /\ SF_vars(ConsumerConnects)
                 /\ WF_vars(Subscribe) /\ SF_vars(Join)
                 /\ WF_vars(EachMessage) /\ WF_vars(Commit) /\ WF_vars(Close)

-----------------------------------------------------------------------------
(* Properties                                                              *)

\* Types.
TypeOK ==
  /\ log \in Seq({"event", "empty"}) /\ Len(log) <= MaxLog
  /\ committed \in 0 .. NoOffset
  /\ producer \in {"null", "connecting", "connected", "broken"}
  /\ consumer \in {"null", "connecting", "connected", "joining", "running", "broken"}
  /\ closing \in {"no", "producer", "consumer"} /\ closes \in 0 .. MaxCloses
  /\ {from, position} \subseteq 0 .. Len(log) /\ since \in 0 .. Len(log) \cup {NoOffset}
  /\ work \in {"idle", "handling", "forwarding"}
  /\ work # "idle" => (position < Len(log) /\ consumer = "running")
  /\ runs \in [Indices -> Nat]
  /\ taken \cup dropped \cup dlq \cup jumped \subseteq DOMAIN log
  /\ crashes \in 0 .. MaxCrashes

\* Since its group first joined, the consumer is past no message but those its
\* handler returned for, those in the dead letter queue, those a missing or
\* refusing producer made it drop, and those it was never to see: the ones not
\* dealt with when a consumer joined while the group had no offset.
Accounted(i) == Settled(i) \/ i \in jumped
NothingSkipped ==
  consumer = "running" => \A i \in since + 1 .. position : Accounted(i)

\* What the group will never be given again, it has dealt with or jumped.
CommittedIsSettled ==
  committed # NoOffset => \A i \in since + 1 .. committed : Accounted(i)

\* The invariant of subscribe() and disconnect(): client and broker are of their
\* types, and neither the consumer's position nor the group's offset is past a
\* message nothing was done about but by joining again without an offset.
KafkaInv == TypeOK /\ NothingSkipped /\ CommittedIsSettled

\* "Failed messages are forwarded to the dead letter queue": with a broker that
\* takes what it is sent, and a producer connected ahead of the consumer, none
\* is let go.
FailedAreForwarded == dropped = {}

\* Short of a crash the handler is given no message twice, whatever it or the
\* dead letter queue throws and however often the service disconnects.
RedeliveredOnlyAfterCrash == \A i \in Indices : runs[i] <= 1 + crashes

\* Every message since the group first joined is dealt with in the end, the ones
\* a crash interrupts included, or jumped.
EventuallySettled ==
  \A i \in Indices :
    (i \in DOMAIN log /\ i > since) ~> (i \in DOMAIN log /\ Accounted(i))
=============================================================================
