-------------------------- MODULE Kafka_proofs ---------------------------
(* What holds of what speaks to Kafka: of KafkaClient for logs of every     *)
(* length and any number of crashes and disconnects, and of                 *)
(* ModuleAnnouncement for any number of rounds and versions.  The two share *)
(* no state.                                                                *)
EXTENDS KafkaClient, ModuleAnnouncement, FiniteSetTheorems, SequenceTheorems, TLAPS

-----------------------------------------------------------------------------
(* KafkaClient                                                             *)

\* The group's offset is a place in the log that is not before its beginning,
\* and the consumer is not before it either: a consumer that joins resumes
\* inside the log, and one that commits moves the group past where it joined.
PlacesInLog ==
  /\ committed # NoOffset => committed \in since .. Len(log)
  /\ consumer = "running" => since <= from /\ from <= position
  /\ (consumer = "running" /\ committed # NoOffset) => from <= committed

\* Typing, places and what is settled hang together.
Inv == TypeOK /\ PlacesInLog /\ NothingSkipped /\ CommittedIsSettled

\* A log that grows and sets that grow leave accounted for what was.
LEMMA AccountedStays ==
  ASSUME TypeOK, NEW i \in DOMAIN log, Accounted(i),
         log' = log \/ \E value \in {"event", "empty"} : log' = Append(log, value),
         taken \subseteq taken', dlq \subseteq dlq', dropped \subseteq dropped',
         jumped \subseteq jumped'
  PROVE  Accounted(i)'
<1>1. log'[i] = log[i]
  <2>1. log \in Seq({"event", "empty"})
    BY DEF TypeOK
  <2>2. QED
    BY <2>1
<1>2. QED
  BY <1>1 DEF Accounted, Settled

\* A step that leaves log, offset, position and beginning alone keeps the
\* invariant if it only adds to what is settled and starts no consumer.
LEMMA InPlace ==
  ASSUME Inv, TypeOK',
         UNCHANGED <<log, committed, place>>,
         consumer' = "running" => consumer = "running",
         taken \subseteq taken', dlq \subseteq dlq', dropped \subseteq dropped'
  PROVE  Inv'
<1>1. PlacesInLog'
  BY DEF Inv, PlacesInLog, NoOffset, joined, place
<1>2. ASSUME NEW i \in 1 .. Len(log), Accounted(i) PROVE Accounted(i)'
  <2>1. TypeOK /\ i \in DOMAIN log
    BY DEF Inv, TypeOK
  <2>2. log' = log /\ jumped \subseteq jumped'
    BY DEF joined, place
  <2>3. QED
    BY <1>2, <2>1, <2>2, AccountedStays
<1>3. NothingSkipped'
  BY <1>2 DEF Inv, TypeOK, NothingSkipped, joined, place
<1>4. CommittedIsSettled'
  BY <1>2 DEF Inv, TypeOK, PlacesInLog, CommittedIsSettled, NoOffset, joined, place
<1>5. QED
  BY <1>1, <1>3, <1>4 DEF Inv

\* A step past the current message keeps it if that message is settled then.
LEMMA PastCurrent ==
  ASSUME Inv, TypeOK', NEW c, c = Current,
         consumer = "running", position < Len(log), position' = c,
         UNCHANGED <<log, committed, joined, consumer>>,
         taken \subseteq taken', dlq \subseteq dlq', dropped \subseteq dropped',
         Settled(c)'
  PROVE  Inv'
<1>1. PlacesInLog'
  BY DEF Inv, TypeOK, PlacesInLog, NoOffset, Current, joined
<1>2. ASSUME NEW i \in 1 .. Len(log), Accounted(i) PROVE Accounted(i)'
  BY <1>2, AccountedStays DEF joined, place, Inv, TypeOK
<1>3. NothingSkipped'
  <2> SUFFICES ASSUME NEW i \in since + 1 .. c PROVE Accounted(i)'
    BY DEF NothingSkipped, joined
  <2>1. CASE i = c
    BY <2>1 DEF Accounted
  <2>2. CASE i # c
    BY <1>2, <2>2 DEF Inv, TypeOK, NothingSkipped, Current, joined
  <2>3. QED
    BY <2>1, <2>2
<1>4. CommittedIsSettled'
  BY <1>2 DEF Inv, TypeOK, PlacesInLog, CommittedIsSettled, NoOffset, joined, place
<1>5. QED
  BY <1>1, <1>3, <1>4 DEF Inv

-----------------------------------------------------------------------------
\* Counting a run keeps the type of the history, in the log or beyond it.
LEMMA CountType ==
  ASSUME TypeOK, Count PROVE runs' \in [Indices -> Nat]
<1>1. runs \in [Indices -> Nat] /\ runs' = [runs EXCEPT ![Current] = runs[Current] + 1]
  BY DEF TypeOK, Count
<1>2. CASE Current \in Indices
  BY <1>1, <1>2
<1>3. CASE Current \notin Indices
  BY <1>1, <1>3
<1>4. QED
  BY <1>2, <1>3

\* What the steps that connect and subscribe leave alone.
LEMMA Connecting ==
  ASSUME Connect \/ Subscribe \/ Refused
  PROVE  /\ UNCHANGED <<broker, closing, closes, place, work, history>>
         /\ producer' \in {producer, "connecting", "connected", "broken"}
         /\ consumer' \in {consumer, "connecting", "connected", "joining", "broken"}
         /\ consumer' # consumer => consumer # "running"
BY DEF Connect, Refused, ConnectProducer, ProducerConnects, ProducerRefused, Producer,
       ConnectConsumer, ConsumerConnects, ConsumerRefused, Subscribe, SubscribeRejected, Consumer

\* Every step keeps the types; it rests on where positions may be.
LEMMA TypeStep == Inv /\ [Next]_vars => TypeOK'
<1> SUFFICES ASSUME Inv, [Next]_vars PROVE TypeOK'
  OBVIOUS
<1> USE Bounds DEF Inv, TypeOK, PlacesInLog, broker, links, joined, place, history
<1>1. CASE Arrive
  BY <1>1 DEF Arrive
<1>2. CASE Connect \/ Subscribe \/ Refused
  BY <1>2, Connecting
<1>3. CASE Join
  <2>1. CASE committed = NoOffset
    <3>1. /\ position' = Len(log) /\ from' = Len(log) /\ consumer' = "running"
          /\ since' \in 0 .. Len(log)
          /\ jumped' \subseteq jumped \cup {i \in since + 1 .. Len(log) : ~ Settled(i)}
          /\ UNCHANGED <<broker, producer, closing, closes, work, history>>
      BY <1>3, <2>1 DEF Join, Begin, Consumer, NoOffset
    <3>2. since + 1 .. Len(log) \subseteq DOMAIN log
      BY DEF NoOffset
    <3>3. QED
      BY <1>3, <3>1, <3>2 DEF Join, NoOffset
  <2>2. CASE committed # NoOffset
    BY <1>3, <2>2 DEF Join, Resume, Consumer, NoOffset
  <2>3. QED
    BY <2>1, <2>2
<1>4. CASE Deliver
  BY <1>4 DEF Deliver, MayDeliver, Current
<1>5. CASE HandlerReturns
  <2>1. runs' \in [Indices -> Nat] /\ UNCHANGED <<broker, links, joined, dropped, crashes>>
    BY <1>5, CountType DEF HandlerReturns
  <2>2. QED
    BY <1>5, <2>1 DEF HandlerReturns, Resolve, Current
<1>6. CASE HandlerThrows
  <2>1. runs' \in [Indices -> Nat] /\ UNCHANGED <<broker, links, joined, taken, crashes>>
    BY <1>6, CountType DEF HandlerThrows
  <2>2. QED
    BY <1>6, <2>1 DEF HandlerThrows, Drop, Resolve, Current
<1>7. CASE ForwardLands \/ ForwardFails
  BY <1>7 DEF ForwardLands, ForwardFails, Drop, Resolve, Current
<1>8. CASE Commit \/ ConsumerGone
  BY <1>8 DEF Commit, ConsumerGone, Committable, NoOffset
<1>9. CASE Disconnect \/ ProducerGone \/ DisconnectRejects
  BY <1>9 DEF Disconnect, ProducerGone, DisconnectRejects
<1>10. CASE Crash
  BY <1>10 DEF Crash
<1>11. CASE UNCHANGED vars
  BY <1>11 DEF vars
<1>12. QED
  BY <1>1, <1>2, <1>3, <1>4, <1>5, <1>6, <1>7, <1>8, <1>9, <1>10, <1>11
     DEF Next, EachMessage, Close

\* The invariant that is inductive.
LEMMA Invariant == Spec => []Inv
<1>1. Init => Inv
  BY Bounds DEF Init, Inv, TypeOK, PlacesInLog, NothingSkipped, CommittedIsSettled,
                NoOffset, Indices
<1>2. Inv /\ [Next]_vars => Inv'
  <2> SUFFICES ASSUME Inv, [Next]_vars PROVE Inv'
    OBVIOUS
  <2>0. TypeOK'
    BY TypeStep
  <2>1. CASE Arrive
    <3>1. ASSUME NEW i \in 1 .. Len(log), Accounted(i) PROVE Accounted(i)'
      BY <2>1, <3>1, AccountedStays DEF Arrive, joined, place, history, Inv, TypeOK
    <3>2. /\ Len(log) <= Len(log')
          /\ UNCHANGED <<committed, consumer, position, from, since>>
      BY <2>1 DEF Arrive, links, joined, place, Inv, TypeOK
    <3>3. PlacesInLog'
      BY <2>0, <3>2 DEF Inv, TypeOK, PlacesInLog, NoOffset
    <3>4. NothingSkipped' /\ CommittedIsSettled'
      BY <3>1, <3>2 DEF Inv, TypeOK, PlacesInLog, NothingSkipped, CommittedIsSettled, NoOffset
    <3>5. QED
      BY <2>0, <3>3, <3>4 DEF Inv
  <2>2. CASE Connect \/ Subscribe \/ Refused
    BY <2>0, <2>2, InPlace, Connecting DEF broker, history
  <2>3. CASE Join
    <3>1. PlacesInLog'
      BY <2>0, <2>3 DEF Join, Begin, Resume, Consumer, broker, Inv, TypeOK, PlacesInLog, NoOffset
    <3>2. \A i : Accounted(i) => Accounted(i)'
      BY <2>3 DEF Join, Begin, Resume, Consumer, broker, history, Accounted, Settled
    <3>3. NothingSkipped' /\ CommittedIsSettled'
      <4>1. CASE committed # NoOffset
        BY <2>3, <3>2, <4>1
           DEF Join, Resume, Consumer, broker, Inv, TypeOK, NothingSkipped, CommittedIsSettled
      <4>2. CASE committed = NoOffset
        <5>1. /\ position' = Len(log) /\ since' \in {since, Len(log)} /\ committed' = committed
              /\ since = NoOffset => since' = Len(log)
              /\ \A i \in since + 1 .. Len(log) : ~ Settled(i) => i \in jumped'
          BY <2>3, <4>2 DEF Join, Begin, Consumer, broker
        <5>2. \A i \in since + 1 .. Len(log) : Accounted(i)'
          BY <3>2, <5>1 DEF Accounted
        <5>3. \A i \in since' + 1 .. position' : i \in since + 1 .. Len(log)
          <6>1. MaxLog \in Nat
            BY Bounds
          <6>2. Len(log) \in Nat /\ since \in Nat
            BY <6>1 DEF Inv, TypeOK, NoOffset
          <6>3. CASE since' = since
            BY <5>1, <6>3
          <6>4. CASE since' = Len(log)
            <7>1. since' + 1 .. position' = {}
              BY <5>1, <6>2, <6>4
            <7>2. QED
              BY <7>1
          <6>5. QED
            BY <5>1, <6>3, <6>4
        <5>4. QED
          BY <4>2, <5>1, <5>2, <5>3 DEF NothingSkipped, CommittedIsSettled
      <4>3. QED
        BY <4>1, <4>2
    <3>4. QED
      BY <2>0, <3>1, <3>3 DEF Inv
  <2>4. CASE Deliver
    <3>1. CASE log[Current] = "empty"
      BY <2>0, <2>4, <3>1, PastCurrent DEF Deliver, MayDeliver, broker, links, joined, history, Accounted, Settled
    <3>2. CASE log[Current] # "empty"
      BY <2>0, <2>4, <3>2, InPlace DEF Deliver, broker, links, joined, place, history
    <3>3. QED
      BY <3>1, <3>2
  <2>5. CASE HandlerReturns
    <3>1. Current \in taken'
      BY <2>5 DEF HandlerReturns
    <3>2. QED
      BY <2>0, <2>5, <3>1, PastCurrent
         DEF HandlerReturns, Resolve, broker, links, joined, Accounted, Settled, Inv, TypeOK
  <2>6. ASSUME Drop, work \in {"handling", "forwarding"},
               UNCHANGED <<log, committed, joined, consumer, taken, dlq>>
        PROVE  Inv'
    BY <2>0, <2>6, PastCurrent DEF Drop, Resolve, joined, Accounted, Settled, Inv, TypeOK
  <2>7. CASE HandlerThrows
    <3>1. CASE producer = "null"
      BY <2>6, <2>7, <3>1 DEF HandlerThrows, broker, links
    <3>2. CASE producer # "null"
      BY <2>0, <2>7, <3>2, InPlace DEF HandlerThrows, broker, links, joined, place
    <3>3. QED
      BY <3>1, <3>2
  <2>8. CASE ForwardLands
    BY <2>0, <2>8, PastCurrent DEF ForwardLands, Resolve, links, joined, history, Accounted, Settled, Inv, TypeOK
  <2>9. CASE ForwardFails
    BY <2>6, <2>9 DEF ForwardFails, broker, links
  <2>10. ASSUME UNCHANGED <<log, place, taken, dlq, dropped>>,
                committed' = IF Committable THEN position ELSE committed,
                consumer' = "running" => consumer = "running"
         PROVE  Inv'
    <3>1. CASE Committable
      <4>1. \A i : Accounted(i) => Accounted(i)'
        BY <2>10 DEF Accounted, Settled, place, joined
      <4>2. QED
        BY <2>0, <2>10, <3>1, <4>1
           DEF Committable, place, joined, Inv, TypeOK, PlacesInLog, NothingSkipped, CommittedIsSettled, NoOffset
    <3>2. CASE ~ Committable
      BY <2>0, <2>10, <3>2, InPlace
    <3>3. QED
      BY <3>1, <3>2
  <2>11. CASE Commit
    BY <2>10, <2>11 DEF Commit, links, history
  <2>12. CASE ConsumerGone
    BY <2>10, <2>12 DEF ConsumerGone, history
  <2>13. CASE Disconnect \/ ProducerGone \/ DisconnectRejects
    BY <2>0, <2>13, InPlace DEF Disconnect, ProducerGone, DisconnectRejects, broker, place, history
  <2>14. CASE Crash
    BY <2>0, <2>14, InPlace DEF Crash, broker
  <2>15. CASE UNCHANGED vars
    BY <2>0, <2>15, InPlace DEF vars, broker, links, history
  <2>16. QED
    BY <2>1, <2>2, <2>3, <2>4, <2>5, <2>7, <2>8, <2>9, <2>11, <2>12, <2>13, <2>14, <2>15
       DEF Next, EachMessage, Close
<1>3. QED
  BY <1>1, <1>2, PTL DEF Spec

\* Nothing is skipped, on the client or at the broker, whatever connects,
\* disconnects, throws, refuses, crashes or is delivered again.
THEOREM NothingLost == Spec => []KafkaInv
<1>1. Inv => KafkaInv
  BY DEF Inv, KafkaInv
<1>2. QED
  BY <1>1, Invariant, PTL

-----------------------------------------------------------------------------
\* The last message the handler may have been given since the last crash: the
\* consumer is past it, or is forwarding it, or will join past it.
LastGiven ==
  IF consumer = "running" THEN IF work = "forwarding" THEN Current ELSE position
  ELSE IF committed = NoOffset THEN Len(log) ELSE committed

\* The messages after that one were handled before the last crash only.
FreshAhead == \A i \in Indices : i > LastGiven => runs[i] <= crashes

\* Short of a crash no message is handled twice.  What a disconnect() leaves
\* uncommitted is behind the end of the log, where the next consumer begins.
THEOREM HandledOnce == Spec => []RedeliveredOnlyAfterCrash
<1> DEFINE Once == RedeliveredOnlyAfterCrash /\ FreshAhead
<1>1. Init => Inv /\ Once
  BY Bounds DEF Init, Inv, TypeOK, PlacesInLog, NothingSkipped, CommittedIsSettled,
                NoOffset, Indices, RedeliveredOnlyAfterCrash, FreshAhead
<1>2. Inv /\ Inv' /\ Once /\ [Next]_vars => Once'
  <2> SUFFICES ASSUME Inv, Inv', RedeliveredOnlyAfterCrash, FreshAhead, [Next]_vars
               PROVE  RedeliveredOnlyAfterCrash' /\ FreshAhead'
    OBVIOUS
  <2> USE Bounds DEF Indices
  <2>0. /\ TypeOK /\ TypeOK'
        /\ LastGiven \in Nat /\ LastGiven' \in Nat
    <3>0. TypeOK /\ TypeOK'
      BY DEF Inv
    <3>1. Len(log) \in Nat /\ Len(log)' \in Nat /\ NoOffset \in Nat
      <4>1. log \in Seq({"event", "empty"}) /\ log' \in Seq({"event", "empty"})
        BY <3>0 DEF TypeOK
      <4>2. Len(log) \in Nat /\ Len(log') \in Nat
        BY <4>1, LenProperties
      <4>3. NoOffset \in Nat
        BY DEF NoOffset
      <4>4. QED
        BY <4>2, <4>3
    <3>2. {position, committed, Len(log)} \cup {position', committed', Len(log)'} \subseteq Nat
      BY <3>0, <3>1 DEF TypeOK
    <3>3. QED
      BY <3>0, <3>2 DEF LastGiven, Current
  <2>1. ASSUME UNCHANGED <<runs, crashes>>, LastGiven <= LastGiven'
        PROVE  RedeliveredOnlyAfterCrash' /\ FreshAhead'
    <3>1. \A i \in Indices : i > LastGiven' => i > LastGiven
      BY <2>0, <2>1
    <3>2. QED
      BY <2>1, <3>1 DEF RedeliveredOnlyAfterCrash, FreshAhead
  <2>2. ASSUME Count \/ UNCHANGED runs, UNCHANGED crashes,
               LastGiven < Current, Current <= LastGiven'
        PROVE  RedeliveredOnlyAfterCrash' /\ FreshAhead'
    <3>0. Current \in Nat /\ crashes \in Nat /\ \A i \in Indices : i \in Nat /\ runs[i] \in Nat
      <4>1. position \in Nat /\ crashes \in Nat /\ runs \in [Indices -> Nat]
        BY <2>0 DEF TypeOK
      <4>2. QED
        BY <4>1 DEF Current
    <3>1. \A i \in Indices : runs'[i] = runs[i] \/ (i = Current /\ runs'[i] = runs[i] + 1)
      <4>1. CASE Count
        <5>1. runs \in [Indices -> Nat] /\ runs' = [runs EXCEPT ![Current] = runs[Current] + 1]
          BY <2>0, <4>1 DEF TypeOK, Count
        <5>2. QED
          BY <5>1
      <4>2. QED
        BY <2>2, <4>1
    <3>2. ASSUME NEW i \in Indices PROVE i > LastGiven' => runs'[i] <= crashes
      <4>1. i > LastGiven' => i # Current /\ i > LastGiven
        BY <2>0, <2>2, <3>0
      <4>2. QED
        BY <3>1, <4>1 DEF FreshAhead
    <3>3. ASSUME NEW i \in Indices PROVE runs'[i] <= 1 + crashes
      <4>1. runs[i] <= 1 + crashes /\ (i > LastGiven => runs[i] <= crashes)
        BY DEF RedeliveredOnlyAfterCrash, FreshAhead
      <4>2. CASE i = Current
        BY <2>0, <2>2, <3>0, <3>1, <4>1, <4>2
      <4>3. CASE i # Current
        BY <3>1, <4>1, <4>3
      <4>4. QED
        BY <4>2, <4>3
    <3>4. QED
      BY <2>2, <3>2, <3>3 DEF RedeliveredOnlyAfterCrash, FreshAhead
  <2>3. CASE Crash
    <3>1. crashes \in Nat /\ crashes' = crashes + 1 /\ UNCHANGED runs /\ runs \in [Indices -> Nat]
      BY <2>0, <2>3 DEF Crash, TypeOK
    <3>2. QED
      BY <3>1 DEF RedeliveredOnlyAfterCrash, FreshAhead
  <2>4. CASE HandlerReturns
    <3>1. LastGiven = position /\ LastGiven' = position' /\ position' = position + 1
      BY <2>0, <2>4 DEF HandlerReturns, Resolve, links, LastGiven, Current, TypeOK
    <3>2. QED
      BY <2>0, <2>2, <2>4, <3>1 DEF HandlerReturns, Current, TypeOK
  <2>5. CASE HandlerThrows
    <3>1. LastGiven = position /\ LastGiven' = position + 1
      BY <2>0, <2>5 DEF HandlerThrows, Drop, Resolve, links, LastGiven, Current, TypeOK
    <3>2. position \in Nat /\ LastGiven < Current /\ Current <= LastGiven'
      BY <2>0, <3>1 DEF Current, TypeOK
    <3>3. QED
      BY <2>2, <2>5, <3>2 DEF HandlerThrows
  <2>6. CASE Arrive
    BY <2>0, <2>1, <2>6 DEF Arrive, history, links, place, joined, LastGiven, Current, TypeOK
  <2>7. CASE Connect \/ Subscribe \/ Refused \/ Disconnect \/ ProducerGone \/ DisconnectRejects
             \/ UNCHANGED vars
    <3>1. /\ UNCHANGED <<broker, place, work, history>>
          /\ consumer' = "running" <=> consumer = "running"
      BY <2>7, Connecting
         DEF Disconnect, ProducerGone, DisconnectRejects, vars, links
    <3>2. QED
      BY <2>0, <2>1, <3>1 DEF broker, place, history, LastGiven, Current
  <2>8. CASE Join
    <3>1. /\ consumer = "joining" /\ consumer' = "running" /\ UNCHANGED <<work, history>>
          /\ position' = IF committed = NoOffset THEN Len(log) ELSE committed
      BY <2>8 DEF Join, Begin, Resume, Consumer
    <3>2. work # "forwarding"
      BY <2>0, <3>1 DEF TypeOK
    <3>3. LastGiven' = LastGiven
      BY <3>1, <3>2 DEF LastGiven
    <3>4. QED
      BY <2>0, <2>1, <3>1, <3>3 DEF history
  <2>9. CASE Deliver
    <3>1. /\ consumer = "running" /\ consumer' = "running"
          /\ work = "idle" /\ work' \in {"idle", "handling"}
          /\ position' \in {position, position + 1} /\ position \in Nat
      BY <2>0, <2>9 DEF Deliver, MayDeliver, links, Current, TypeOK
    <3>2. QED
      BY <2>1, <2>9, <3>1 DEF Deliver, history, LastGiven
  <2>10. CASE ForwardLands \/ ForwardFails
    BY <2>0, <2>1, <2>10
       DEF ForwardLands, ForwardFails, Drop, Resolve, broker, links, history, LastGiven, Current, TypeOK
  <2>11. CASE Commit
    BY <2>0, <2>1, <2>11 DEF Commit, Committable, links, place, joined, history, LastGiven, Current
  <2>12. CASE ConsumerGone
    BY <2>0, <2>1, <2>12
       DEF ConsumerGone, Committable, place, joined, history, LastGiven, Inv, TypeOK, PlacesInLog, NoOffset
  <2>13. QED
    BY <2>3, <2>4, <2>5, <2>6, <2>7, <2>8, <2>9, <2>10, <2>11, <2>12
       DEF Next, EachMessage, Close
<1>3. Once => RedeliveredOnlyAfterCrash
  OBVIOUS
<1>4. QED
  BY <1>1, <1>2, <1>3, Invariant, PTL DEF Spec

-----------------------------------------------------------------------------
(* ModuleAnnouncement                                                      *)
-----------------------------------------------------------------------------
(* The rounds. *)

Manifests == [version : 1 .. MaxVersion, dependencies : Declarations]
Messages == {BuildAnnouncementMessage(m) : m \in Manifests}

\* A message tells of a manifest at least as new as version `oldest`.
Newer(message, oldest) ==
  \E m \in ToSet(message.payload) : m[1] = "version" /\ m[2] >= oldest
Delivered(r) == \E i \in DOMAIN topic : topic[i].by = r /\ Newer(topic[i].message, round[r].since)

Started == [pc : {"connecting", "sending", "disconnecting", "notifying", "done"},
            since : 1 .. MaxVersion, via : Rounds \cup {None},
            message : Messages \cup {None}, clean : BOOLEAN, alone : BOOLEAN]

RoundTypes ==
  /\ manifest \in Manifests
  /\ current \in Rounds \cup {None}
  /\ link \in [Rounds -> {"new", "on", "off"}]
  /\ round \in [Rounds -> {Idle} \cup Started]
  /\ \A r \in Rounds : ~ At(r, "idle") => round[r].since <= manifest.version
  /\ \A r \in Rounds : At(r, "sending") => round[r].message \in Messages /\ round[r].via \in Rounds
  /\ \A r \in Rounds : At(r, "disconnecting") => round[r].via \in Rounds
  /\ \A r \in Rounds : Under(r) => current \in Rounds
  /\ topic \in Seq([by : Rounds, message : Messages])
  /\ notices \subseteq Rounds

\* What a round no other overlaps has to itself on its way.
Undisturbed(r) ==
  round[r].alone =>
    /\ Under(r) => current = r /\ \A q \in Rounds : Under(q) => q = r
    /\ At(r, "sending") => /\ round[r].via = r /\ link[r] = "on"
                           /\ Newer(round[r].message, round[r].since)
    /\ At(r, "disconnecting") => round[r].via = r /\ link[r] = "on" /\ Delivered(r)
    /\ (round[r].pc \in {"notifying", "done"} /\ round[r].clean) => link[r] = "off" /\ Delivered(r)

RoundsInv == RoundTypes /\ \A r \in Rounds : ~ At(r, "idle") => Undisturbed(r)

LEMMA MessageOfManifest ==
  ASSUME NEW m \in Manifests
  PROVE  /\ BuildAnnouncementMessage(m) \in Messages
         /\ \A oldest \in Nat : oldest <= m.version => Newer(BuildAnnouncementMessage(m), oldest)
<1> DEFINE payload == SignedPart(m)
<1>1. 4 \in DOMAIN payload /\ payload[4] = <<"version", m.version>>
  BY DEF SignedPart
<1>2. payload[4] \in ToSet(payload)
  BY <1>1 DEF ToSet
<1>3. BuildAnnouncementMessage(m).payload = payload
  BY DEF BuildAnnouncementMessage
<1> HIDE DEF payload
<1>4. ASSUME NEW oldest \in Nat, oldest <= m.version
      PROVE  Newer(BuildAnnouncementMessage(m), oldest)
  <2>1. m.version \in Nat
    BY DEF Manifests
  <2>2. payload[4][1] = "version" /\ payload[4][2] >= oldest
    BY <1>1, <1>4, <2>1
  <2>3. QED
    BY <1>2, <1>3, <2>2 DEF Newer
<1>5. QED
  BY <1>4 DEF Messages

LEMMA RoundsInvInit == ASSUME BoundedVersions, RoundsInit PROVE RoundsInv
<1>1. manifest \in Manifests
  BY DEF BoundedVersions, RoundsInit, Manifests
<1>2. \A r \in Rounds : round[r] = Idle /\ At(r, "idle")
  BY DEF RoundsInit, At, Idle
<1>3. RoundTypes
  BY <1>1, <1>2 DEF RoundsInit, RoundTypes, At, Under
<1>4. QED
  BY <1>2, <1>3 DEF RoundsInv

\* What is on the topic stays there.
LEMMA DeliveredStays ==
  ASSUME RoundTypes, NEW r \in Rounds, Delivered(r), round'[r].since = round[r].since,
         \/ topic' = topic
         \/ \E m \in [by : Rounds, message : Messages] : topic' = Append(topic, m)
  PROVE  Delivered(r)'
<1>1. PICK i \in DOMAIN topic : topic[i].by = r /\ Newer(topic[i].message, round[r].since)
  BY DEF Delivered
<1>2. i \in DOMAIN topic' /\ topic'[i] = topic[i]
  BY <1>1 DEF RoundTypes
<1>3. QED
  BY <1>1, <1>2 DEF Delivered, Newer

\* A step of one round that leaves the others, and who the producer is, alone.
LEMMA OthersUndisturbed ==
  ASSUME RoundsInv, NEW r \in Rounds, Under(r),
         current' = current, UNCHANGED manifest,
         NEW new \in Started, round' = [round EXCEPT ![r] = new],
         new.since = round[r].since, new.alone = round[r].alone,
         \A q \in Rounds : link'[q] = link[q] \/ (link[q] = "on" /\ link'[q] = "off")
                           \/ q = r,
         \/ topic' = topic
         \/ \E m \in [by : Rounds, message : Messages] : topic' = Append(topic, m),
         NEW q \in Rounds \ {r}, ~ At(q, "idle")
  PROVE  Undisturbed(q)'
<1>1. round'[q] = round[q] /\ round'[r] = new
  BY DEF RoundsInv, RoundTypes
<1>2. ASSUME round[q].alone PROVE ~ Under(q)
  BY <1>2 DEF RoundsInv, Undisturbed
<1>3. ASSUME round[q].alone, round[q].pc \in {"notifying", "done"}, round[q].clean
      PROVE  link'[q] = "off" /\ Delivered(q)'
  <2>1. link[q] = "off" /\ Delivered(q)
    BY <1>3 DEF RoundsInv, Undisturbed
  <2>2. QED
    BY <2>1, <1>1, DeliveredStays DEF RoundsInv
<1>4. QED
  BY <1>1, <1>2, <1>3 DEF Undisturbed, Under, At

LEMMA EditManifestKeeps == ASSUME BoundedVersions, RoundsInv, EditManifest PROVE RoundsInv'
<1>1. manifest' \in Manifests /\ manifest.version <= manifest'.version
  BY DEF BoundedVersions, RoundsInv, RoundTypes, EditManifest, Manifests
<1>2. \A r \in Rounds : ~ At(r, "idle") => round[r].since \in Nat
  BY DEF RoundsInv, RoundTypes, Started, Idle, At
<1>3. RoundTypes'
  BY <1>1, <1>2 DEF RoundsInv, RoundTypes, EditManifest, At, Under, Manifests
<1>4. QED
  BY <1>3 DEF RoundsInv, EditManifest, Undisturbed, Delivered, Under, At

\* A round that starts disturbs those that are under way.
LEMMA StartKeeps ==
  ASSUME BoundedVersions, RoundsInv, NEW r \in Rounds, Start(r)
  PROVE  RoundsInv'
<1> DEFINE new == [pc |-> "connecting", since |-> manifest.version, via |-> None,
                   message |-> None, clean |-> TRUE,
                   alone |-> \A q \in Rounds : ~ Under(q)]
<1>1. new \in Started /\ new.since = manifest.version /\ new.pc = "connecting"
  BY DEF RoundsInv, RoundTypes, Manifests, Started
<1>2. new.alone => \A q \in Rounds : ~ Under(q)
  OBVIOUS
<1>3. round'[r] = new
  BY DEF Start, RoundsInv, RoundTypes
<1>4. ASSUME NEW q \in Rounds \ {r}
      PROVE  /\ round'[q] \in {Idle} \cup Started
             /\ round'[q].pc = round[q].pc
             /\ ~ At(q, "idle") => /\ round'[q].since = round[q].since
                                   /\ round'[q].via = round[q].via
                                   /\ round'[q].message = round[q].message
             /\ ~ Under(q) => round'[q] = round[q]
             /\ Under(q) => ~ round'[q].alone
  <2>1. CASE Under(q)
    <3>1. round[q] \in Started
      BY <2>1 DEF Under, RoundsInv, RoundTypes, Idle
    <3>2. round'[q] = [round[q] EXCEPT !.alone = FALSE]
      BY <2>1 DEF Start, RoundsInv, RoundTypes
    <3>3. QED
      BY <2>1, <3>1, <3>2 DEF Started
  <2>2. CASE ~ Under(q)
    BY <2>2 DEF Start, RoundsInv, RoundTypes
  <2>3. QED
    BY <2>1, <2>2
<1> HIDE DEF new
<1>5. RoundTypes'
  <2>1. round' \in [Rounds -> {Idle} \cup Started]
    BY <1>1, <1>3, <1>4 DEF Start
  <2>2. \A q \in Rounds : ~ At(q, "idle")' => round'[q].since <= manifest'.version
    BY <1>1, <1>3, <1>4 DEF Start, At, RoundsInv, RoundTypes, Manifests
  <2>3. \A q \in Rounds : /\ At(q, "sending")' => round'[q].message \in Messages /\ round'[q].via \in Rounds
                          /\ At(q, "disconnecting")' => round'[q].via \in Rounds
    BY <1>1, <1>3, <1>4 DEF At, RoundsInv, RoundTypes
  <2>4. QED
    BY <2>1, <2>2, <2>3 DEF Start, RoundsInv, RoundTypes
<1>6. Undisturbed(r)'
  BY <1>1, <1>2, <1>3, <1>4 DEF Undisturbed, Start, Under, At
<1>7. ASSUME NEW q \in Rounds \ {r}, ~ At(q, "idle")'
      PROVE  Undisturbed(q)'
  <2>1. CASE Under(q)
    BY <2>1, <1>4 DEF Undisturbed
  <2>2. CASE ~ Under(q)
    <3>1. round'[q] = round[q] /\ ~ Under(q)' /\ ~ At(q, "idle") /\ UNCHANGED <<link, topic>>
      BY <1>4, <1>7, <2>2 DEF Start, Under, At
    <3>2. ASSUME Delivered(q) PROVE Delivered(q)'
      BY <3>1, <3>2 DEF Delivered
    <3>3. Undisturbed(q)
      BY <3>1 DEF RoundsInv
    <3>4. QED
      BY <3>1, <3>2, <3>3 DEF Undisturbed, Under, At
  <2>3. QED
    BY <2>1, <2>2
<1>8. QED
  BY <1>5, <1>6, <1>7 DEF RoundsInv

LEMMA ConnectedKeeps ==
  ASSUME BoundedVersions, RoundsInv, NEW r \in Rounds, Connected(r)
  PROVE  RoundsInv'
<1> DEFINE new == [round[r] EXCEPT !.pc = "sending", !.via = current,
                                   !.message = BuildAnnouncementMessage(manifest)]
<1>1. round[r] \in Started /\ Under(r) /\ ~ At(r, "idle") /\ current \in Rounds
  BY DEF Connected, RoundsInv, RoundTypes, At, Under, Idle
<1>2. /\ BuildAnnouncementMessage(manifest) \in Messages
      /\ Newer(BuildAnnouncementMessage(manifest), round[r].since)
  BY <1>1, MessageOfManifest DEF RoundsInv, RoundTypes, Started
<1>3. /\ new \in Started /\ new.pc = "sending" /\ new.via = current
      /\ new.message = BuildAnnouncementMessage(manifest)
      /\ new.since = round[r].since /\ new.alone = round[r].alone
  BY <1>1, <1>2 DEF Started
<1>4. round' = [round EXCEPT ![r] = new] /\ round'[r] = new
  BY DEF Connected, RoundsInv, RoundTypes
<1> HIDE DEF new
<1>5. RoundTypes'
  BY <1>1, <1>2, <1>3, <1>4 DEF Connected, RoundsInv, RoundTypes, At, Under
<1>6. Undisturbed(r)'
  <2>1. link'[r] = "on"
    BY DEF Connected, RoundsInv, RoundTypes
  <2>2. ASSUME round[r].alone
        PROVE  current = r /\ \A q \in Rounds : Under(q)' => q = r
    BY <1>1, <1>3, <1>4, <2>2 DEF RoundsInv, RoundTypes, Undisturbed, Under
  <2>3. current' = current
    BY DEF Connected
  <2>4. QED
    BY <1>2, <1>3, <1>4, <2>1, <2>2, <2>3 DEF Undisturbed, At, Under
<1>7. ASSUME NEW q \in Rounds \ {r}, ~ At(q, "idle")'
      PROVE  Undisturbed(q)'
  <2>1. ~ At(q, "idle")
    BY <1>4, <1>7 DEF At, RoundsInv, RoundTypes
  <2>2. \A s \in Rounds : link'[s] = link[s] \/ s = r
    BY DEF Connected, RoundsInv, RoundTypes
  <2>3. QED
    BY <1>1, <1>3, <1>4, <2>1, <2>2, OthersUndisturbed DEF Connected
<1>8. QED
  BY <1>5, <1>6, <1>7 DEF RoundsInv

\* Who is refused is no clean round; a lone one that fails was refused.
LEMMA FailsKeeps ==
  ASSUME RoundsInv, NEW r \in Rounds, Under(r), NEW refused \in BOOLEAN, Fails(r, refused),
         round[r].alone => refused,
         UNCHANGED <<manifest, current, link, topic, notices>>
  PROVE  RoundsInv'
<1> DEFINE new == [round[r] EXCEPT !.pc = "notifying", !.clean = @ /\ ~ refused]
<1>1. round[r] \in Started /\ ~ At(r, "idle")
  BY DEF RoundsInv, RoundTypes, At, Under, Idle
<1>2. /\ new \in Started /\ new.pc = "notifying" /\ new.since = round[r].since
      /\ new.alone = round[r].alone /\ (refused => ~ new.clean)
  BY <1>1 DEF Started
<1>3. round' = [round EXCEPT ![r] = new] /\ round'[r] = new
  BY DEF Fails, RoundsInv, RoundTypes
<1> HIDE DEF new
<1>4. RoundTypes'
  BY <1>1, <1>2, <1>3 DEF RoundsInv, RoundTypes, At, Under
<1>5. Undisturbed(r)'
  BY <1>2, <1>3 DEF Undisturbed, At, Under
<1>6. ASSUME NEW q \in Rounds \ {r}, ~ At(q, "idle")'
      PROVE  Undisturbed(q)'
  <2>1. ~ At(q, "idle")
    BY <1>3, <1>6 DEF At, RoundsInv, RoundTypes
  <2>2. QED
    BY <1>2, <1>3, <2>1, OthersUndisturbed
<1>7. QED
  BY <1>4, <1>5, <1>6 DEF RoundsInv

LEMMA SentKeeps ==
  ASSUME RoundsInv, NEW r \in Rounds, Sent(r)
  PROVE  RoundsInv'
<1> DEFINE new == [round[r] EXCEPT !.pc = "disconnecting", !.via = current]
           entry == [by |-> r, message |-> round[r].message]
<1>1. /\ round[r] \in Started /\ Under(r) /\ ~ At(r, "idle")
      /\ round[r].message \in Messages /\ current \in Rounds
  BY DEF Sent, RoundsInv, RoundTypes, At, Under, Idle
<1>2. /\ new \in Started /\ new.pc = "disconnecting" /\ new.via = current
      /\ new.since = round[r].since /\ new.alone = round[r].alone
  BY <1>1 DEF Started
<1>3. round' = [round EXCEPT ![r] = new] /\ round'[r] = new
  BY DEF Sent, RoundsInv, RoundTypes
<1>4. /\ entry \in [by : Rounds, message : Messages] /\ entry.by = r
      /\ entry.message = round[r].message /\ topic' = Append(topic, entry)
  BY <1>1 DEF Sent
<1> HIDE DEF new, entry
<1>5. RoundTypes'
  <2>1. topic' \in Seq([by : Rounds, message : Messages])
    BY <1>4, AppendProperties DEF RoundsInv, RoundTypes
  <2>2. QED
    BY <1>1, <1>2, <1>3, <2>1 DEF Sent, RoundsInv, RoundTypes, At, Under
<1>6. Undisturbed(r)'
  <2>1. ASSUME round[r].alone
        PROVE  /\ current = r /\ link[r] = "on" /\ \A q \in Rounds : Under(q)' => q = r
               /\ Newer(round[r].message, round[r].since)
    BY <1>1, <1>2, <1>3, <2>1 DEF Sent, RoundsInv, RoundTypes, Undisturbed, Under
  <2>2. ASSUME Newer(round[r].message, round[r].since)
        PROVE  Delivered(r)'
    <3>1. Len(topic) + 1 \in DOMAIN topic' /\ topic'[Len(topic) + 1] = entry
      BY <1>4, AppendProperties DEF RoundsInv, RoundTypes
    <3>2. QED
      BY <1>2, <1>3, <1>4, <2>2, <3>1 DEF Delivered, Newer
  <2>3. UNCHANGED <<current, link>>
    BY DEF Sent
  <2>4. QED
    BY <1>2, <1>3, <2>1, <2>2, <2>3 DEF Undisturbed, At, Under
<1>7. ASSUME NEW q \in Rounds \ {r}, ~ At(q, "idle")'
      PROVE  Undisturbed(q)'
  <2>1. ~ At(q, "idle")
    BY <1>3, <1>7 DEF At, RoundsInv, RoundTypes
  <2>2. QED
    BY <1>1, <1>2, <1>3, <1>4, <2>1, OthersUndisturbed DEF Sent
<1>8. QED
  BY <1>5, <1>6, <1>7 DEF RoundsInv

LEMMA DisconnectedKeeps ==
  ASSUME RoundsInv, NEW r \in Rounds, Disconnected(r)
  PROVE  RoundsInv'
<1> DEFINE new == [round[r] EXCEPT !.pc = "notifying"]
<1>1. round[r] \in Started /\ Under(r) /\ ~ At(r, "idle") /\ round[r].via \in Rounds
  BY DEF Disconnected, RoundsInv, RoundTypes, At, Under, Idle
<1>2. /\ new \in Started /\ new.pc = "notifying"
      /\ new.since = round[r].since /\ new.alone = round[r].alone
  BY <1>1 DEF Started
<1>3. round' = [round EXCEPT ![r] = new] /\ round'[r] = new
  BY DEF Disconnected, Goes, RoundsInv, RoundTypes
<1> HIDE DEF new
<1>4. /\ link' \in [Rounds -> {"new", "on", "off"}]
      /\ \A q \in Rounds : link'[q] = link[q] \/ (link[q] = "on" /\ link'[q] = "off")
  BY <1>1 DEF Disconnected, RoundsInv, RoundTypes
<1>5. RoundTypes'
  BY <1>1, <1>2, <1>3, <1>4 DEF Disconnected, RoundsInv, RoundTypes, At, Under
<1>6. Undisturbed(r)'
  <2>1. ASSUME round[r].alone
        PROVE  link'[r] = "off" /\ Delivered(r)'
    <3>1. round[r].via = r /\ link[r] = "on" /\ Delivered(r)
      BY <1>1, <2>1 DEF Disconnected, RoundsInv, Undisturbed
    <3>2. QED
      BY <1>2, <1>3, <3>1, DeliveredStays DEF Disconnected, RoundsInv, RoundTypes
  <2>2. QED
    BY <1>2, <1>3, <2>1 DEF Undisturbed, At, Under
<1>7. ASSUME NEW q \in Rounds \ {r}, ~ At(q, "idle")'
      PROVE  Undisturbed(q)'
  <2>1. ~ At(q, "idle")
    BY <1>3, <1>7 DEF At, RoundsInv, RoundTypes
  <2>2. QED
    BY <1>1, <1>2, <1>3, <1>4, <2>1, OthersUndisturbed DEF Disconnected
<1>8. QED
  BY <1>5, <1>6, <1>7 DEF RoundsInv

LEMMA NotifyKeeps ==
  ASSUME RoundsInv, NEW r \in Rounds, Notify(r)
  PROVE  RoundsInv'
<1> DEFINE new == [round[r] EXCEPT !.pc = "done"]
<1>1. round[r] \in Started /\ ~ At(r, "idle")
  BY DEF Notify, RoundsInv, RoundTypes, At, Idle
<1>2. /\ new \in Started /\ new.pc = "done" /\ new.since = round[r].since
      /\ new.alone = round[r].alone /\ new.clean = round[r].clean
  BY <1>1 DEF Started
<1>3. round' = [round EXCEPT ![r] = new] /\ round'[r] = new
  BY DEF Notify, Goes, RoundsInv, RoundTypes
<1> HIDE DEF new
<1>4. RoundTypes'
  BY <1>1, <1>2, <1>3 DEF Notify, RoundsInv, RoundTypes, At, Under
<1>5. ASSUME NEW q \in Rounds, ~ At(q, "idle")'
      PROVE  Undisturbed(q)'
  <2>1. \A s \in Rounds : Under(s)' <=> Under(s)
    BY <1>2, <1>3 DEF Notify, At, Under, RoundsInv, RoundTypes
  <2>2. /\ round'[q].since = round[q].since /\ round'[q].alone = round[q].alone
        /\ round'[q].clean = round[q].clean /\ round'[q].via = round[q].via
        /\ round'[q].message = round[q].message
        /\ round'[q].pc = round[q].pc \/ (q = r /\ round'[q].pc = "done")
    BY <1>1, <1>2, <1>3 DEF RoundsInv, RoundTypes, new
  <2>3. Undisturbed(q)
    BY <1>1, <1>3, <1>5 DEF RoundsInv, RoundTypes, At
  <2>4. Delivered(q) => Delivered(q)'
    BY <2>2 DEF Notify, Delivered
  <2>5. QED
    BY <2>1, <2>2, <2>3, <2>4 DEF Notify, Undisturbed, At
<1>6. QED
  BY <1>4, <1>5 DEF RoundsInv

LEMMA RoundsInvStep ==
  ASSUME BoundedVersions, RoundsInv, [RoundsNext]_roundVars
  PROVE  RoundsInv'
<1>1. CASE EditManifest
  BY <1>1, EditManifestKeeps
<1>2. ASSUME NEW r \in Rounds, Start(r) PROVE RoundsInv'
  BY <1>2, StartKeeps
<1>3. ASSUME NEW r \in Rounds, Steps(r) PROVE RoundsInv'
  <2>1. CASE Connected(r)
    BY <2>1, ConnectedKeeps
  <2>2. CASE ConnectFails(r)
    BY <2>2, FailsKeeps DEF ConnectFails, At, Under
  <2>3. CASE Sent(r)
    BY <2>3, SentKeeps
  <2>4. CASE SendFails(r)
    <3>1. Under(r) /\ ~ At(r, "idle")
      BY <2>4 DEF SendFails, At, Under
    <3>2. round[r].alone => link[round[r].via] = "on"
      BY <2>4, <3>1 DEF SendFails, RoundsInv, Undisturbed
    <3>3. QED
      BY <2>4, <3>1, <3>2, FailsKeeps DEF SendFails
  <2>5. CASE Disconnected(r)
    BY <2>5, DisconnectedKeeps
  <2>6. CASE DisconnectFails(r)
    BY <2>6, FailsKeeps DEF DisconnectFails, At, Under
  <2>7. CASE Notify(r)
    BY <2>7, NotifyKeeps
  <2>8. QED
    BY <1>3, <2>1, <2>2, <2>3, <2>4, <2>5, <2>6, <2>7 DEF Steps
<1>4. CASE UNCHANGED roundVars
  BY <1>4 DEF roundVars, RoundsInv, RoundTypes, Undisturbed, Delivered, Newer, At, Under
<1>5. QED
  BY <1>1, <1>2, <1>3, <1>4 DEF RoundsNext, Finished

\* Rounds that overlap or not, edits of the manifest and refusals of the broker
\* in any order: what announce() keeps is of its types, and a round no other
\* overlaps and the broker does not refuse puts a manifest no older than it
\* found on the topic and closes its connection.
THEOREM AnnouncementInvariant == RoundsSpec => []AnnouncementInv
<1>1. RoundsInit => RoundsInv
  BY RoundsInvInit, BoundedVersions
<1>2. RoundsInv /\ [RoundsNext]_roundVars => RoundsInv'
  BY RoundsInvStep, BoundedVersions
<1>3. RoundsInv => AnnouncementInv
  <2> SUFFICES ASSUME RoundsInv PROVE AnnouncementInv
    OBVIOUS
  <2>2. RoundsTypeOK
    <3>1. ASSUME NEW r \in Rounds, round[r] \in Started
          PROVE  /\ round[r].pc \in {"connecting", "sending", "disconnecting", "notifying", "done"}
                 /\ round[r].since \in 1 .. manifest.version
                 /\ round[r].via \in Rounds \cup {None}
      BY <3>1, BoundedVersions DEF RoundsInv, RoundTypes, Manifests, Started, At
    <3>2. \A r \in Rounds : round[r] = Idle \/ round[r] \in Started
      BY DEF RoundsInv, RoundTypes
    <3>3. QED
      BY <3>1, <3>2 DEF RoundsInv, RoundTypes, RoundsTypeOK, Manifests
  <2>3. LoneRoundsDeliver
    <3>1. SUFFICES ASSUME NEW r \in Rounds, round[r].alone, round[r].clean,
                          round[r].pc \in {"notifying", "done"}
                   PROVE  link[r] = "off" /\ Delivered(r)
      BY DEF LoneRoundsDeliver, Delivered, Newer
    <3>2. Undisturbed(r)
      BY <3>1 DEF RoundsInv, At
    <3>3. QED
      BY <3>1, <3>2 DEF Undisturbed
  <2>4. QED
    BY <2>2, <2>3 DEF AnnouncementInv
<1>4. QED
  BY <1>1, <1>2, <1>3, PTL DEF RoundsSpec

-----------------------------------------------------------------------------
(* The signature.                                                           *)

\* The members a, b, c and e of an object, their keys in order, number as
\* many before each as its place says.
LEMMA BeforeInOrder ==
  ASSUME NEW a, NEW b, NEW c, NEW e,
         Place[a[1]] = 2, Place[b[1]] = 3, Place[c[1]] = 4, Place[e[1]] = 6
  PROVE  LET S == {a, b, c, e}
         IN /\ IsFiniteSet(S) /\ Cardinality(S) = 4
            /\ Cardinality(Before(a, S)) = 0 /\ Cardinality(Before(b, S)) = 1
            /\ Cardinality(Before(c, S)) = 2 /\ Cardinality(Before(e, S)) = 3
<1> DEFINE S == {a, b, c, e}
<1>1. a # b /\ a # c /\ a # e /\ b # c /\ b # e /\ c # e
  OBVIOUS
<1>2. /\ Before(a, S) = {} /\ Before(b, S) = {a}
      /\ Before(c, S) = {a} \cup {b} /\ Before(e, S) = ({a} \cup {b}) \cup {c}
  BY DEF Before
<1>3. S = (({a} \cup {b}) \cup {c}) \cup {e}
  OBVIOUS
<1>4. IsFiniteSet({a}) /\ Cardinality({a}) = 1
  BY FS_Singleton
<1>5. IsFiniteSet({a} \cup {b}) /\ Cardinality({a} \cup {b}) = 2
  <2>1. b \notin {a}
    BY <1>1
  <2>2. /\ IsFiniteSet({a} \cup {b})
        /\ Cardinality({a} \cup {b}) = IF b \in {a} THEN Cardinality({a}) ELSE Cardinality({a}) + 1
    BY <1>4, FS_AddElement
  <2>3. QED
    BY <2>1, <2>2, <1>4
<1>6. c \notin {a} \cup {b} /\ e \notin ({a} \cup {b}) \cup {c}
  BY <1>1
<1> DEFINE two == {a} \cup {b}
           three == two \cup {c}
<1>7. IsFiniteSet(three) /\ Cardinality(three) = 3
  <2> HIDE DEF two
  <2>1. c \notin two /\ IsFiniteSet(two) /\ Cardinality(two) = 2
    BY <1>5, <1>6 DEF two
  <2>2. IsFiniteSet(two \cup {c}) /\ Cardinality(two \cup {c}) = Cardinality(two) + 1
    BY <2>1, FS_AddElement
  <2>3. QED
    BY <2>1, <2>2
<1>8. IsFiniteSet(S) /\ Cardinality(S) = 4
  <2>1. e \notin three /\ S = three \cup {e}
    BY <1>3, <1>6
  <2> HIDE DEF three, S
  <2>2. IsFiniteSet(three \cup {e}) /\ Cardinality(three \cup {e}) = Cardinality(three) + 1
    BY <1>7, <2>1, FS_AddElement
  <2>3. QED
    BY <1>7, <2>1, <2>2
<1>9. Cardinality(Before(a, S)) = 0
  BY <1>2, FS_EmptySet
<1>10. QED
  BY <1>2, <1>4, <1>5, <1>7, <1>8, <1>9

\* In whatever order its four members come, they are sorted into one.
LEMMA SortedOfFour ==
  ASSUME NEW a, NEW b, NEW c, NEW e,
         Place[a[1]] = 2, Place[b[1]] = 3, Place[c[1]] = 4, Place[e[1]] = 6,
         NEW o \in SetToSeqs({a, b, c, e})
  PROVE  /\ DOMAIN o = 1 .. 4
         /\ Sorted(o) = [i \in 1 .. 4 |-> IF i = 1 THEN a ELSE IF i = 2 THEN b
                                          ELSE IF i = 3 THEN c ELSE e]
<1> DEFINE S == {a, b, c, e}
<1>1. /\ Cardinality(S) = 4
      /\ Cardinality(Before(a, S)) = 0 /\ Cardinality(Before(b, S)) = 1
      /\ Cardinality(Before(c, S)) = 2 /\ Cardinality(Before(e, S)) = 3
  BY BeforeInOrder
<1>2. o \in [1 .. 4 -> S] /\ \A i, j \in 1 .. 4 : i # j => o[i] # o[j]
  BY <1>1 DEF SetToSeqs
<1>3. ToSet(o) = S
  <2>1. /\ o[1] \in S /\ o[2] \in S /\ o[3] \in S /\ o[4] \in S
        /\ o[1] # o[2] /\ o[1] # o[3] /\ o[1] # o[4]
        /\ o[2] # o[3] /\ o[2] # o[4] /\ o[3] # o[4]
    BY <1>2
  <2>2. S \subseteq {o[1], o[2], o[3], o[4]}
    BY <2>1
  <2>3. {o[1], o[2], o[3], o[4]} \subseteq ToSet(o) /\ ToSet(o) \subseteq S
    BY <1>2 DEF ToSet
  <2>4. QED
    BY <2>2, <2>3
<1>4. /\ (CHOOSE m \in S : Cardinality(Before(m, S)) = 0) = a
      /\ (CHOOSE m \in S : Cardinality(Before(m, S)) = 1) = b
      /\ (CHOOSE m \in S : Cardinality(Before(m, S)) = 2) = c
      /\ (CHOOSE m \in S : Cardinality(Before(m, S)) = 3) = e
  BY <1>1
<1>5. DOMAIN o = 1 .. 4
  BY <1>2
<1>6. Sorted(o) = [i \in 1 .. 4 |-> CHOOSE m \in S : Cardinality(Before(m, S)) = i - 1]
  BY <1>3, <1>5 DEF Sorted
<1>7. \A i \in 1 .. 4 : (CHOOSE m \in S : Cardinality(Before(m, S)) = i - 1)
                        = IF i = 1 THEN a ELSE IF i = 2 THEN b ELSE IF i = 3 THEN c ELSE e
  <2>1. ASSUME NEW i \in 1 .. 4
        PROVE  (CHOOSE m \in S : Cardinality(Before(m, S)) = i - 1)
               = IF i = 1 THEN a ELSE IF i = 2 THEN b ELSE IF i = 3 THEN c ELSE e
    <3>1. i = 1 \/ i = 2 \/ i = 3 \/ i = 4
      OBVIOUS
    <3> HIDE DEF S
    <3>2. QED
      BY <3>1, <1>4
  <2>2. QED
    BY <2>1
<1>8. QED
  BY <1>5, <1>6, <1>7

LEMMA SortedOfTwo ==
  ASSUME NEW a, NEW b, Place[a[1]] = 1, Place[b[1]] = 5, NEW d \in SetToSeqs({a, b})
  PROVE  Sorted(d) = [i \in 1 .. 2 |-> IF i = 1 THEN a ELSE b]
<1> DEFINE S == {a, b}
<1>1. a # b /\ S = {a} \cup {b}
  OBVIOUS
<1>2. IsFiniteSet({a}) /\ Cardinality({a}) = 1
  BY FS_Singleton
<1>3. Cardinality(S) = 2
  <2>1. b \notin {a}
    BY <1>1
  <2>2. QED
    BY <2>1, <1>1, <1>2, FS_AddElement
<1>4. Before(a, S) = {} /\ Before(b, S) = {a}
  BY DEF Before
<1>5. Cardinality(Before(a, S)) = 0 /\ Cardinality(Before(b, S)) = 1
  BY <1>2, <1>4, FS_EmptySet
<1>6. d \in [1 .. 2 -> S] /\ d[1] # d[2]
  BY <1>3 DEF SetToSeqs
<1>7. ToSet(d) = S
  <2>1. d[1] \in S /\ d[2] \in S /\ d[1] # d[2]
    BY <1>6
  <2>2. S \subseteq {d[1], d[2]}
    BY <2>1
  <2>3. {d[1], d[2]} \subseteq ToSet(d) /\ ToSet(d) \subseteq S
    BY <1>6 DEF ToSet
  <2>4. QED
    BY <2>2, <2>3
<1>8. DOMAIN d = 1 .. 2
  BY <1>6
<1>9. Sorted(d) = [i \in 1 .. 2 |-> CHOOSE m \in S : Cardinality(Before(m, S)) = i - 1]
  BY <1>7, <1>8 DEF Sorted
<1>10. /\ (CHOOSE m \in S : Cardinality(Before(m, S)) = 0) = a
       /\ (CHOOSE m \in S : Cardinality(Before(m, S)) = 1) = b
  BY <1>5
<1>11. ASSUME NEW i \in 1 .. 2
       PROVE  (CHOOSE m \in S : Cardinality(Before(m, S)) = i - 1) = IF i = 1 THEN a ELSE b
  <2>1. i = 1 \/ i = 2
    OBVIOUS
  <2> HIDE DEF S
  <2>2. QED
    BY <2>1, <1>10
<1>12. QED
  BY <1>9, <1>11

\* Every order of the dependencies, sorted, is one and the same.
LEMMA DependenciesSort ==
  ASSUME NEW m, NEW d \in Orders(NormaliseDependenciesV2(m.dependencies))
  PROVE  Sorted(d) = Sorted(NormaliseDependenciesV2(m.dependencies))
<1> DEFINE deps == NormaliseDependenciesV2(m.dependencies)
<1>1. PICK x, y : deps = <<<<"platform", x>>, <<"business", y>>>>
  <2> DEFINE raw == m.dependencies
  <2>1. CASE raw.kind = "list"
    <3>1. deps = <<<<"platform", raw.items>>, <<"business", <<>>>>>>
      BY <2>1 DEF NormaliseDependenciesV2
    <3>2. QED
      BY <3>1
  <2>2. CASE raw.kind = "object"
    <3>1. deps = <<<<"platform", Strings(SelectSeq(raw.items, LAMBDA n : n[1] # "business"))>>,
                   <<"business", Strings(Item(raw.items, "business"))>>>>
      BY <2>2 DEF NormaliseDependenciesV2
    <3>2. QED
      BY <3>1
  <2>3. CASE raw.kind # "list" /\ raw.kind # "object"
    <3>1. deps = <<<<"platform", <<>>>>, <<"business", <<>>>>>>
      BY <2>3 DEF NormaliseDependenciesV2
    <3>2. QED
      BY <3>1
  <2>4. QED
    BY <2>1, <2>2, <2>3
<1> DEFINE a == <<"business", y>>
           b == <<"platform", x>>
<1> HIDE DEF deps
<1>2. ToSet(deps) = {a, b}
  BY <1>1 DEF ToSet
<1>3. Place[a[1]] = 1 /\ Place[b[1]] = 5 /\ a # b
  BY DEF Place
<1>4. deps \in SetToSeqs({a, b})
  <2>1. Cardinality({a, b}) = 2
    <3>1. {a, b} = {a} \cup {b} /\ b \notin {a}
      BY <1>3
    <3>2. IsFiniteSet({a}) /\ Cardinality({a}) = 1
      BY FS_Singleton
    <3>3. Cardinality({a} \cup {b}) = IF b \in {a} THEN Cardinality({a}) ELSE Cardinality({a}) + 1
      BY <3>2, FS_AddElement
    <3>4. QED
      BY <3>1, <3>2, <3>3
  <2>2. deps \in [1 .. 2 -> {a, b}] /\ \A i, j \in 1 .. 2 : i # j => deps[i] # deps[j]
    BY <1>1, <1>3
  <2>3. QED
    BY <2>1, <2>2 DEF SetToSeqs
<1>5. d \in SetToSeqs({a, b})
  BY <1>2 DEF Orders, deps
<1> HIDE DEF a, b
<1>6. QED
  BY <1>3, <1>4, <1>5, SortedOfTwo DEF deps

\* A payload decoded in whatever order has the canonical form it was signed in.
LEMMA PayloadVerifies ==
  ASSUME NEW m, NEW o \in Redecoded(SignedPart(m))
  PROVE  VerifyHmac(o, Canonicalize(SignedPart(m)))
<1> DEFINE p == SignedPart(m)
           deps == NormaliseDependenciesV2(m.dependencies)
           u == <<"manifestUrl", <<>>>>
           w == <<"moduleId", <<>>>>
           v == <<"version", m.version>>
           signed == <<"dependencies", deps>>
<1>1. p = <<signed, u, w, v>> /\ p[1][2] = deps
  BY DEF SignedPart
<1>2. PICK d \in Orders(deps) : o \in Orders([p EXCEPT ![1] = <<"dependencies", d>>])
  BY <1>1 DEF Redecoded
<1> DEFINE decoded == <<"dependencies", d>>
<1>3. /\ Place[signed[1]] = 2 /\ Place[decoded[1]] = 2
      /\ Place[u[1]] = 3 /\ Place[w[1]] = 4 /\ Place[v[1]] = 6
  BY DEF Place
<1>4. [p EXCEPT ![1] = decoded] = <<decoded, u, w, v>>
  BY <1>1
<1>5. ToSet(<<decoded, u, w, v>>) = {decoded, u, w, v}
  <2> HIDE DEF decoded, u, w, v
  <2>1. QED
    BY DEF ToSet
<1>6. o \in SetToSeqs({decoded, u, w, v})
  BY <1>2, <1>4, <1>5 DEF Orders
<1>7. p \in SetToSeqs({signed, u, w, v})
  <2> HIDE DEF p, signed, u, w, v
  <2>1. Cardinality({signed, u, w, v}) = 4
    BY <1>3, BeforeInOrder
  <2>2. signed # u /\ signed # w /\ signed # v /\ u # w /\ u # v /\ w # v
    BY <1>3
  <2>3. /\ p \in [1 .. 4 -> {signed, u, w, v}]
        /\ p[1] = signed /\ p[2] = u /\ p[3] = w /\ p[4] = v
    BY <1>1
  <2>4. \A i \in 1 .. 4 : i = 1 \/ i = 2 \/ i = 3 \/ i = 4
    OBVIOUS
  <2>5. \A i, j \in 1 .. 4 : i # j => p[i] # p[j]
    BY <2>2, <2>3, <2>4
  <2>6. QED
    BY <2>1, <2>3, <2>5 DEF SetToSeqs
<1>8. Member(decoded) = Member(signed)
  BY <1>2, DependenciesSort DEF Member
<1> HIDE DEF p, signed, decoded, u, w, v
<1>9. /\ DOMAIN o = 1 .. 4
      /\ Sorted(o) = [i \in 1 .. 4 |-> IF i = 1 THEN decoded ELSE IF i = 2 THEN u
                                       ELSE IF i = 3 THEN w ELSE v]
  BY <1>3, <1>6, SortedOfFour
<1>10. /\ DOMAIN p = 1 .. 4
       /\ Sorted(p) = [i \in 1 .. 4 |-> IF i = 1 THEN signed ELSE IF i = 2 THEN u
                                        ELSE IF i = 3 THEN w ELSE v]
  BY <1>3, <1>7, SortedOfFour
<1>11. \A i \in 1 .. 4 : Member(Sorted(o)[i]) = Member(Sorted(p)[i])
  BY <1>8, <1>9, <1>10
<1>12. Canonicalize(o) = Canonicalize(p)
  BY <1>9, <1>10, <1>11 DEF Canonicalize
<1>13. QED
  BY <1>12 DEF VerifyHmac, p

\* Whatever was announced, whenever: the registry, decoding a message with the
\* members of its objects in any order, finds the signature of announce() valid.
THEOREM SignaturesVerify == RoundsSpec => []SignatureVerifies
<1>1. RoundsInit => RoundsInv
  BY RoundsInvInit, BoundedVersions
<1>2. RoundsInv /\ [RoundsNext]_roundVars => RoundsInv'
  BY RoundsInvStep, BoundedVersions
<1>3. RoundsInv => SignatureVerifies
  <2> SUFFICES ASSUME RoundsInv, NEW i \in DOMAIN topic,
                      NEW o \in Redecoded(topic[i].message.payload)
               PROVE  VerifyHmac(o, topic[i].message.signedToken)
    BY DEF SignatureVerifies
  <2>1. topic[i].message \in Messages
    <3>1. topic \in Seq([by : Rounds, message : Messages])
      BY DEF RoundsInv, RoundTypes
    <3>2. i \in 1 .. Len(topic)
      BY <3>1
    <3>3. topic[i] \in [by : Rounds, message : Messages]
      BY <3>1, <3>2, ElementOfSeq
    <3>4. QED
      BY <3>3
  <2>2. PICK m \in Manifests : topic[i].message = BuildAnnouncementMessage(m)
    BY <2>1 DEF Messages
  <2>3. /\ topic[i].message.payload = SignedPart(m)
        /\ topic[i].message.signedToken = Canonicalize(SignedPart(m))
    BY <2>2 DEF BuildAnnouncementMessage
  <2>4. QED
    BY <2>3, PayloadVerifies
<1>4. QED
  BY <1>1, <1>2, <1>3, PTL DEF RoundsSpec
=============================================================================
