---------------------- MODULE PrivilegeResolver_proofs ----------------------
(* What holds of PrivilegeResolver for every value of its constants.       *)
EXTENDS PrivilegeResolver, FiniteSetTheorems, SequenceTheorems, TLAPS

\* put() leaves the Map well formed: the key it inserts is listed once, and
\* every other key it keeps stays at its place with its entry.
LEMMA PutKeepsMap ==
  ASSUME TypeOK,
         NEW h \in Hashes, NEW set \in SUBSET Privileges, NEW t \in Nat,
         Put(h, set, t)
  PROVE  /\ order' \in Seq(Hashes)
         /\ \A i, j \in DOMAIN order' : order'[i] = order'[j] => i = j
         /\ cache' \in [Keys' -> Entry]
         /\ stats' \in Counters
         /\ DOMAIN cache' = KeptKeys \cup {h}
         /\ KeptKeys \subseteq DOMAIN cache
         /\ \A k \in KeptKeys : k # h => cache'[k] = cache[k]
         /\ cache'[h] = Stamp(set, t)
<1> USE PositiveSettings
<1>1. /\ Kept \in Seq(Hashes)
      /\ \A i, j \in DOMAIN Kept : Kept[i] = Kept[j] => i = j
      /\ KeptKeys \subseteq Keys
  BY DEF Kept, KeptKeys, Keys, MustEvict, TypeOK
<1>2. /\ order' \in Seq(Hashes)
      /\ \A i, j \in DOMAIN order' : order'[i] = order'[j] => i = j
      /\ Keys' = KeptKeys \cup {h}
  <2>1. CASE h \in KeptKeys
    BY <1>1, <2>1 DEF Put, KeptKeys, Keys
  <2>2. CASE h \notin KeptKeys
    <3>1. order' = Append(Kept, h)
      BY <2>2 DEF Put
    <3>2. /\ order' \in Seq(Hashes)
          /\ Len(order') = Len(Kept) + 1
          /\ DOMAIN order' = 1 .. Len(Kept) + 1
          /\ DOMAIN Kept = 1 .. Len(Kept)
          /\ \A i \in DOMAIN Kept : order'[i] = Kept[i]
          /\ order'[Len(Kept) + 1] = h
      BY <1>1, <3>1
    <3>3. \A i, j \in DOMAIN order' : order'[i] = order'[j] => i = j
      BY <1>1, <2>2, <3>2 DEF KeptKeys
    <3>4. Keys' = KeptKeys \cup {h}
      BY <1>1, <3>2 DEF KeptKeys, Keys
    <3>5. QED
      BY <3>2, <3>3, <3>4
  <2>3. QED
    BY <2>1, <2>2
<1>3. Stamp(set, t) \in Entry
  BY DEF Stamp, Entry
<1>4. cache' \in [Keys' -> Entry]
  BY <1>1, <1>2, <1>3 DEF Put, TypeOK
<1>5. stats' \in Counters
  <2>1. CASE MustEvict
    <3>1. stats' = [stats EXCEPT !.evictions = stats.evictions + 1]
      BY <2>1 DEF Put
    <3>2. QED
      BY <3>1 DEF TypeOK, Counters
  <2>2. CASE ~ MustEvict
    <3>1. stats' = [stats EXCEPT !.evictions = stats.evictions]
      BY <2>2 DEF Put
    <3>2. QED
      BY <3>1 DEF TypeOK, Counters
  <2>3. QED
    BY <2>1, <2>2
<1>6. /\ DOMAIN cache = Keys
      /\ DOMAIN cache' = KeptKeys \cup {h}
      /\ \A k \in KeptKeys : k # h => cache'[k] = cache[k]
      /\ cache'[h] = Stamp(set, t)
  BY DEF Put, TypeOK
<1>7. QED
  BY <1>1, <1>2, <1>4, <1>5, <1>6

-----------------------------------------------------------------------------

\* What the two ends of a lookup can do to the Map: nothing, or one put() of
\* what the service answered.
LEMMA FetchAnswersType ==
  ASSUME TypeOK, NEW r \in Requests, FetchAnswers(r)
  PROVE  TypeOK'
<1> DEFINE h == req[r].hash
           set == PrivilegesOf[h]
           t == req[r].start
<1>1. /\ req[r] \in [pc : {"fetching"}, hash : Hashes, start : Nat]
      /\ h \in Hashes /\ t \in Nat /\ t <= now
      /\ set \in SUBSET Privileges
  BY ContentAddressed DEF FetchAnswers, TypeOK, Request, Idle
<1>2. req' = [req EXCEPT ![r] = Done(h, t, "answer", set)] /\ now' = now
  BY DEF FetchAnswers
<1>3. Done(h, t, "answer", set) \in Request
  BY <1>1 DEF Done, Request
<1>4. /\ req' \in [Requests -> Request]
      /\ \A q \in Requests : req'[q].pc # "idle" => req'[q].start <= now'
  BY <1>1, <1>2, <1>3 DEF TypeOK, Done
<1>5. CASE Cacheable(set)
  <2>1. Put(h, set, t)
    BY <1>5 DEF FetchAnswers
  <2>2. QED
    BY <1>1, <1>2, <1>4, <2>1, PutKeepsMap DEF TypeOK
<1>6. CASE ~ Cacheable(set)
  <2>1. UNCHANGED <<cache, order, stats>>
    BY <1>6 DEF FetchAnswers
  <2>2. QED
    BY <1>2, <1>4, <2>1 DEF TypeOK, Keys
<1>7. QED
  BY <1>5, <1>6

\* An empty answer is never cached, so a malformed reply leaves the Map alone.
LEMMA MalformedKeepsMap ==
  ASSUME NEW r, FetchMalformed(r)
  PROVE  UNCHANGED <<cache, order, stats, now>>
BY DEF FetchMalformed, Cacheable

\* The resolver's state is well typed and its Map well formed in every run.
THEOREM TypeCorrect == Spec => []TypeOK
<1>1. Init => TypeOK
  <2> SUFFICES ASSUME Init PROVE TypeOK
    OBVIOUS
  <2>1. order = <<>> /\ Keys = {} /\ cache = [h \in {} |-> <<>>]
    BY DEF Init, Keys
  <2>2. cache \in [Keys -> Entry]
    BY <2>1
  <2>3. stats \in Counters
    BY DEF Init, Counters
  <2>4. QED
    BY <2>1, <2>2, <2>3 DEF Init, TypeOK, Request, Idle
<1>2. TypeOK /\ [Next]_vars => TypeOK'
  <2> SUFFICES ASSUME TypeOK, [Next]_vars PROVE TypeOK'
    OBVIOUS
  <2>1. CASE Tick
    BY <2>1 DEF Tick, TypeOK, Keys, Request, Idle
  <2>2. ASSUME NEW r \in Requests, NEW h \in Hashes, Hit(r, h)
        PROVE  TypeOK'
    <3>1. cache[h].privileges \in SUBSET Privileges
      BY <2>2 DEF Hit, Fresh, TypeOK, Entry
    <3>2. Done(h, now, "hit", cache[h].privileges) \in Request
      BY <3>1 DEF Done, Request, TypeOK
    <3>3. stats' \in Counters
      BY <2>2 DEF Hit, TypeOK, Counters
    <3>4. /\ req' \in [Requests -> Request]
          /\ \A q \in Requests : req'[q].pc # "idle" => req'[q].start <= now
      BY <2>2, <3>2 DEF Hit, TypeOK, Done
    <3>5. QED
      BY <2>2, <3>3, <3>4 DEF Hit, TypeOK, Keys
  <2>3. ASSUME NEW r \in Requests, NEW h \in Hashes, Miss(r, h)
        PROVE  TypeOK'
    <3>1. Fetching(h, now) \in Request
      BY DEF Fetching, Request, TypeOK
    <3>2. stats' \in Counters
      <4> DEFINE once == [stats EXCEPT !.misses = stats.misses + 1]
      <4>1. once \in Counters
        BY DEF TypeOK, Counters
      <4>2. stats' = [once EXCEPT !.fetches = once.fetches + 1]
        BY <2>3 DEF Miss, TypeOK, Counters
      <4> HIDE DEF once
      <4>3. QED
        BY <4>1, <4>2 DEF Counters
    <3>3. /\ req' \in [Requests -> Request]
          /\ \A q \in Requests : req'[q].pc # "idle" => req'[q].start <= now
      BY <2>3, <3>1 DEF Miss, TypeOK, Fetching
    <3>4. QED
      BY <2>3, <3>2, <3>3 DEF Miss, TypeOK, Keys
  <2>4. ASSUME NEW r \in Requests, FetchAnswers(r)
        PROVE  TypeOK'
    BY <2>4, FetchAnswersType
  <2>5. ASSUME NEW r \in Requests, req[r].pc = "fetching",
               NEW how \in {"malformed", "failed"},
               req' = [req EXCEPT ![r] = Done(req[r].hash, req[r].start, how, {})],
               UNCHANGED <<now, cache, order>>,
               stats' \in Counters
        PROVE  TypeOK'
    <3>1. Done(req[r].hash, req[r].start, how, {}) \in Request
      BY <2>5 DEF Done, Request, TypeOK, Idle
    <3>2. QED
      BY <2>5, <3>1 DEF TypeOK, Keys, Done
  <2>6. ASSUME NEW r \in Requests, FetchMalformed(r)
        PROVE  TypeOK'
    <3>1. /\ req[r].pc = "fetching"
          /\ req' = [req EXCEPT ![r] = Done(req[r].hash, req[r].start, "malformed", {})]
      BY <2>6 DEF FetchMalformed
    <3>2. UNCHANGED <<cache, order, stats, now>> /\ stats \in Counters
      BY <2>6, MalformedKeepsMap DEF TypeOK
    <3>3. QED
      BY <2>5, <3>1, <3>2
  <2>7. ASSUME NEW r \in Requests, req[r].pc = "fetching", GiveUp(r)
        PROVE  TypeOK'
    <3>1. /\ req' = [req EXCEPT ![r] = Done(req[r].hash, req[r].start, "failed", {})]
          /\ UNCHANGED <<now, cache, order>>
      BY <2>7 DEF GiveUp
    <3>2. stats' \in Counters
      BY <2>7 DEF GiveUp, TypeOK, Counters
    <3>3. QED
      BY <2>5, <2>7, <3>1, <3>2
  <2>8. CASE UNCHANGED vars
    BY <2>8 DEF vars, TypeOK, Keys
  <2>9. QED
    BY <2>1, <2>2, <2>3, <2>4, <2>6, <2>7, <2>8
       DEF Next, FetchFails, FetchTimesOut, TimedOut, Finished
<1>3. QED
  BY <1>1, <1>2, PTL DEF Spec

-----------------------------------------------------------------------------
\* A step changes the Map only by answering a lookup with a put(), and grows
\* the insertion order by at most the key it inserts.
LEMMA MapSteps ==
  ASSUME TypeOK, [Next]_vars
  PROVE  \/ UNCHANGED <<cache, order>>
         \/ \E r \in Requests :
              LET h == req[r].hash IN
              /\ req[r].pc = "fetching"
              /\ req' = [req EXCEPT ![r] =
                           Done(h, req[r].start, "answer", PrivilegesOf[h])]
              /\ PrivilegesOf[h] # {}
              /\ Put(h, PrivilegesOf[h], req[r].start)
<1>1. ASSUME NEW r \in Requests, FetchAnswers(r), ~ UNCHANGED <<cache, order>>
      PROVE  LET h == req[r].hash IN
              /\ req[r].pc = "fetching"
              /\ req' = [req EXCEPT ![r] =
                           Done(h, req[r].start, "answer", PrivilegesOf[h])]
              /\ PrivilegesOf[h] # {}
              /\ Put(h, PrivilegesOf[h], req[r].start)
  BY <1>1 DEF FetchAnswers, Cacheable
<1>2. ASSUME NEW r \in Requests,
             \/ FetchMalformed(r) \/ FetchFails(r) \/ FetchTimesOut(r)
             \/ \E h \in Hashes : Hit(r, h) \/ Miss(r, h)
      PROVE  UNCHANGED <<cache, order>>
  BY <1>2, MalformedKeepsMap DEF FetchFails, FetchTimesOut, GiveUp, Hit, Miss
<1>3. ASSUME UNCHANGED vars \/ Tick \/ Finished PROVE UNCHANGED <<cache, order>>
  BY <1>3 DEF vars, Tick, Finished
<1>4. QED
  BY <1>1, <1>2, <1>3 DEF Next

\* The Map stays within its cap, however lookups and insertions interleave.
THEOREM SizeBounded == Spec => []SizeWithinCap
<1> USE PositiveSettings
<1>1. Init => SizeWithinCap
  BY DEF Init, SizeWithinCap
<1>2. TypeOK /\ SizeWithinCap /\ [Next]_vars => SizeWithinCap'
  <2> SUFFICES ASSUME TypeOK, SizeWithinCap, [Next]_vars PROVE SizeWithinCap'
    OBVIOUS
  <2>1. CASE UNCHANGED <<cache, order>>
    BY <2>1 DEF SizeWithinCap
  <2>2. ASSUME NEW h, NEW set, NEW t, Put(h, set, t)
        PROVE  SizeWithinCap'
    <3>1. Kept \in Seq(Hashes) /\ Len(Kept) + 1 <= MaxEntries
      BY DEF Kept, MustEvict, SizeWithinCap, TypeOK
    <3>2. CASE order' = Kept
      BY <3>1, <3>2 DEF SizeWithinCap
    <3>3. CASE order' = Append(Kept, h)
      BY <3>1, <3>3 DEF SizeWithinCap
    <3>4. QED
      BY <2>2, <3>2, <3>3 DEF Put
  <2>3. QED
    BY <2>1, <2>2, MapSteps
<1>3. QED
  BY <1>1, <1>2, TypeCorrect, PTL DEF Spec

-----------------------------------------------------------------------------
\* A call that is done stays as it is.
LEMMA DoneIsFinal ==
  ASSUME TypeOK, [Next]_vars, NEW r \in Requests, req[r].pc = "done"
  PROVE  req'[r] = req[r]
<1> req[r] # Idle
  BY DEF Idle
<1>1. ASSUME NEW q \in Requests,
             \/ FetchAnswers(q) \/ FetchMalformed(q)
             \/ FetchFails(q) \/ FetchTimesOut(q)
             \/ \E h \in Hashes : Hit(q, h) \/ Miss(q, h)
      PROVE  q # r /\ \E v : req' = [req EXCEPT ![q] = v]
  BY <1>1 DEF FetchAnswers, FetchMalformed, FetchFails, FetchTimesOut, TimedOut,
              GiveUp, Hit, Miss
<1>2. ASSUME UNCHANGED vars \/ Tick \/ Finished PROVE UNCHANGED req
  BY <1>2 DEF vars, Tick, Finished
<1>3. QED
  BY <1>1, <1>2 DEF Next, TypeOK

\* Whatever is cached was told by the service to a call that asked for that
\* hash, and is the set the hash names.
THEOREM CacheLearned == Spec => []EntriesLearned
<1>1. Init => EntriesLearned
  BY DEF Init, EntriesLearned
<1>2. TypeOK /\ EntriesLearned /\ [Next]_vars => EntriesLearned'
  <2> SUFFICES ASSUME TypeOK, EntriesLearned, [Next]_vars PROVE EntriesLearned'
    OBVIOUS
  <2>1. ASSUME NEW k \in DOMAIN cache, k \in DOMAIN cache', cache'[k] = cache[k]
        PROVE  /\ cache'[k].privileges = PrivilegesOf[k]
               /\ cache'[k].privileges # {}
               /\ cache'[k].expiresAt = cache'[k].insertedAt + Ttl
               /\ \E q \in Requests : LearnedFrom(k, q)'
    <3>1. PICK q \in Requests : LearnedFrom(k, q)
      BY DEF EntriesLearned
    <3>2. req'[q] = req[q]
      BY <3>1, DoneIsFinal DEF LearnedFrom
    <3>3. LearnedFrom(k, q)'
      BY <2>1, <3>1, <3>2 DEF LearnedFrom
    <3>4. QED
      BY <2>1, <3>3 DEF EntriesLearned
  <2>2. CASE UNCHANGED <<cache, order>>
    BY <2>1, <2>2 DEF EntriesLearned
  <2>3. ASSUME NEW r \in Requests, req[r].pc = "fetching",
               req' = [req EXCEPT ![r] = Done(req[r].hash, req[r].start, "answer",
                                              PrivilegesOf[req[r].hash])],
               PrivilegesOf[req[r].hash] # {},
               Put(req[r].hash, PrivilegesOf[req[r].hash], req[r].start)
        PROVE  EntriesLearned'
    <3>0. PICK h \in Hashes : h = req[r].hash
      BY <2>3 DEF TypeOK, Request, Idle
    <3>1. req[r].start \in Nat /\ PrivilegesOf[h] \in SUBSET Privileges
      BY <2>3, ContentAddressed DEF TypeOK, Request, Idle
    <3>2. /\ DOMAIN cache' = KeptKeys \cup {h}
          /\ KeptKeys \subseteq DOMAIN cache
          /\ \A k \in KeptKeys : k # h => cache'[k] = cache[k]
          /\ cache'[h] = Stamp(PrivilegesOf[h], req[r].start)
      BY <2>3, <3>0, <3>1, PutKeepsMap
    <3>3. /\ cache'[h].privileges = PrivilegesOf[h]
          /\ cache'[h].expiresAt = cache'[h].insertedAt + Ttl
          /\ cache'[h].insertedAt = req[r].start
      BY <3>2 DEF Stamp
    <3>4. LearnedFrom(h, r)'
      BY <2>3, <3>0, <3>3 DEF LearnedFrom, Done, TypeOK
    <3>5. /\ cache'[h].privileges # {}
          /\ \E q \in Requests : LearnedFrom(h, q)'
      BY <2>3, <3>0, <3>3, <3>4
    <3>6. ASSUME NEW k \in DOMAIN cache', k # h
          PROVE  k \in DOMAIN cache /\ cache'[k] = cache[k]
      BY <3>2, <3>6
    <3>7. QED
      BY <2>1, <3>3, <3>5, <3>6 DEF EntriesLearned
  <2>4. QED
    BY <2>2, <2>3, MapSteps
<1>3. QED
  BY <1>1, <1>2, TypeCorrect, PTL DEF Spec

\* Only a call whose own lookup failed goes without the privileges its hash
\* names: nobody is degraded by somebody else's failure.
THEOREM DegradationIsOwn == Spec => []DegradedByOwnFailure
<1>1. Init => DegradedByOwnFailure
  BY DEF Init, DegradedByOwnFailure, Idle
<1>2. TypeOK /\ EntriesLearned /\ DegradedByOwnFailure /\ [Next]_vars
        => DegradedByOwnFailure'
  <2> SUFFICES ASSUME TypeOK, EntriesLearned, DegradedByOwnFailure, [Next]_vars,
                      NEW r \in Requests, req'[r].pc = "done",
                      req'[r].answer # PrivilegesOf[req'[r].hash]
               PROVE  req'[r].how \in {"malformed", "failed"} /\ req'[r].answer = {}
    BY DEF DegradedByOwnFailure
  <2>1. CASE req[r].pc = "done"
    BY <2>1, DoneIsFinal DEF DegradedByOwnFailure
  <2>2. CASE req[r].pc # "done"
    <3>1. req'[r] # req[r]
      BY <2>2
    <3>2. ASSUME NEW q \in Requests, NEW v, req' = [req EXCEPT ![q] = v]
          PROVE  q = r /\ req'[r] = v
      BY <3>1, <3>2 DEF TypeOK
    <3>3. ASSUME NEW q \in Requests, NEW h \in Hashes, Hit(q, h) PROVE FALSE
      <4>1. req'[r] = Done(h, now, "hit", cache[h].privileges)
        BY <3>2, <3>3 DEF Hit
      <4>2. cache[h].privileges = PrivilegesOf[h]
        BY <3>3 DEF Hit, Fresh, EntriesLearned
      <4>3. QED
        BY <4>1, <4>2 DEF Done
    <3>4. ASSUME NEW q \in Requests, NEW h \in Hashes, Miss(q, h) PROVE FALSE
      <4>1. req'[r] = Fetching(h, now)
        BY <3>2, <3>4 DEF Miss
      <4>2. QED
        BY <4>1 DEF Fetching
    <3>5. ASSUME NEW q \in Requests, FetchAnswers(q) PROVE FALSE
      <4>1. req'[r] = Done(req[q].hash, req[q].start, "answer", PrivilegesOf[req[q].hash])
        BY <3>2, <3>5 DEF FetchAnswers
      <4>2. QED
        BY <4>1 DEF Done
    <3>6. ASSUME NEW q \in Requests, FetchMalformed(q) \/ GiveUp(q)
          PROVE  req'[r].how \in {"malformed", "failed"} /\ req'[r].answer = {}
      <4>1. PICK how \in {"malformed", "failed"} :
                req' = [req EXCEPT ![q] = Done(req[q].hash, req[q].start, how, {})]
        BY <3>6 DEF FetchMalformed, GiveUp
      <4>2. req'[r] = Done(req[q].hash, req[q].start, how, {})
        BY <3>2, <4>1
      <4>3. QED
        BY <4>2 DEF Done
    <3>7. ~ (UNCHANGED vars \/ Tick \/ Finished)
      BY <3>1 DEF vars, Tick, Finished
    <3>8. QED
      BY <3>3, <3>4, <3>5, <3>6, <3>7 DEF Next, FetchFails, FetchTimesOut
  <2>3. QED
    BY <2>1, <2>2
<1>3. QED
  BY <1>1, <1>2, TypeCorrect, CacheLearned, PTL DEF Spec

-----------------------------------------------------------------------------
\* The hashes the service has named privileges for.
Named == {h \in Hashes : /\ PrivilegesOf[h] # {}
                         /\ \E r \in Requests : req[r].pc = "done" /\ req[r].hash = h
                                                /\ req[r].how = "answer"}

\* They stay named, and a step adds one of them at most.
LEMMA NamedGrows ==
  ASSUME TypeOK, [Next]_vars
  PROVE  Named \subseteq Named' /\ \E h : Named' \subseteq Named \cup {h}
<1>1. ASSUME NEW h \in Named PROVE h \in Named'
  <2>1. PICK r \in Requests : req[r].pc = "done" /\ req[r].hash = h /\ req[r].how = "answer"
    BY DEF Named
  <2>2. req'[r] = req[r]
    BY <2>1, DoneIsFinal
  <2>3. QED
    BY <2>1, <2>2 DEF Named
<1>2. UNCHANGED req \/ \E q \in Requests : \E v : req' = [req EXCEPT ![q] = v]
  BY DEF Next, vars, Tick, Finished, Hit, Miss, FetchAnswers, FetchMalformed, FetchFails,
         FetchTimesOut, GiveUp
<1>3. CASE UNCHANGED req
  BY <1>3 DEF Named
<1>4. ASSUME NEW q \in Requests, NEW v, req' = [req EXCEPT ![q] = v]
      PROVE  Named' \subseteq Named \cup {v.hash}
  <2> SUFFICES ASSUME NEW h \in Named', h # v.hash PROVE h \in Named
    OBVIOUS
  <2>1. PICK r \in Requests : req'[r].pc = "done" /\ req'[r].hash = h /\ req'[r].how = "answer"
    BY DEF Named
  <2>2. req'[r] = req[r]
    BY <1>4, <2>1 DEF TypeOK
  <2>3. QED
    BY <2>1, <2>2 DEF Named
<1>5. QED
  BY <1>1, <1>2, <1>3, <1>4

\* The keys of the Map are among them, so a full Map has named enough.
LEMMA FullIsNamed ==
  ASSUME TypeOK, EntriesLearned, IsFiniteSet(Named)
  PROVE  Len(order) <= Cardinality(Named)
<1>1. \A k \in Keys : k \in Named
  BY DEF TypeOK, EntriesLearned, LearnedFrom, Named, Keys
<1>2. order \in [1 .. Len(order) -> Named] /\ Len(order) \in Nat
  <2>1. order \in [1 .. Len(order) -> Hashes] /\ Len(order) \in Nat
    BY LenProperties DEF TypeOK
  <2>2. \A i \in 1 .. Len(order) : order[i] \in Named
    BY <1>1, <2>1 DEF Keys
  <2>3. QED
    BY <2>1, <2>2
<1>3. order \in Injection(1 .. Len(order), Named)
  <2>1. \A i, j \in 1 .. Len(order) : order[i] = order[j] => i = j
    BY DEF TypeOK
  <2>2. QED
    BY <1>2, <2>1 DEF Injection, IsInjective
<1>4. Cardinality(1 .. Len(order)) <= Cardinality(Named)
  BY <1>3, FS_Injection
<1>5. Cardinality(1 .. Len(order)) = Len(order)
  <2>1. ASSUME NEW n \in Nat PROVE Cardinality(1 .. n) = n
    <3>1. Cardinality(1 .. n) = IF 1 > n THEN 0 ELSE n - 1 + 1
      BY FS_Interval
    <3>2. QED
      BY <3>1
  <2>2. QED
    BY <1>2, <2>1
<1>6. QED
  BY <1>4, <1>5

\* Nothing is evicted before the Map is full.
LEMMA EvictsWhenFull ==
  ASSUME TypeOK, [Next]_vars, stats'.evictions # stats.evictions
  PROVE  Len(order) >= MaxEntries
<1>1. ASSUME NEW h, NEW set, NEW t, Put(h, set, t) PROVE MustEvict
  BY <1>1 DEF Put, TypeOK, Counters
<1>2. ASSUME NEW r \in Requests, FetchAnswers(r) PROVE MustEvict
  BY <1>1, <1>2 DEF FetchAnswers
<1>3. ASSUME NEW r \in Requests, FetchMalformed(r) PROVE FALSE
  BY <1>3, MalformedKeepsMap
<1>4. ASSUME NEW r \in Requests, NEW h \in Hashes, Hit(r, h) PROVE FALSE
  BY <1>4 DEF Hit, TypeOK, Counters
<1>5. ASSUME NEW r \in Requests, NEW h \in Hashes, Miss(r, h) PROVE FALSE
  BY <1>5 DEF Miss, TypeOK, Counters
<1>6. ASSUME NEW r \in Requests, FetchFails(r) \/ FetchTimesOut(r) PROVE FALSE
  BY <1>6 DEF FetchFails, FetchTimesOut, GiveUp, TypeOK, Counters
<1>7. ~ (UNCHANGED vars \/ Tick \/ Finished)
  BY DEF vars, Tick, Finished
<1>8. QED
  BY <1>2, <1>3, <1>4, <1>5, <1>6, <1>7 DEF Next, MustEvict

\* put() evicts a key only once the service has named privileges for as many
\* hashes as the Map may hold: a working set that fits is never pushed out.
THEOREM WorkingSetStays == Spec => []SmallWorkingSetStays
<1> DEFINE Room == IsFiniteSet(Named) /\ SmallWorkingSetStays
<1>1. Init => Room
  <2> SUFFICES ASSUME Init PROVE Room
    OBVIOUS
  <2>1. Named = {}
    BY DEF Init, Named, Idle
  <2>2. stats.evictions = 0
    BY DEF Init
  <2>3. QED
    BY <2>1, <2>2, FS_EmptySet DEF SmallWorkingSetStays
<1>2. TypeOK /\ TypeOK' /\ EntriesLearned /\ Room /\ [Next]_vars => Room'
  <2> SUFFICES ASSUME TypeOK, TypeOK', EntriesLearned, Room, [Next]_vars PROVE Room'
    OBVIOUS
  <2>1. PICK h : Named \subseteq Named' /\ Named' \subseteq Named \cup {h}
    BY NamedGrows
  <2>2. IsFiniteSet(Named')
    <3>1. IsFiniteSet(Named \cup {h})
      BY FS_AddElement
    <3>2. QED
      BY <2>1, <3>1, FS_Subset
  <2>3. Cardinality(Named) <= Cardinality(Named')
    BY <2>1, <2>2, FS_Subset
  <2>4. Cardinality(Named) \in Nat /\ Cardinality(Named') \in Nat
    BY <2>2, FS_CardinalityType
  <2>5. ASSUME stats'.evictions > 0 PROVE Cardinality(Named') >= MaxEntries
    <3>1. CASE stats'.evictions = stats.evictions
      <4>1. Cardinality(Named) >= MaxEntries
        BY <2>5, <3>1 DEF SmallWorkingSetStays, Named
      <4>2. QED
        BY <2>3, <2>4, <4>1, PositiveSettings
    <3>2. CASE stats'.evictions # stats.evictions
      <4>1. Len(order) >= MaxEntries
        BY <3>2, EvictsWhenFull
      <4>2. Len(order) <= Cardinality(Named) /\ Len(order) \in Nat
        BY FullIsNamed DEF TypeOK
      <4>3. QED
        BY <2>3, <2>4, <4>1, <4>2, PositiveSettings
    <3>3. QED
      BY <3>1, <3>2
  <2>6. SmallWorkingSetStays'
    BY <2>5 DEF SmallWorkingSetStays, Named
  <2>7. QED
    BY <2>2, <2>6
<1>3. Spec => []Room
  BY <1>1, <1>2, TypeCorrect, CacheLearned, PTL DEF Spec
<1>4. QED
  BY <1>3, PTL

-----------------------------------------------------------------------------
\* One call moving on is one call moving on in the abstract lookup.
LEMMA CallMoves ==
  ASSUME TypeOK, NEW r \in Requests, NEW v, req' = [req EXCEPT ![r] = v]
  PROVE  callBar' = [callBar EXCEPT ![r] = Abstract(v)]
BY DEF callBar, TypeOK

\* Nothing is learned by a call that did not get its answer from the service.
LEMMA NothingLearned ==
  ASSUME TypeOK, NEW r \in Requests, NEW v, req' = [req EXCEPT ![r] = v],
         req[r].pc # "done", v.pc # "done" \/ v.how # "answer"
  PROVE  learnedBar' = learnedBar
<1>1. Answers' = Answers /\ r \notin Answers
  BY DEF Answers, TypeOK
<1>2. \A q \in Answers : req'[q] = req[q]
  BY <1>1 DEF Answers, TypeOK
<1>3. QED
  BY <1>1, <1>2 DEF learnedBar

LEMMA AnswerLearned ==
  ASSUME TypeOK, NEW r \in Requests, NEW v, req' = [req EXCEPT ![r] = v],
         req[r].pc # "done", v.pc = "done", v.how = "answer"
  PROVE  learnedBar' = learnedBar \cup {<<v.hash, v.start>>}
<1>1. Answers' = Answers \cup {r} /\ r \notin Answers
  BY DEF Answers, TypeOK
<1>2. req'[r] = v /\ \A q \in Answers : req'[q] = req[q]
  BY <1>1 DEF Answers, TypeOK
<1>3. QED
  BY <1>1, <1>2 DEF learnedBar

\* The resolver implements the lookup PrivilegeLookup specifies: its cache,
\* its evictions and its overwritten entries never show in an answer.
THEOREM ResolverImplementsLookup == Spec => ImplementsLookup
<1>1. Init => Lookup!Init
  <2> SUFFICES ASSUME Init PROVE Lookup!Init
    OBVIOUS
  <2>1. now = 0 /\ learnedBar = {}
    BY DEF Init, learnedBar, Answers, Idle
  <2>2. callBar = [r \in Requests |-> Lookup!Idle]
    BY DEF Init, callBar, Abstract, Idle, Lookup!Idle
  <2>3. QED
    BY <2>1, <2>2 DEF Lookup!Init
<1>2. TypeOK /\ EntriesLearned /\ [Next]_vars => [Lookup!Next]_(Lookup!vars)
  <2> SUFFICES ASSUME TypeOK, EntriesLearned, [Next]_vars
               PROVE  Lookup!Next \/ UNCHANGED Lookup!vars
    OBVIOUS
  <2>1. CASE Tick
    <3>1. now' = now + 1 /\ req' = req
      BY <2>1 DEF Tick
    <3>2. callBar' = callBar /\ learnedBar' = learnedBar
      BY <3>1 DEF callBar, learnedBar, Answers
    <3>3. QED
      BY <3>1, <3>2 DEF Lookup!Next, Lookup!Pass
  <2>2. ASSUME NEW r \in Requests, NEW h \in Hashes, Hit(r, h)
        PROVE  Lookup!Recall(r, h)
    <3> DEFINE v == Done(h, now, "hit", cache[h].privileges)
    <3>1. req[r] = Idle /\ req' = [req EXCEPT ![r] = v] /\ now' = now
      BY <2>2 DEF Hit
    <3>2. callBar[r] = Lookup!Idle
      BY <3>1 DEF callBar, Abstract, Idle, Lookup!Idle
    <3>3. PICK q \in Requests : LearnedFrom(h, q)
      BY <2>2 DEF Hit, Fresh, EntriesLearned
    <3>4. /\ <<h, req[q].start>> \in learnedBar
          /\ req[q].start \in 0 .. now
      BY <3>3 DEF LearnedFrom, learnedBar, Answers, TypeOK, Request, Idle
    <3>5. now < req[q].start + Ttl
      <4>1. /\ h \in DOMAIN cache /\ cache[h].expiresAt > now
            /\ cache[h].expiresAt = cache[h].insertedAt + Ttl
        BY <2>2 DEF Hit, Fresh, EntriesLearned
      <4>2. QED
        BY <3>3, <3>4, <4>1, PositiveSettings DEF LearnedFrom, TypeOK
    <3>6. callBar' = [callBar EXCEPT ![r] = Lookup!Answered(h, PrivilegesOf[h])]
      <4>1. cache[h].privileges = PrivilegesOf[h]
        BY <2>2 DEF Hit, Fresh, EntriesLearned
      <4>2. Abstract(v) = Lookup!Answered(h, PrivilegesOf[h])
        BY <4>1 DEF Abstract, Done, Lookup!Answered
      <4>3. QED
        BY <3>1, <4>2, CallMoves
    <3>7. learnedBar' = learnedBar
      <4>1. req[r].pc # "done" /\ v.how # "answer"
        BY <3>1 DEF Idle, Done
      <4> HIDE DEF v
      <4>2. QED
        BY <3>1, <4>1, NothingLearned
    <3>8. QED
      BY <3>1, <3>2, <3>4, <3>5, <3>6, <3>7 DEF Lookup!Recall
  <2>3. ASSUME NEW r \in Requests, NEW h \in Hashes, Miss(r, h)
        PROVE  Lookup!Ask(r, h)
    <3>1. req[r] = Idle /\ req' = [req EXCEPT ![r] = Fetching(h, now)] /\ now' = now
      BY <2>3 DEF Miss
    <3>2. callBar[r] = Lookup!Idle
      BY <3>1 DEF callBar, Abstract, Idle, Lookup!Idle
    <3>3. callBar' = [callBar EXCEPT ![r] = Lookup!Waiting(h, now)]
      <4>1. Abstract(Fetching(h, now)) = Lookup!Waiting(h, now)
        BY DEF Abstract, Fetching, Lookup!Waiting
      <4>2. QED
        BY <3>1, <4>1, CallMoves
    <3>4. learnedBar' = learnedBar
      <4>1. req[r].pc # "done" /\ Fetching(h, now).pc # "done"
        BY <3>1 DEF Idle, Fetching
      <4>2. QED
        BY <3>1, <4>1, NothingLearned
    <3>5. QED
      BY <3>1, <3>2, <3>3, <3>4 DEF Lookup!Ask
  <2>4. ASSUME NEW r \in Requests, FetchAnswers(r)
        PROVE  Lookup!Learn(r)
    <3> DEFINE h == req[r].hash
               v == Done(h, req[r].start, "answer", PrivilegesOf[h])
    <3>1. req[r].pc = "fetching" /\ req' = [req EXCEPT ![r] = v] /\ now' = now
      BY <2>4 DEF FetchAnswers
    <3>2. callBar[r] = [pc |-> "waiting", hash |-> h, asked |-> req[r].start]
      BY <3>1 DEF callBar, Abstract
    <3>3. callBar' = [callBar EXCEPT ![r] = Lookup!Answered(h, PrivilegesOf[h])]
      <4>1. Abstract(v) = Lookup!Answered(h, PrivilegesOf[h])
        BY DEF Abstract, Done, Lookup!Answered
      <4>2. QED
        BY <3>1, <4>1, CallMoves
    <3>4. learnedBar' = learnedBar \cup {<<h, req[r].start>>}
      <4>1. /\ v.pc = "done" /\ v.how = "answer"
            /\ v.hash = h /\ v.start = req[r].start
        BY DEF Done
      <4> HIDE DEF v
      <4>2. QED
        BY <3>1, <4>1, AnswerLearned
    <3> HIDE DEF h, v
    <3>5. QED
      BY <3>1, <3>2, <3>3, <3>4 DEF Lookup!Learn
  <2>5. ASSUME NEW r \in Requests, req[r].pc = "fetching",
               FetchMalformed(r) \/ GiveUp(r)
        PROVE  Lookup!Degrade(r)
    <3> DEFINE h == req[r].hash
    <3>1. PICK how \in {"malformed", "failed"} :
            req' = [req EXCEPT ![r] = Done(h, req[r].start, how, {})]
      BY <2>5 DEF FetchMalformed, GiveUp
    <3>2. now' = now
      BY <2>5 DEF FetchMalformed, GiveUp
    <3>3. callBar[r] = [pc |-> "waiting", hash |-> h, asked |-> req[r].start]
      BY <2>5 DEF callBar, Abstract
    <3>4. callBar' = [callBar EXCEPT ![r] = Lookup!Answered(h, {})]
      <4>1. Abstract(Done(h, req[r].start, how, {})) = Lookup!Answered(h, {})
        BY DEF Abstract, Done, Lookup!Answered
      <4>2. QED
        BY <3>1, <4>1, CallMoves
    <3>5. learnedBar' = learnedBar
      BY <2>5, <3>1, NothingLearned DEF Done
    <3> HIDE DEF h
    <3>6. QED
      BY <3>2, <3>3, <3>4, <3>5 DEF Lookup!Degrade
  <2>6. CASE UNCHANGED vars
    <3>1. now' = now /\ req' = req
      BY <2>6 DEF vars
    <3>2. QED
      BY <3>1 DEF Lookup!vars, callBar, learnedBar, Answers
  <2>7. QED
    BY <2>1, <2>2, <2>3, <2>4, <2>5, <2>6
       DEF Next, Finished, FetchFails, FetchTimesOut, TimedOut, FetchMalformed,
           Lookup!Next
<1>3. QED
  BY <1>1, <1>2, TypeCorrect, CacheLearned, PTL DEF Spec, ImplementsLookup, Lookup!Spec
=============================================================================
