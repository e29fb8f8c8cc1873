------------------------- MODULE PrivilegeResolver -------------------------
(***************************************************************************)
(* The process-wide cache that turns a slim token's privilege_set_hash     *)
(* into privileges (nestjs/privilege-resolver.ts).  Calls of resolve()     *)
(* interleave at its one await, the HTTP lookup at the identity service.   *)
(* A call reads the clock once, before the await, and stamps the entry it  *)
(* inserts after the await with that old reading.                          *)
(***************************************************************************)
EXTENDS Integers, Sequences, FiniteSets

CONSTANTS
  Requests,      \* the calls of resolve(), each made once
  Hashes,        \* privilege_set_hash values
  Privileges,    \* privilege codes
  PrivilegesOf,  \* what the identity service answers for a hash
  MaxEntries,    \* ZORBIT_SDK_PR_MAX_ENTRIES
  Ttl,           \* ZORBIT_SDK_PR_TTL_MS
  FetchTimeout,  \* ZORBIT_SDK_BY_HASH_TIMEOUT_MS
  MaxTime        \* bound: the clock stops here

\* The hash is content-addressed (SHA-256 of the sorted privileges): the service
\* can only ever answer it with one set, which is empty for a user without any.
ASSUME ContentAddressed == PrivilegesOf \in [Hashes -> SUBSET Privileges]
ASSUME PositiveSettings == /\ MaxEntries \in Nat \ {0}
                           /\ Ttl \in Nat \ {0}
                           /\ FetchTimeout \in Nat \ {0}
ASSUME BoundedClock == MaxTime \in Nat

VARIABLES
  now,     \* Date.now()
  cache,   \* the Map's contents: a function on the hashes it holds
  order,   \* the Map's insertion order
  stats,   \* the counters getStats() reports
  req      \* req[r]: the local state of call r

vars == <<now, cache, order, stats, req>>

Counters == [hits : Nat, misses : Nat, fetches : Nat,
             fetchFailures : Nat, evictions : Nat]
Entry == [privileges : SUBSET Privileges, insertedAt : Nat, expiresAt : Nat]

Idle == [pc |-> "idle"]
Fetching(h, t) == [pc |-> "fetching", hash |-> h, start |-> t]
\* How the call came by its answer is kept for the properties only.
Done(h, t, how, set) ==
  [pc |-> "done", hash |-> h, start |-> t, how |-> how, answer |-> set]

Keys == {order[i] : i \in DOMAIN order}

Init == /\ now = 0
        /\ cache = [h \in {} |-> <<>>]
        /\ order = <<>>
        /\ stats = [hits |-> 0, misses |-> 0, fetches |-> 0,
                    fetchFailures |-> 0, evictions |-> 0]
        /\ req = [r \in Requests |-> Idle]

Tick == /\ now < MaxTime
        /\ now' = now + 1
        /\ UNCHANGED <<cache, order, stats, req>>

Fresh(h) == h \in DOMAIN cache /\ cache[h].expiresAt > now

-----------------------------------------------------------------------------
(* resolve(), up to its await.  The bound on the clock leaves every lookup *)
(* the time to run into its timeout.                                       *)

Hit(r, h) ==
  /\ req[r] = Idle
  /\ Fresh(h)
  /\ stats' = [stats EXCEPT !.hits = @ + 1]
  /\ req' = [req EXCEPT ![r] = Done(h, now, "hit", cache[h].privileges)]
  /\ UNCHANGED <<now, cache, order>>

Miss(r, h) ==
  /\ req[r] = Idle
  /\ now + FetchTimeout <= MaxTime
  /\ ~ Fresh(h)
  /\ stats' = [stats EXCEPT !.misses = @ + 1, !.fetches = @ + 1]
  /\ req' = [req EXCEPT ![r] = Fetching(h, now)]
  /\ UNCHANGED <<now, cache, order>>

-----------------------------------------------------------------------------
(* put(): room is made whenever the Map is full, even for a hash it already *)
(* holds; Map.set() leaves a key it already holds at its place.             *)

MustEvict_OffByOne == Len(order) > MaxEntries
MustEvict_OneEarly == Len(order) + 1 >= MaxEntries
MustEvict == Len(order) >= MaxEntries

Kept == IF MustEvict THEN Tail(order) ELSE order
KeptKeys == {Kept[i] : i \in DOMAIN Kept}

Stamp_AtInsertion(set, t) ==
  [privileges |-> set, insertedAt |-> now, expiresAt |-> now + Ttl]
Stamp(set, t) == [privileges |-> set, insertedAt |-> t, expiresAt |-> t + Ttl]

Put_PushesKeyAgain(h, set, t) ==
  /\ order' = Append(Kept, h)
  /\ cache' = [k \in KeptKeys \cup {h} |-> IF k = h THEN Stamp(set, t) ELSE cache[k]]
  /\ stats' = [stats EXCEPT !.evictions = IF MustEvict THEN @ + 1 ELSE @]

Put(h, set, t) ==
  /\ order' = IF h \in KeptKeys THEN Kept ELSE Append(Kept, h)
  /\ cache' = [k \in KeptKeys \cup {h} |-> IF k = h THEN Stamp(set, t) ELSE cache[k]]
  /\ stats' = [stats EXCEPT !.evictions = IF MustEvict THEN @ + 1 ELSE @]

Cacheable_Always(set) == TRUE
Cacheable(set) == set # {}

-----------------------------------------------------------------------------
(* The lookup settles and resolve() runs to its end.                        *)

FetchAnswers(r) ==
  /\ req[r].pc = "fetching"
  /\ LET set == PrivilegesOf[req[r].hash] IN
       /\ req' = [req EXCEPT ![r] = Done(req[r].hash, req[r].start, "answer", set)]
       /\ IF Cacheable(set) THEN Put(req[r].hash, set, req[r].start)
                            ELSE UNCHANGED <<cache, order, stats>>
  /\ UNCHANGED now

\* After a response whose body has no privileges array: fetch() returns [].
FetchMalformed(r) ==
  /\ req[r].pc = "fetching"
  /\ req' = [req EXCEPT ![r] = Done(req[r].hash, req[r].start, "malformed", {})]
  /\ IF Cacheable({}) THEN Put(req[r].hash, {}, req[r].start)
                      ELSE UNCHANGED <<cache, order, stats>>
  /\ UNCHANGED now

\* fetch()'s catch block: the counter, then [] like any other answer.
GiveUp(r) ==
  /\ req' = [req EXCEPT ![r] = Done(req[r].hash, req[r].start, "failed", {})]
  /\ stats' = [stats EXCEPT !.fetchFailures = @ + 1]
  /\ UNCHANGED <<now, cache, order>>

FetchFails(r) == req[r].pc = "fetching" /\ GiveUp(r)

TimedOut_NoTimer(r) == FALSE
TimedOut(r) == req[r].pc = "fetching" /\ now >= req[r].start + FetchTimeout
FetchTimesOut(r) == TimedOut(r) /\ GiveUp(r)

-----------------------------------------------------------------------------
\* Nothing is in flight and the clock has reached its bound.
Finished == /\ now = MaxTime
            /\ \A r \in Requests : req[r].pc # "fetching"
            /\ UNCHANGED vars

Next == \/ Tick
        \/ \E r \in Requests :
             \/ \E h \in Hashes : Hit(r, h) \/ Miss(r, h)
             \/ FetchAnswers(r) \/ FetchMalformed(r)
             \/ FetchFails(r) \/ FetchTimesOut(r)
        \/ Finished

Spec == Init /\ [][Next]_vars

\* Time passes and an expired axios timer fires; the service owes nobody a reply.
Fairness == WF_vars(Tick) /\ \A r \in Requests : WF_vars(FetchTimesOut(r))
FairSpec == Spec /\ Fairness

-----------------------------------------------------------------------------
(* Properties                                                              *)

Request ==
       {Idle}
  \cup [pc : {"fetching"}, hash : Hashes, start : Nat]
  \cup [pc : {"done"}, hash : Hashes, start : Nat,
        how : {"hit", "answer", "malformed", "failed"}, answer : SUBSET Privileges]

\* Types; the Map's insertion order lists each of its keys exactly once, and
\* no call began in the future.
TypeOK ==
  /\ now \in Nat
  /\ order \in Seq(Hashes)
  /\ \A i, j \in DOMAIN order : order[i] = order[j] => i = j
  /\ cache \in [Keys -> Entry]
  /\ stats \in Counters
  /\ req \in [Requests -> Request]
  /\ \A r \in Requests : req[r].pc # "idle" => req[r].start <= now

\* The Map never outgrows ZORBIT_SDK_PR_MAX_ENTRIES, however many lookups that
\* began while there was room land after it has filled up.
SizeWithinCap == Len(order) <= MaxEntries

\* Every entry is the reply one call got from the service for that very hash,
\* expires Ttl after that call BEGAN, and is not empty: a failed or malformed
\* lookup leaves nothing behind for the next call to find.
LearnedFrom(h, r) ==
  /\ req[r].pc = "done"
  /\ req[r].how = "answer"
  /\ req[r].hash = h
  /\ req[r].start = cache[h].insertedAt

EntriesLearned ==
  \A h \in DOMAIN cache :
    /\ cache[h].privileges = PrivilegesOf[h]
    /\ cache[h].privileges # {}
    /\ cache[h].expiresAt = cache[h].insertedAt + Ttl
    /\ \E r \in Requests : LearnedFrom(h, r)

\* A call comes back without privileges its hash does name only if its own
\* lookup failed: no failure of another call is served from the cache.
DegradedByOwnFailure ==
  \A r \in Requests :
    (req[r].pc = "done" /\ req[r].answer # PrivilegesOf[req[r].hash])
      => req[r].how \in {"malformed", "failed"} /\ req[r].answer = {}

\* Nothing is pushed out before the service has named privileges for as many
\* hashes as there is room for, however often one hash is looked up at once.
SmallWorkingSetStays ==
  stats.evictions > 0 =>
    Cardinality({h \in Hashes :
                   /\ PrivilegesOf[h] # {}
                   /\ \E r \in Requests : req[r].pc = "done" /\ req[r].hash = h
                                          /\ req[r].how = "answer"}) >= MaxEntries

\* Every lookup settles, even if the service never replies.
LookupSettles == \A r \in Requests : req[r].pc = "fetching" ~> req[r].pc = "done"

\* The resolver is the lookup PrivilegeLookup describes, with a memory.
Answers == {r \in Requests : req[r].pc = "done" /\ req[r].how = "answer"}
learnedBar == {<<req[r].hash, req[r].start>> : r \in Answers}
Abstract(v) ==
  IF v.pc = "idle" THEN [pc |-> "idle"]
  ELSE IF v.pc = "fetching"
       THEN [pc |-> "waiting", hash |-> v.hash, asked |-> v.start]
       ELSE [pc |-> "answered", hash |-> v.hash, answer |-> v.answer]
callBar == [r \in Requests |-> Abstract(req[r])]

Lookup == INSTANCE PrivilegeLookup
            WITH clock <- now, call <- callBar, learned <- learnedBar

\* Every step of the resolver is a step of the lookup or leaves it alone; in
\* particular nothing is served Ttl or more after it was asked for.
ImplementsLookup == Lookup!Spec
=============================================================================
