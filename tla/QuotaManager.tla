---------------------------- MODULE QuotaManager ----------------------------
(***************************************************************************)
(* The rate limiter of middleware/quota-manager.ts: per key and window the *)
(* timestamps of the requests let through, in one store that every         *)
(* createQuotaManager() of the process shares.  A request is handled       *)
(* without an await, so a step is a whole call of the middleware.          *)
(***************************************************************************)
EXTENDS Integers, Sequences, FiniteSets

CONSTANTS
  Managers,   \* the middlewares created
  Keys,       \* rate-limiting keys
  Windows,    \* window names
  Duration,   \* Duration[w]: WINDOW_DURATIONS, in clock ticks
  Config,     \* Config[m]: the windows of m and their limits, in order
  Second,     \* clock ticks in a second, the unit of the reset header
  MaxTime     \* bound: the clock stops here

ASSUME WindowsAreSeconds ==
  /\ Second \in Nat \ {0}
  /\ Duration \in [Windows -> {n \in 1 .. MaxTime : n % Second = 0}]
ASSUME Limits == Config \in [Managers -> Seq([window : Windows, limit : Nat])]
ASSUME FewManagers == IsFiniteSet(Managers)
ASSUME BoundedClock == MaxTime \in Nat

VARIABLES
  now,
  store,    \* store[k][w]: the timestamps counted against key k in window w
  passed,   \* history: passed[m][k], when m let requests of key k through
  reply     \* the middleware's latest reply

vars == <<now, store, passed, reply>>

NoReply == [verdict |-> "none"]

Init == /\ now = 0
        /\ store = [k \in Keys |-> [w \in Windows |-> <<>>]]
        /\ passed = [m \in Managers |-> [k \in Keys |-> <<>>]]
        /\ reply = NoReply

Tick == /\ now < MaxTime
        /\ now' = now + 1
        /\ UNCHANGED <<store, passed, reply>>

-----------------------------------------------------------------------------
(* Counting                                                                *)

\* pruneCounter(): drop the leading timestamps that lie before the cutoff.
Expired(ts, cutoff) == ts < cutoff

Pruned(counter, w) ==
  LET cutoff == now - Duration[w]
      dropped == CHOOSE n \in 0 .. Len(counter) :
                   /\ \A i \in 1 .. n : Expired(counter[i], cutoff)
                   /\ n < Len(counter) => ~ Expired(counter[n + 1], cutoff)
  IN  SubSeq(counter, dropped + 1, Len(counter))

WindowsOf(m) == DOMAIN Config[m]
Window(m, i) == Config[m][i].window
Limit(m, i) == Config[m][i].limit

Count(m, k, i) == Len(Pruned(store[k][Window(m, i)], Window(m, i)))

Full_OffByOne(m, k, i) == Count(m, k, i) > Limit(m, i)
Full(m, k, i) == Count(m, k, i) >= Limit(m, i)

CeilDiv_Floor(a, b) == a \div b
CeilDiv(a, b) == (a + b - 1) \div b

ResetTime(m, k, i) ==
  LET counter == Pruned(store[k][Window(m, i)], Window(m, i))
      from == IF counter # <<>> THEN counter[1] ELSE now
  IN  CeilDiv(from + Duration[Window(m, i)], Second)

-----------------------------------------------------------------------------
(* The middleware                                                          *)

\* The windows are checked in order up to the first that is full, and each
\* one checked is pruned.
Prune(m, k, upTo) ==
  [w \in Windows |-> IF \E i \in 1 .. upTo : Window(m, i) = w
                     THEN Pruned(store[k][w], w) ELSE store[k][w]]

Reject_Counts(m, k) ==
  \E i \in WindowsOf(m) :
    /\ Full(m, k, i)
    /\ \A j \in 1 .. i - 1 : ~ Full(m, k, j)
    /\ store' = [store EXCEPT ![k] = [w \in Windows |->
                   IF \E j \in 1 .. i : Window(m, j) = w
                   THEN Append(Prune(m, k, i)[w], now) ELSE store[k][w]]]
    /\ reply' = [verdict |-> "rejected", by |-> m, key |-> k, at |-> now,
                 index |-> i, reset |-> ResetTime(m, k, i)]
    /\ UNCHANGED <<now, passed>>

Reject(m, k) ==
  \E i \in WindowsOf(m) :
    /\ Full(m, k, i)
    /\ \A j \in 1 .. i - 1 : ~ Full(m, k, j)
    /\ store' = [store EXCEPT ![k] = Prune(m, k, i)]
    /\ reply' = [verdict |-> "rejected", by |-> m, key |-> k, at |-> now,
                 index |-> i, reset |-> ResetTime(m, k, i)]
    /\ UNCHANGED <<now, passed>>

\* findMostRestrictiveWindow(): the first of the windows with the least
\* remaining / limit, once the request is counted.
Remaining(m, k, i) ==
  LET left == Limit(m, i) - (Count(m, k, i) + 1) IN IF left < 0 THEN 0 ELSE left
Tighter(m, k, i, j) == Remaining(m, k, i) * Limit(m, j) < Remaining(m, k, j) * Limit(m, i)
MostRestrictive(m, k) ==
  CHOOSE i \in WindowsOf(m) :
    \A j \in WindowsOf(m) : /\ ~ Tighter(m, k, j, i)
                            /\ j < i => Tighter(m, k, i, j)

Accept(m, k) ==
  /\ Config[m] # <<>>
  /\ \A i \in WindowsOf(m) : ~ Full(m, k, i)
  /\ store' = [store EXCEPT ![k] = [w \in Windows |->
                 IF \E i \in WindowsOf(m) : Window(m, i) = w
                 THEN Append(Pruned(store[k][w], w), now) ELSE store[k][w]]]
  /\ passed' = [passed EXCEPT ![m][k] = Append(@, now)]
  /\ reply' = LET i == MostRestrictive(m, k) IN
              [verdict |-> "accepted", by |-> m, key |-> k, at |-> now,
               index |-> i, remaining |-> Remaining(m, k, i)]
  /\ UNCHANGED now

\* clearQuotaStore(), for tests: counting starts afresh.
Clear == /\ store' = [k \in Keys |-> [w \in Windows |-> <<>>]]
         /\ passed' = [m \in Managers |-> [k \in Keys |-> <<>>]]
         /\ reply' = NoReply
         /\ UNCHANGED now

Next == \/ Tick
        \/ \E m \in Managers, k \in Keys : Accept(m, k) \/ Reject(m, k)
        \/ Clear

Spec == Init /\ [][Next]_vars

-----------------------------------------------------------------------------
(* Properties                                                              *)

\* Types; timestamps are counted in order and never ahead of the clock.
Sorted(s) == \A i, j \in DOMAIN s : i < j => s[i] <= s[j]
TypeOK ==
  /\ now \in 0 .. MaxTime
  /\ store \in [Keys -> [Windows -> Seq(0 .. now)]]
  /\ passed \in [Managers -> [Keys -> Seq(0 .. now)]]
  /\ \A k \in Keys, w \in Windows : Sorted(store[k][w])

\* The limit holds in every position of the sliding window: a request let
\* through and the limit-th one after it are more than the window apart.
SlidingWindow ==
  \A m \in Managers, k \in Keys : \A c \in WindowsOf(m) :
    LET h == passed[m][k] IN
    \A i \in DOMAIN h :
      i + Limit(m, c) \in DOMAIN h
        => h[i + Limit(m, c)] - h[i] > Duration[Window(m, c)]

\* A request is turned away only when, in the window that ends now, as many
\* requests of its key as the limit allows were let through by the limiters
\* that count in that window; those turned away never count.
LimitersOf(w) == {m \in Managers : \E c \in WindowsOf(m) : Window(m, c) = w}
PassedSince(m, k, t) == {i \in DOMAIN passed[m][k] : passed[m][k][i] >= t}
RejectionIsDue ==
  reply.verdict = "rejected" =>
    LET w == Window(reply.by, reply.index)
        counted == UNION {{m} \X PassedSince(m, reply.key, reply.at - Duration[w]) :
                            m \in LimitersOf(w)}
    IN  Cardinality(counted) >= Limit(reply.by, reply.index)

\* The invariant of the middleware: counters hold timestamps in order, none
\* ahead of the clock, and a rejection has a full window of let-through requests
\* behind it.
QuotaInv == TypeOK /\ RejectionIsDue

\* Strictly after the advertised reset there is room in the window that was
\* full, unless others take it first, or a second limiter has put more requests
\* into it than the first one allows.
ResetFrees ==
  (reply.verdict = "rejected" /\ reply.at = now) =>
    LET w == Window(reply.by, reply.index)
        counted == store[reply.key][w]
    IN  (counted # <<>> /\ Len(counted) <= Limit(reply.by, reply.index)) =>
          \E i \in DOMAIN counted : counted[i] < reply.reset * Second + 1 - Duration[w]
=============================================================================
