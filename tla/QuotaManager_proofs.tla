------------------------ MODULE QuotaManager_proofs ------------------------
(* What holds of QuotaManager for every configuration of limiters, keys and *)
(* windows, and however long the clock runs.                               *)
EXTENDS QuotaManager, FiniteSetTheorems, TLAPS

\* The elements of a sequence.
LEMMA Element ==
  ASSUME NEW X, NEW q \in Seq(X), NEW d \in DOMAIN q PROVE q[d] \in X
OBVIOUS

-----------------------------------------------------------------------------
(* Pruning                                                                 *)

\* Some number is the least of those in a set that is not empty.
LEMMA Least ==
  ASSUME NEW T \in SUBSET Nat, T # {}
  PROVE  \E x \in T : \A y \in T : x <= y
<1>1. IsWellFoundedOn({ss \in Nat \X Nat : ss[1] < ss[2]}, Nat)
  BY NatLessThanWellFounded DEF OpToRel
<1>2. PICK x \in T : \A y \in T : ~ (<<y, x>> \in {ss \in Nat \X Nat : ss[1] < ss[2]})
  BY <1>1, WFMin
<1>3. ASSUME NEW y \in T PROVE x <= y
  <2>1. <<y, x>> \in Nat \X Nat /\ ~ (y < x)
    BY <1>2
  <2>2. QED
    BY <2>1
<1>4. QED
  BY <1>3

\* pruneCounter() leaves a counter in which the first timestamps are missing,
\* all of them expired, and the one that comes first now is not.
LEMMA PrunedIs ==
  ASSUME now \in Nat, NEW s \in Seq(0 .. now), NEW w \in Windows
  PROVE  \E n \in 0 .. Len(s) :
           /\ Pruned(s, w) = SubSeq(s, n + 1, Len(s))
           /\ \A i \in 1 .. n : s[i] < now - Duration[w]
           /\ n < Len(s) => s[n + 1] >= now - Duration[w]
<1> DEFINE cutoff == now - Duration[w]
           Fits(n) == /\ \A i \in 1 .. n : Expired(s[i], cutoff)
                      /\ n < Len(s) => ~ Expired(s[n + 1], cutoff)
           T == {n \in 0 .. Len(s) : n < Len(s) => ~ Expired(s[n + 1], cutoff)}
<1>1. PICK n \in T : \A y \in T : n <= y
  <2>1. Len(s) \in T /\ T \subseteq Nat
    OBVIOUS
  <2>2. QED
    BY <2>1, Least
<1>2. n \in 0 .. Len(s) /\ Fits(n)
  <2>1. ASSUME NEW i \in 1 .. n PROVE Expired(s[i], cutoff)
    <3>1. n \in 0 .. Len(s) /\ Len(s) \in Nat
      BY <1>1
    <3>2. i - 1 \in 0 .. Len(s) /\ i - 1 < Len(s) /\ i - 1 + 1 = i /\ ~ (n <= i - 1)
      BY <3>1
    <3>3. QED
      BY <1>1, <3>2
  <2>2. QED
    BY <1>1, <2>1
<1>3. PICK c \in 0 .. Len(s) : Fits(c) /\ Pruned(s, w) = SubSeq(s, c + 1, Len(s))
  BY <1>2 DEF Pruned
<1>4. cutoff \in Int /\ Len(s) \in Nat /\ \A i \in 1 .. Len(s) : s[i] \in Nat
  BY WindowsAreSeconds
<1>5. c < Len(s) => s[c + 1] >= cutoff
  BY <1>3, <1>4 DEF Expired
<1>6. \A i \in 1 .. c : s[i] < cutoff
  BY <1>3, <1>4 DEF Expired
<1>7. QED
  BY <1>3, <1>5, <1>6

\* Suffix(p, s, n): p is s without its first n elements.
Suffix(p, s, n) ==
  /\ n \in 0 .. Len(s) /\ Len(p) = Len(s) - n
  /\ \A j \in 1 .. Len(p) : p[j] = s[n + j]

\* The same, element by element; what is left is in order if the counter was.
LEMMA PrunedSuffix ==
  ASSUME now \in Nat, NEW s \in Seq(0 .. now), NEW w \in Windows
  PROVE  /\ Pruned(s, w) \in Seq(0 .. now)
         /\ Sorted(s) => Sorted(Pruned(s, w))
         /\ \E n \in 0 .. Len(s) :
              /\ Suffix(Pruned(s, w), s, n)
              /\ \A i \in 1 .. n : s[i] < now - Duration[w]
<1> DEFINE p == Pruned(s, w)
<1>1. PICK n \in 0 .. Len(s) : /\ p = SubSeq(s, n + 1, Len(s))
                               /\ \A i \in 1 .. n : s[i] < now - Duration[w]
  BY PrunedIs
<1>2. p \in Seq(0 .. now) /\ Suffix(p, s, n)
  BY SMTT(40), <1>1 DEF Suffix
<1>3. Sorted(s) => Sorted(p)
  <2> SUFFICES ASSUME Sorted(s), NEW i \in DOMAIN p, NEW j \in DOMAIN p, i < j
               PROVE  p[i] <= p[j]
    BY DEF Sorted
  <2> HIDE DEF p
  <2>1. /\ DOMAIN p = 1 .. Len(p) /\ DOMAIN s = 1 .. Len(s)
        /\ Len(p) \in Nat /\ Len(s) \in Nat /\ n \in Nat /\ Len(p) = Len(s) - n
    BY <1>2 DEF Suffix
  <2>2. n + i \in DOMAIN s /\ n + j \in DOMAIN s /\ n + i < n + j
    BY <2>1
  <2>3. p[i] = s[n + i] /\ p[j] = s[n + j]
    BY <1>2, <2>1 DEF Suffix
  <2>4. QED
    BY <2>2, <2>3 DEF Sorted
<1>4. QED
  BY <1>1, <1>2, <1>3

\* Rounding up to seconds never rounds down.
LEMMA Ceiling ==
  ASSUME NEW a \in Nat, NEW b \in Nat \ {0}
  PROVE  CeilDiv(a, b) * b >= a
BY DEF CeilDiv

-----------------------------------------------------------------------------
(* What a counter remembers                                                *)

\* The requests let through that are not older than the cutoff are still in the
\* counter, each at the same distance from its end or nearer to it.
Kept(h, s, cutoff) ==
  \A i \in DOMAIN h :
    h[i] >= cutoff => /\ Len(h) - i < Len(s)
                      /\ h[i] <= s[Len(s) - (Len(h) - i)]

\* Every timestamp of a counter is that of a request some limiter of the window
\* let through, and no two are of the same request.
Source(f, s, w, past) ==
  /\ f \in Injection(DOMAIN s, Managers \X Nat)
  /\ \A j \in DOMAIN s :
       /\ f[j][1] \in LimitersOf(w)
       /\ f[j][2] \in DOMAIN past[f[j][1]]
       /\ past[f[j][1]][f[j][2]] = s[j]

\* Pruning forgets no request younger than the cutoff.
LEMMA KeptPruned ==
  ASSUME now \in Nat, NEW s \in Seq(0 .. now), NEW h \in Seq(0 .. now), NEW w \in Windows,
         Kept(h, s, now - Duration[w])
  PROVE  Kept(h, Pruned(s, w), now - Duration[w])
<1> DEFINE p == Pruned(s, w)
           cutoff == now - Duration[w]
<1>1. PICK n \in 0 .. Len(s) : Suffix(p, s, n) /\ \A i \in 1 .. n : s[i] < cutoff
  BY PrunedSuffix
<1>2. cutoff \in Int
  BY WindowsAreSeconds
<1> SUFFICES ASSUME NEW i \in DOMAIN h, h[i] >= cutoff
             PROVE  Len(h) - i < Len(p) /\ h[i] <= p[Len(p) - (Len(h) - i)]
  BY DEF Kept
<1> HIDE DEF p, cutoff
<1>3. /\ Len(s) \in Nat /\ Len(h) \in Nat /\ i \in 1 .. Len(h) /\ h[i] \in Nat
      /\ \A j \in 1 .. Len(s) : s[j] \in Nat
  OBVIOUS
<1>4. Len(h) - i < Len(s) /\ h[i] <= s[Len(s) - (Len(h) - i)]
  BY DEF Kept, cutoff
<1>5. PICK j \in 1 .. Len(s) : j = Len(s) - (Len(h) - i) /\ h[i] <= s[j]
  BY <1>3, <1>4
<1>6. j > n
  <2> SUFFICES ASSUME ~ (j > n) PROVE FALSE
    OBVIOUS
  <2>1. s[j] < cutoff /\ s[j] \in Nat
    BY <1>1, <1>3, <1>5
  <2>2. QED
    BY SMTT(40), <1>2, <1>3, <1>5, <2>1
<1>7. Len(p) - (Len(h) - i) = j - n /\ j - n \in 1 .. Len(p)
  BY SMTT(40), <1>1, <1>3, <1>5, <1>6 DEF Suffix
<1>8. p[j - n] = s[n + (j - n)] /\ n + (j - n) = j
  BY SMTT(40), <1>1, <1>3, <1>5, <1>7 DEF Suffix
<1>9. Len(h) - i < Len(p)
  BY <1>1, <1>3, <1>5, <1>6 DEF Suffix
<1>10. QED
  BY <1>5, <1>7, <1>8, <1>9

\* Counting a request keeps what the counter remembers, of the limiter that
\* counts it and of any other.
LEMMA KeptCounted ==
  ASSUME now \in Nat, NEW s \in Seq(0 .. now), NEW h \in Seq(0 .. now), Sorted(s),
         NEW cutoff \in Int, Kept(h, s, cutoff)
  PROVE  /\ Kept(h, Append(s, now), cutoff)
         /\ Kept(Append(h, now), Append(s, now), cutoff)
<1> DEFINE t == Append(s, now)
<1>1. /\ t \in Seq(0 .. now) /\ Len(t) = Len(s) + 1 /\ t[Len(s) + 1] = now
      /\ \A j \in 1 .. Len(s) : t[j] = s[j] /\ s[j] \in 0 .. now
  OBVIOUS
<1>2. ASSUME NEW i \in DOMAIN h, h[i] >= cutoff
      PROVE  /\ Len(h) - i < Len(s)
             /\ Len(s) - (Len(h) - i) \in 1 .. Len(s)
             /\ h[i] <= s[Len(s) - (Len(h) - i)]
  BY <1>2 DEF Kept
<1>3. Kept(h, t, cutoff)
  <2> SUFFICES ASSUME NEW i \in DOMAIN h, h[i] >= cutoff
               PROVE  Len(h) - i < Len(t) /\ h[i] <= t[Len(t) - (Len(h) - i)]
    BY DEF Kept
  <2>1. PICK j \in 1 .. Len(s) : j = Len(s) - (Len(h) - i) /\ h[i] <= s[j]
    BY <1>2
  <2>2. h[i] <= now /\ h[i] \in Nat /\ i \in Nat /\ Len(h) \in Nat /\ Len(s) \in Nat
    OBVIOUS
  <2>3. Len(t) - (Len(h) - i) = j + 1 /\ Len(h) - i < Len(t)
    BY SMTT(40), <1>1, <2>1, <2>2
  <2>4. h[i] <= t[j + 1]
    <3>1. CASE j = Len(s)
      BY <1>1, <2>2, <3>1
    <3>2. CASE j # Len(s)
      <4>1. j + 1 \in 1 .. Len(s) /\ s[j] <= s[j + 1]
        BY SMTT(40), <2>1, <2>2, <3>2 DEF Sorted
      <4>2. t[j + 1] = s[j + 1] /\ s[j] \in Nat /\ s[j + 1] \in Nat
        BY SMTT(40), <1>1, <2>1, <4>1
      <4>3. QED
        BY SMTT(40), <2>1, <2>2, <4>1, <4>2
    <3>3. QED
      BY <3>1, <3>2
  <2>5. QED
    BY <2>3, <2>4
<1>4. Kept(Append(h, now), t, cutoff)
  <2> DEFINE g == Append(h, now)
  <2>1. /\ Len(g) = Len(h) + 1 /\ g[Len(h) + 1] = now /\ DOMAIN g = 1 .. Len(h) + 1
        /\ \A i \in 1 .. Len(h) : g[i] = h[i]
        /\ Len(h) \in Nat /\ Len(s) \in Nat
    OBVIOUS
  <2> SUFFICES ASSUME NEW i \in DOMAIN g, g[i] >= cutoff
               PROVE  Len(g) - i < Len(t) /\ g[i] <= t[Len(t) - (Len(g) - i)]
    BY DEF Kept
  <2> HIDE DEF g, t
  <2>2. CASE i = Len(h) + 1
    <3>1. Len(g) - i = 0 /\ Len(t) - (Len(g) - i) = Len(s) + 1
      BY <1>1, <2>1, <2>2
    <3>2. QED
      BY <1>1, <2>1, <2>2, <3>1
  <2>3. CASE i \in 1 .. Len(h)
    <3>1. i \in DOMAIN h /\ g[i] = h[i]
      BY <2>1, <2>3
    <3>2. PICK j \in 1 .. Len(s) : j = Len(s) - (Len(h) - i) /\ h[i] <= s[j]
      BY <1>2, <3>1
    <3>3. Len(t) - (Len(g) - i) = j /\ Len(g) - i < Len(t) /\ t[j] = s[j]
      BY SMTT(40), <1>1, <2>1, <2>3, <3>2
    <3>4. QED
      BY <3>1, <3>2, <3>3
  <2>4. QED
    BY <2>1, <2>2, <2>3
<1>5. QED
  BY <1>3, <1>4

\* What is left of a counter still has its sources.
LEMMA SourcePruned ==
  ASSUME NEW s, NEW p, NEW n, NEW w, NEW past, NEW f,
         s \in Seq(Nat), p \in Seq(Nat), Suffix(p, s, n), Source(f, s, w, past)
  PROVE  \E g : Source(g, p, w, past)
<1> DEFINE g == [j \in DOMAIN p |-> f[n + j]]
<1>1. \A j \in DOMAIN p : n + j \in DOMAIN s /\ p[j] = s[n + j]
  BY SMTT(40) DEF Suffix
<1>2. g \in [DOMAIN p -> Managers \X Nat]
  BY <1>1 DEF Source, Injection
<1>3. ASSUME NEW a \in DOMAIN p, NEW b \in DOMAIN p, g[a] = g[b] PROVE a = b
  <2>1. f[n + a] = f[n + b]
    BY <1>3
  <2>2. n + a = n + b
    BY <1>1, <2>1 DEF Source, Injection, IsInjective
  <2>3. a \in Nat /\ b \in Nat /\ n \in Nat
    BY DEF Suffix
  <2>4. QED
    BY <2>2, <2>3
<1>4. Source(g, p, w, past)
  BY <1>1, <1>2, <1>3 DEF Source, Injection, IsInjective
<1>5. QED
  BY <1>4

\* A request let through does not take the source of another one away.
LEMMA SourceOther ==
  ASSUME NEW s, NEW w, NEW past \in [Managers -> Seq(Nat)], NEW f, NEW m \in Managers,
         NEW t \in Nat, s \in Seq(Nat), Source(f, s, w, past)
  PROVE  Source(f, s, w, [past EXCEPT ![m] = Append(past[m], t)])
<1> DEFINE after == [past EXCEPT ![m] = Append(past[m], t)]
<1>1. ASSUME NEW n \in Managers, NEW i \in DOMAIN past[n]
      PROVE  i \in DOMAIN after[n] /\ after[n][i] = past[n][i]
  <2>1. past[n] \in Seq(Nat) /\ after[n] = IF n = m THEN Append(past[n], t) ELSE past[n]
    OBVIOUS
  <2>2. QED
    BY <2>1
<1> HIDE DEF after
<1>2. \A j \in DOMAIN s : f[j][1] \in Managers
  BY DEF Source, LimitersOf
<1>3. Source(f, s, w, after)
  BY <1>1, <1>2 DEF Source
<1>4. QED
  BY <1>3 DEF after

\* A request that is counted is its own source.
LEMMA SourceCounted ==
  ASSUME NEW s, NEW w, NEW past \in [Managers -> Seq(Nat)], NEW f, NEW m \in LimitersOf(w),
         NEW t \in Nat, s \in Seq(Nat), Source(f, s, w, past)
  PROVE  \E g : Source(g, Append(s, t), w, [past EXCEPT ![m] = Append(past[m], t)])
<1> DEFINE after == [past EXCEPT ![m] = Append(past[m], t)]
           last == Len(past[m]) + 1
           e == Append(s, t)
           g == [j \in DOMAIN e |-> IF j = Len(s) + 1 THEN <<m, last>> ELSE f[j]]
<1>1. m \in Managers /\ past[m] \in Seq(Nat)
  BY DEF LimitersOf
<1>2. Source(f, s, w, after)
  BY <1>1, SourceOther
<1>3. /\ DOMAIN e = 1 .. Len(s) + 1 /\ DOMAIN s = 1 .. Len(s) /\ Len(s) \in Nat
      /\ e[Len(s) + 1] = t /\ \A j \in DOMAIN s : e[j] = s[j]
  OBVIOUS
<1>4. last \in Nat /\ last \in DOMAIN after[m] /\ after[m][last] = t /\ last \notin DOMAIN past[m]
  <2>1. after[m] = Append(past[m], t)
    BY <1>1
  <2>2. QED
    BY <1>1, <2>1
<1>5. \A j \in DOMAIN s : f[j] \in Managers \X Nat /\ f[j] # <<m, last>>
  BY <1>4 DEF Source, Injection
<1> HIDE DEF after, last, e
<1>6. g[Len(s) + 1] = <<m, last>> /\ \A j \in DOMAIN s : g[j] = f[j] /\ j # Len(s) + 1
  BY <1>3
<1>7. g \in [DOMAIN e -> Managers \X Nat]
  BY <1>1, <1>3, <1>4, <1>5
<1>8. ASSUME NEW a \in DOMAIN e, NEW b \in DOMAIN e, g[a] = g[b] PROVE a = b
  <2>1. CASE a \in DOMAIN s /\ b \in DOMAIN s
    <3>1. f[a] = f[b]
      BY <1>6, <1>8, <2>1
    <3>2. QED
      BY <2>1, <3>1 DEF Source, Injection, IsInjective
  <2>2. CASE a = Len(s) + 1 \/ b = Len(s) + 1
    <3>1. a \in DOMAIN s \/ a = Len(s) + 1
      BY <1>3
    <3>2. b \in DOMAIN s \/ b = Len(s) + 1
      BY <1>3
    <3> HIDE DEF g
    <3>3. QED
      BY <1>5, <1>6, <1>8, <2>2, <3>1, <3>2
  <2>3. QED
    BY <1>3, <2>1, <2>2
<1>9. ASSUME NEW j \in DOMAIN e
      PROVE  /\ g[j][1] \in LimitersOf(w)
             /\ g[j][2] \in DOMAIN after[g[j][1]]
             /\ after[g[j][1]][g[j][2]] = e[j]
  <2> HIDE DEF g
  <2>1. CASE j \in DOMAIN s
    BY <1>2, <1>3, <1>6, <2>1 DEF Source
  <2>2. CASE j = Len(s) + 1
    BY <1>3, <1>4, <1>6, <2>2
  <2>3. QED
    BY <1>3, <2>1, <2>2
<1>10. Source(g, e, w, after)
  <2> HIDE DEF g
  <2>1. IsInjective(g)
    BY <1>7, <1>8 DEF IsInjective
  <2>2. QED
    BY <1>7, <1>9, <2>1 DEF Source, Injection
<1>11. QED
  BY <1>10 DEF after, e

-----------------------------------------------------------------------------
(* The invariant                                                           *)

\* No limiter's window forgets a request while it is younger than the window.
TailKept ==
  \A m \in Managers, k \in Keys : \A c \in WindowsOf(m) :
    Kept(passed[m][k], store[k][Window(m, c)], now - Duration[Window(m, c)])

\* No counter holds anything but requests let through, each of them once.
Past(k) == [m \in Managers |-> passed[m][k]]
Sourced ==
  \A k \in Keys, w \in Windows : \E f : Source(f, store[k][w], w, Past(k))

\* The latest answer is about a limiter, a key and a window there are.
AnswerKnown ==
  reply.verdict = "rejected" =>
    /\ reply.by \in Managers /\ reply.key \in Keys
    /\ reply.index \in WindowsOf(reply.by) /\ reply.at \in 0 .. now

Inv == TypeOK /\ TailKept /\ Sourced /\ AnswerKnown

\* The windows and limits of a configuration, and how long a window is.
LEMMA ConfigType ==
  /\ \A m \in Managers : \A c \in WindowsOf(m) :
       Window(m, c) \in Windows /\ Limit(m, c) \in Nat
  /\ \A w \in Windows : Duration[w] \in Nat
<1>1. ASSUME NEW m \in Managers, NEW c \in WindowsOf(m)
      PROVE  Window(m, c) \in Windows /\ Limit(m, c) \in Nat
  <2>1. Config[m] \in Seq([window : Windows, limit : Nat])
    BY Limits
  <2>2. Config[m][c] \in [window : Windows, limit : Nat]
    BY <2>1, Element DEF WindowsOf
  <2>3. QED
    BY <2>2 DEF Window, Limit
<1>2. ASSUME NEW w \in Windows PROVE Duration[w] \in Nat
  <2>1. Duration[w] \in {n \in 1 .. MaxTime : n % Second = 0}
    BY WindowsAreSeconds
  <2>2. QED
    BY <2>1, BoundedClock
<1>3. QED
  BY <1>1, <1>2

\* Pruning a counter leaves all the invariant says of it.
LEMMA Refreshed ==
  ASSUME Inv, NEW k \in Keys, NEW w \in Windows
  PROVE  LET p == Pruned(store[k][w], w) IN
         /\ p \in Seq(0 .. now) /\ Sorted(p)
         /\ \E f : Source(f, p, w, Past(k))
         /\ \A m \in Managers : \A c \in WindowsOf(m) :
              Window(m, c) = w => Kept(passed[m][k], p, now - Duration[w])
<1> DEFINE s == store[k][w]
           p == Pruned(s, w)
<1>1. /\ now \in Nat /\ s \in Seq(0 .. now) /\ Sorted(s)
      /\ \A m \in Managers : passed[m][k] \in Seq(0 .. now)
  BY DEF Inv, TypeOK
<1>2. /\ p \in Seq(0 .. now) /\ Sorted(p)
      /\ \E n \in 0 .. Len(s) : Suffix(p, s, n)
  BY <1>1, PrunedSuffix
<1>3. PICK f : Source(f, s, w, Past(k))
  BY DEF Inv, Sourced
<1>4. \E g : Source(g, p, w, Past(k))
  <2>1. s \in Seq(Nat) /\ p \in Seq(Nat)
    BY <1>1, <1>2
  <2>2. QED
    BY <1>2, <1>3, <2>1, SourcePruned
<1>5. ASSUME NEW m \in Managers, NEW c \in WindowsOf(m), Window(m, c) = w
      PROVE  Kept(passed[m][k], p, now - Duration[w])
  <2>1. Kept(passed[m][k], s, now - Duration[w])
    BY <1>5 DEF Inv, TailKept
  <2>2. QED
    BY <1>1, <2>1, KeptPruned
<1>6. QED
  BY <1>2, <1>4, <1>5

\* A step in which the clock stands still, no request is let through and
\* counters are pruned or left alone keeps what is said of the counters.
LEMMA OnlyPruned ==
  ASSUME Inv, UNCHANGED <<now, passed>>,
         store' \in [Keys -> [Windows -> Seq(0 .. now)]],
         \A k \in Keys, w \in Windows :
           store'[k][w] \in {store[k][w], Pruned(store[k][w], w)}
  PROVE  TypeOK' /\ TailKept' /\ Sourced'
<1>1. TypeOK'
  <2>1. ASSUME NEW k \in Keys, NEW w \in Windows PROVE Sorted(store'[k][w])
    BY Refreshed DEF Inv, TypeOK
  <2>2. QED
    BY <2>1 DEF Inv, TypeOK
<1>2. TailKept'
  <2> SUFFICES ASSUME NEW m \in Managers, NEW k \in Keys, NEW c \in WindowsOf(m)
               PROVE  Kept(passed[m][k], store'[k][Window(m, c)], now - Duration[Window(m, c)])
    BY DEF TailKept, WindowsOf, Window, Kept
  <2>1. Window(m, c) \in Windows
    BY ConfigType
  <2>2. QED
    BY <2>1, Refreshed DEF Inv, TailKept
<1>3. Sourced'
  <2> SUFFICES ASSUME NEW k \in Keys, NEW w \in Windows
               PROVE  \E f : Source(f, store'[k][w], w, Past(k)')
    BY DEF Sourced, Source, LimitersOf, WindowsOf, Window
  <2>1. Past(k)' = Past(k)
    BY DEF Past
  <2>2. QED
    BY <2>1, Refreshed DEF Inv, Sourced
<1>4. QED
  BY <1>1, <1>2, <1>3

\* Turning a request away.
LEMMA RejectStep ==
  ASSUME Inv, NEW m \in Managers, NEW k \in Keys, Reject(m, k)
  PROVE  Inv'
<1>1. PICK i \in WindowsOf(m) :
        /\ store' = [store EXCEPT ![k] = Prune(m, k, i)]
        /\ reply'.by = m /\ reply'.key = k /\ reply'.at = now /\ reply'.index = i
        /\ UNCHANGED <<now, passed>>
  <2>1. PICK i \in WindowsOf(m) :
          /\ store' = [store EXCEPT ![k] = Prune(m, k, i)]
          /\ reply' = [verdict |-> "rejected", by |-> m, key |-> k, at |-> now,
                       index |-> i, reset |-> ResetTime(m, k, i)]
          /\ now' = now /\ passed' = passed
    BY DEF Reject
  <2>2. QED
    BY <2>1
<1>2. ASSUME NEW l \in Keys, NEW w \in Windows
      PROVE  store'[l][w] \in {store[l][w], Pruned(store[l][w], w)}
  <2>1. store \in [Keys -> [Windows -> Seq(0 .. now)]]
    BY DEF Inv, TypeOK
  <2>2. CASE l = k
    BY <1>1, <2>1, <2>2 DEF Prune
  <2>3. CASE l # k
    BY <1>1, <2>1, <2>3
  <2>4. QED
    BY <2>2, <2>3
<1>3. store' \in [Keys -> [Windows -> Seq(0 .. now)]]
  <2>1. store \in [Keys -> [Windows -> Seq(0 .. now)]]
    BY DEF Inv, TypeOK
  <2>2. Prune(m, k, i) \in [Windows -> Seq(0 .. now)]
    BY <2>1, Refreshed DEF Prune
  <2>3. QED
    BY <1>1, <2>1, <2>2
<1>4. AnswerKnown'
  BY <1>1 DEF Inv, TypeOK, AnswerKnown, WindowsOf
<1>5. QED
  BY <1>1, <1>2, <1>3, <1>4, OnlyPruned DEF Inv

\* A request let through is younger than every cutoff, so each of the windows
\* it is counted in remembers it, and in those of other limiters it only adds.
LEMMA AcceptStep ==
  ASSUME Inv, NEW m \in Managers, NEW k \in Keys, Accept(m, k)
  PROVE  Inv'
<1> DEFINE mine(w) == \E i \in WindowsOf(m) : Window(m, i) = w
           p(w) == Pruned(store[k][w], w)
<1>0. /\ now \in Nat /\ now \in 0 .. MaxTime
      /\ store \in [Keys -> [Windows -> Seq(0 .. now)]]
      /\ passed \in [Managers -> [Keys -> Seq(0 .. now)]]
  BY DEF Inv, TypeOK
<1>1. /\ store' = [store EXCEPT ![k] = [w \in Windows |->
                     IF mine(w) THEN Append(p(w), now) ELSE store[k][w]]]
      /\ passed' = [passed EXCEPT ![m][k] = Append(passed[m][k], now)]
      /\ reply'.verdict = "accepted" /\ now' = now
  BY <1>0 DEF Accept
<1>2. \A w \in Windows : p(w) \in Seq(0 .. now) /\ Sorted(p(w))
  BY Refreshed
<1>3. \A l \in Keys, w \in Windows :
        store'[l][w] = IF l # k \/ ~ mine(w) THEN store[l][w] ELSE Append(p(w), now)
  <2> HIDE DEF p, mine
  <2>1. QED
    BY <1>0, <1>1
<1>4. \A n \in Managers, l \in Keys :
        passed'[n][l] = IF n = m /\ l = k THEN Append(passed[m][k], now) ELSE passed[n][l]
  BY <1>0, <1>1
<1>5. TypeOK'
  <2>1. store' \in [Keys -> [Windows -> Seq(0 .. now)]]
    <3>1. [w \in Windows |-> IF mine(w) THEN Append(p(w), now) ELSE store[k][w]]
            \in [Windows -> Seq(0 .. now)]
      <4> HIDE DEF p, mine
      <4>1. ASSUME NEW w \in Windows
            PROVE  (IF mine(w) THEN Append(p(w), now) ELSE store[k][w]) \in Seq(0 .. now)
        <5>1. p(w) \in Seq(0 .. now)
          BY <1>2
        <5>2. store[k] \in [Windows -> Seq(0 .. now)]
          BY <1>0
        <5>3. store[k][w] \in Seq(0 .. now)
          BY <5>2
        <5>4. now \in 0 .. now
          BY <1>0
        <5>5. Append(p(w), now) \in Seq(0 .. now)
          BY <5>1, <5>4
        <5>6. CASE mine(w)
          BY <5>5, <5>6
        <5>7. CASE ~ mine(w)
          BY <5>3, <5>7
        <5>8. QED
          BY <5>6, <5>7
      <4>2. QED
        BY <4>1
    <3> HIDE DEF p, mine
    <3>2. QED
      BY <1>0, <1>1, <3>1
  <2>2. passed' \in [Managers -> [Keys -> Seq(0 .. now)]]
    BY <1>0, <1>1
  <2>3. ASSUME NEW l \in Keys, NEW w \in Windows PROVE Sorted(store'[l][w])
    <3>1. CASE l # k \/ ~ mine(w)
      BY <1>3, <3>1 DEF Inv, TypeOK
    <3>2. CASE l = k /\ mine(w)
      <4>1. p(w) \in Seq(0 .. now) /\ Sorted(p(w))
        BY <1>2
      <4> HIDE DEF p, mine
      <4>2. Sorted(Append(p(w), now))
        BY <1>0, <4>1 DEF Sorted
      <4>3. QED
        BY <1>3, <3>2, <4>2
    <3>3. QED
      BY <3>1, <3>2
  <2>4. QED
    BY <1>0, <1>1, <2>1, <2>2, <2>3 DEF TypeOK
<1>6. TailKept'
  <2> SUFFICES ASSUME NEW n \in Managers, NEW l \in Keys, NEW c \in WindowsOf(n)
               PROVE  Kept(passed'[n][l], store'[l][Window(n, c)], now - Duration[Window(n, c)])
    BY <1>1 DEF TailKept, WindowsOf, Window, Kept
  <2> DEFINE w == Window(n, c)
             cutoff == now - Duration[w]
  <2>1. w \in Windows /\ cutoff \in Int
    BY <1>0, ConfigType
  <2>2. CASE l # k \/ ~ mine(w)
    <3>1. passed'[n][l] = passed[n][l]
      BY <1>4, <2>2
    <3>2. store'[l][w] = store[l][w]
      BY <1>3, <2>1, <2>2
    <3>3. QED
      BY <3>1, <3>2 DEF Inv, TailKept
  <2>3. CASE l = k /\ mine(w)
    <3>1. Kept(passed[n][k], p(w), cutoff) /\ p(w) \in Seq(0 .. now) /\ Sorted(p(w))
      BY <2>1, Refreshed
    <3>2. passed[n][k] \in Seq(0 .. now)
      BY <1>0
    <3>3. store'[l][w] = Append(p(w), now)
      BY <1>3, <2>1, <2>3
    <3>4. passed'[n][l] \in {passed[n][k], Append(passed[n][k], now)}
      BY <1>4, <2>3
    <3> HIDE DEF p, w, cutoff
    <3>5. /\ Kept(passed[n][k], Append(p(w), now), cutoff)
          /\ Kept(Append(passed[n][k], now), Append(p(w), now), cutoff)
      BY <1>0, <2>1, <3>1, <3>2, KeptCounted
    <3>6. Kept(passed'[n][l], store'[l][w], cutoff)
      BY <3>3, <3>4, <3>5
    <3>7. QED
      BY <3>6 DEF w, cutoff
  <2>4. QED
    BY <2>2, <2>3
<1>7. Sourced'
  <2> DEFINE past(l) == [n \in Managers |-> passed[n][l]]
  <2>1. ASSUME NEW l \in Keys
        PROVE  Past(l)' = IF l = k THEN [Past(k) EXCEPT ![m] = Append(Past(k)[m], now)]
                          ELSE Past(l)
    BY <1>4, <2>1 DEF Past
  <2> SUFFICES ASSUME NEW l \in Keys, NEW w \in Windows
               PROVE  \E f : Source(f, store'[l][w], w, Past(l)')
    BY DEF Sourced, Source, LimitersOf, WindowsOf, Window
  <2>2. Past(k) \in [Managers -> Seq(Nat)]
    BY <1>0 DEF Past
  <2>3. CASE l # k
    BY <1>3, <2>1, <2>3 DEF Inv, Sourced
  <2>4. CASE l = k /\ ~ mine(w)
    <3>1. PICK f : Source(f, store[k][w], w, Past(k))
      BY DEF Inv, Sourced
    <3>2. store[k][w] \in Seq(Nat)
      BY <1>0
    <3>3. Source(f, store[k][w], w, [Past(k) EXCEPT ![m] = Append(Past(k)[m], now)])
      BY <1>0, <2>2, <3>1, <3>2, SourceOther
    <3>4. QED
      BY <1>3, <2>1, <2>4, <3>3
  <2>5. CASE l = k /\ mine(w)
    <3>1. PICK f : Source(f, p(w), w, Past(k))
      BY Refreshed
    <3>2. p(w) \in Seq(Nat)
      BY <1>0, <1>2
    <3>3. m \in LimitersOf(w)
      BY <2>5 DEF LimitersOf
    <3> HIDE DEF p
    <3>4. \E g : Source(g, Append(p(w), now), w, [Past(k) EXCEPT ![m] = Append(Past(k)[m], now)])
      BY <1>0, <2>2, <3>1, <3>2, <3>3, SourceCounted
    <3>5. QED
      BY <1>3, <2>1, <2>5, <3>4
  <2>6. QED
    BY <2>3, <2>4, <2>5
<1>8. AnswerKnown'
  BY <1>1 DEF AnswerKnown
<1>9. QED
  BY <1>5, <1>6, <1>7, <1>8 DEF Inv

\* The invariant that is inductive.
LEMMA Invariant == Spec => []Inv
<1>1. Init => Inv
  <2> SUFFICES ASSUME Init PROVE Inv
    OBVIOUS
  <2>1. now = 0 /\ \A k \in Keys, w \in Windows : store[k][w] = <<>>
    BY DEF Init
  <2>2. \A m \in Managers, k \in Keys : passed[m][k] = <<>>
    BY DEF Init
  <2>3. TypeOK
    BY BoundedClock DEF Init, TypeOK, Sorted
  <2>4. TailKept
    BY <2>2 DEF TailKept, Kept
  <2>5. Sourced
    <3>1. ASSUME NEW k \in Keys, NEW w \in Windows PROVE \E f : Source(f, store[k][w], w, Past(k))
      <4>1. Source(<<>>, <<>>, w, Past(k))
        BY DEF Source, Injection, IsInjective
      <4>2. QED
        BY <2>1, <4>1
    <3>2. QED
      BY <3>1 DEF Sourced
  <2>6. AnswerKnown
    BY DEF Init, NoReply, AnswerKnown
  <2>7. QED
    BY <2>3, <2>4, <2>5, <2>6 DEF Inv
<1>2. Inv /\ [Next]_vars => Inv'
  <2> SUFFICES ASSUME Inv, [Next]_vars PROVE Inv'
    OBVIOUS
  <2>1. CASE Tick
    <3>0. /\ now \in Nat /\ now' = now + 1 /\ now' \in 0 .. MaxTime
          /\ UNCHANGED <<store, passed, reply>>
      BY <2>1, BoundedClock DEF Tick, Inv, TypeOK
    <3>1. TypeOK'
      <4>1. Seq(0 .. now) \subseteq Seq(0 .. now')
        BY <3>0
      <4>2. /\ store \in [Keys -> [Windows -> Seq(0 .. now')]]
            /\ passed \in [Managers -> [Keys -> Seq(0 .. now')]]
        BY <4>1 DEF Inv, TypeOK
      <4>3. QED
        BY <3>0, <4>2 DEF Inv, TypeOK, Sorted
    <3>2. TailKept'
      <4> SUFFICES ASSUME NEW m \in Managers, NEW k \in Keys, NEW c \in WindowsOf(m)
                   PROVE  Kept(passed[m][k], store[k][Window(m, c)], now' - Duration[Window(m, c)])
        BY <3>0 DEF TailKept, WindowsOf, Window, Kept
      <4>1. Duration[Window(m, c)] \in Nat
        BY ConfigType
      <4>2. Kept(passed[m][k], store[k][Window(m, c)], now - Duration[Window(m, c)])
        BY DEF Inv, TailKept
      <4>3. passed[m][k] \in Seq(0 .. now)
        BY DEF Inv, TypeOK
      <4>4. ASSUME NEW i \in DOMAIN passed[m][k],
                   passed[m][k][i] >= now' - Duration[Window(m, c)]
            PROVE  passed[m][k][i] >= now - Duration[Window(m, c)]
        <5>1. passed[m][k][i] \in 0 .. now
          BY <4>3, <4>4, Element
        <5>2. QED
          BY <3>0, <4>1, <4>4, <5>1
      <4>5. QED
        BY <4>2, <4>4 DEF Kept
    <3>3. Sourced'
      <4> SUFFICES ASSUME NEW k \in Keys, NEW w \in Windows
                   PROVE  \E f : Source(f, store'[k][w], w, Past(k)')
        BY DEF Sourced, Source, LimitersOf, WindowsOf, Window
      <4>1. Past(k)' = Past(k) /\ store' = store
        BY <3>0 DEF Past
      <4>2. QED
        BY <4>1 DEF Inv, Sourced
    <3>4. AnswerKnown'
      BY <3>0 DEF Inv, AnswerKnown, WindowsOf
    <3>5. QED
      BY <3>1, <3>2, <3>3, <3>4 DEF Inv
  <2>2. CASE \E m \in Managers, k \in Keys : Accept(m, k) \/ Reject(m, k)
    BY <2>2, AcceptStep, RejectStep
  <2>3. CASE Clear
    <3>1. /\ now' = now /\ reply' = NoReply
          /\ \A k \in Keys, w \in Windows : store'[k][w] = <<>>
          /\ \A m \in Managers, k \in Keys : passed'[m][k] = <<>>
      BY <2>3 DEF Clear
    <3>2. TypeOK'
      BY <2>3, <3>1 DEF Clear, Inv, TypeOK, Sorted
    <3>3. TailKept'
      BY <3>1 DEF TailKept, Kept, WindowsOf
    <3>4. Sourced'
      <4> SUFFICES ASSUME NEW k \in Keys, NEW w \in Windows
                   PROVE  \E f : Source(f, store'[k][w], w, Past(k)')
        BY DEF Sourced, Source, LimitersOf, WindowsOf, Window
      <4>1. Source(<<>>, <<>>, w, Past(k)')
        BY DEF Source, Injection, IsInjective
      <4>2. QED
        BY <3>1, <4>1
    <3>5. AnswerKnown'
      BY <3>1 DEF NoReply, AnswerKnown
    <3>6. QED
      BY <3>2, <3>3, <3>4, <3>5 DEF Inv
  <2>4. CASE UNCHANGED vars
    <3>1. UNCHANGED <<now, passed>> /\ UNCHANGED <<store, reply>>
      BY <2>4 DEF vars
    <3>2. store' \in [Keys -> [Windows -> Seq(0 .. now)]]
      BY <3>1 DEF Inv, TypeOK
    <3>3. TypeOK' /\ TailKept' /\ Sourced'
      BY <3>1, <3>2, OnlyPruned
    <3>4. QED
      BY <3>1, <3>3 DEF Inv, AnswerKnown, WindowsOf
  <2>5. QED
    BY <2>1, <2>2, <2>3, <2>4 DEF Next
<1>3. QED
  BY <1>1, <1>2, PTL DEF Spec

\* The limits hold in every position of the sliding window, whatever limiters
\* share it: a request the window would have to hold back is still remembered.
THEOREM LimitHolds == Spec => []SlidingWindow
<1>1. Init => SlidingWindow
  <2> SUFFICES ASSUME Init PROVE SlidingWindow
    OBVIOUS
  <2>1. \A m \in Managers, k \in Keys : passed[m][k] = <<>>
    BY DEF Init
  <2>2. QED
    BY <2>1 DEF SlidingWindow
<1>2. Inv /\ SlidingWindow /\ [Next]_vars => SlidingWindow'
  <2> SUFFICES ASSUME Inv, SlidingWindow, [Next]_vars PROVE SlidingWindow'
    OBVIOUS
  <2>1. CASE passed' = passed
    BY <2>1 DEF SlidingWindow, WindowsOf, Window, Limit
  <2>2. ASSUME NEW m \in Managers, NEW k \in Keys, Accept(m, k)
        PROVE  SlidingWindow'
    <3>0. /\ now \in Nat /\ passed \in [Managers -> [Keys -> Seq(0 .. now)]]
          /\ passed' = [passed EXCEPT ![m][k] = Append(passed[m][k], now)]
          /\ \A c \in WindowsOf(m) : ~ Full(m, k, c)
      BY <2>2 DEF Accept, Inv, TypeOK
    <3>1. ASSUME NEW n \in Managers, NEW l \in Keys, ~ (n = m /\ l = k)
          PROVE  passed'[n][l] = passed[n][l]
      BY <3>0, <3>1
    <3>2. passed'[m][k] = Append(passed[m][k], now)
      BY <3>0
    <3>3. ASSUME NEW c \in WindowsOf(m), NEW i \in DOMAIN passed'[m][k],
                 i + Limit(m, c) \in DOMAIN passed'[m][k]
          PROVE  passed'[m][k][i + Limit(m, c)] - passed'[m][k][i] > Duration[Window(m, c)]
      <4> DEFINE h == passed[m][k]
                 w == Window(m, c)
                 p == Pruned(store[k][w], w)
                 lim == Limit(m, c)
                 g == passed'[m][k]
      <4>1. w \in Windows /\ lim \in Nat /\ Duration[w] \in Nat
        BY ConfigType
      <4>2. Len(p) < lim /\ Kept(h, p, now - Duration[w]) /\ Len(p) \in Nat
        <5>1. p \in Seq(0 .. now) /\ Kept(h, p, now - Duration[w])
          BY <2>2, <4>1, Refreshed
        <5>2. Len(p) \in Nat
          BY <5>1
        <5>3. ~ (Len(p) >= lim)
          BY <3>0, <3>3 DEF Full, Count
        <5>4. QED
          BY <4>1, <5>1, <5>2, <5>3
      <4>3. /\ h \in Seq(0 .. now) /\ Len(h) \in Nat /\ DOMAIN h = 1 .. Len(h)
            /\ DOMAIN g = 1 .. Len(h) + 1 /\ g[Len(h) + 1] = now
            /\ \A j \in 1 .. Len(h) : g[j] = h[j] /\ h[j] \in 0 .. now
        <5>1. h \in Seq(0 .. now) /\ g = Append(h, now)
          BY <3>0, <3>2
        <5>2. \A j \in DOMAIN h : h[j] \in 0 .. now
          BY <5>1, Element
        <5> HIDE DEF h, g
        <5>3. Len(h) \in Nat /\ DOMAIN h = 1 .. Len(h)
          BY <5>1
        <5>4. /\ DOMAIN g = 1 .. Len(h) + 1 /\ g[Len(h) + 1] = now
              /\ \A j \in 1 .. Len(h) : g[j] = h[j]
          BY <5>1, <5>3
        <5>5. QED
          BY <5>1, <5>2, <5>3, <5>4
      <4>4. SlidingWindow => (\A j \in DOMAIN h : j + lim \in DOMAIN h => h[j + lim] - h[j] > Duration[w])
        BY <2>2 DEF SlidingWindow
      <4>5. i \in DOMAIN g /\ i + lim \in DOMAIN g
        BY <3>3
      <4> HIDE DEF h, w, p, lim, g
      <4>5a. i \in 1 .. Len(h) + 1 /\ i + lim \in 1 .. Len(h) + 1
        BY <4>3, <4>5
      <4>6. CASE i + lim \in DOMAIN h
        <5>1. i \in DOMAIN h
          BY <4>1, <4>3, <4>6, <4>5a
        <5>2. h[i + lim] - h[i] > Duration[w]
          BY <4>4, <4>6, <5>1
        <5>3. g[i + lim] = h[i + lim] /\ g[i] = h[i]
          BY <4>3, <4>6, <5>1
        <5>4. g[i + lim] - g[i] > Duration[w]
          BY <5>2, <5>3
        <5>5. QED
          BY <5>4 DEF g, lim, w
      <4>7. CASE i + lim = Len(h) + 1
        <5>1. i \in 1 .. Len(h) /\ Len(h) - i = lim - 1
          <6>1. lim \in Nat /\ lim > 0 /\ Len(h) \in Nat
            BY <4>1, <4>2, <4>3
          <6>2. QED
            BY <4>7, <4>5a, <6>1
        <5>2. ~ (h[i] >= now - Duration[w])
          BY <4>1, <4>2, <4>3, <5>1 DEF Kept
        <5>3. g[i] = h[i] /\ g[i + lim] = now /\ h[i] \in 0 .. now
          BY <4>3, <4>7, <5>1
        <5>4. g[i + lim] - g[i] > Duration[w]
          BY <3>0, <4>1, <5>2, <5>3
        <5>5. QED
          BY <5>4 DEF g, lim, w
      <4>8. QED
        BY <4>3, <4>5, <4>6, <4>7 DEF g, lim, w
    <3>4. ASSUME NEW n \in Managers, NEW l \in Keys, NEW c \in WindowsOf(n),
                 NEW i \in DOMAIN passed'[n][l], i + Limit(n, c) \in DOMAIN passed'[n][l]
          PROVE  passed'[n][l][i + Limit(n, c)] - passed'[n][l][i] > Duration[Window(n, c)]
      <4>1. CASE n = m /\ l = k
        BY <3>3, <3>4, <4>1
      <4>2. CASE ~ (n = m /\ l = k)
        <5>1. passed'[n][l] = passed[n][l]
          BY <3>1, <4>2
        <5>2. QED
          BY <3>4, <5>1 DEF SlidingWindow
      <4>3. QED
        BY <4>1, <4>2
    <3>5. QED
      BY <3>4 DEF SlidingWindow, WindowsOf, Window, Limit
  <2>3. CASE Clear
    <3>1. \A m \in Managers, k \in Keys : passed'[m][k] = <<>>
      BY <2>3 DEF Clear
    <3>2. QED
      BY <3>1 DEF SlidingWindow, WindowsOf
  <2>4. QED
    BY <2>1, <2>2, <2>3 DEF Next, Tick, Reject, vars
<1>3. QED
  BY <1>1, <1>2, Invariant, PTL DEF Spec

\* A request is only turned away when the window really is full: every one of
\* the timestamps that fill it is that of a request of its own.
THEOREM RejectionsAreDue == Spec => []QuotaInv
<1> DEFINE counted(w, k, t) == UNION {{m} \X PassedSince(m, k, t) : m \in LimitersOf(w)}
<1>1. Init => RejectionIsDue
  BY DEF Init, NoReply, RejectionIsDue
<1>2. Inv /\ RejectionIsDue /\ [Next]_vars => RejectionIsDue'
  <2> SUFFICES ASSUME Inv, RejectionIsDue, [Next]_vars PROVE RejectionIsDue'
    OBVIOUS
  <2>1. CASE UNCHANGED <<passed, reply>>
    BY <2>1 DEF RejectionIsDue, PassedSince, LimitersOf, WindowsOf, Window, Limit
  <2>2. CASE reply'.verdict # "rejected"
    BY <2>2 DEF RejectionIsDue
  <2>3. ASSUME NEW m \in Managers, NEW k \in Keys, Reject(m, k) PROVE RejectionIsDue'
    <3>1. PICK i \in WindowsOf(m) :
            /\ Full(m, k, i)
            /\ reply' = [verdict |-> "rejected", by |-> m, key |-> k, at |-> now,
                         index |-> i, reset |-> ResetTime(m, k, i)]
            /\ passed' = passed
      BY <2>3 DEF Reject
    <3> DEFINE w == Window(m, i)
               p == Pruned(store[k][w], w)
               C == counted(w, k, now - Duration[w])
    <3>2. w \in Windows /\ Limit(m, i) \in Nat /\ Duration[w] \in Nat
      BY ConfigType
    <3>3. /\ p \in Seq(0 .. now) /\ now \in Nat /\ Len(p) >= Limit(m, i)
          /\ \A j \in DOMAIN p : p[j] >= now - Duration[w]
      <4>1. p \in Seq(0 .. now) /\ Sorted(p) /\ now \in Nat /\ store[k][w] \in Seq(0 .. now)
        BY <3>2, Refreshed DEF Inv, TypeOK
      <4>2. PICK n \in 0 .. Len(store[k][w]) :
              /\ p = SubSeq(store[k][w], n + 1, Len(store[k][w]))
              /\ n < Len(store[k][w]) => store[k][w][n + 1] >= now - Duration[w]
        BY <3>2, <4>1, PrunedIs
      <4>3. ASSUME NEW j \in DOMAIN p PROVE p[j] >= now - Duration[w]
        <5>1. n < Len(store[k][w]) /\ p[1] = store[k][w][n + 1] /\ 1 \in DOMAIN p
          BY <4>1, <4>2, <4>3
        <5>2. p[1] <= p[j]
          BY <4>1, <4>3, <5>1 DEF Sorted
        <5>3. p[1] \in 0 .. now /\ p[j] \in 0 .. now
          BY <4>1, <4>3, <5>1, Element
        <5>4. p[1] >= now - Duration[w]
          BY <4>2, <5>1
        <5>5. QED
          BY <3>2, <4>1, <5>2, <5>3, <5>4
      <4>4. QED
        BY <3>1, <4>1, <4>3 DEF Full, Count
    <3>4. PICK f : Source(f, p, w, Past(k))
      BY <3>2, Refreshed
    <3>5. ASSUME NEW j \in DOMAIN p PROVE f[j] \in C
      <4>1. f[j][1] \in LimitersOf(w) /\ f[j] \in Managers \X Nat
        BY <3>4 DEF Source, Injection
      <4>2. f[j][2] \in PassedSince(f[j][1], k, now - Duration[w])
        BY <3>3, <3>4, <4>1 DEF Source, PassedSince, Past
      <4>3. f[j] = <<f[j][1], f[j][2]>>
        BY <4>1
      <4>4. QED
        BY <4>1, <4>2, <4>3
    <3>6. IsFiniteSet(C) /\ C \subseteq Managers \X Nat
      <4> DEFINE of(n) == {n} \X PassedSince(n, k, now - Duration[w])
                 L == LimitersOf(w)
      <4>1. IsFiniteSet(L) /\ L \subseteq Managers
        BY FewManagers, FS_Subset DEF LimitersOf
      <4>2. ASSUME NEW n \in L PROVE IsFiniteSet(of(n)) /\ of(n) \subseteq Managers \X Nat
        <5>1. passed[n][k] \in Seq(0 .. now)
          BY <4>1 DEF Inv, TypeOK
        <5>2. PassedSince(n, k, now - Duration[w]) \subseteq 1 .. Len(passed[n][k])
              /\ Len(passed[n][k]) \in Nat
          BY <5>1 DEF PassedSince
        <5>3. IsFiniteSet(1 .. Len(passed[n][k])) /\ IsFiniteSet({n})
          <6>1. IsFiniteSet({n})
            BY FS_Singleton
          <6>2. \A a, b \in Int : IsFiniteSet(a .. b)
            BY FS_Interval
          <6>3. QED
            BY <5>2, <6>1, <6>2
        <5>4. IsFiniteSet(PassedSince(n, k, now - Duration[w]))
          BY <5>2, <5>3, FS_Subset
        <5>5. IsFiniteSet(of(n))
          BY <5>3, <5>4, FS_Product
        <5>6. of(n) \subseteq Managers \X Nat
          BY <4>1, <5>2
        <5>7. QED
          BY <5>5, <5>6
      <4>3. [n \in L |-> of(n)] \in Surjection(L, {of(n) : n \in L})
        BY DEF Surjection
      <4>4. IsFiniteSet({of(n) : n \in L})
        BY <4>1, <4>3, FS_Surjection
      <4>5. QED
        BY <4>2, <4>4, FS_UNION
    <3>7. f \in Injection(DOMAIN p, C)
      BY <3>4, <3>5 DEF Source, Injection
    <3>8. Cardinality(DOMAIN p) <= Cardinality(C)
      BY <3>6, <3>7, FS_Injection
    <3>9. Cardinality(C) >= Limit(m, i)
      <4>1. DOMAIN p = 1 .. Len(p) /\ Len(p) \in Nat
        BY <3>3
      <4>2. Cardinality(DOMAIN p) = Len(p)
        BY <4>1, FS_Interval
      <4>3. Cardinality(C) \in Nat
        BY <3>6, FS_CardinalityType
      <4> HIDE DEF p, C
      <4>4. QED
        BY <3>2, <3>3, <3>8, <4>1, <4>2, <4>3
    <3>10. /\ reply'.by = m /\ reply'.key = k /\ reply'.at = now /\ reply'.index = i
      BY <3>1
    <3>11. QED
      BY <3>1, <3>9, <3>10 DEF RejectionIsDue, PassedSince, LimitersOf, WindowsOf, Window, Limit
  <2>4. CASE \E m \in Managers, k \in Keys : Accept(m, k)
    BY <2>2, <2>4 DEF Accept
  <2>5. CASE Clear
    BY <2>2, <2>5 DEF Clear, NoReply
  <2>6. QED
    BY <2>1, <2>3, <2>4, <2>5 DEF Next, Tick, vars
<1>3. Inv => TypeOK
  BY DEF Inv
<1>4. QED
  BY <1>1, <1>2, <1>3, Invariant, PTL DEF Spec, QuotaInv

\* The reset header promises no room too early.
THEOREM ResetsFree == Spec => []ResetFrees
<1>1. Init => ResetFrees
  BY DEF Init, NoReply, ResetFrees
<1>2. Inv /\ ResetFrees /\ [Next]_vars => ResetFrees'
  <2> SUFFICES ASSUME Inv, ResetFrees, [Next]_vars PROVE ResetFrees'
    OBVIOUS
  <2>1. CASE UNCHANGED vars
    BY <2>1 DEF vars, ResetFrees, Window, Limit
  <2>2. CASE reply'.verdict # "rejected"
    BY <2>2 DEF ResetFrees
  <2>3. CASE Tick
    BY <2>3 DEF Tick, ResetFrees, Inv, TypeOK, AnswerKnown
  <2>4. ASSUME NEW m \in Managers, NEW k \in Keys, Reject(m, k) PROVE ResetFrees'
    <3>1. PICK i \in WindowsOf(m) :
            /\ store' = [store EXCEPT ![k] = Prune(m, k, i)]
            /\ reply' = [verdict |-> "rejected", by |-> m, key |-> k, at |-> now,
                         index |-> i, reset |-> ResetTime(m, k, i)]
      BY <2>4 DEF Reject
    <3> DEFINE w == Window(m, i)
               p == Pruned(store[k][w], w)
    <3>2. w \in Windows /\ Duration[w] \in Nat /\ Second \in Nat \ {0}
      BY ConfigType, WindowsAreSeconds
    <3>3. store'[k][w] = p
      <4>1. i \in 1 .. i
        <5>1. Config[m] \in Seq([window : Windows, limit : Nat])
          BY Limits
        <5>2. i \in 1 .. Len(Config[m])
          BY <5>1 DEF WindowsOf
        <5>3. QED
          BY <5>2
      <4>2. Prune(m, k, i)[w] = p
        BY <3>2, <4>1 DEF Prune
      <4>3. QED
        BY <3>1, <4>2 DEF Inv, TypeOK
    <3>4. p \in Seq(0 .. now)
      BY <3>2, Refreshed
    <3>5. ASSUME p # <<>> PROVE p[1] < ResetTime(m, k, i) * Second + 1 - Duration[w] /\ 1 \in DOMAIN p
      <4>0. now \in Nat
        BY DEF Inv, TypeOK
      <4>1. 1 \in DOMAIN p /\ p[1] \in Nat
        <5>1. 1 \in DOMAIN p
          BY <3>4, <3>5
        <5>2. p[1] \in 0 .. now
          BY <3>4, <5>1, Element
        <5>3. QED
          BY <4>0, <5>1, <5>2
      <4>2. ResetTime(m, k, i) = CeilDiv(p[1] + Duration[w], Second)
        BY <3>5 DEF ResetTime
      <4> HIDE DEF p
      <4>3. ResetTime(m, k, i) * Second >= p[1] + Duration[w]
        BY <3>2, <4>1, <4>2, Ceiling
      <4>4. ResetTime(m, k, i) \in Int
        BY <3>2, <4>1, <4>2 DEF CeilDiv
      <4>5. ResetTime(m, k, i) * Second \in Int
        BY <3>2, <4>4
      <4>6. QED
        BY <3>2, <4>1, <4>3, <4>5
    <3>6. /\ reply'.by = m /\ reply'.key = k /\ reply'.index = i
          /\ reply'.reset = ResetTime(m, k, i)
      BY <3>1
    <3>7. QED
      BY <3>3, <3>5, <3>6 DEF ResetFrees, Window
  <2>5. CASE \E m \in Managers, k \in Keys : Accept(m, k)
    BY <2>2, <2>5 DEF Accept
  <2>6. CASE Clear
    BY <2>2, <2>6 DEF Clear, NoReply
  <2>7. QED
    BY <2>1, <2>3, <2>4, <2>5, <2>6 DEF Next
<1>3. QED
  BY <1>1, <1>2, Invariant, PTL DEF Spec
=============================================================================
