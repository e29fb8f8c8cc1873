---------------------- MODULE IntegrationRunner_proofs ----------------------
(* What holds of IntegrationRunner for any number of runs, listeners and    *)
(* crashes, and that it is a RunLifecycle.                                  *)
EXTENDS IntegrationRunner, SequenceTheorems, TLAPS

-----------------------------------------------------------------------------
(* The invariant                                                           *)

\* A call has an id of its own from the moment it is accepted.
Identified ==
  /\ \A t \in Runs : At(t, "idle") => run[t].id = NoId
  /\ \A t \in Runs : run[t].pc \notin {"idle", "refused"} => run[t].id \in RunIds
  /\ \A t, u \in Runs : (run[t].id = run[u].id /\ run[t].id # NoId) => t = u

\* Nobody knows an id no call has drawn.
Unknown ==
  \A id \in DrawId : /\ store[id] = "none" /\ id \notin badStreams
                     /\ \A i \in DOMAIN listeners : listeners[i].id # id

\* The record of a run says where the run is.
OnRecord(t) ==
  LET s == store[run[t].id] IN
  /\ At(t, "creating") => s = "none"
  /\ At(t, "marking") => s = "queued"
  /\ run[t].pc \in {"announcing", "executing", "savingSuccess"} => s = "running"
  /\ At(t, "auditingSuccess") => s = "succeeded"
  /\ At(t, "savingFailure") => s \in {"running", "succeeded"}
  /\ At(t, "auditingFailure") => s = "failed"

\* What a run has announced before it is over.
SoFar(t) ==
  /\ run[t].pc \in {"idle", "refused", "creating", "marking", "announcing", "executing",
                    "savingSuccess", "auditingSuccess"} => completions[t] = <<>>
  /\ run[t].pc \in {"savingFailure", "auditingFailure"}
       => completions[t] \in {<<>>, <<"succeeded">>}

\* No listener of a quiet run throws, so it announces nothing before its end
\* and fails from no other state than running.
Undisturbed(t) ==
  /\ run[t].id \notin badStreams
  /\ \A i \in DOMAIN listeners :
       listeners[i].id = run[t].id => listeners[i].watcher \notin BadWatchers
  /\ run[t].pc \in Waiting => completions[t] = <<>>
  /\ At(t, "savingFailure") => store[run[t].id] = "running"

Inv ==
  /\ TypeOK /\ FailureIsLast /\ Identified /\ Unknown
  /\ \A t \in Runs : OnRecord(t) /\ SoFar(t)
  /\ \A t \in Quiet : Undisturbed(t)

-----------------------------------------------------------------------------
(* Steps                                                                   *)

\* A sequence that is appended to, or cut, stays a sequence of its elements.
LEMMA Appended == ASSUME NEW X, NEW s \in Seq(X), NEW e \in X PROVE Append(s, e) \in Seq(X)
OBVIOUS

LEMMA Pair == ASSUME NEW a, NEW b PROVE Append(<<a>>, b) = <<a, b>>
<1>1. /\ <<a>> \in Seq({a, b}) /\ <<a, b>> \in Seq({a, b}) /\ b \in {a, b}
      /\ Len(<<a>>) = 1 /\ <<a>>[1] = a
      /\ Len(<<a, b>>) = 2 /\ <<a, b>>[1] = a /\ <<a, b>>[2] = b
  OBVIOUS
<1> DEFINE s == <<a>>
           r == <<a, b>>
<1> HIDE DEF s, r
<1>2. Append(s, b) \in Seq({a, b}) /\ Len(Append(s, b)) = 2
      /\ Append(s, b)[1] = a /\ Append(s, b)[2] = b
  BY <1>1 DEF s
<1>3. \A i \in 1 .. Len(Append(s, b)) : Append(s, b)[i] = r[i]
  BY <1>1, <1>2 DEF r
<1>4. Append(s, b) = r
  BY <1>1, <1>2, <1>3, SeqEqual DEF r
<1>5. QED
  BY <1>4 DEF s, r

LEMMA Wider == ASSUME NEW X, NEW Y, X \subseteq Y, NEW s \in Seq(X) PROVE s \in Seq(Y)
OBVIOUS

LEMMA WithoutOne ==
  ASSUME NEW X, NEW s \in Seq(X), NEW i \in DOMAIN s
  PROVE  LET r == SubSeq(s, 1, i - 1) \o SubSeq(s, i + 1, Len(s))
         IN  r \in Seq(X) /\ \A j \in DOMAIN r : \E k \in DOMAIN s : r[j] = s[k]
<1> DEFINE a == SubSeq(s, 1, i - 1)
           b == SubSeq(s, i + 1, Len(s))
<1>1. a \in Seq(X) /\ Len(a) = i - 1 /\ \A j \in 1 .. i - 1 : a[j] = s[j]
  OBVIOUS
<1>2. b \in Seq(X) /\ Len(b) = Len(s) - i /\ \A j \in 1 .. Len(s) - i : b[j] = s[i + j]
  OBVIOUS
<1> HIDE DEF a, b
<1>3. /\ a \o b \in Seq(X) /\ Len(a \o b) = Len(a) + Len(b)
      /\ \A j \in 1 .. Len(a) + Len(b) :
           (a \o b)[j] = IF j <= Len(a) THEN a[j] ELSE b[j - Len(a)]
  BY <1>1, <1>2
<1>4. ASSUME NEW j \in DOMAIN (a \o b) PROVE \E k \in DOMAIN s : (a \o b)[j] = s[k]
  <2>1. i \in 1 .. Len(s) /\ Len(s) \in Nat /\ j \in 1 .. Len(s) - 1
    BY <1>1, <1>2, <1>3
  <2>2. CASE j <= i - 1
    <3>1. j \in DOMAIN s /\ (a \o b)[j] = s[j]
      <4>1. j \in 1 .. Len(a) + Len(b) /\ j <= Len(a) /\ j \in 1 .. i - 1 /\ j \in 1 .. Len(s)
        BY <1>1, <1>2, <2>1, <2>2
      <4>2. (a \o b)[j] = a[j]
        BY <1>3, <4>1
      <4>3. QED
        BY <1>1, <4>1, <4>2
    <3>2. QED
      BY <3>1
  <2>3. CASE j > i - 1
    <3>1. /\ j + 1 \in DOMAIN s /\ j - (i - 1) \in 1 .. Len(s) - i
          /\ i + (j - (i - 1)) = j + 1
      BY <2>1, <2>3
    <3>2. (a \o b)[j] = b[j - (i - 1)]
      <4>1. j \in 1 .. Len(a) + Len(b) /\ Len(a) = i - 1 /\ ~ (j <= Len(a))
        BY <1>1, <1>2, <2>1, <2>3
      <4>2. QED
        BY <1>3, <4>1
    <3>3. QED
      BY <1>2, <3>1, <3>2
  <2>4. QED
    BY <2>1, <2>2, <2>3
<1>5. QED
  BY <1>3, <1>4 DEF a, b

\* What FailureIsLast allows are sequences of verdicts.
LEMMA AnnouncedIs ==
  ASSUME NEW cs \in {<<>>, <<"succeeded">>, <<"failed">>, <<"succeeded", "failed">>}
  PROVE  cs \in Seq(Verdicts)
<1>1. "succeeded" \in Verdicts /\ "failed" \in Verdicts
  BY DEF Verdicts
<1>2. CASE cs = <<>>
  BY <1>2
<1>3. CASE cs = <<"succeeded">>
  BY <1>1, <1>3
<1>4. CASE cs = <<"failed">>
  BY <1>1, <1>4
<1>5. CASE cs = <<"succeeded", "failed">>
  BY <1>1, <1>5
<1>6. QED
  BY <1>2, <1>3, <1>4, <1>5

\* The step of a run: its program counter, the record of its id and what it has
\* announced change, and nothing of any other run.
LEMMA Moves ==
  ASSUME Inv, NEW t \in Runs, NEW pc \in Waiting \cup Over, NEW s \in Statuses,
         NEW cs \in {<<>>, <<"succeeded">>, <<"failed">>, <<"succeeded", "failed">>},
         run[t].id \in RunIds, GoTo(t, pc), Save(t, s),
         completions' = [completions EXCEPT ![t] = cs],
         audits' \in [Runs -> Seq({"started", "completed", "failed"})],
         heard' \in [Watchers -> Seq(Verdicts)],
         UNCHANGED <<listeners, used, badStreams, crashes>>,
         OnRecord(t)', SoFar(t)',
         t \in Quiet => /\ pc \in Waiting => cs = <<>>
                        /\ pc = "savingFailure" => s = "running"
  PROVE  Inv'
<1> DEFINE id == run[t].id
<1>1. /\ run'[t].pc = pc /\ run'[t].id = id
      /\ \A u \in Runs : u # t => run'[u] = run[u]
      /\ \A u \in Runs : run'[u].id = run[u].id
  BY DEF GoTo, Inv, TypeOK
<1>2. store'[id] = s /\ \A i \in RunIds : i # id => store'[i] = store[i]
  BY DEF Save, Inv, TypeOK
<1>3. completions'[t] = cs /\ \A u \in Runs : u # t => completions'[u] = completions[u]
  BY DEF Inv, TypeOK
<1>4. TypeOK'
  <2>1. run' \in [Runs -> [pc : {"idle"} \cup Waiting \cup Over, id : RunIds \cup {NoId}]]
    BY DEF GoTo, Inv, TypeOK
  <2>2. store' \in [RunIds -> Statuses]
    BY DEF Save, Inv, TypeOK
  <2>3. cs \in Seq(Verdicts)
    BY AnnouncedIs
  <2>4. completions' \in [Runs -> Seq(Verdicts)]
    BY <2>3 DEF Inv, TypeOK
  <2>5. QED
    BY <2>1, <2>2, <2>4 DEF Inv, TypeOK
<1>5. FailureIsLast'
  BY <1>3 DEF Inv, FailureIsLast
<1>6. Identified'
  <2>1. pc # "idle"
    BY DEF Waiting, Over
  <2>2. QED
    BY <1>1, <2>1 DEF Inv, Identified, At
<1>7. DrawId' = DrawId /\ id \notin DrawId
  BY <1>1 DEF DrawId
<1>8. Unknown'
  BY <1>2, <1>7 DEF Inv, Unknown, DrawId
<1>9. ASSUME NEW u \in Runs, u # t
      PROVE  /\ OnRecord(u)' /\ SoFar(u)'
             /\ u \in Quiet => Undisturbed(u)'
  <2>1. run'[u] = run[u] /\ completions'[u] = completions[u]
    BY <1>1, <1>3, <1>9
  <2>2. run[u].id # id
    BY <1>9, NoIdIsNone DEF Inv, Identified, NoId
  <2>3. SoFar(u)'
    BY <2>1 DEF Inv, SoFar, At
  <2>4. run[u].id \in RunIds => store'[run[u].id] = store[run[u].id]
    BY <1>2, <2>2
  <2>5. run[u].pc \notin {"idle", "refused"} => run[u].id \in RunIds
    BY DEF Inv, Identified
  <2>6. OnRecord(u)'
    BY <2>1, <2>4, <2>5 DEF Inv, OnRecord, At
  <2>7. u \in Quiet => Undisturbed(u)'
    BY <2>1, <2>4, <2>5 DEF Inv, Undisturbed, At
  <2>8. QED
    BY <2>3, <2>6, <2>7
<1>10. t \in Quiet => Undisturbed(t)'
  BY <1>1, <1>2, <1>3 DEF Inv, Undisturbed, At
<1>11. QED
  BY <1>4, <1>5, <1>6, <1>8, <1>9, <1>10, SomeWatchersThrow DEF Inv

\* What the audit sink and the watchers are told is of their types.
LEMMA Told ==
  ASSUME TypeOK, NEW t \in Runs
  PROVE  /\ \A what \in {"started", "completed", "failed"} :
              Audit(t, what) => audits' \in [Runs -> Seq({"started", "completed", "failed"})]
         /\ \A status \in Verdicts :
              EmitCompleted(t, status) => heard' \in [Watchers -> Seq(Verdicts)]
<1>1. ASSUME NEW what \in {"started", "completed", "failed"}, Audit(t, what)
      PROVE  audits' \in [Runs -> Seq({"started", "completed", "failed"})]
  <2>1. audits[t] \in Seq({"started", "completed", "failed"})
    BY DEF TypeOK
  <2>2. Append(audits[t], what) \in Seq({"started", "completed", "failed"})
    BY <2>1, Appended
  <2>3. QED
    BY <1>1, <2>2 DEF Audit, TypeOK
<1>2. ASSUME NEW status \in Verdicts, EmitCompleted(t, status)
      PROVE  heard' \in [Watchers -> Seq(Verdicts)]
  <2>1. ASSUME NEW w \in Watchers
        PROVE  (IF w \in Reached(run[t].id) THEN Append(heard[w], status) ELSE heard[w])
                 \in Seq(Verdicts)
    BY Appended DEF TypeOK
  <2>2. QED
    BY <1>2, <2>1 DEF EmitCompleted
<1>3. QED
  BY <1>1, <1>2

\* No listener of a quiet run throws.
LEMMA Calm ==
  ASSUME Inv, NEW t \in Quiet
  PROVE  Streamed(t) /\ ~ Threw(run[t].id)
<1>1. Undisturbed(t)
  BY DEF Inv
<1>2. ASSUME NEW w \in BadWatchers, w \in Reached(run[t].id) PROVE FALSE
  <2>1. PICK i \in DOMAIN listeners : listeners[i] = [watcher |-> w, id |-> run[t].id]
    BY <1>2 DEF Reached
  <2>2. listeners[i].id = run[t].id /\ listeners[i].watcher = w
    BY <2>1
  <2>3. QED
    BY <1>1, <1>2, <2>2 DEF Undisturbed
<1>3. QED
  BY <1>1, <1>2 DEF Undisturbed, Streamed, Threw

\* Where the step of a run leaves it.
LEMMA Lands ==
  ASSUME TypeOK, NEW t \in Runs, run[t].id \in RunIds, NEW pc, NEW s, NEW cs,
         GoTo(t, pc), Save(t, s), completions' = [completions EXCEPT ![t] = cs]
  PROVE  /\ run'[t].pc = pc /\ run'[t].id = run[t].id
         /\ store'[run[t].id] = s /\ completions'[t] = cs
BY DEF TypeOK, GoTo, Save

\* A step that announces nothing.
LEMMA Silently ==
  ASSUME Inv, NEW t \in Runs, NEW pc \in Waiting \cup Over, NEW s \in Statuses,
         run[t].id \in RunIds, GoTo(t, pc), Save(t, s),
         audits' \in [Runs -> Seq({"started", "completed", "failed"})],
         UNCHANGED <<emitter, crashes>>,
         (/\ run'[t].pc = pc /\ run'[t].id = run[t].id
          /\ store'[run[t].id] = s /\ completions'[t] = completions[t])
            => OnRecord(t)' /\ SoFar(t)',
         t \in Quiet => /\ pc \in Waiting => completions[t] = <<>>
                        /\ pc = "savingFailure" => s = "running"
  PROVE  Inv'
<1>1. completions[t] \in {<<>>, <<"succeeded">>, <<"failed">>, <<"succeeded", "failed">>}
  BY DEF Inv, FailureIsLast
<1>2. completions' = [completions EXCEPT ![t] = completions[t]]
  BY DEF Inv, TypeOK, emitter
<1>3. /\ run'[t].pc = pc /\ run'[t].id = run[t].id
      /\ store'[run[t].id] = s /\ completions'[t] = completions[t]
  BY <1>2, Lands DEF Inv
<1>4. heard' \in [Watchers -> Seq(Verdicts)] /\ UNCHANGED <<listeners, used, badStreams, crashes>>
  BY DEF Inv, TypeOK, emitter
<1>5. QED
  BY <1>1, <1>2, <1>3, <1>4, Moves

\* A step that changes nothing on record saves what is there.
LEMMA Unsaved ==
  ASSUME Inv, NEW t \in Runs, run[t].id \in RunIds, UNCHANGED store
  PROVE  Save(t, store[run[t].id]) /\ store[run[t].id] \in Statuses
BY DEF Inv, TypeOK, Save

\* Every step of executeRun() keeps the invariant.
LEMMA RunStep == ASSUME Inv, NEW t \in Runs, Executes(t) PROVE Inv'
<1> DEFINE id == run[t].id
           AuditType == Seq({"started", "completed", "failed"})
<1>1. run[t].pc \notin {"idle", "refused"} /\ id \in RunIds
  BY DEF Executes, Create, MarkRunning, Announce, ExecutorReturns, ExecutorThrows, SaveSuccess,
         AuditSuccess, SaveFailure, AuditFailure, StoreRejects, At, Inv, Identified
<1>2. OnRecord(t) /\ SoFar(t) /\ TypeOK /\ (t \in Quiet => Undisturbed(t))
  BY DEF Inv
<1>3. UNCHANGED audits => audits' \in [Runs -> AuditType]
  BY <1>2 DEF TypeOK
<1>4. t \in Quiet => Streamed(t) /\ ~ Threw(id)
  BY Calm
<1> HIDE DEF id
<1>5. CASE Create(t)
  <2>1. GoTo(t, "marking") /\ Save(t, "queued") /\ UNCHANGED <<emitter, crashes>>
        /\ At(t, "creating") /\ UNCHANGED audits
    BY <1>5 DEF Create, Save, id
  <2>2. completions[t] = <<>> /\ "marking" \in Waiting \cup Over /\ "queued" \in Statuses
    BY <1>2, <2>1 DEF SoFar, At, Waiting, Statuses
  <2>3. (run'[t].pc = "marking" /\ run'[t].id = id /\ store'[id] = "queued"
         /\ completions'[t] = completions[t]) => OnRecord(t)' /\ SoFar(t)'
    BY <2>2 DEF OnRecord, SoFar, At
  <2>4. QED
    BY <1>1, <1>3, <2>1, <2>2, <2>3, Silently DEF id
<1>6. CASE MarkRunning(t)
  <2>1. GoTo(t, "announcing") /\ Save(t, "running") /\ UNCHANGED <<emitter, crashes>>
        /\ At(t, "marking") /\ UNCHANGED audits
    BY <1>6 DEF MarkRunning
  <2>2. completions[t] = <<>> /\ "announcing" \in Waiting \cup Over /\ "running" \in Statuses
    BY <1>2, <2>1 DEF SoFar, At, Waiting, Statuses
  <2>3. (run'[t].pc = "announcing" /\ run'[t].id = id /\ store'[id] = "running"
         /\ completions'[t] = completions[t]) => OnRecord(t)' /\ SoFar(t)'
    BY <2>2 DEF OnRecord, SoFar, At
  <2>4. QED
    BY <1>1, <1>3, <2>1, <2>2, <2>3, Silently DEF id
<1>7. CASE Announce(t)
  <2> DEFINE pc == IF Streamed(t) THEN "executing" ELSE "abandoned"
  <2>1. GoTo(t, pc) /\ Save(t, store[id]) /\ UNCHANGED <<emitter, crashes>>
        /\ At(t, "announcing") /\ Audit(t, "started")
    BY <1>1, <1>7, Unsaved DEF Announce, id
  <2>2. /\ completions[t] = <<>> /\ store[id] = "running" /\ store[id] \in Statuses
        /\ pc \in {"executing", "abandoned"}
    BY <1>1, <1>2, <2>1 DEF SoFar, OnRecord, At, Statuses, id
  <2>3. (run'[t].pc = pc /\ run'[t].id = id /\ store'[id] = store[id]
         /\ completions'[t] = completions[t]) => OnRecord(t)' /\ SoFar(t)'
    BY <2>2 DEF OnRecord, SoFar, At
  <2>4. audits' \in [Runs -> AuditType]
    BY <1>2, <2>1, Told
  <2> HIDE DEF pc
  <2>5. pc \in Waiting \cup Over /\ pc # "savingFailure"
    BY <2>2 DEF Waiting, Over
  <2>6. QED
    BY <1>1, <2>1, <2>2, <2>3, <2>4, <2>5, Silently DEF id
<1>8. CASE ExecutorReturns(t)
  <2>1. GoTo(t, "savingSuccess") /\ Save(t, store[id]) /\ UNCHANGED <<emitter, crashes>>
        /\ At(t, "executing") /\ UNCHANGED audits
    BY <1>1, <1>8, Unsaved DEF ExecutorReturns, id
  <2>2. /\ completions[t] = <<>> /\ store[id] = "running" /\ store[id] \in Statuses
        /\ "savingSuccess" \in Waiting \cup Over
    BY <1>2, <2>1 DEF SoFar, OnRecord, At, Statuses, Waiting, id
  <2>3. (run'[t].pc = "savingSuccess" /\ run'[t].id = id /\ store'[id] = store[id]
         /\ completions'[t] = completions[t]) => OnRecord(t)' /\ SoFar(t)'
    BY <2>2 DEF OnRecord, SoFar, At
  <2>4. QED
    BY <1>1, <1>3, <2>1, <2>2, <2>3, Silently DEF id
<1>9. CASE ExecutorThrows(t)
  <2>1. GoTo(t, "savingFailure") /\ Save(t, store[id]) /\ UNCHANGED <<emitter, crashes>>
        /\ At(t, "executing") /\ UNCHANGED audits
    BY <1>1, <1>9, Unsaved DEF ExecutorThrows, id
  <2>2. /\ completions[t] = <<>> /\ store[id] = "running" /\ store[id] \in Statuses
        /\ "savingFailure" \in Waiting \cup Over
    BY <1>2, <2>1 DEF SoFar, OnRecord, At, Statuses, Waiting, id
  <2>3. (run'[t].pc = "savingFailure" /\ run'[t].id = id /\ store'[id] = store[id]
         /\ completions'[t] = completions[t]) => OnRecord(t)' /\ SoFar(t)'
    BY <2>2 DEF OnRecord, SoFar, At
  <2>4. QED
    BY <1>1, <1>3, <2>1, <2>2, <2>3, Silently DEF id
<1>10. CASE SaveSuccess(t)
  <2> DEFINE pc == IF Streamed(t) THEN "auditingSuccess" ELSE "savingFailure"
  <2>1. GoTo(t, pc) /\ Save(t, "succeeded") /\ UNCHANGED <<emitter, crashes>>
        /\ At(t, "savingSuccess") /\ UNCHANGED audits
    BY <1>10 DEF SaveSuccess
  <2>2. /\ completions[t] = <<>> /\ "succeeded" \in Statuses
        /\ pc \in {"auditingSuccess", "savingFailure"}
    BY <1>2, <2>1 DEF SoFar, At, Statuses
  <2>3. (run'[t].pc = pc /\ run'[t].id = id /\ store'[id] = "succeeded"
         /\ completions'[t] = completions[t]) => OnRecord(t)' /\ SoFar(t)'
    BY <2>2 DEF OnRecord, SoFar, At
  <2>4. t \in Quiet => pc # "savingFailure"
    BY <1>4
  <2> HIDE DEF pc
  <2>5. pc \in Waiting \cup Over
    BY <2>2 DEF Waiting, Over
  <2>6. QED
    BY <1>1, <1>3, <2>1, <2>2, <2>3, <2>4, <2>5, Silently DEF id
<1>11. CASE SaveFailure(t)
  <2> DEFINE pc == IF Streamed(t) THEN "auditingFailure" ELSE "abandoned"
  <2>1. GoTo(t, pc) /\ Save(t, "failed") /\ UNCHANGED <<emitter, crashes>>
        /\ At(t, "savingFailure") /\ UNCHANGED audits
    BY <1>11 DEF SaveFailure
  <2>2. /\ completions[t] \in {<<>>, <<"succeeded">>} /\ "failed" \in Statuses
        /\ pc \in {"auditingFailure", "abandoned"}
    BY <1>2, <2>1 DEF SoFar, At, Statuses
  <2>3. (run'[t].pc = pc /\ run'[t].id = id /\ store'[id] = "failed"
         /\ completions'[t] = completions[t]) => OnRecord(t)' /\ SoFar(t)'
    BY <2>2 DEF OnRecord, SoFar, At
  <2>4. t \in Quiet => completions[t] = <<>>
    BY <1>2, <2>1 DEF Undisturbed, At, Waiting
  <2> HIDE DEF pc
  <2>5. pc \in Waiting \cup Over /\ pc # "savingFailure"
    BY <2>2 DEF Waiting, Over
  <2>6. QED
    BY <1>1, <1>3, <2>1, <2>2, <2>3, <2>4, <2>5, Silently DEF id
<1>12. CASE StoreRejects(t)
  <2> DEFINE pc == WhenRejected(t)
  <2>1. GoTo(t, pc) /\ Save(t, store[id]) /\ UNCHANGED <<emitter, crashes>>
        /\ run[t].pc \in {"creating", "marking", "savingSuccess", "savingFailure"}
        /\ UNCHANGED audits /\ store[id] \in Statuses
    BY <1>1, <1>12, Unsaved DEF StoreRejects, id
  <2>2. /\ pc \in {"refused", "savingFailure", "unsaved"}
        /\ pc = "refused" => run[t].pc = "creating"
        /\ pc = "savingFailure" => run[t].pc = "savingSuccess"
    BY DEF WhenRejected, At
  <2> HIDE DEF pc
  <2>3. (run'[t].pc = pc /\ run'[t].id = id /\ store'[id] = store[id]
         /\ completions'[t] = completions[t]) => OnRecord(t)' /\ SoFar(t)'
    BY <1>2, <2>2 DEF OnRecord, SoFar, At, id
  <2>4. pc = "savingFailure" => completions[t] = <<>> /\ store[id] = "running"
    BY <1>2, <2>2 DEF OnRecord, SoFar, At, id
  <2>5. /\ pc \in Waiting \cup Over
        /\ pc \in Waiting => pc = "savingFailure"
    BY <2>2 DEF Waiting, Over
  <2>6. QED
    BY <1>1, <1>3, <2>1, <2>3, <2>4, <2>5, Silently DEF id
<1>13. CASE AuditSuccess(t)
  <2> DEFINE pc == IF Threw(id) THEN "savingFailure" ELSE "done"
  <2>1. GoTo(t, pc) /\ Save(t, store[id]) /\ UNCHANGED crashes /\ store[id] \in Statuses
        /\ At(t, "auditingSuccess") /\ Audit(t, "completed") /\ EmitCompleted(t, "succeeded")
    BY <1>1, <1>13, Unsaved DEF AuditSuccess, id
  <2>2. completions[t] = <<>> /\ store[id] = "succeeded"
    BY <1>2, <2>1 DEF SoFar, OnRecord, At, id
  <2>3. completions' = [completions EXCEPT ![t] = <<"succeeded">>]
        /\ UNCHANGED <<listeners, used, badStreams, crashes>>
    BY <2>1, <2>2 DEF EmitCompleted
  <2>4. audits' \in [Runs -> AuditType] /\ heard' \in [Watchers -> Seq(Verdicts)]
    BY <1>2, <2>1, Told DEF Verdicts
  <2>5. pc \in {"savingFailure", "done"} /\ (t \in Quiet => pc = "done")
    BY <1>4
  <2> HIDE DEF pc
  <2>6. OnRecord(t)' /\ SoFar(t)'
    <3>1. run'[t].pc = pc /\ run'[t].id = id /\ store'[id] = store[id]
          /\ completions'[t] = <<"succeeded">>
      BY <1>1, <1>2, <2>1, <2>3 DEF TypeOK, GoTo, Save, id
    <3>2. QED
      BY <2>2, <2>5, <3>1 DEF OnRecord, SoFar, At
  <2>7. pc \in Waiting \cup Over /\ "done" \notin Waiting
    BY <2>5 DEF Waiting, Over
  <2>8. QED
    BY <1>1, <2>1, <2>3, <2>4, <2>5, <2>6, <2>7, Moves DEF id
<1>14. CASE AuditFailure(t)
  <2> DEFINE pc == IF Threw(id) THEN "abandoned" ELSE "done"
             cs == Append(completions[t], "failed")
  <2>1. GoTo(t, pc) /\ Save(t, store[id]) /\ UNCHANGED crashes /\ store[id] \in Statuses
        /\ At(t, "auditingFailure") /\ Audit(t, "failed") /\ EmitCompleted(t, "failed")
    BY <1>1, <1>14, Unsaved DEF AuditFailure, id
  <2>2. completions[t] \in {<<>>, <<"succeeded">>}
    BY <1>2, <2>1 DEF SoFar, At
  <2>3. completions' = [completions EXCEPT ![t] = cs]
        /\ UNCHANGED <<listeners, used, badStreams, crashes>>
    BY <2>1 DEF EmitCompleted
  <2>4. audits' \in [Runs -> AuditType] /\ heard' \in [Watchers -> Seq(Verdicts)]
    BY <1>2, <2>1, Told DEF Verdicts
  <2>5. pc \in {"abandoned", "done"}
    OBVIOUS
  <2>6. cs \in {<<"failed">>, <<"succeeded", "failed">>}
    <3>1. CASE completions[t] = <<>>
      BY <3>1
    <3>2. CASE completions[t] = <<"succeeded">>
      BY <3>2, Pair
    <3>3. QED
      BY <2>2, <3>1, <3>2
  <2> HIDE DEF pc, cs
  <2>7. OnRecord(t)' /\ SoFar(t)'
    <3>1. run'[t].pc = pc
      BY <1>1, <1>2, <2>1, <2>3, Lands DEF id
    <3>2. QED
      BY <2>5, <3>1 DEF OnRecord, SoFar, At
  <2>8. pc \in Over /\ pc \notin Waiting /\ pc # "savingFailure"
    BY <2>5 DEF Waiting, Over
  <2>9. QED
    BY <1>1, <2>1, <2>3, <2>4, <2>6, <2>7, <2>8, Moves DEF id
<1>15. QED
  BY <1>5, <1>6, <1>7, <1>8, <1>9, <1>10, <1>11, <1>12, <1>13, <1>14 DEF Executes

-----------------------------------------------------------------------------
(* The steps around a run                                                  *)

\* A call is accepted under an id nobody else has.
LEMMA AcceptStep == ASSUME Inv, NEW t \in Runs, Refuse(t) \/ Accept(t) PROVE Inv'
<1>1. /\ At(t, "idle") /\ run[t].id = NoId
      /\ UNCHANGED <<store, audits, completions, listeners, used, heard, badStreams, crashes>>
  BY DEF Refuse, Accept, Inv, Identified, emitter
<1>2. completions[t] = <<>>
  BY <1>1 DEF Inv, SoFar, At
<1>3. ASSUME NEW u \in Runs, run'[u] = run[u]
      PROVE  OnRecord(u)' /\ SoFar(u)' /\ (u \in Quiet => Undisturbed(u)')
  BY <1>1, <1>3 DEF Inv, OnRecord, SoFar, Undisturbed, At
<1>4. CASE Refuse(t)
  <2>1. run' = [run EXCEPT ![t].pc = "refused"]
    BY <1>4 DEF Refuse, GoTo
  <2>2. TypeOK'
    <3>1. run' \in [Runs -> [pc : {"idle"} \cup Waiting \cup Over, id : RunIds \cup {NoId}]]
      BY <2>1 DEF Inv, TypeOK, Over
    <3>2. QED
      BY <1>1, <3>1 DEF Inv, TypeOK
  <2>3. /\ run'[t].pc = "refused" /\ run'[t].id = NoId
        /\ \A u \in Runs : run'[u].id = run[u].id /\ (u # t => run'[u] = run[u])
    BY <1>1, <2>1 DEF Inv, TypeOK
  <2>4. Identified'
    BY <2>3 DEF Inv, Identified, At
  <2>5. Unknown'
    BY <1>1, <2>3 DEF Inv, Unknown, DrawId
  <2>6. OnRecord(t)' /\ SoFar(t)'
    BY <1>1, <1>2, <2>3 DEF OnRecord, SoFar, At
  <2>7. t \in Quiet => Undisturbed(t)'
    BY <1>1, <1>2, <2>3 DEF Inv, Undisturbed, At
  <2>8. QED
    BY <1>1, <1>3, <2>2, <2>3, <2>4, <2>5, <2>6, <2>7, SomeWatchersThrow DEF Inv, FailureIsLast
<1>5. CASE Accept(t)
  <2>1. PICK id \in DrawId : run' = [run EXCEPT ![t] = [pc |-> "creating", id |-> id]]
    BY <1>5 DEF Accept
  <2>2. id \in RunIds /\ \A u \in Runs : run[u].id # id
    BY DEF DrawId
  <2>3. TypeOK'
    <3>1. run' \in [Runs -> [pc : {"idle"} \cup Waiting \cup Over, id : RunIds \cup {NoId}]]
      BY <2>1, <2>2 DEF Inv, TypeOK, Waiting
    <3>2. QED
      BY <1>1, <3>1 DEF Inv, TypeOK
  <2>4. /\ run'[t].pc = "creating" /\ run'[t].id = id
        /\ \A u \in Runs : u # t => run'[u] = run[u]
    BY <2>1 DEF Inv, TypeOK
  <2>5. Identified'
    BY <2>2, <2>4 DEF Inv, Identified, At
  <2>6. DrawId' \subseteq DrawId
    <3> SUFFICES ASSUME NEW x \in DrawId', NEW u \in Runs, x = run[u].id PROVE FALSE
      BY DEF DrawId
    <3>1. x \in RunIds /\ x # run'[u].id
      BY DEF DrawId
    <3>2. CASE u = t
      BY <1>1, <3>1, <3>2, NoIdIsNone DEF NoId
    <3>3. CASE u # t
      BY <2>4, <3>1, <3>3
    <3>4. QED
      BY <3>2, <3>3
  <2>7. Unknown'
    BY <1>1, <2>6 DEF Inv, Unknown
  <2>8. store[id] = "none" /\ id \notin badStreams
        /\ \A i \in DOMAIN listeners : listeners[i].id # id
    BY DEF Inv, Unknown
  <2>9. OnRecord(t)' /\ SoFar(t)'
    BY <1>1, <1>2, <2>4, <2>8 DEF OnRecord, SoFar, At
  <2>10. Undisturbed(t)'
    BY <1>1, <1>2, <2>4, <2>8 DEF Undisturbed, At
  <2>11. QED
    BY <1>1, <1>3, <2>3, <2>4, <2>5, <2>7, <2>9, <2>10, SomeWatchersThrow
       DEF Inv, FailureIsLast
<1>6. QED
  BY <1>4, <1>5

\* A step of the listeners: no run moves, and a quiet run gets no throwing one.
LEMMA Listening ==
  ASSUME Inv, UNCHANGED <<run, store, audits, completions, crashes>>,
         used \subseteq used', used' \subseteq Watchers,
         listeners' \in Seq([watcher : used', id : RunIds]), badStreams' \subseteq RunIds,
         heard' \in [Watchers -> Seq(Verdicts)],
         \A i \in DOMAIN listeners' :
            \/ \E k \in DOMAIN listeners : listeners'[i] = listeners[k]
            \/ \E t \in Runs : /\ Returned(t) /\ listeners'[i].id = run[t].id
                               /\ listeners'[i].watcher \in BadWatchers => t \notin Quiet,
         \A id \in badStreams' :
            id \in badStreams \/ \E t \in Runs : Returned(t) /\ t \notin Quiet /\ id = run[t].id
  PROVE  Inv'
<1>1. TypeOK'
  BY DEF Inv, TypeOK
<1>2. FailureIsLast' /\ Identified' /\ \A t \in Runs : OnRecord(t)' /\ SoFar(t)'
  BY DEF Inv, FailureIsLast, Identified, OnRecord, SoFar, At
<1>3. \A t \in Runs : Returned(t) => run[t].id \in RunIds
  BY DEF Inv, Identified, Returned
<1>4. Unknown'
  <2> SUFFICES ASSUME NEW id \in DrawId
               PROVE  /\ store[id] = "none" /\ id \notin badStreams'
                      /\ \A i \in DOMAIN listeners' : listeners'[i].id # id
    BY DEF Unknown, DrawId
  <2>1. store[id] = "none" /\ id \notin badStreams
        /\ \A i \in DOMAIN listeners : listeners[i].id # id
    BY DEF Inv, Unknown
  <2>2. \A t \in Runs : run[t].id # id
    BY DEF DrawId
  <2>3. QED
    BY <2>1, <2>2
<1>5. ASSUME NEW t \in Quiet PROVE Undisturbed(t)'
  <2>1. Undisturbed(t) /\ t \in Runs
    BY SomeWatchersThrow DEF Inv
  <2>2. \A u \in Runs : Returned(u) /\ run[u].id = run[t].id => u = t
    BY <1>3, <2>1, NoIdIsNone DEF Inv, Identified, NoId
  <2>3. run[t].id \notin badStreams'
    BY <2>1, <2>2 DEF Undisturbed
  <2>4. ASSUME NEW i \in DOMAIN listeners', listeners'[i].id = run[t].id
        PROVE  listeners'[i].watcher \notin BadWatchers
    BY <2>1, <2>2, <2>4 DEF Undisturbed
  <2>5. QED
    BY <2>1, <2>3, <2>4 DEF Undisturbed, At
<1>6. QED
  BY <1>1, <1>2, <1>4, <1>5 DEF Inv

LEMMA SubscribeStep ==
  ASSUME Inv, NEW w \in Watchers, NEW t \in Runs, SubscribeCompletion(w, t)
  PROVE  Inv'
<1> DEFINE e == [watcher |-> w, id |-> run[t].id]
           s == listeners
<1>1. run[t].id \in RunIds /\ Returned(t) /\ (w \in BadWatchers => t \notin Quiet)
  BY DEF SubscribeCompletion, Inv, Identified, Returned
<1>2. used' = used \cup {w} /\ listeners' = Append(s, e)
  BY DEF SubscribeCompletion
<1>3. s \in Seq([watcher : used', id : RunIds])
  <2>1. s \in Seq([watcher : used, id : RunIds])
    BY DEF Inv, TypeOK
  <2>2. [watcher : used, id : RunIds] \subseteq [watcher : used', id : RunIds]
    BY <1>2
  <2> HIDE DEF s
  <2>3. QED
    BY <2>1, <2>2, Wider
<1>4. e \in [watcher : used', id : RunIds] /\ e.id = run[t].id /\ e.watcher = w
  BY <1>1, <1>2
<1> HIDE DEF e, s
<1>5. /\ Append(s, e) \in Seq([watcher : used', id : RunIds])
      /\ \A i \in DOMAIN Append(s, e) : (i \in DOMAIN s /\ Append(s, e)[i] = s[i])
                                        \/ Append(s, e)[i] = e
  BY <1>3, <1>4
<1>6. \A i \in DOMAIN listeners' :
         \/ \E k \in DOMAIN listeners : listeners'[i] = listeners[k]
         \/ \E u \in Runs : /\ Returned(u) /\ listeners'[i].id = run[u].id
                            /\ listeners'[i].watcher \in BadWatchers => u \notin Quiet
  BY <1>1, <1>2, <1>4, <1>5 DEF s
<1>7. heard' \in [Watchers -> Seq(Verdicts)] /\ badStreams' \subseteq RunIds
      /\ UNCHANGED <<run, store, audits, completions, crashes, badStreams>>
      /\ used' \subseteq Watchers
  BY <1>2 DEF SubscribeCompletion, Inv, TypeOK
<1>8. QED
  BY <1>2, <1>5, <1>6, <1>7, Listening

LEMMA UnsubscribeStep ==
  ASSUME Inv, NEW w \in Watchers, Unsubscribe(w)
  PROVE  Inv'
<1>1. PICK i \in DOMAIN listeners :
        listeners' = SubSeq(listeners, 1, i - 1) \o SubSeq(listeners, i + 1, Len(listeners))
  BY DEF Unsubscribe
<1>2. listeners \in Seq([watcher : used, id : RunIds])
  BY DEF Inv, TypeOK
<1>3. /\ listeners' \in Seq([watcher : used, id : RunIds])
      /\ \A j \in DOMAIN listeners' : \E k \in DOMAIN listeners : listeners'[j] = listeners[k]
  BY <1>1, <1>2, WithoutOne
<1>4. UNCHANGED <<run, store, audits, completions, used, heard, badStreams, crashes>>
      /\ used \subseteq Watchers /\ badStreams \subseteq RunIds
      /\ heard \in [Watchers -> Seq(Verdicts)]
  BY DEF Unsubscribe, Inv, TypeOK
<1>5. QED
  BY <1>3, <1>4, Listening

LEMMA BadStreamStep ==
  ASSUME Inv, NEW t \in Runs, SubscribeBadly(t)
  PROVE  Inv'
<1>1. run[t].id \in RunIds /\ Returned(t) /\ t \notin Quiet
  BY DEF SubscribeBadly, Inv, Identified, Returned
<1>2. /\ UNCHANGED <<run, store, audits, completions, listeners, used, heard, crashes>>
      /\ used \subseteq Watchers /\ badStreams \subseteq RunIds
      /\ heard \in [Watchers -> Seq(Verdicts)]
      /\ listeners \in Seq([watcher : used, id : RunIds])
      /\ badStreams' = badStreams \cup {run[t].id}
  BY DEF SubscribeBadly, Inv, TypeOK
<1>3. QED
  BY <1>1, <1>2, Listening

\* A crash leaves the records, and what was announced, as they are.
LEMMA CrashStep == ASSUME Inv, Crash PROVE Inv'
<1>1. /\ run' = [t \in Runs |-> IF run[t].pc \in Waiting THEN [run[t] EXCEPT !.pc = "crashed"]
                                                         ELSE run[t]]
      /\ listeners' = <<>> /\ badStreams' = {}
      /\ UNCHANGED <<store, audits, completions, used, heard>>
  BY DEF Crash
<1>2. ASSUME NEW t \in Runs
      PROVE  /\ run'[t].id = run[t].id
             /\ \/ run'[t] = run[t] /\ run[t].pc \notin Waiting
                \/ run[t].pc \in Waiting /\ run'[t].pc = "crashed"
  BY <1>1 DEF Inv, TypeOK
<1>3. TypeOK'
  <2>1. run' \in [Runs -> [pc : {"idle"} \cup Waiting \cup Over, id : RunIds \cup {NoId}]]
    BY <1>1 DEF Inv, TypeOK, Over
  <2>2. crashes' \in 0 .. MaxCrashes
    BY BoundedCrashes DEF Crash, Inv, TypeOK
  <2>3. QED
    BY <1>1, <2>1, <2>2 DEF Inv, TypeOK
<1>4. Identified'
  <2>1. \A t \in Runs : run[t].pc \in Waiting => run[t].id \in RunIds
    BY DEF Inv, Identified, Waiting
  <2>2. QED
    BY <1>2, <2>1 DEF Inv, Identified, At
<1>5. Unknown'
  BY <1>1, <1>2 DEF Inv, Unknown, DrawId
<1>6. ASSUME NEW t \in Runs PROVE OnRecord(t)' /\ SoFar(t)'
  BY <1>1, <1>2 DEF Inv, OnRecord, SoFar, At
<1>7. ASSUME NEW t \in Quiet PROVE Undisturbed(t)'
  <2>1. t \in Runs /\ Undisturbed(t)
    BY SomeWatchersThrow DEF Inv
  <2>2. "crashed" \notin Waiting
    BY DEF Waiting
  <2>3. QED
    BY <1>1, <1>2, <2>1, <2>2 DEF Undisturbed, At
<1>8. QED
  BY <1>1, <1>3, <1>4, <1>5, <1>6, <1>7 DEF Inv, FailureIsLast

LEMMA StepOK == Inv /\ [Next]_vars => Inv'
<1> SUFFICES ASSUME Inv, [Next]_vars PROVE Inv'
  OBVIOUS
<1>1. ASSUME NEW t \in Runs, Refuse(t) \/ Accept(t) PROVE Inv'
  BY <1>1, AcceptStep
<1>2. ASSUME NEW t \in Runs, Executes(t) PROVE Inv'
  BY <1>2, RunStep
<1>3. ASSUME NEW t \in Runs, SubscribeBadly(t) PROVE Inv'
  BY <1>3, BadStreamStep
<1>4. ASSUME NEW w \in Watchers, Unsubscribe(w) PROVE Inv'
  BY <1>4, UnsubscribeStep
<1>5. ASSUME NEW w \in Watchers, NEW t \in Runs, SubscribeCompletion(w, t) PROVE Inv'
  BY <1>5, SubscribeStep
<1>6. ASSUME Crash PROVE Inv'
  BY <1>6, CrashStep
<1>7. ASSUME UNCHANGED vars PROVE Inv'
  BY <1>7 DEF vars, Inv, TypeOK, FailureIsLast, Identified, Unknown, DrawId, OnRecord, SoFar,
              Undisturbed, At
<1>8. QED
  BY <1>1, <1>2, <1>3, <1>4, <1>5, <1>6, <1>7 DEF Next, Finished

LEMMA InitOK == Init => Inv
<1> SUFFICES ASSUME Init PROVE Inv
  OBVIOUS
<1>1. TypeOK
  <2>1. completions \in [Runs -> Seq(Verdicts)] /\ heard \in [Watchers -> Seq(Verdicts)]
        /\ audits \in [Runs -> Seq({"started", "completed", "failed"})]
    BY DEF Init
  <2>2. crashes \in 0 .. MaxCrashes
    BY BoundedCrashes DEF Init
  <2>3. QED
    BY <2>1, <2>2 DEF Init, TypeOK, Statuses
<1>2. \A t \in Runs : run[t].pc = "idle" /\ run[t].id = NoId /\ completions[t] = <<>>
  BY DEF Init
<1>3. FailureIsLast /\ Identified
  BY <1>2 DEF FailureIsLast, Identified, At
<1>4. Unknown
  BY DEF Init, Unknown, DrawId
<1>5. \A t \in Runs : OnRecord(t) /\ SoFar(t)
  BY <1>2 DEF OnRecord, SoFar, At
<1>6. ASSUME NEW t \in Quiet PROVE Undisturbed(t)
  BY <1>2, SomeWatchersThrow DEF Undisturbed, At, Init
<1>7. QED
  BY <1>1, <1>3, <1>4, <1>5, <1>6 DEF Inv

\* Inv is inductive: it holds at the start and every step of the runner, of its
\* listeners and of the process keeps it.
LEMMA Invariant == Spec => []Inv
BY InitOK, StepOK, PTL DEF Spec

\* executeRun() announces at most a success and then a failure, whatever the
\* executor, the listeners and the store do, and for any number of runs.
THEOREM AnnouncesOnce == Spec => []RunnerInv
<1>1. Inv => RunnerInv
  BY DEF Inv, RunnerInv
<1>2. QED
  BY <1>1, Invariant, PTL

-----------------------------------------------------------------------------
(* What a step of executeRun() does to the record and its announcements     *)

Kept(t) == store[run[t].id]

\* It takes the record to s, announces what makes cs of completions[t], and
\* tells the audit trail one thing at most.
Effect(t, s, cs) ==
  /\ run[t].id \in RunIds /\ s \in Statuses
  /\ \A u \in Runs : run'[u].id = run[u].id
  /\ Save(t, s) /\ completions' = [completions EXCEPT ![t] = cs]
  /\ \/ cs = completions[t] /\ s = Kept(t)
     \/ cs = completions[t] /\ Kept(t) = "none" /\ s = "queued"
     \/ cs = completions[t] /\ Kept(t) = "queued" /\ s = "running"
     \/ cs = completions[t] /\ Kept(t) = "running" /\ s \in Verdicts
     \/ cs = completions[t] /\ Kept(t) = "succeeded" /\ s = "failed" /\ t \notin Quiet
     \/ /\ cs = Append(completions[t], s) /\ s = Kept(t) /\ s \in Verdicts
        /\ t \in Quiet => completions[t] = <<>>
  /\ \/ UNCHANGED audits
     \/ \E what \in {"started", "completed", "failed"} :
          /\ audits' = [audits EXCEPT ![t] = Append(@, what)]
          /\ what = "completed" => Kept(t) = "succeeded"
          /\ what = "failed" => Kept(t) = "failed"

LEMMA Effects ==
  ASSUME Inv, NEW t \in Runs, Executes(t)
  PROVE  \E s, cs : Effect(t, s, cs)
<1> DEFINE id == run[t].id
<1>1. run[t].pc \notin {"idle", "refused"} /\ id \in RunIds
  BY DEF Executes, Create, MarkRunning, Announce, ExecutorReturns, ExecutorThrows, SaveSuccess,
         AuditSuccess, SaveFailure, AuditFailure, StoreRejects, At, Inv, Identified
<1>2. OnRecord(t) /\ SoFar(t) /\ TypeOK /\ (t \in Quiet => Undisturbed(t))
  BY DEF Inv
<1>3. \A u \in Runs : run'[u].id = run[u].id
  <2>1. \E pc : GoTo(t, pc)
    BY DEF Executes, Create, MarkRunning, Announce, ExecutorReturns, ExecutorThrows,
           SaveSuccess, AuditSuccess, SaveFailure, AuditFailure, StoreRejects
  <2>2. QED
    BY <1>2, <2>1 DEF TypeOK, GoTo
<1>4. UNCHANGED store => Save(t, Kept(t)) /\ Kept(t) \in Statuses
  BY <1>1, Unsaved DEF Kept
<1>5. UNCHANGED emitter => completions' = [completions EXCEPT ![t] = completions[t]]
  BY <1>2 DEF TypeOK, emitter
<1>6. CASE Create(t)
  <2>1. Save(t, "queued") /\ Kept(t) = "none" /\ UNCHANGED emitter /\ UNCHANGED audits
    BY <1>2, <1>6 DEF Create, Save, Kept, OnRecord, At
  <2>2. Effect(t, "queued", completions[t])
    BY <1>1, <1>3, <1>5, <2>1 DEF Effect, Statuses
  <2>3. QED
    BY <2>2
<1>7. CASE MarkRunning(t)
  <2>1. Save(t, "running") /\ Kept(t) = "queued" /\ UNCHANGED emitter /\ UNCHANGED audits
    BY <1>2, <1>7 DEF MarkRunning, Kept, OnRecord, At
  <2>2. Effect(t, "running", completions[t])
    BY <1>1, <1>3, <1>5, <2>1 DEF Effect, Statuses
  <2>3. QED
    BY <2>2
<1>8. CASE Announce(t)
  <2>1. UNCHANGED store /\ UNCHANGED emitter /\ Audit(t, "started")
    BY <1>8 DEF Announce
  <2>2. Effect(t, Kept(t), completions[t])
    BY <1>1, <1>3, <1>4, <1>5, <2>1 DEF Effect, Audit
  <2>3. QED
    BY <2>2
<1>9. CASE ExecutorReturns(t) \/ ExecutorThrows(t) \/ StoreRejects(t)
  <2>1. UNCHANGED store /\ UNCHANGED emitter /\ UNCHANGED audits
    BY <1>9 DEF ExecutorReturns, ExecutorThrows, StoreRejects
  <2>2. Effect(t, Kept(t), completions[t])
    BY <1>1, <1>3, <1>4, <1>5, <2>1 DEF Effect
  <2>3. QED
    BY <2>2
<1>10. CASE SaveSuccess(t)
  <2>1. Save(t, "succeeded") /\ Kept(t) = "running" /\ UNCHANGED emitter /\ UNCHANGED audits
    BY <1>2, <1>10 DEF SaveSuccess, Kept, OnRecord, At
  <2>2. Effect(t, "succeeded", completions[t])
    BY <1>1, <1>3, <1>5, <2>1 DEF Effect, Statuses, Verdicts
  <2>3. QED
    BY <2>2
<1>11. CASE SaveFailure(t)
  <2>1. /\ Save(t, "failed") /\ UNCHANGED emitter /\ UNCHANGED audits
        /\ Kept(t) \in {"running", "succeeded"}
        /\ t \in Quiet => Kept(t) = "running"
    BY <1>2, <1>11 DEF SaveFailure, Kept, OnRecord, Undisturbed, At
  <2>2. Effect(t, "failed", completions[t])
    BY <1>1, <1>3, <1>5, <2>1 DEF Effect, Statuses, Verdicts
  <2>3. QED
    BY <2>2
<1>12. CASE AuditSuccess(t)
  <2>1. /\ UNCHANGED store /\ Audit(t, "completed") /\ Kept(t) = "succeeded"
        /\ completions[t] = <<>>
        /\ completions' = [completions EXCEPT ![t] = Append(completions[t], "succeeded")]
    BY <1>2, <1>12 DEF AuditSuccess, EmitCompleted, Kept, OnRecord, SoFar, At
  <2>2. Effect(t, "succeeded", Append(completions[t], "succeeded"))
    BY <1>1, <1>3, <1>4, <2>1 DEF Effect, Audit, Verdicts
  <2>3. QED
    BY <2>2
<1>13. CASE AuditFailure(t)
  <2>1. /\ UNCHANGED store /\ Audit(t, "failed") /\ Kept(t) = "failed"
        /\ completions' = [completions EXCEPT ![t] = Append(completions[t], "failed")]
    BY <1>2, <1>13 DEF AuditFailure, EmitCompleted, Kept, OnRecord, At
  <2>2. t \in Quiet => completions[t] = <<>>
    BY <1>2, <1>13 DEF AuditFailure, Undisturbed, At, Waiting
  <2>3. Effect(t, "failed", Append(completions[t], "failed"))
    BY <1>1, <1>3, <1>4, <2>1, <2>2 DEF Effect, Audit, Verdicts
  <2>4. QED
    BY <2>3
<1>14. QED
  BY <1>6, <1>7, <1>8, <1>9, <1>10, <1>11, <1>12, <1>13 DEF Executes

\* Appending tells the sequence and what is appended apart.
LEMMA Longer ==
  ASSUME NEW X, NEW s \in Seq(X), NEW a \in X
  PROVE  Append(s, a) # s /\ \A b \in X : Append(s, a) = Append(s, b) => a = b
<1>1. Len(s) \in Nat /\ Len(Append(s, a)) = Len(s) + 1 /\ Append(s, a)[Len(s) + 1] = a
  OBVIOUS
<1>2. \A b \in X : Append(s, b)[Len(s) + 1] = b
  OBVIOUS
<1>3. QED
  BY <1>1, <1>2

\* What RecordLeads says of one step.
Leads ==
  /\ \A id \in RunIds : Rank[store[id]] <= Rank[store'[id]]
  /\ \A t \in Runs :
       /\ completions'[t] # completions[t]
            => completions'[t] = Append(completions[t], store[run[t].id])
       /\ audits'[t] = Append(audits[t], "completed") => store[run[t].id] = "succeeded"
       /\ audits'[t] = Append(audits[t], "failed") => store[run[t].id] = "failed"

LEMMA Ranks ==
  /\ \A s \in Statuses : Rank[s] \in Nat
  /\ Rank["none"] <= Rank["queued"] /\ Rank["queued"] <= Rank["running"]
  /\ \A s \in Verdicts : Rank["running"] <= Rank[s]
  /\ Rank["succeeded"] <= Rank["failed"]
BY DEF Rank, Statuses, Verdicts

LEMMA RunLeads == ASSUME Inv, NEW t \in Runs, Executes(t) PROVE Leads
<1> DEFINE Told1 == {"started", "completed", "failed"}
<1>1. PICK s, cs : Effect(t, s, cs)
  BY Effects
<1>2. /\ run[t].id \in RunIds /\ store' = [store EXCEPT ![run[t].id] = s]
      /\ completions' = [completions EXCEPT ![t] = cs]
  BY <1>1 DEF Effect, Save
<1>3. store \in [RunIds -> Statuses] /\ completions \in [Runs -> Seq(Verdicts)]
      /\ audits \in [Runs -> Seq(Told1)]
  BY DEF Inv, TypeOK
<1>4. Rank[Kept(t)] <= Rank[s]
  BY <1>1, <1>2, <1>3, Ranks DEF Effect, Kept
<1>5. ASSUME NEW id \in RunIds PROVE Rank[store[id]] <= Rank[store'[id]]
  <2>1. CASE id = run[t].id
    BY <1>2, <1>3, <1>4, <2>1 DEF Kept
  <2>2. CASE id # run[t].id
    <3>1. store'[id] = store[id] /\ store[id] \in Statuses
      BY <1>2, <1>3, <2>2
    <3>2. QED
      BY <3>1, Ranks
  <2>3. QED
    BY <2>1, <2>2
<1>6. ASSUME NEW u \in Runs, completions'[u] # completions[u]
      PROVE  completions'[u] = Append(completions[u], store[run[u].id])
  <2>1. u = t /\ completions'[t] = cs
    BY <1>2, <1>3, <1>6
  <2>2. QED
    BY <1>1, <1>6, <2>1 DEF Effect, Kept
<1>7. ASSUME NEW u \in Runs, NEW what \in Told1, audits'[u] = Append(audits[u], what)
      PROVE  /\ what = "completed" => store[run[u].id] = "succeeded"
             /\ what = "failed" => store[run[u].id] = "failed"
  <2>1. audits[u] \in Seq(Told1) /\ audits[t] \in Seq(Told1)
    BY <1>3
  <2>2. audits'[u] # audits[u]
    BY <1>7, <2>1, Longer
  <2>3. PICK w \in Told1 : /\ audits' = [audits EXCEPT ![t] = Append(@, w)]
                           /\ w = "completed" => Kept(t) = "succeeded"
                           /\ w = "failed" => Kept(t) = "failed"
    BY <1>1, <2>2 DEF Effect
  <2>4. u = t /\ audits'[t] = Append(audits[t], w)
    BY <1>3, <2>2, <2>3
  <2>5. w = what
    BY <1>7, <2>1, <2>4, Longer
  <2>6. QED
    BY <2>3, <2>4, <2>5 DEF Kept
<1>8. QED
  BY <1>5, <1>6, <1>7 DEF Leads

\* No other step touches the records, the announcements or the audit trail.
LEMMA OthersLead ==
  ASSUME Inv, UNCHANGED <<store, audits, completions>>
  PROVE  Leads
<1>1. \A id \in RunIds : Rank[store[id]] \in Nat
  BY Ranks DEF Inv, TypeOK
<1>2. ASSUME NEW t \in Runs, NEW what \in {"started", "completed", "failed"}
      PROVE  audits[t] # Append(audits[t], what)
  BY Longer DEF Inv, TypeOK
<1>3. QED
  BY <1>1, <1>2 DEF Leads

\* A record never moves back, whatever throws, rejects or dies, and neither a
\* listener nor the audit trail learns a verdict before it is on record.
THEOREM RecordFirst == Spec => RecordLeads
<1>1. Inv /\ [Next]_vars => [Leads]_vars
  <2> SUFFICES ASSUME Inv, Next PROVE Leads
    OBVIOUS
  <2>1. ASSUME NEW t \in Runs, Executes(t) PROVE Leads
    BY <2>1, RunLeads
  <2>2. ASSUME NEW t \in Runs, Refuse(t) \/ Accept(t) \/ SubscribeBadly(t) PROVE Leads
    BY <2>2, OthersLead DEF Refuse, Accept, SubscribeBadly, emitter
  <2>3. ASSUME NEW w \in Watchers,
               Unsubscribe(w) \/ \E t \in Runs : SubscribeCompletion(w, t)
        PROVE  Leads
    BY <2>3, OthersLead DEF Unsubscribe, SubscribeCompletion
  <2>4. ASSUME Crash \/ Finished PROVE Leads
    BY <2>4, OthersLead DEF Crash, Finished, vars
  <2>5. QED
    BY <2>1, <2>2, <2>3, <2>4 DEF Next
<1>2. Spec => [][Leads]_vars
  BY <1>1, Invariant, PTL DEF Spec
<1>3. QED
  BY <1>2, PTL DEF RecordLeads, Leads

-----------------------------------------------------------------------------
(* The runner is a RunLifecycle                                            *)

\* What a watcher that hears the sequence cs takes the verdict to be.
Said(cs) == IF cs = <<>> THEN "nothing" ELSE IF Len(cs) = 1 THEN cs[1] ELSE "twice"

\* A step of a run changes its own record and announcement, no other.
LEMMA BarStep ==
  ASSUME Inv, NEW t \in Runs, NEW s, NEW cs, Effect(t, s, cs)
  PROVE  /\ t \notin Quiet => UNCHANGED <<recordBar, announcedBar>>
         /\ t \in Quiet => /\ recordBar[t] = Kept(t)
                           /\ announcedBar[t] = Said(completions[t])
                           /\ recordBar' = [recordBar EXCEPT ![t] = s]
                           /\ announcedBar' = [announcedBar EXCEPT ![t] = Said(cs)]
<1>1. /\ run[t].id \in RunIds /\ store' = [store EXCEPT ![run[t].id] = s]
      /\ completions' = [completions EXCEPT ![t] = cs]
      /\ \A u \in Runs : run'[u].id = run[u].id
  BY DEF Effect, Save
<1>2. store \in [RunIds -> Statuses] /\ completions \in [Runs -> Seq(Verdicts)]
      /\ \A u \in Runs : run[u].id = NoId \/ run[u].id \in RunIds
  BY DEF Inv, TypeOK
<1>3. ASSUME NEW u \in Quiet
      PROVE  /\ u # t => /\ recordBar'[u] = recordBar[u]
                         /\ announcedBar'[u] = announcedBar[u]
             /\ u = t => /\ recordBar[u] = Kept(t) /\ recordBar'[u] = s
                         /\ announcedBar[u] = Said(completions[t])
                         /\ announcedBar'[u] = Said(cs)
  <2>1. u \in Runs
    BY SomeWatchersThrow
  <2>2. CASE u # t
    <3>1. run[u].id # run[t].id
      BY <1>1, <2>1, <2>2, NoIdIsNone DEF Inv, Identified, NoId
    <3>2. completions'[u] = completions[u]
          /\ (run[u].id \in RunIds => store'[run[u].id] = store[run[u].id])
      BY <1>1, <1>2, <2>1, <2>2, <3>1
    <3>3. QED
      BY <1>1, <1>2, <2>1, <2>2, <3>2 DEF recordBar, announcedBar
  <2>3. CASE u = t
    <3>1. run[t].id # NoId /\ run'[t].id = run[t].id
      BY <1>1, NoIdIsNone DEF NoId
    <3>2. store'[run[t].id] = s /\ completions'[t] = cs
      BY <1>1, <1>2
    <3>3. QED
      BY <2>3, <3>1, <3>2 DEF recordBar, announcedBar, Said, Kept
  <2>4. QED
    BY <2>2, <2>3
<1>4. /\ recordBar = [u \in Quiet |-> recordBar[u]]
      /\ announcedBar = [u \in Quiet |-> announcedBar[u]]
      /\ recordBar' = [u \in Quiet |-> recordBar'[u]]
      /\ announcedBar' = [u \in Quiet |-> announcedBar'[u]]
  BY DEF recordBar, announcedBar
<1>5. ASSUME t \notin Quiet PROVE UNCHANGED <<recordBar, announcedBar>>
  BY <1>3, <1>4, <1>5
<1>6. ASSUME t \in Quiet
      PROVE  /\ recordBar' = [recordBar EXCEPT ![t] = s]
             /\ announcedBar' = [announcedBar EXCEPT ![t] = Said(cs)]
  BY <1>3, <1>4, <1>6
<1>7. QED
  BY <1>3, <1>5, <1>6

\* A step of executeRun() is a step of the lifecycle of its run, or none.
LEMMA RunImplements ==
  ASSUME Inv, NEW t \in Runs, Executes(t)
  PROVE  [Lifecycle!Next]_(Lifecycle!vars)
<1>1. PICK s, cs : Effect(t, s, cs)
  BY Effects
<1>2. CASE t \notin Quiet
  BY <1>1, <1>2, BarStep DEF Lifecycle!vars
<1>3. CASE t \in Quiet
  <2>1. /\ recordBar[t] = Kept(t) /\ announcedBar[t] = Said(completions[t])
        /\ recordBar' = [recordBar EXCEPT ![t] = s]
        /\ announcedBar' = [announcedBar EXCEPT ![t] = Said(cs)]
    BY <1>1, <1>3, BarStep
  <2>2. /\ [recordBar EXCEPT ![t] = recordBar[t]] = recordBar
        /\ [announcedBar EXCEPT ![t] = announcedBar[t]] = announcedBar
    BY <1>3 DEF recordBar, announcedBar
  <2>3. CASE cs = completions[t]
    <3>1. UNCHANGED announcedBar
      BY <2>1, <2>2, <2>3
    <3>2. \/ s = Kept(t)
          \/ Kept(t) = "none" /\ s = "queued"
          \/ Kept(t) = "queued" /\ s = "running"
          \/ Kept(t) = "running" /\ s \in Verdicts
          \/ cs = Append(completions[t], s) /\ s = Kept(t)
      BY <1>1, <1>3 DEF Effect
    <3>3. CASE s = Kept(t)
      BY <2>1, <2>2, <3>1, <3>3 DEF Lifecycle!vars
    <3>4. CASE Kept(t) = "none" /\ s = "queued"
      <4>1. Lifecycle!Create(t)
        BY <2>1, <3>1, <3>4 DEF Lifecycle!Create, Lifecycle!Move
      <4>2. QED
        BY <1>3, <4>1 DEF Lifecycle!Next
    <3>5. CASE Kept(t) = "queued" /\ s = "running"
      <4>1. Lifecycle!Start(t)
        BY <2>1, <3>1, <3>5 DEF Lifecycle!Start, Lifecycle!Move
      <4>2. QED
        BY <1>3, <4>1 DEF Lifecycle!Next
    <3>6. CASE Kept(t) = "running" /\ s \in Verdicts
      <4>1. Lifecycle!Settle(t)
        BY <2>1, <3>1, <3>6 DEF Lifecycle!Settle, Lifecycle!Move, Lifecycle!Verdicts, Verdicts
      <4>2. QED
        BY <1>3, <4>1 DEF Lifecycle!Next
    <3>7. QED
      BY <3>2, <3>3, <3>4, <3>5, <3>6
  <2>4. CASE cs # completions[t]
    <3>1. cs = Append(<<>>, s) /\ s = Kept(t) /\ s \in Verdicts /\ completions[t] = <<>>
      BY <1>1, <1>3, <2>4 DEF Effect
    <3>2. Said(<<>>) = "nothing" /\ Said(cs) = s
      <4>1. Append(<<>>, s) # <<>> /\ Len(Append(<<>>, s)) = 1 /\ Append(<<>>, s)[1] = s
        OBVIOUS
      <4>2. QED
        BY <3>1, <4>1 DEF Said
    <3>3. UNCHANGED recordBar
      BY <2>1, <2>2, <3>1
    <3>4. Lifecycle!Announce(t)
      BY <2>1, <3>1, <3>2, <3>3 DEF Lifecycle!Announce, Lifecycle!Verdicts, Verdicts
    <3>5. QED
      BY <1>3, <3>4 DEF Lifecycle!Next
  <2>5. QED
    BY <2>3, <2>4
<1>4. QED
  BY <1>2, <1>3

\* A call that is accepted has no record yet, as one that is not.
LEMMA AcceptImplements ==
  ASSUME Inv, NEW t \in Runs, Refuse(t) \/ Accept(t)
  PROVE  UNCHANGED <<recordBar, announcedBar>>
<1>1. /\ UNCHANGED <<store, completions>> /\ run[t].id = NoId
      /\ run \in [Runs -> [pc : {"idle"} \cup Waiting \cup Over, id : RunIds \cup {NoId}]]
  BY DEF Refuse, Accept, Inv, TypeOK, Identified, emitter
<1>2. \A u \in Runs : u # t => run'[u].id = run[u].id
  BY <1>1 DEF Refuse, Accept, GoTo
<1>3. run'[t].id = NoId \/ (run'[t].id \in DrawId /\ store[run'[t].id] = "none")
  BY <1>1 DEF Refuse, Accept, GoTo, Inv, Unknown
<1>4. \A u \in Quiet : u \in Runs
  BY SomeWatchersThrow
<1>5. UNCHANGED recordBar
  BY <1>1, <1>2, <1>3, <1>4 DEF recordBar
<1>6. UNCHANGED announcedBar
  BY <1>1 DEF announcedBar
<1>7. QED
  BY <1>5, <1>6

\* With listeners that do not throw, the runner implements the lifecycle its
\* users see: a record that moves from queued to running to one verdict, which
\* is announced once, from the record, whatever the store rejects and wherever
\* the process dies.
THEOREM RunnerImplementsLifecycle == Spec => ImplementsLifecycle
<1>1. Init => Lifecycle!Init
  <2> SUFFICES ASSUME Init PROVE Lifecycle!Init
    OBVIOUS
  <2>1. \A t \in Quiet : run[t].id = NoId /\ completions[t] = <<>>
    BY SomeWatchersThrow DEF Init
  <2>2. recordBar = [t \in Quiet |-> "none"] /\ announcedBar = [t \in Quiet |-> "nothing"]
    BY <2>1 DEF recordBar, announcedBar
  <2>3. QED
    BY <2>2 DEF Lifecycle!Init
<1>2. Inv /\ [Next]_vars => [Lifecycle!Next]_(Lifecycle!vars)
  <2> SUFFICES ASSUME Inv, [Next]_vars PROVE [Lifecycle!Next]_(Lifecycle!vars)
    OBVIOUS
  <2>1. ASSUME NEW t \in Runs, Executes(t) PROVE [Lifecycle!Next]_(Lifecycle!vars)
    BY <2>1, RunImplements
  <2>2. ASSUME NEW t \in Runs, Refuse(t) \/ Accept(t) PROVE UNCHANGED (Lifecycle!vars)
    BY <2>2, AcceptImplements DEF Lifecycle!vars
  <2>3. ASSUME UNCHANGED <<store, completions>>, \A t \in Runs : run'[t].id = run[t].id
        PROVE  UNCHANGED (Lifecycle!vars)
    <3>1. UNCHANGED recordBar /\ UNCHANGED announcedBar
      BY <2>3, SomeWatchersThrow DEF recordBar, announcedBar
    <3>2. QED
      BY <3>1 DEF Lifecycle!vars
  <2>4. ASSUME NEW t \in Runs, SubscribeBadly(t) PROVE UNCHANGED (Lifecycle!vars)
    BY <2>3, <2>4 DEF SubscribeBadly
  <2>5. ASSUME NEW w \in Watchers,
               Unsubscribe(w) \/ \E t \in Runs : SubscribeCompletion(w, t)
        PROVE  UNCHANGED (Lifecycle!vars)
    BY <2>3, <2>5 DEF Unsubscribe, SubscribeCompletion
  <2>6. ASSUME Crash PROVE UNCHANGED (Lifecycle!vars)
    <3>1. \A t \in Runs : run'[t].id = run[t].id
      BY <2>6 DEF Crash, Inv, TypeOK
    <3>2. QED
      BY <2>3, <2>6, <3>1 DEF Crash
  <2>7. ASSUME UNCHANGED vars PROVE UNCHANGED (Lifecycle!vars)
    BY <2>3, <2>7 DEF vars
  <2>8. QED
    BY <2>1, <2>2, <2>4, <2>5, <2>6, <2>7 DEF Next, Finished
<1>3. QED
  BY <1>1, <1>2, Invariant, PTL DEF Spec, ImplementsLifecycle, Lifecycle!Spec
=============================================================================
