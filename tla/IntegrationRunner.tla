------------------------- MODULE IntegrationRunner -------------------------
(***************************************************************************)
(* The integration runner (integration-runner/integration-runner.service.  *)
(* ts): trigger() creates a run and returns while executeRun() goes on in  *)
(* the background.  A step is what runs between two awaits.  The store,    *)
(* the audit sink and the executor are external: a store call may reject,  *)
(* an audit call may be lost (its rejection is swallowed), a listener may  *)
(* throw into emit(), and the process may die.                             *)
(***************************************************************************)
EXTENDS Naturals, Sequences, FiniteSets

CONSTANTS
  Runs,          \* the calls of trigger()
  Quiet,         \* the calls whose listeners do not throw
  RunIds,        \* the ids two random bytes can give
  Watchers,      \* callers of subscribeCompletion(), each once
  BadWatchers,   \* the watchers whose callback throws
  MaxCrashes     \* bound on process crashes

ASSUME SomeWatchersThrow == BadWatchers \subseteq Watchers /\ Quiet \subseteq Runs
ASSUME NoIdIsNone == "no id" \notin RunIds
ASSUME BoundedCrashes == MaxCrashes \in Nat

VARIABLES
  run,          \* run[t]: where call t is, and the id it drew
  store,        \* store[id]: the persisted status
  audits,       \* audits[t]: what the audit sink accepted about the run of t
  completions,  \* completions[t]: the statuses emitted as 'completed'
  listeners,    \* the emitter's 'completed' handlers, in order of registration
  used,         \* the watchers that have subscribed once
  heard,        \* heard[w]: the statuses watcher w was called with
  badStreams,   \* the ids some throwing 'event' listener is subscribed to
  crashes

vars == <<run, store, audits, completions, listeners, used, heard, badStreams, crashes>>
emitter == <<completions, listeners, used, heard, badStreams>>

NoId == "no id"
Waiting == {"creating", "marking", "announcing", "executing", "savingSuccess",
            "auditingSuccess", "savingFailure", "auditingFailure"}
\* A throw outside the try abandons a run; a rejected save leaves it unsaved.
Over == {"refused", "done", "abandoned", "unsaved", "crashed"}

Init == /\ run = [t \in Runs |-> [pc |-> "idle", id |-> NoId]]
        /\ store = [id \in RunIds |-> "none"]
        /\ audits = [t \in Runs |-> <<>>]
        /\ completions = [t \in Runs |-> <<>>]
        /\ listeners = <<>>
        /\ used = {}
        /\ heard = [w \in Watchers |-> <<>>]
        /\ badStreams = {}
        /\ crashes = 0

At(t, pc) == run[t].pc = pc
GoTo(t, pc) == run' = [run EXCEPT ![t].pc = pc]

-----------------------------------------------------------------------------
(* Emitting, to handlers called one after the other until one throws.       *)

Streamed(t) == run[t].id \notin badStreams

Reached(id) ==
  {w \in Watchers :
     \E i \in DOMAIN listeners :
       /\ listeners[i] = [watcher |-> w, id |-> id]
       /\ \A j \in 1 .. i - 1 :
            listeners[j].id = id => listeners[j].watcher \notin BadWatchers}

Threw(id) == \E w \in BadWatchers : w \in Reached(id)

EmitCompleted(t, status) ==
  /\ completions' = [completions EXCEPT ![t] = Append(@, status)]
  /\ heard' = [w \in Watchers |->
                 IF w \in Reached(run[t].id) THEN Append(heard[w], status) ELSE heard[w]]
  /\ UNCHANGED <<listeners, used, badStreams>>

\* The sink takes the event, or its rejection is swallowed.
Audit(t, what) == \/ audits' = [audits EXCEPT ![t] = Append(@, what)]
                  \/ UNCHANGED audits

-----------------------------------------------------------------------------
(* trigger()                                                               *)

\* No such adapter, a disabled one, or no executor for its kind.
Refuse(t) ==
  /\ At(t, "idle")
  /\ GoTo(t, "refused")
  /\ UNCHANGED <<store, audits, emitter, crashes>>

\* Two random bytes, which in the model no two calls draw alike.
DrawId == RunIds \ {run[u].id : u \in Runs}

Accept(t) ==
  /\ At(t, "idle")
  /\ \E id \in DrawId : run' = [run EXCEPT ![t] = [pc |-> "creating", id |-> id]]
  /\ UNCHANGED <<store, audits, emitter, crashes>>

Create(t) ==
  /\ At(t, "creating")
  /\ store' = [store EXCEPT ![run[t].id] = "queued"]
  /\ GoTo(t, "marking")
  /\ UNCHANGED <<audits, emitter, crashes>>

-----------------------------------------------------------------------------
(* executeRun()                                                            *)

\* updateRun() resolves: the store has the status.
Save(t, status) == store' = [store EXCEPT ![run[t].id] = status]

MarkRunning(t) ==
  /\ At(t, "marking")
  /\ Save(t, "running")
  /\ GoTo(t, "announcing")
  /\ UNCHANGED <<audits, emitter, crashes>>

\* The rest of the start is outside the try: a throwing stream ends the run here.
Announce_NoCatch(t) ==
  /\ At(t, "announcing")
  /\ Audit(t, "started")
  /\ GoTo(t, IF Streamed(t) /\ audits' # audits THEN "executing" ELSE "abandoned")
  /\ UNCHANGED <<store, emitter, crashes>>

Announce(t) ==
  /\ At(t, "announcing")
  /\ Audit(t, "started")
  /\ GoTo(t, IF Streamed(t) THEN "executing" ELSE "abandoned")
  /\ UNCHANGED <<store, emitter, crashes>>

ExecutorReturns(t) ==
  /\ At(t, "executing")
  /\ GoTo(t, "savingSuccess")
  /\ UNCHANGED <<store, audits, emitter, crashes>>

ExecutorThrows(t) ==
  /\ At(t, "executing")
  /\ GoTo(t, "savingFailure")
  /\ UNCHANGED <<store, audits, emitter, crashes>>

SaveSuccess_EmitsFirst(t) ==
  /\ At(t, "savingSuccess")
  /\ Save(t, "succeeded")
  /\ EmitCompleted(t, "succeeded")
  /\ GoTo(t, "auditingSuccess")
  /\ UNCHANGED <<audits, crashes>>

SaveSuccess(t) ==
  /\ At(t, "savingSuccess")
  /\ Save(t, "succeeded")
  /\ GoTo(t, IF Streamed(t) THEN "auditingSuccess" ELSE "savingFailure")
  /\ UNCHANGED <<audits, emitter, crashes>>

AuditSuccess_EmitsIfAudited(t) ==
  /\ At(t, "auditingSuccess")
  /\ Audit(t, "completed")
  /\ IF audits' = audits THEN UNCHANGED <<completions, heard>>
                         ELSE EmitCompleted(t, "succeeded")
  /\ GoTo(t, IF Threw(run[t].id) THEN "savingFailure" ELSE "done")
  /\ UNCHANGED <<store, listeners, used, badStreams, crashes>>

AuditSuccess(t) ==
  /\ At(t, "auditingSuccess")
  /\ Audit(t, "completed")
  /\ EmitCompleted(t, "succeeded")
  /\ GoTo(t, IF Threw(run[t].id) THEN "savingFailure" ELSE "done")
  /\ UNCHANGED <<store, crashes>>

SaveFailure_Restarts(t) ==
  /\ At(t, "savingFailure")
  /\ Save(t, "failed")
  /\ GoTo(t, IF Streamed(t) THEN "auditingFailure" ELSE "marking")
  /\ UNCHANGED <<audits, emitter, crashes>>

SaveFailure(t) ==
  /\ At(t, "savingFailure")
  /\ Save(t, "failed")
  /\ GoTo(t, IF Streamed(t) THEN "auditingFailure" ELSE "abandoned")
  /\ UNCHANGED <<audits, emitter, crashes>>

AuditFailure_Retries(t) ==
  /\ At(t, "auditingFailure")
  /\ Audit(t, "failed")
  /\ EmitCompleted(t, "failed")
  /\ GoTo(t, IF Threw(run[t].id) THEN "savingFailure" ELSE "done")
  /\ UNCHANGED <<store, crashes>>

AuditFailure(t) ==
  /\ At(t, "auditingFailure")
  /\ Audit(t, "failed")
  /\ EmitCompleted(t, "failed")
  /\ GoTo(t, IF Threw(run[t].id) THEN "abandoned" ELSE "done")
  /\ UNCHANGED <<store, crashes>>

\* A store call rejects: createRun() fails trigger(), updateRun() in the try
\* goes to the catch, and outside it the rejection is swallowed by trigger().
WhenRejected(t) ==
  CASE At(t, "creating") -> "refused"
    [] At(t, "savingSuccess") -> "savingFailure"
    [] OTHER -> "unsaved"

StoreRejects(t) ==
  /\ run[t].pc \in {"creating", "marking", "savingSuccess", "savingFailure"}
  /\ GoTo(t, WhenRejected(t))
  /\ UNCHANGED <<store, audits, emitter, crashes>>

-----------------------------------------------------------------------------
(* Listeners; trigger() must have returned the id they ask for.             *)

Returned(t) == run[t].pc \notin {"idle", "creating", "refused"} /\ ~ At(t, "crashed")

SubscribeCompletion(w, t) ==
  /\ Returned(t) /\ w \notin used
  /\ w \in BadWatchers => t \notin Quiet
  /\ listeners' = Append(listeners, [watcher |-> w, id |-> run[t].id])
  /\ used' = used \cup {w}
  /\ UNCHANGED <<run, store, audits, completions, heard, badStreams, crashes>>

Unsubscribe(w) ==
  /\ \E i \in DOMAIN listeners :
       /\ listeners[i].watcher = w
       /\ listeners' = SubSeq(listeners, 1, i - 1) \o SubSeq(listeners, i + 1, Len(listeners))
  /\ UNCHANGED <<run, store, audits, completions, used, heard, badStreams, crashes>>

SubscribeBadly(t) ==
  /\ Returned(t) /\ t \notin Quiet
  /\ badStreams' = badStreams \cup {run[t].id}
  /\ UNCHANGED <<run, store, audits, completions, listeners, used, heard, crashes>>

\* Nothing of a run survives its process but the store; nothing resumes it.
Crash ==
  /\ crashes < MaxCrashes
  /\ crashes' = crashes + 1
  /\ run' = [t \in Runs |-> IF run[t].pc \in Waiting THEN [run[t] EXCEPT !.pc = "crashed"]
                                                     ELSE run[t]]
  /\ listeners' = <<>>
  /\ badStreams' = {}
  /\ UNCHANGED <<store, audits, completions, used, heard>>

Executes(t) ==
  \/ Create(t) \/ MarkRunning(t) \/ Announce(t)
  \/ ExecutorReturns(t) \/ ExecutorThrows(t)
  \/ SaveSuccess(t) \/ AuditSuccess(t) \/ SaveFailure(t) \/ AuditFailure(t)
  \/ StoreRejects(t)

Finished == (\A t \in Runs : run[t].pc \in Over) /\ UNCHANGED vars

Next ==
  \/ \E t \in Runs : Refuse(t) \/ Accept(t) \/ Executes(t) \/ SubscribeBadly(t)
  \/ \E w \in Watchers : Unsubscribe(w) \/ \E t \in Runs : SubscribeCompletion(w, t)
  \/ Crash
  \/ Finished

Spec == Init /\ [][Next]_vars

\* Store and audit calls settle, and so does an executor: "Must return a
\* result object or throw" (types.ts).
FairSpec == Spec /\ \A t \in Runs : WF_vars(Executes(t))

-----------------------------------------------------------------------------
(* Properties                                                              *)

Statuses == {"none", "queued", "running", "succeeded", "failed"}
Verdicts == {"succeeded", "failed"}

\* Types.
TypeOK ==
  /\ run \in [Runs -> [pc : {"idle"} \cup Waiting \cup Over, id : RunIds \cup {NoId}]]
  /\ store \in [RunIds -> Statuses]
  /\ audits \in [Runs -> Seq({"started", "completed", "failed"})]
  /\ completions \in [Runs -> Seq(Verdicts)]
  /\ listeners \in Seq([watcher : used, id : RunIds])
  /\ used \subseteq Watchers
  /\ heard \in [Watchers -> Seq(Verdicts)]
  /\ badStreams \subseteq RunIds
  /\ crashes \in 0 .. MaxCrashes

\* Whatever throws, rejects or dies, a record never moves back: a failed run is
\* not restarted, nor a succeeded one made to look as if it were running.  And
\* nobody, listener or audit trail, learns a verdict before it is on record.
Rank == [none |-> 0, queued |-> 1, running |-> 2, succeeded |-> 3, failed |-> 4]
RecordLeads ==
  [][/\ \A id \in RunIds : Rank[store[id]] <= Rank[store'[id]]
     /\ \A t \in Runs :
          /\ completions'[t] # completions[t]
               => completions'[t] = Append(completions[t], store[run[t].id])
          /\ audits'[t] = Append(audits[t], "completed") => store[run[t].id] = "succeeded"
          /\ audits'[t] = Append(audits[t], "failed") => store[run[t].id] = "failed"]_vars

\* A throwing listener can turn an announced success into a failure, but
\* nothing is announced after a failure, nor a success twice.
FailureIsLast ==
  \A t \in Runs :
    completions[t] \in {<<>>, <<"succeeded">>, <<"failed">>, <<"succeeded", "failed">>}

\* The invariant of executeRun(): store, runs and listeners are of their types,
\* and a run announces at most a success, then a failure, and nothing after.
RunnerInv == TypeOK /\ FailureIsLast

\* Every run whose trigger() resolved comes to a verdict on record, unless one
\* of its listeners throws, the store rejects its record or the process dies.
RunsSettle ==
  \A t \in Quiet :
    At(t, "marking") ~> \/ At(t, "done") /\ store[run[t].id] \in Verdicts
                        \/ run[t].pc \in {"unsaved", "crashed"}

\* A watcher that is there before such a run is over, and stays, hears how it
\* ended: what the listeners of other runs throw does not reach it.
Listens(w, t) == \E i \in DOMAIN listeners :
                   listeners[i] = [watcher |-> w, id |-> run[t].id]
EarlyWatchersHear ==
  \A w \in Watchers, t \in Quiet :
    (Listens(w, t) /\ run[t].pc \in Waiting)
      ~> (heard[w] # <<>> \/ ~ Listens(w, t) \/ At(t, "unsaved"))

\* With listeners that do not throw, the runner is the lifecycle its users see,
\* whatever the store rejects and wherever the process dies.
recordBar == [t \in Quiet |-> IF run[t].id = NoId THEN "none" ELSE store[run[t].id]]
announcedBar ==
  [t \in Quiet |-> IF completions[t] = <<>> THEN "nothing"
                   ELSE IF Len(completions[t]) = 1 THEN completions[t][1] ELSE "twice"]
Lifecycle == INSTANCE RunLifecycle
               WITH Runs <- Quiet, record <- recordBar, announced <- announcedBar
ImplementsLifecycle == Lifecycle!Spec
=============================================================================
