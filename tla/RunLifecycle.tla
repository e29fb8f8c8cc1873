---------------------------- MODULE RunLifecycle ----------------------------
(***************************************************************************)
(* What the users of the integration runner may rely on: a run's record    *)
(* moves from queued to running to one verdict and keeps it, and the end   *)
(* of the run is announced at most once, with the verdict on record.       *)
(***************************************************************************)
CONSTANT Runs

VARIABLES
  record,     \* the status kept for each run
  announced   \* the verdict its listeners were told

vars == <<record, announced>>

Verdicts == {"succeeded", "failed"}

Init == /\ record = [t \in Runs |-> "none"]
        /\ announced = [t \in Runs |-> "nothing"]

Move(t, from, to) == /\ record[t] = from
                     /\ record' = [record EXCEPT ![t] = to]
                     /\ UNCHANGED announced

Create(t) == Move(t, "none", "queued")
Start(t) == Move(t, "queued", "running")
Settle(t) == \E s \in Verdicts : Move(t, "running", s)

Announce(t) == /\ record[t] \in Verdicts
               /\ announced[t] = "nothing"
               /\ announced' = [announced EXCEPT ![t] = record[t]]
               /\ UNCHANGED record

Next == \E t \in Runs : Create(t) \/ Start(t) \/ Settle(t) \/ Announce(t)

Spec == Init /\ [][Next]_vars
=============================================================================
