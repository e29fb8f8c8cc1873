-------------------------- MODULE MCEntityService --------------------------
(* Small instances of EntityService for TLC. *)
EXTENDS EntityService, TLC

CONSTANTS c1, c2, c3, soft, hard, name, org, v1, v2

\* No column, each column, and several at once: a name with a readonly org, and
\* a name with the status, which makes a deleted row active with other data.
MCBodies ==
  {<<>>, [k \in {"status"} |-> "active"], [k \in {"status"} |-> "deleted"]}
  \cup [{name} -> Values] \cup [{name, org} -> Values]
  \cup {[k \in {name, "status"} |-> IF k = name THEN v ELSE "active"] : v \in Values}

Symmetry == Permutations(Calls) \cup Permutations(Values)
=============================================================================
