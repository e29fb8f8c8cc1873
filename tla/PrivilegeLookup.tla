-------------------------- MODULE PrivilegeLookup --------------------------
(***************************************************************************)
(* What a caller of PrivilegeResolver.resolve() may rely on, with no cache *)
(* in sight.  A call is answered with the privilege set its hash names, or *)
(* with the empty set; it is answered without asking the identity service  *)
(* only from something the service said in reply to a question asked less  *)
(* than Ttl ago; and every question is answered in the end.                *)
(***************************************************************************)
EXTENDS Integers

CONSTANTS
  Requests,      \* the calls of resolve(), each made once
  Hashes,        \* privilege_set_hash values
  Privileges,    \* privilege codes
  PrivilegesOf,  \* the set each hash is the content address of
  Ttl            \* how long an answer may be reused

VARIABLES
  clock,    \* milliseconds, coarsened
  call,     \* call[r]: the progress of call r
  learned   \* the facts heard from the service, each with the time it was asked for

vars == <<clock, call, learned>>

Idle == [pc |-> "idle"]
Waiting(h, t) == [pc |-> "waiting", hash |-> h, asked |-> t]
Answered(h, set) == [pc |-> "answered", hash |-> h, answer |-> set]

Init == /\ clock = 0
        /\ call = [r \in Requests |-> Idle]
        /\ learned = {}

Pass == /\ clock' = clock + 1
        /\ UNCHANGED <<call, learned>>

\* The answer is known: somebody asked for this hash less than Ttl ago.
Recall(r, h) ==
  /\ call[r] = Idle
  /\ \E t \in 0 .. clock : <<h, t>> \in learned /\ clock < t + Ttl
  /\ call' = [call EXCEPT ![r] = Answered(h, PrivilegesOf[h])]
  /\ UNCHANGED <<clock, learned>>

Ask(r, h) ==
  /\ call[r] = Idle
  /\ call' = [call EXCEPT ![r] = Waiting(h, clock)]
  /\ UNCHANGED <<clock, learned>>

Learn(r) ==
  /\ call[r].pc = "waiting"
  /\ call' = [call EXCEPT ![r] = Answered(call[r].hash, PrivilegesOf[call[r].hash])]
  /\ learned' = learned \cup {<<call[r].hash, call[r].asked>>}
  /\ UNCHANGED clock

\* The service could not be asked: the caller gets no privileges, and nobody
\* else is told so.
Degrade(r) ==
  /\ call[r].pc = "waiting"
  /\ call' = [call EXCEPT ![r] = Answered(call[r].hash, {})]
  /\ UNCHANGED <<clock, learned>>

Next == \/ Pass
        \/ \E r \in Requests :
             \/ \E h \in Hashes : Recall(r, h) \/ Ask(r, h)
             \/ Learn(r)
             \/ Degrade(r)

Spec == Init /\ [][Next]_vars
=============================================================================
