--------------------------- MODULE MCRequestAuth ---------------------------
(* Small instances of RequestAuth for TLC. *)
EXTENDS RequestAuth, TLC

CONSTANTS u1, u2, r1, r2, c1, c2, h1, h2, use, view, cross, super

Sets == (h1 :> {use, view}) @@ (h2 :> {use, cross})
Calls == (r1 :> c1) @@ (r2 :> c2)

Granted == (u1 :> {use}) @@ (u2 :> {view})

Slim(s, h) == [kind |-> "slim", sub |-> s, bearer |-> TRUE, hash |-> h]
SomeTokens ==
  {[kind |-> "none"]}
  \cup {[kind |-> k, sub |-> u1, bearer |-> TRUE] : k \in {"refresh", "bare"}}
  \cup {[kind |-> "fat", sub |-> u2, bearer |-> TRUE, privileges |-> {super}]}
  \cup {Slim(u1, h1), Slim(u2, h2), [Slim(u1, h1) EXCEPT !.bearer = FALSE]}

Plain == [chain |-> "nest", path |-> "/other", public |-> FALSE, guards |-> {"namespace", "privilege"},
          handler |-> {use}, class |-> {view}, org |-> "own", user |-> "own"]
SomeRoutes ==
  {Plain, [Plain EXCEPT !.org = "other"], [Plain EXCEPT !.user = "other", !.class = {}],
   [Plain EXCEPT !.public = TRUE],
   [Plain EXCEPT !.path = "/seed", !.guards = {"privilege"}],
   [Plain EXCEPT !.chain = "express", !.class = {}],
   [Plain EXCEPT !.chain = "express", !.user = "other", !.guards = {"namespace"}, !.class = {}]}
=============================================================================
