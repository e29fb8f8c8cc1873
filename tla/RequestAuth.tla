---------------------------- MODULE RequestAuth ----------------------------
(***************************************************************************)
(* A request on its way through the JWT guard and strategy (nestjs/zorbit- *)
(* jwt.guard.ts, jwt.strategy.ts), the resolver they share (module         *)
(* PrivilegeResolver) and the namespace and privilege guards behind them.  *)
(* The one await on the way is the resolver's; the identity service asked  *)
(* there answers through the same guard and strategy, as a request of its  *)
(* own.  Verifying a signature and an expiry is passport's: external.      *)
(*                                                                         *)
(* Express services have a chain of middleware (middleware/*.ts) instead,  *)
(* that awaits the authorization service's answer for every request.       *)
(***************************************************************************)
EXTENDS Integers, Sequences, FiniteSets

CONSTANTS
  Requests, Hashes, Privileges, PrivilegesOf, MaxEntries, Ttl, FetchTimeout, MaxTime,
  ByHashCall,  \* ByHashCall[r]: the request by which r's lookup asks identity
  Tokens,      \* what requests bring
  Subjects,    \* users, as a token's sub names them
  Grants,      \* Grants[s]: what the authorization service answers yes to for s
  Routes,      \* endpoints: their decorators, guards and parameters
  SeedOpen,    \* ALLOW_UNAUTHENTICATED_SEED
  CrossOrg,    \* platform.namespace.bypass
  Superadmin   \* platform.superadmin.bypass

Clients == DOMAIN ByHashCall
Who == {"own", "other"}   \* whose namespace a parameter names; no parameter counts as own
\* "none": nothing that verifies; "refresh": a token of a type other than access,
\* MFA ones too.  bearer: the Authorization header reads "Bearer <token>", which
\* passport-jwt's extractor is laxer about than the strategy and the middleware.
Token ==
       [kind : {"none"}]
  \cup [kind : {"refresh", "bare"}, sub : Subjects, bearer : BOOLEAN]
  \cup [kind : {"fat"}, sub : Subjects, bearer : BOOLEAN, privileges : SUBSET Privileges]
  \cup [kind : {"slim"}, sub : Subjects, bearer : BOOLEAN, hash : Hashes]
Route == [chain : {"nest", "express"},
          path : {"/by-hash", "/seed", "/other"}, public : BOOLEAN,
          guards : SUBSET {"namespace", "privilege"},
          handler : SUBSET Privileges, class : SUBSET Privileges, org : Who, user : Who]

ASSUME OneCallEach ==
  /\ Clients \subseteq Requests
  /\ \A r \in Clients : ByHashCall[r] \in Requests \ Clients
  /\ \A r, q \in Clients : ByHashCall[r] = ByHashCall[q] => r = q
ASSUME Traffic == Tokens \subseteq Token /\ Routes \subseteq Route
\* Class decorators are those of Nest controllers.
ASSUME ChainHasNoClasses == \A route \in Routes : route.chain = "express" => route.class = {}
ASSUME SubjectsHold == Grants \in [Subjects -> SUBSET Privileges]
ASSUME ResolverSettings == /\ PrivilegesOf \in [Hashes -> SUBSET Privileges]
                           /\ {MaxEntries, Ttl, FetchTimeout} \subseteq Nat \ {0}
                           /\ MaxTime \in Nat
ASSUME Settings == SeedOpen \in BOOLEAN /\ {CrossOrg, Superadmin} \subseteq Privileges

VARIABLES
  now, cache, order, stats, req,  \* the resolver's
  http      \* http[r]: how far request r is, and what it carries

Resolver == INSTANCE PrivilegeResolver
lookups == <<now, cache, order, stats, req>>
vars == <<now, cache, order, stats, req, http>>

\* The by-hash controller is behind the JWT guard only.
ByHashRoute == [chain |-> "nest", path |-> "/by-hash", public |-> FALSE, guards |-> {},
                handler |-> {}, class |-> {}, org |-> "own", user |-> "own"]

\* The privileges a token carries: a slim one by the name of their set.
Carried(token) == CASE token.kind = "fat" -> token.privileges
                    [] token.kind = "slim" -> PrivilegesOf[token.hash]
                    [] OTHER -> {}

Unsent == [pc |-> "unsent"]
Sent(token, route) == [pc |-> "sent", token |-> token, route |-> route]
Set(r, v) == http' = [http EXCEPT ![r] = v]

Init == Resolver!Init /\ http = [r \in Requests |-> Unsent]

Arrive(r) ==
  /\ r \in Clients /\ http[r] = Unsent
  /\ \E token \in Tokens, route \in Routes : Set(r, Sent(token, route))
  /\ UNCHANGED lookups

-----------------------------------------------------------------------------
(* The guards behind the JWT guard.  A user's privileges are what the       *)
(* strategy put on the request, or none.                                    *)

Nobody == [known |-> FALSE, privileges |-> {}]
User(privileges) == [known |-> TRUE, privileges |-> privileges]

InNamespace(user, route) ==
  /\ user.known
  /\ "other" \in {route.org, route.user} => CrossOrg \in user.privileges

Required_HandlerFirst(route) == IF route.handler # {} THEN route.handler ELSE route.class
Required(route) == route.handler \cup route.class

HasPrivileges(user, route) ==
  \/ Required(route) = {}
  \/ user.known /\ (Superadmin \in user.privileges \/ Required(route) \subseteq user.privileges)

Admitted(user, route) ==
  \/ route.public
  \/ /\ "namespace" \in route.guards => InNamespace(user, route)
     /\ "privilege" \in route.guards => HasPrivileges(user, route)

Reply(r, status) == Set(r, [http[r] EXCEPT !.pc = status])
Enter(r, user) == Reply(r, IF Admitted(user, http[r].route) THEN "handled" ELSE "403")

-----------------------------------------------------------------------------
(* The JWT guard and the strategy                                          *)

Skips(route) == /\ route.chain = "nest"
                /\ route.public \/ (SeedOpen /\ route.path = "/seed")
Arriving(r, kinds) == /\ http[r].pc = "sent" /\ http[r].route.chain = "nest"
                      /\ ~ Skips(http[r].route)
                      /\ http[r].token.kind \in kinds

SkipJwt(r) ==
  /\ http[r].pc = "sent" /\ Skips(http[r].route)
  /\ Enter(r, Nobody)
  /\ UNCHANGED lookups

\* No token that verifies, or one of another type than access.
Unauthorized(r) ==
  /\ Arriving(r, {"none", "refresh"})
  /\ Reply(r, "401")
  /\ UNCHANGED lookups

\* A fat token carries its privileges; one with neither privileges nor a hash
\* passes for what needs none.
WithoutLookup(r) ==
  /\ Arriving(r, {"fat", "bare"})
  /\ Enter(r, User(Carried(http[r].token)))
  /\ UNCHANGED lookups

IsByHash_Never(route) == FALSE
IsByHash(route) == route.path = "/by-hash"

\* Its "own logic doesn't need resolved privileges": no guard asks for them.
ASSUME ByHashIsOpen ==
  \A route \in Routes : (route.chain = "nest" /\ IsByHash(route)) => route.guards = {}

\* The by-hash endpoint does not look its caller's privileges up.
AskedByHash(r) ==
  /\ Arriving(r, {"slim"}) /\ IsByHash(http[r].route)
  /\ Enter(r, User({}))
  /\ UNCHANGED lookups

\* A slim token there is no bearer of to forward is sent to log in again.
WithoutBearer(r) ==
  /\ Arriving(r, {"slim"}) /\ ~ IsByHash(http[r].route) /\ ~ http[r].token.bearer
  /\ Reply(r, "401")
  /\ UNCHANGED lookups

LooksUp(r) == Arriving(r, {"slim"}) /\ ~ IsByHash(http[r].route) /\ http[r].token.bearer
Looking(r) == [http[r] EXCEPT !.pc = "resolving"]

Cached(r) ==
  /\ LooksUp(r)
  /\ Resolver!Hit(r, http[r].token.hash)
  /\ Set(r, Looking(r))

\* The lookup forwards the caller's own token to the identity service.
AskIdentity(r) ==
  /\ LooksUp(r)
  /\ Resolver!Miss(r, http[r].token.hash)
  /\ http' = [q \in Requests |->
                IF q = r THEN Looking(r)
                ELSE IF r \in Clients /\ q = ByHashCall[r]
                     THEN Sent(http[r].token, ByHashRoute) ELSE http[q]]

IdentityAnswers(r) ==
  /\ r \in Clients /\ http[ByHashCall[r]].pc = "handled"
  /\ Resolver!FetchAnswers(r) \/ Resolver!FetchMalformed(r)
  /\ UNCHANGED http

LookupFails(r) == Resolver!FetchFails(r) /\ UNCHANGED http
LookupTimesOut(r) == Resolver!FetchTimesOut(r) /\ UNCHANGED http

Resume_AsNobody(r) ==
  /\ http[r].pc = "resolving" /\ req[r].pc = "done"
  /\ Enter(r, IF req[r].how = "hit" THEN User({}) ELSE User(req[r].answer))
  /\ UNCHANGED lookups

\* What the resolver returned is the user's privileges, empty after a failure.
Resume(r) ==
  /\ http[r].pc = "resolving" /\ req[r].pc = "done"
  /\ Enter(r, User(req[r].answer))
  /\ UNCHANGED lookups

\* resolve() catches what the call of identity may do; were it to throw all the
\* same, the strategy answers 401, which says that privileges were not resolved.
ResolverThrows(r) ==
  /\ http[r].pc = "resolving" /\ req[r].pc = "done"
  /\ Reply(r, "unresolved")
  /\ UNCHANGED lookups

-----------------------------------------------------------------------------
(* The middleware chain: jwtAuthMiddleware(), then namespaceMiddleware() and *)
(* authorizationMiddleware() where mounted.                                 *)

\* Any token that verifies is good, whatever its type, and nobody is let into
\* another's namespace.
OwnNamespace(route) ==
  "namespace" \in route.guards => "other" \notin {route.org, route.user}

Chain(r) ==
  /\ http[r].pc = "sent" /\ http[r].route.chain = "express"
  /\ LET token == http[r].token
         route == http[r].route
         verified == token.kind # "none" /\ token.bearer IN
     Reply(r, CASE ~ verified -> "401"
                [] verified /\ ~ OwnNamespace(route) -> "403"
                [] OTHER -> IF "privilege" \in route.guards THEN "authorizing" ELSE "handled")
  /\ UNCHANGED lookups

\* The authorization service is asked about the token's subject.
Authorized(r) ==
  /\ http[r].pc = "authorizing"
  /\ Reply(r, IF http[r].route.handler \subseteq Grants[http[r].token.sub] THEN "handled" ELSE "403")
  /\ UNCHANGED lookups

\* No answer, or none in time: a 403 too, which says the service is unavailable.
AuthorizationFails(r) ==
  /\ http[r].pc = "authorizing"
  /\ Reply(r, "unavailable")
  /\ UNCHANGED lookups

Tick == Resolver!Tick /\ UNCHANGED http

Answers == {"handled", "401", "403", "unresolved", "unavailable"}
Settled == {"unsent"} \cup Answers
\* A client whose lookup would outlast the clock's bound is left waiting at the door.
Finished == /\ now = MaxTime
            /\ \A r \in Requests : req[r].pc # "fetching" /\ http[r].pc \in Settled \cup {"sent"}
            /\ UNCHANGED vars

Guard(r) == \/ SkipJwt(r) \/ Unauthorized(r) \/ WithoutLookup(r) \/ AskedByHash(r)
            \/ WithoutBearer(r) \/ Cached(r) \/ AskIdentity(r) \/ Resume(r) \/ Chain(r)
Authorizes(r) == Authorized(r) \/ AuthorizationFails(r)

Next == \/ Tick
        \/ \E r \in Requests : Arrive(r) \/ Guard(r) \/ IdentityAnswers(r)
                           \/ LookupFails(r) \/ LookupTimesOut(r)
                           \/ ResolverThrows(r) \/ Authorizes(r)
        \/ Finished

Spec == Init /\ [][Next]_vars

\* The event loop gets to every request, and the timers of a lookup and of a
\* call to the authorization service fire.
FairSpec == /\ Spec
            /\ WF_vars(Tick)
            /\ \A r \in Requests : WF_vars(Guard(r)) /\ WF_vars(LookupTimesOut(r))
                                   /\ WF_vars(Authorizes(r))

-----------------------------------------------------------------------------
(* Properties                                                              *)

\* Types, and the resolver's.
TypeOK ==
  /\ Resolver!TypeOK
  /\ http \in [Requests ->
       {Unsent} \cup [pc : {"sent", "resolving", "authorizing"} \cup Answers,
                      token : Tokens, route : Routes \cup {ByHashRoute}]]

IsAccess(token) == token.kind \notin {"none", "refresh"}

\* What a route's decorators or middleware ask of the caller: on the Nest chain of
\* what the token carries, on the Express chain of what its subject was granted.
PermittedByNest(token, route) ==
  LET held == Carried(token) IN
  /\ "namespace" \in route.guards =>
       ("other" \notin {route.org, route.user} \/ CrossOrg \in held)
  /\ "privilege" \in route.guards =>
       (Superadmin \in held \/ \A p \in route.handler \cup route.class : p \in held)
PermittedByExpress(token, route) ==
  /\ "namespace" \in route.guards => "other" \notin {route.org, route.user}
  /\ "privilege" \in route.guards => \A p \in route.handler : p \in Grants[token.sub]
Permitted(token, route) ==
  /\ token.kind # "none"
  /\ route.chain = "nest" => PermittedByNest(token, route)
  /\ route.chain = "express" => PermittedByExpress(token, route)

\* Whatever the cache, the failures and the timing of lookups, a controller
\* that is not open to all only ever sees a request permitted to its caller, with
\* an access token on the Nest chain.  That is not so of the Express chain, which
\* lets in whatever verifies, refresh and MFA tokens too, although "only 'access'
\* tokens are valid for API requests" (types/jwt-payload.ts:22).
HandledIsEntitled ==
  \A r \in Requests :
    (http[r].pc = "handled" /\ ~ Skips(http[r].route)) =>
      /\ Permitted(http[r].token, http[r].route)
      /\ http[r].route.chain = "nest" => IsAccess(http[r].token)

\* A request is refused what is permitted to its caller only when its own lookup
\* failed, when the resolver threw ("unresolved" says so) or when the authorization
\* service did not answer ("unavailable"), and sent to log in again only when it has
\* no access token or no header to forward it from.
RefusedForCause ==
  \A r \in Requests : ~ (http[r].pc \in {"401", "403"} /\ Skips(http[r].route)) =>
    /\ http[r].pc = "401" => (~ IsAccess(http[r].token) \/ ~ http[r].token.bearer)
    /\ (http[r].pc = "403" /\ Permitted(http[r].token, http[r].route))
         => (req[r].pc = "done" /\ req[r].how \in {"malformed", "failed"})
    /\ http[r].pc = "unresolved" => http[r].token.kind = "slim"

\* The request that answers a lookup does not look anything up: lookups do not
\* wait on lookups.
LookupsAreFlat ==
  \A r \in Clients : http[r].pc = "resolving" => http[ByHashCall[r]].pc # "resolving"

\* The invariant of the guards and the strategy: requests, cache and lookups are
\* of their types, and no lookup waits on another lookup.
AuthInv == TypeOK /\ LookupsAreFlat

\* Every request is answered, however its lookup goes.
RequestsAnswered ==
  \A r \in Requests :
    http[r].pc \in {"resolving", "authorizing"}
      ~> http[r].pc \in Answers \ {"401"}
=============================================================================
