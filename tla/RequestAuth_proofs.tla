------------------------- MODULE RequestAuth_proofs -------------------------
(* What holds of RequestAuth for any traffic, on top of what is proved of   *)
(* the resolver it composes.                                                *)
EXTENDS RequestAuth, TLAPS

\* The resolver's theorems, about the variables they share.
Proved == INSTANCE PrivilegeResolver_proofs

-----------------------------------------------------------------------------
(* Requests                                                                *)

Pcs == {"sent", "resolving", "authorizing"} \cup Answers
Travelling == [pc : Pcs, token : Tokens, route : Routes \cup {ByHashRoute}]
HttpOK == http \in [Requests -> {Unsent} \cup Travelling]

\* A request is sent, or only gets further.
LEMMA Moved ==
  ASSUME HttpOK, NEW r \in Requests, http[r].pc # "unsent", NEW pc \in Pcs
  PROVE  /\ http[r] \in Travelling /\ [http[r] EXCEPT !.pc = pc] \in Travelling
         /\ [http[r] EXCEPT !.pc = pc].pc = pc
         /\ [http[r] EXCEPT !.pc = pc].token = http[r].token
         /\ [http[r] EXCEPT !.pc = pc].route = http[r].route
<1>1. http[r] \in Travelling
  BY DEF HttpOK, Unsent
<1>2. QED
  BY <1>1 DEF Travelling

LEMMA Delivered ==
  ASSUME NEW token \in Tokens, NEW route \in Routes \cup {ByHashRoute}
  PROVE  /\ Sent(token, route) \in Travelling
         /\ Sent(token, route).pc = "sent" /\ Sent(token, route).route = route
BY DEF Sent, Travelling, Pcs, Answers

\* The slim tokens name hashes of privilege sets.
LEMMA TokenHash ==
  ASSUME HttpOK, NEW r \in Requests, http[r].pc # "unsent", http[r].token.kind = "slim"
  PROVE  http[r].token.hash \in Hashes
<1>1. http[r].token \in Tokens
  BY DEF HttpOK, Travelling, Unsent
<1>2. http[r].token \in Token
  BY <1>1, Traffic
<1>3. QED
  BY <1>2 DEF Token

\* What a step may do to the requests.
Advances(r) ==
  /\ http[r].pc \in {"sent", "resolving", "authorizing"}
  /\ \E pc \in Pcs \ {"sent"} : http' = [http EXCEPT ![r] = [http[r] EXCEPT !.pc = pc]]

LEMMA HttpSteps ==
  ASSUME [Next]_vars
  PROVE  \/ UNCHANGED http
         \/ \E r \in Requests : Advances(r) \/ Arrive(r) \/ AskIdentity(r)
<1>1. ASSUME NEW r \in Requests, NEW user, http[r].pc \in {"sent", "resolving"}, Enter(r, user)
      PROVE  Advances(r)
  BY <1>1 DEF Enter, Reply, Set, Advances, Pcs, Answers
<1>2. ASSUME NEW r \in Requests, Guard(r)
      PROVE  Advances(r) \/ AskIdentity(r)
  <2>1. CASE SkipJwt(r) \/ WithoutLookup(r) \/ AskedByHash(r) \/ Resume(r)
    BY <1>1, <2>1 DEF SkipJwt, WithoutLookup, AskedByHash, Resume, Arriving
  <2>2. CASE Unauthorized(r) \/ WithoutBearer(r)
    BY <2>2 DEF Unauthorized, WithoutBearer, Arriving, Reply, Set, Advances, Pcs, Answers
  <2>3. CASE Cached(r)
    BY <2>3 DEF Cached, LooksUp, Arriving, Looking, Set, Advances, Pcs, Answers
  <2>4. CASE Chain(r)
    <3>1. http[r].pc = "sent"
          /\ \E pc \in {"401", "403", "authorizing", "handled"} : Reply(r, pc)
      BY <2>4 DEF Chain
    <3>2. QED
      BY <3>1 DEF Reply, Set, Advances, Pcs, Answers
  <2>5. QED
    BY <1>2, <2>1, <2>2, <2>3, <2>4 DEF Guard
<1>3. ASSUME NEW r \in Requests, ResolverThrows(r) \/ Authorizes(r) PROVE Advances(r)
  BY <1>3 DEF ResolverThrows, Authorizes, Authorized, AuthorizationFails, Reply, Set, Advances, Pcs, Answers
<1>4. ASSUME NEW r \in Requests, IdentityAnswers(r) \/ LookupFails(r) \/ LookupTimesOut(r)
      PROVE  UNCHANGED http
  BY <1>4 DEF IdentityAnswers, LookupFails, LookupTimesOut
<1>5. ASSUME Tick \/ Finished \/ UNCHANGED vars PROVE UNCHANGED http
  BY <1>5 DEF Tick, Finished, vars
<1>6. QED
  BY <1>2, <1>3, <1>4, <1>5 DEF Next

LEMMA HttpType == Spec => []HttpOK
<1>1. Init => HttpOK
  BY DEF Init, HttpOK
<1>2. HttpOK /\ [Next]_vars => HttpOK'
  <2> SUFFICES ASSUME HttpOK, [Next]_vars PROVE HttpOK'
    OBVIOUS
  <2>1. ASSUME NEW r \in Requests, Advances(r) PROVE HttpOK'
    BY <2>1, Moved DEF Advances, HttpOK
  <2>2. ASSUME NEW r \in Requests, Arrive(r) PROVE HttpOK'
    BY <2>2, Delivered DEF Arrive, Set, HttpOK
  <2>3. ASSUME NEW r \in Requests, AskIdentity(r) PROVE HttpOK'
    <3>1. http[r].pc = "sent" /\ http[r].token \in Tokens
      BY <2>3 DEF AskIdentity, LooksUp, Arriving, HttpOK, Travelling, Unsent
    <3>2. Looking(r) \in Travelling
      BY <3>1, Moved DEF Looking, Pcs, Answers
    <3>3. Sent(http[r].token, ByHashRoute) \in Travelling
      BY <3>1, Delivered
    <3>4. QED
      BY <2>3, <3>2, <3>3 DEF AskIdentity, HttpOK
  <2>4. QED
    BY <2>1, <2>2, <2>3, HttpSteps DEF HttpOK
<1>3. QED
  BY <1>1, <1>2, PTL DEF Spec

-----------------------------------------------------------------------------
(* The resolver within                                                     *)

\* Every step of a request is a step of the resolver, or leaves it alone.
LEMMA ResolverSteps == HttpOK /\ Next => [Proved!Next]_(Proved!vars)
<1> SUFFICES ASSUME HttpOK, Next PROVE Proved!Next \/ UNCHANGED lookups
  BY DEF lookups, Proved!vars
<1>1. ASSUME Resolver!Tick PROVE Proved!Next
  BY <1>1 DEF Resolver!Tick, Proved!Next, Proved!Tick
<1>2. ASSUME NEW r \in Requests, NEW h \in Hashes, Resolver!Hit(r, h)
      PROVE  Proved!Next
  <2>1. Proved!Hit(r, h)
    BY <1>2 DEF Resolver!Hit, Proved!Hit, Resolver!Fresh, Proved!Fresh, Resolver!Done,
                Proved!Done, Resolver!Idle, Proved!Idle
  <2>2. QED
    BY <2>1 DEF Proved!Next
<1>3. ASSUME NEW r \in Requests, NEW h \in Hashes, Resolver!Miss(r, h)
      PROVE  Proved!Next
  <2>1. Proved!Miss(r, h)
    BY <1>3 DEF Resolver!Miss, Proved!Miss, Resolver!Fresh, Proved!Fresh, Resolver!Fetching,
                Proved!Fetching, Resolver!Idle, Proved!Idle
  <2>2. QED
    BY <2>1 DEF Proved!Next
<1>4. ASSUME NEW r \in Requests, Resolver!FetchAnswers(r) PROVE Proved!Next
  <2>1. ASSUME NEW h, NEW set, NEW t, Resolver!Put(h, set, t) PROVE Proved!Put(h, set, t)
    BY <2>1 DEF Resolver!Put, Proved!Put, Resolver!Kept, Proved!Kept, Resolver!KeptKeys,
                Proved!KeptKeys, Resolver!MustEvict, Proved!MustEvict, Resolver!Stamp,
                Proved!Stamp
  <2>2. Proved!FetchAnswers(r)
    BY <1>4, <2>1 DEF Resolver!FetchAnswers, Proved!FetchAnswers, Resolver!Cacheable,
                      Proved!Cacheable, Resolver!Done, Proved!Done
  <2>3. QED
    BY <2>2 DEF Proved!Next
<1>5. ASSUME NEW r \in Requests, Resolver!FetchMalformed(r) PROVE Proved!Next
  <2>1. Proved!FetchMalformed(r)
    BY <1>5 DEF Resolver!FetchMalformed, Proved!FetchMalformed, Resolver!Cacheable,
                Proved!Cacheable, Resolver!Done, Proved!Done
  <2>2. QED
    BY <2>1 DEF Proved!Next
<1>6. ASSUME NEW r \in Requests, Resolver!FetchFails(r) \/ Resolver!FetchTimesOut(r)
      PROVE  Proved!Next
  <2>1. Proved!FetchFails(r) \/ Proved!FetchTimesOut(r)
    BY <1>6 DEF Resolver!FetchFails, Proved!FetchFails, Resolver!FetchTimesOut,
                Proved!FetchTimesOut, Resolver!TimedOut, Proved!TimedOut, Resolver!GiveUp,
                Proved!GiveUp, Resolver!Done, Proved!Done
  <2>2. QED
    BY <2>1 DEF Proved!Next
<1>7. ASSUME NEW r \in Requests, AskedByHash(r) \/ Arrive(r) \/ SkipJwt(r) \/ Unauthorized(r)
                \/ WithoutLookup(r) \/ WithoutBearer(r) \/ Resume(r) \/ ResolverThrows(r)
                \/ Chain(r) \/ Authorizes(r)
      PROVE  UNCHANGED lookups
  BY <1>7 DEF AskedByHash, Arrive, SkipJwt, Unauthorized, WithoutLookup, WithoutBearer, Resume,
              ResolverThrows, Chain, Authorizes, Authorized, AuthorizationFails
<1>8. ASSUME NEW r \in Requests, Cached(r) \/ AskIdentity(r)
      PROVE  \E h \in Hashes : Resolver!Hit(r, h) \/ Resolver!Miss(r, h)
  BY <1>8, TokenHash DEF Cached, AskIdentity, LooksUp, Arriving
<1>9. QED
  BY <1>1, <1>2, <1>3, <1>4, <1>5, <1>6, <1>7, <1>8
     DEF Next, Tick, Finished, Guard, IdentityAnswers, LookupFails, LookupTimesOut, vars, lookups

\* So the composed system runs the resolver, whatever the traffic.
LEMMA RunsResolver == Spec => Proved!Spec
<1>1. Init => Proved!Init
  BY DEF Init, Resolver!Init, Proved!Init, Resolver!Idle, Proved!Idle
<1>2. HttpOK /\ [Next]_vars => [Proved!Next]_(Proved!vars)
  BY ResolverSteps DEF vars, Proved!vars
<1>3. QED
  BY <1>1, <1>2, HttpType, PTL DEF Spec, Proved!Spec

\* and what is proved of the resolver holds of it here.
LEMMA ResolverHolds ==
  Spec => [](Proved!TypeOK /\ Proved!EntriesLearned /\ Proved!DegradedByOwnFailure)
<1>1. /\ PrivilegesOf \in [Hashes -> SUBSET Privileges] /\ MaxTime \in Nat
      /\ MaxEntries \in Nat \ {0} /\ Ttl \in Nat \ {0} /\ FetchTimeout \in Nat \ {0}
  BY ResolverSettings
<1>2. Proved!Spec => []Proved!TypeOK
  BY <1>1, Proved!TypeCorrect
<1>3. Proved!Spec => []Proved!EntriesLearned
  BY <1>1, Proved!CacheLearned
<1>4. Proved!Spec => []Proved!DegradedByOwnFailure
  BY <1>1, Proved!DegradationIsOwn
<1>5. QED
  BY <1>2, <1>3, <1>4, RunsResolver, PTL

-----------------------------------------------------------------------------
(* The invariant                                                           *)

\* A request whose lookup is on its way asked for the hash of its own token.
AsksForItself(r) ==
  http[r].pc = "resolving" =>
    /\ http[r].token.kind = "slim" /\ http[r].route.chain = "nest"
    /\ ~ Skips(http[r].route) /\ ~ IsByHash(http[r].route)
    /\ req[r].pc # "idle" /\ req[r].hash = http[r].token.hash

\* The authorization service is asked about those only whom the middleware
\* before it has let pass.
AsksForLetIn(r) ==
  http[r].pc = "authorizing" =>
    /\ http[r].token.kind # "none" /\ http[r].token.bearer /\ http[r].route.chain = "express"
    /\ OwnNamespace(http[r].route) /\ "privilege" \in http[r].route.guards

\* What is no client's request is a lookup at the by-hash endpoint.
AreByHash ==
  \A q \in Requests \ Clients : http[q].pc # "unsent" => http[q].route = ByHashRoute

IsEntitled(r) ==
  (http[r].pc = "handled" /\ ~ Skips(http[r].route)) =>
    /\ Permitted(http[r].token, http[r].route)
    /\ http[r].route.chain = "nest" => IsAccess(http[r].token)

IsRefusedForCause(r) ==
  ~ (http[r].pc \in {"401", "403"} /\ Skips(http[r].route)) =>
    /\ http[r].pc = "401" => (~ IsAccess(http[r].token) \/ ~ http[r].token.bearer)
    /\ (http[r].pc = "403" /\ Permitted(http[r].token, http[r].route))
         => (req[r].pc = "done" /\ req[r].how \in {"malformed", "failed"})
    /\ http[r].pc = "unresolved" => http[r].token.kind = "slim"

Inv == /\ AreByHash
       /\ \A r \in Requests : /\ AsksForItself(r) /\ AsksForLetIn(r)
                              /\ IsEntitled(r) /\ IsRefusedForCause(r)

-----------------------------------------------------------------------------
(* Who is let in                                                           *)

\* A request is let in for no more privileges than its token carries, and not
\* refused what is permitted to it but for fewer.
LEMMA AdmittedIsPermitted ==
  ASSUME NEW token \in Token, NEW route \in Route, NEW user,
         IsAccess(token), route.chain = "nest", ~ Skips(route),
         user.known, user.privileges \subseteq Carried(token), Admitted(user, route)
  PROVE  Permitted(token, route)
<1>1. ~ route.public
  BY DEF Skips
<1>2. "namespace" \in route.guards =>
        ("other" \notin {route.org, route.user} \/ CrossOrg \in Carried(token))
  BY <1>1 DEF Admitted, InNamespace
<1>3. "privilege" \in route.guards =>
        (Superadmin \in Carried(token)
           \/ \A p \in route.handler \cup route.class : p \in Carried(token))
  BY <1>1 DEF Admitted, HasPrivileges, Required
<1>4. PermittedByNest(token, route)
  BY <1>2, <1>3 DEF PermittedByNest
<1>5. QED
  BY <1>4 DEF Permitted, IsAccess

LEMMA PermittedIsAdmitted ==
  ASSUME NEW token \in Token, NEW route \in Route, NEW user, route.chain = "nest",
         user.known, user.privileges = Carried(token), Permitted(token, route)
  PROVE  Admitted(user, route)
<1>1. PermittedByNest(token, route)
  BY DEF Permitted
<1>2. "namespace" \in route.guards => InNamespace(user, route)
  BY <1>1 DEF PermittedByNest, InNamespace
<1>3. "privilege" \in route.guards => HasPrivileges(user, route)
  BY <1>1 DEF PermittedByNest, HasPrivileges, Required
<1>4. QED
  BY <1>2, <1>3 DEF Admitted

\* Types of what a request that is on its way carries.
LEMMA Carries ==
  ASSUME HttpOK, NEW r \in Requests, http[r].pc # "unsent"
  PROVE  /\ http[r].token \in Token /\ http[r].route \in Route
         /\ http[r].route \in Routes \cup {ByHashRoute}
<1>1. http[r] \in Travelling
  BY DEF HttpOK, Unsent
<1>2. ByHashRoute \in Route
  BY DEF ByHashRoute, Route, Who
<1>3. QED
  BY <1>1, <1>2, Traffic DEF Travelling

\* The step of one request says nothing of the others.
LEMMA Alone ==
  ASSUME HttpOK, Inv, NEW r \in Requests, NEW pc \in Pcs \ {"sent"},
         http[r].pc # "unsent", Reply(r, pc), UNCHANGED lookups,
         AsksForItself(r)', AsksForLetIn(r)', IsEntitled(r)', IsRefusedForCause(r)'
  PROVE  Inv'
<1>1. http' = [http EXCEPT ![r] = [http[r] EXCEPT !.pc = pc]] /\ req' = req
  BY DEF Reply, Set, lookups
<1>2. \A q \in Requests : q # r => http'[q] = http[q]
  BY <1>1 DEF HttpOK
<1>3. http'[r].route = http[r].route
  BY <1>1, Moved DEF HttpOK
<1>4. ASSUME NEW q \in Requests, q # r
      PROVE  AsksForItself(q)' /\ AsksForLetIn(q)' /\ IsEntitled(q)' /\ IsRefusedForCause(q)'
  BY <1>1, <1>2, <1>4 DEF Inv, AsksForItself, AsksForLetIn, IsEntitled, IsRefusedForCause
<1>5. AreByHash'
  BY <1>2, <1>3 DEF Inv, AreByHash
<1>6. QED
  BY <1>4, <1>5 DEF Inv

\* What a reply leaves of the request.
LEMMA Replied ==
  ASSUME HttpOK, NEW r \in Requests, NEW pc \in Pcs, http[r].pc # "unsent", Reply(r, pc)
  PROVE  http'[r].pc = pc /\ http'[r].token = http[r].token /\ http'[r].route = http[r].route
BY Moved DEF HttpOK, Reply, Set

\* A request that is decided on is decided on rightly.
LEMMA Decided ==
  ASSUME HttpOK, Inv, NEW r \in Requests, NEW pc \in Answers,
         http[r].pc # "unsent", Reply(r, pc), UNCHANGED lookups,
         (pc = "handled" /\ ~ Skips(http[r].route)) =>
           /\ Permitted(http[r].token, http[r].route)
           /\ http[r].route.chain = "nest" => IsAccess(http[r].token),
         ~ (pc \in {"401", "403"} /\ Skips(http[r].route)) =>
           /\ pc = "401" => (~ IsAccess(http[r].token) \/ ~ http[r].token.bearer)
           /\ (pc = "403" /\ Permitted(http[r].token, http[r].route))
                => (req[r].pc = "done" /\ req[r].how \in {"malformed", "failed"})
           /\ pc = "unresolved" => http[r].token.kind = "slim"
  PROVE  Inv'
<1>1. pc \in Pcs \ {"sent"} /\ pc \notin {"resolving", "authorizing"}
  BY DEF Pcs, Answers
<1>2. /\ http'[r].pc = pc /\ http'[r].token = http[r].token
      /\ http'[r].route = http[r].route /\ req' = req
  BY <1>1, Replied DEF lookups
<1>3. AsksForItself(r)' /\ AsksForLetIn(r)'
  BY <1>1, <1>2 DEF AsksForItself, AsksForLetIn
<1>4. IsEntitled(r)' /\ IsRefusedForCause(r)'
  BY <1>2 DEF IsEntitled, IsRefusedForCause
<1>5. QED
  BY <1>1, <1>3, <1>4, Alone

\* The guards behind the JWT guard decide rightly on a user that has the
\* privileges of its token, or fewer because its lookup failed.
LEMMA Entered ==
  ASSUME HttpOK, Inv, NEW r \in Requests, NEW user, Enter(r, user), UNCHANGED lookups,
         http[r].pc # "unsent", IsAccess(http[r].token),
         http[r].route.chain = "nest", ~ Skips(http[r].route),
         user.known, user.privileges \subseteq Carried(http[r].token),
         \/ user.privileges = Carried(http[r].token)
         \/ http[r].route.guards = {}
         \/ req[r].pc = "done" /\ req[r].how \in {"malformed", "failed"}
  PROVE  Inv'
<1>1. http[r].token \in Token /\ http[r].route \in Route
  BY Carries
<1>2. CASE Admitted(user, http[r].route)
  <2>1. Reply(r, "handled")
    BY <1>2 DEF Enter
  <2>2. Permitted(http[r].token, http[r].route)
    BY <1>1, <1>2, AdmittedIsPermitted
  <2>3. QED
    BY <2>1, <2>2, Decided DEF Answers
<1>3. CASE ~ Admitted(user, http[r].route)
  <2>1. Reply(r, "403")
    BY <1>3 DEF Enter
  <2>2. http[r].route.guards # {}
    BY <1>3 DEF Admitted
  <2>3. Permitted(http[r].token, http[r].route)
          => (req[r].pc = "done" /\ req[r].how \in {"malformed", "failed"})
    BY <1>1, <1>3, <2>2, PermittedIsAdmitted
  <2>4. QED
    BY <2>1, <2>3, Decided DEF Answers
<1>4. QED
  BY <1>2, <1>3

-----------------------------------------------------------------------------
(* Steps                                                                   *)

LEMMA GuardStep ==
  ASSUME HttpOK, Proved!DegradedByOwnFailure, Inv, NEW r \in Requests,
         \/ SkipJwt(r) \/ Unauthorized(r) \/ WithoutLookup(r) \/ AskedByHash(r)
         \/ WithoutBearer(r) \/ Resume(r) \/ ResolverThrows(r)
  PROVE  Inv'
<1> USE DEF User
<1>1. CASE SkipJwt(r)
  <2>1. http[r].pc # "unsent" /\ Skips(http[r].route) /\ UNCHANGED lookups
        /\ \E pc \in {"handled", "403"} : Reply(r, pc)
    BY <1>1 DEF SkipJwt, Enter
  <2>2. QED
    BY <2>1, Decided DEF Answers
<1>2. CASE Unauthorized(r) \/ WithoutBearer(r)
  <2>1. /\ http[r].pc # "unsent" /\ UNCHANGED lookups /\ Reply(r, "401")
        /\ ~ IsAccess(http[r].token) \/ ~ http[r].token.bearer
    BY <1>2 DEF Unauthorized, WithoutBearer, Arriving, IsAccess
  <2>2. QED
    BY <2>1, Decided DEF Answers
<1>3. CASE WithoutLookup(r)
  <2> DEFINE user == User(Carried(http[r].token))
  <2>1. /\ http[r].pc # "unsent" /\ IsAccess(http[r].token)
        /\ http[r].route.chain = "nest" /\ ~ Skips(http[r].route)
        /\ UNCHANGED lookups /\ Enter(r, user)
    BY <1>3 DEF WithoutLookup, Arriving, IsAccess
  <2>2. user.known /\ user.privileges = Carried(http[r].token)
    OBVIOUS
  <2> HIDE DEF user
  <2>3. QED
    BY <2>1, <2>2, Entered
<1>4. CASE AskedByHash(r)
  <2> DEFINE user == User({})
  <2>1. /\ http[r].pc # "unsent" /\ http[r].token.kind = "slim" /\ IsByHash(http[r].route)
        /\ http[r].route.chain = "nest" /\ ~ Skips(http[r].route)
        /\ UNCHANGED lookups /\ Enter(r, user)
    BY <1>4 DEF AskedByHash, Arriving
  <2>2. http[r].route.guards = {}
    BY <2>1, Carries, ByHashIsOpen DEF ByHashRoute
  <2>3. user.known /\ user.privileges \subseteq Carried(http[r].token) /\ IsAccess(http[r].token)
    BY <2>1 DEF IsAccess
  <2> HIDE DEF user
  <2>4. QED
    BY <2>1, <2>2, <2>3, Entered
<1>5. CASE Resume(r)
  <2> DEFINE user == User(req[r].answer)
  <2>1. /\ http[r].pc = "resolving" /\ req[r].pc = "done"
        /\ UNCHANGED lookups /\ Enter(r, user)
    BY <1>5 DEF Resume
  <2>2. /\ http[r].token.kind = "slim" /\ http[r].route.chain = "nest"
        /\ ~ Skips(http[r].route) /\ req[r].hash = http[r].token.hash
    BY <2>1 DEF Inv, AsksForItself
  <2>3. Carried(http[r].token) = PrivilegesOf[req[r].hash] /\ IsAccess(http[r].token)
    BY <2>2 DEF Carried, IsAccess
  <2>4. \/ req[r].answer = Carried(http[r].token)
        \/ req[r].how \in {"malformed", "failed"} /\ req[r].answer = {}
    BY <2>1, <2>3 DEF Proved!DegradedByOwnFailure
  <2>5. user.known /\ user.privileges = req[r].answer
    OBVIOUS
  <2> HIDE DEF user
  <2>6. QED
    BY <2>1, <2>2, <2>3, <2>4, <2>5, Entered
<1>6. CASE ResolverThrows(r)
  <2>1. http[r].pc = "resolving" /\ UNCHANGED lookups /\ Reply(r, "unresolved")
    BY <1>6 DEF ResolverThrows
  <2>2. http[r].token.kind = "slim"
    BY <2>1 DEF Inv, AsksForItself
  <2>3. QED
    BY <2>1, <2>2, Decided DEF Answers
<1>7. QED
  BY <1>1, <1>2, <1>3, <1>4, <1>5, <1>6

LEMMA ChainStep ==
  ASSUME HttpOK, Inv, NEW r \in Requests, Chain(r) \/ Authorizes(r)
  PROVE  Inv'
<1> DEFINE token == http[r].token
           route == http[r].route
<1>1. CASE Chain(r)
  <2>1. http[r].pc = "sent" /\ route.chain = "express" /\ UNCHANGED lookups /\ ~ Skips(route)
    BY <1>1 DEF Chain, Skips
  <2> DEFINE verified == token.kind # "none" /\ token.bearer
  <2>2. \/ Reply(r, "401") /\ ~ verified
        \/ Reply(r, "403") /\ verified /\ ~ OwnNamespace(route)
        \/ /\ verified /\ OwnNamespace(route)
           /\ \/ Reply(r, "authorizing") /\ "privilege" \in route.guards
              \/ Reply(r, "handled") /\ "privilege" \notin route.guards
    BY <1>1 DEF Chain
  <2> HIDE DEF token, route
  <2>3. CASE Reply(r, "401") /\ ~ verified
    BY <2>1, <2>3, Decided DEF token, IsAccess, Answers
  <2>4. CASE Reply(r, "403") /\ verified /\ ~ OwnNamespace(route)
    <3>1. ~ Permitted(token, route)
      BY <2>1, <2>4 DEF Permitted, PermittedByExpress, OwnNamespace
    <3>2. QED
      BY <2>1, <2>4, <3>1, Decided DEF token, route, Answers
  <2>5. CASE Reply(r, "handled") /\ verified /\ OwnNamespace(route)
             /\ "privilege" \notin route.guards
    <3>1. Permitted(token, route) /\ route.chain # "nest"
      BY <2>1, <2>5 DEF Permitted, PermittedByExpress, OwnNamespace
    <3>2. QED
      BY <2>1, <2>5, <3>1, Decided DEF token, route, Answers
  <2>6. CASE Reply(r, "authorizing") /\ verified /\ OwnNamespace(route)
             /\ "privilege" \in route.guards
    <3>1. "authorizing" \in Pcs \ {"sent"}
      BY DEF Pcs
    <3>2. http'[r].pc = "authorizing" /\ http'[r].token = token /\ http'[r].route = route
      BY <2>1, <2>6, <3>1, Replied DEF token, route
    <3>3. AsksForItself(r)' /\ AsksForLetIn(r)' /\ IsEntitled(r)' /\ IsRefusedForCause(r)'
      BY <2>1, <2>6, <3>2 DEF AsksForItself, AsksForLetIn, IsEntitled, IsRefusedForCause,
                              OwnNamespace, Answers
    <3>4. QED
      BY <2>1, <2>6, <3>1, <3>3, Alone
  <2>7. QED
    BY <2>2, <2>3, <2>4, <2>5, <2>6
<1>2. CASE Authorized(r)
  <2>1. http[r].pc = "authorizing" /\ UNCHANGED lookups
    BY <1>2 DEF Authorized
  <2>2. \/ Reply(r, "handled") /\ route.handler \subseteq Grants[token.sub]
        \/ Reply(r, "403") /\ ~ (route.handler \subseteq Grants[token.sub])
    BY <1>2 DEF Authorized
  <2>3. /\ token.kind # "none" /\ route.chain = "express"
        /\ OwnNamespace(route) /\ "privilege" \in route.guards
    BY <2>1 DEF Inv, AsksForLetIn
  <2>4. route \in Routes /\ route.class = {}
    <3>1. route \in Routes \cup {ByHashRoute}
      BY <2>1, Carries
    <3>2. ByHashRoute.chain = "nest"
      BY DEF ByHashRoute
    <3>3. QED
      BY <2>3, <3>1, <3>2, ChainHasNoClasses
  <2> HIDE DEF token, route
  <2>5. /\ Permitted(token, route) <=> route.handler \subseteq Grants[token.sub]
        /\ route.chain # "nest"
    BY <2>3, <2>4 DEF Permitted, PermittedByExpress, OwnNamespace
  <2>6. QED
    BY <2>1, <2>2, <2>5, Decided DEF token, route, Answers
<1>3. CASE AuthorizationFails(r)
  <2>1. http[r].pc # "unsent" /\ UNCHANGED lookups /\ Reply(r, "unavailable")
    BY <1>3 DEF AuthorizationFails
  <2>2. QED
    BY <2>1, Decided DEF Answers
<1>4. QED
  BY <1>1, <1>2, <1>3 DEF Authorizes

\* A lookup that begins is for the hash of the request's own token; what asks
\* the identity service is sent to the by-hash endpoint.
LEMMA BeginStep ==
  ASSUME HttpOK, Proved!TypeOK, Inv, NEW r \in Requests, Cached(r) \/ AskIdentity(r)
  PROVE  Inv'
<1> DEFINE h == http[r].token.hash
<1>1. /\ http[r].pc = "sent" /\ http[r].route.chain = "nest" /\ ~ Skips(http[r].route)
      /\ http[r].token.kind = "slim" /\ ~ IsByHash(http[r].route)
  BY DEF Cached, AskIdentity, LooksUp, Arriving
<1>2. /\ req'[r].pc \in {"fetching", "done"} /\ req'[r].hash = h
      /\ \A q \in Requests : q # r => req'[q] = req[q]
  <2>1. \E v : /\ req' = [req EXCEPT ![r] = v]
               /\ v.pc \in {"fetching", "done"} /\ v.hash = h
    <3>1. CASE Cached(r)
      <4> DEFINE v == Resolver!Done(h, now, "hit", cache[h].privileges)
      <4>1. req' = [req EXCEPT ![r] = v]
        BY <3>1 DEF Cached, Resolver!Hit
      <4>2. v.pc = "done" /\ v.hash = h
        BY DEF Resolver!Done
      <4> HIDE DEF v
      <4>3. QED
        BY <4>1, <4>2
    <3>2. CASE AskIdentity(r)
      <4>1. req' = [req EXCEPT ![r] = Resolver!Fetching(h, now)]
        BY <3>2 DEF AskIdentity, Resolver!Miss
      <4>2. Resolver!Fetching(h, now).pc = "fetching" /\ Resolver!Fetching(h, now).hash = h
        BY DEF Resolver!Fetching
      <4>3. QED
        BY <4>1, <4>2
    <3>3. QED
      BY <3>1, <3>2
  <2>2. QED
    BY <2>1 DEF Proved!TypeOK
<1>3. Looking(r).pc = "resolving" /\ Looking(r).token = http[r].token
      /\ Looking(r).route = http[r].route
  BY <1>1, Moved DEF Looking, Pcs, Answers
<1>4. /\ http'[r] = Looking(r)
      /\ \A q \in Requests : q # r => \/ http'[q] = http[q]
                                      \/ http'[q] = Sent(http[r].token, ByHashRoute)
  BY DEF Cached, AskIdentity, Set, HttpOK
<1>5. AsksForItself(r)' /\ AsksForLetIn(r)' /\ IsEntitled(r)' /\ IsRefusedForCause(r)'
  BY <1>1, <1>2, <1>3, <1>4
     DEF AsksForItself, AsksForLetIn, IsEntitled, IsRefusedForCause, Skips, IsByHash
<1>6. ASSUME NEW q \in Requests, q # r
      PROVE  AsksForItself(q)' /\ AsksForLetIn(q)' /\ IsEntitled(q)' /\ IsRefusedForCause(q)'
  <2>1. CASE http'[q] = http[q]
    BY <1>2, <1>6, <2>1 DEF Inv, AsksForItself, AsksForLetIn, IsEntitled, IsRefusedForCause
  <2>2. CASE http'[q] = Sent(http[r].token, ByHashRoute)
    <3>1. http'[q].pc = "sent"
      BY <2>2 DEF Sent
    <3>2. QED
      BY <3>1 DEF AsksForItself, AsksForLetIn, IsEntitled, IsRefusedForCause
  <2>3. QED
    BY <1>4, <1>6, <2>1, <2>2
<1>7. AreByHash'
  <2>1. Sent(http[r].token, ByHashRoute).route = ByHashRoute
    BY DEF Sent
  <2>2. QED
    BY <1>1, <1>3, <1>4, <2>1 DEF Inv, AreByHash
<1>8. QED
  BY <1>5, <1>6, <1>7 DEF Inv

\* A lookup that ends is over for good, and was for the hash it began with.
LEMMA EndStep ==
  ASSUME HttpOK, Proved!TypeOK, Inv, NEW r \in Requests,
         IdentityAnswers(r) \/ LookupFails(r) \/ LookupTimesOut(r)
  PROVE  Inv'
<1>1. /\ http' = http /\ req[r].pc = "fetching"
      /\ \E v : req' = [req EXCEPT ![r] = v] /\ v.pc = "done" /\ v.hash = req[r].hash
  BY DEF IdentityAnswers, LookupFails, LookupTimesOut, Resolver!FetchAnswers,
         Resolver!FetchMalformed, Resolver!FetchFails, Resolver!FetchTimesOut,
         Resolver!TimedOut, Resolver!GiveUp, Resolver!Done
<1>2. /\ req'[r].pc = "done" /\ req'[r].hash = req[r].hash
      /\ \A q \in Requests : q # r => req'[q] = req[q]
  BY <1>1 DEF Proved!TypeOK
<1>3. ASSUME NEW q \in Requests
      PROVE  AsksForItself(q)' /\ AsksForLetIn(q)' /\ IsEntitled(q)' /\ IsRefusedForCause(q)'
  BY <1>1, <1>2 DEF Inv, AsksForItself, AsksForLetIn, IsEntitled, IsRefusedForCause
<1>4. AreByHash'
  BY <1>1 DEF Inv, AreByHash
<1>5. QED
  BY <1>3, <1>4 DEF Inv

LEMMA ArriveStep == ASSUME HttpOK, Inv, NEW r \in Requests, Arrive(r) PROVE Inv'
<1>1. /\ r \in Clients /\ http'[r].pc = "sent" /\ req' = req
      /\ \A q \in Requests : q # r => http'[q] = http[q]
  BY DEF Arrive, Set, HttpOK, Sent, lookups
<1>2. ASSUME NEW q \in Requests
      PROVE  AsksForItself(q)' /\ AsksForLetIn(q)' /\ IsEntitled(q)' /\ IsRefusedForCause(q)'
  BY <1>1 DEF Inv, AsksForItself, AsksForLetIn, IsEntitled, IsRefusedForCause
<1>3. AreByHash'
  BY <1>1 DEF Inv, AreByHash
<1>4. QED
  BY <1>2, <1>3 DEF Inv

\* Inv is inductive, given what is proved of the resolver.
LEMMA Invariant == Spec => []Inv
<1>1. Init => Inv
  BY DEF Init, Inv, AreByHash, AsksForItself, AsksForLetIn, IsEntitled, IsRefusedForCause, Unsent
<1>2. HttpOK /\ Proved!TypeOK /\ Proved!DegradedByOwnFailure /\ Inv /\ [Next]_vars => Inv'
  <2> SUFFICES ASSUME HttpOK, Proved!TypeOK, Proved!DegradedByOwnFailure, Inv, [Next]_vars
               PROVE  Inv'
    OBVIOUS
  <2>1. ASSUME NEW r \in Requests, Guard(r) PROVE Inv'
    BY <2>1, GuardStep, ChainStep, BeginStep DEF Guard
  <2>2. ASSUME NEW r \in Requests, ResolverThrows(r) \/ Authorizes(r) PROVE Inv'
    BY <2>2, GuardStep, ChainStep
  <2>3. ASSUME NEW r \in Requests, IdentityAnswers(r) \/ LookupFails(r) \/ LookupTimesOut(r)
        PROVE  Inv'
    BY <2>3, EndStep
  <2>4. ASSUME NEW r \in Requests, Arrive(r) PROVE Inv'
    BY <2>4, ArriveStep
  <2>5. ASSUME Tick \/ UNCHANGED vars PROVE Inv'
    <3>1. UNCHANGED <<http, req>>
      BY <2>5 DEF Tick, Resolver!Tick, vars
    <3>2. QED
      BY <3>1 DEF Inv, AreByHash, AsksForItself, AsksForLetIn, IsEntitled, IsRefusedForCause
  <2>6. QED
    BY <2>1, <2>2, <2>3, <2>4, <2>5 DEF Next, Finished
<1>3. QED
  BY <1>1, <1>2, HttpType, ResolverHolds, PTL DEF Spec

-----------------------------------------------------------------------------
\* Requests, cache and lookups are of their types, and the request that answers
\* a lookup does not look anything up: lookups do not wait on lookups.
THEOREM LookupsDoNotNest == Spec => []AuthInv
<1>1. HttpOK /\ Proved!TypeOK => TypeOK
  BY DEF HttpOK, Travelling, Pcs, Answers, TypeOK, Proved!TypeOK, Resolver!TypeOK, Proved!Keys,
         Resolver!Keys, Proved!Entry, Resolver!Entry, Proved!Counters, Resolver!Counters,
         Proved!Request, Resolver!Request, Proved!Idle, Resolver!Idle
<1>2. Inv => LookupsAreFlat
  <2> SUFFICES ASSUME Inv, NEW r \in Clients, http[ByHashCall[r]].pc = "resolving" PROVE FALSE
    BY DEF LookupsAreFlat
  <2>1. ByHashCall[r] \in Requests \ Clients
    BY OneCallEach
  <2>2. http[ByHashCall[r]].route = ByHashRoute
    BY <2>1 DEF Inv, AreByHash
  <2>3. ~ IsByHash(ByHashRoute)
    BY <2>1, <2>2 DEF Inv, AsksForItself
  <2>4. QED
    BY <2>3 DEF IsByHash, ByHashRoute
<1>3. QED
  BY <1>1, <1>2, HttpType, ResolverHolds, Invariant, PTL DEF AuthInv

\* No controller that is not open to all ever sees a request not permitted to its
\* caller, nor one without an access token on the Nest chain, whatever is cached,
\* fails or times out, and however many there are.
THEOREM OnlyTheEntitled == Spec => []HandledIsEntitled
<1>1. Inv => HandledIsEntitled
  BY DEF Inv, IsEntitled, HandledIsEntitled
<1>2. QED
  BY <1>1, Invariant, PTL

\* Nobody is refused what is permitted to him unless his own lookup failed, the
\* resolver threw or the authorization service gave no answer, nor sent to log in
\* again with an access token in a well-formed header.
THEOREM RefusalsHaveCause == Spec => []RefusedForCause
<1>1. Inv => RefusedForCause
  BY DEF Inv, IsRefusedForCause, RefusedForCause
<1>2. QED
  BY <1>1, Invariant, PTL
=============================================================================
