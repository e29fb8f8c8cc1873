# zorbit-sdk-node in TLA+

Models, model-checking runs and machine-checked proofs for `@zorbit-platform/sdk-node`,
the TypeScript SDK that every Zorbit service links: authentication and privileges,
generic entity CRUD, integration runs, Kafka, auditing, rate limiting, encryption.
The SDK is a library inside one Node.js process: code runs on one thread, and what
interleaves are the pieces between two `await`s of different requests, timers and
callbacks. Everything hard in it comes from that, from remote calls that fail or
answer late, and from the process dying.

Paths below are relative to the repository's root (`src/` is its source directory).

## 1. The system

| Part | State it keeps | Operations | What must hold |
|---|---|---|---|
| Privilege resolver, `nestjs/privilege-resolver.ts` | the process's cache of hash -> privileges, its insertion order, five counters | `resolve`, `put`, `fetch`, `getStats` | the cap; only what the identity service answered is cached; a failure is nobody else's; every lookup settles |
| JWT strategy and guards, `nestjs/*.guard.ts`, `nestjs/jwt.strategy.ts`; the Express middleware, `middleware/*` | none but the resolver's | `validate`, `canActivate`; three middleware | no request passes without the privileges and the namespace it needs, in every degraded mode |
| Integration runner, `integration-runner/` | the run record and events in a store, an emitter, executions in memory | `trigger`, `executeRun`, `subscribe`, `subscribeCompletion` | the record goes forward only and is ahead of all news of it; every run ends; subscribers hear how |
| Entity CRUD, `entity-crud/service-factory.ts`, `controller-factory.ts`, `filter-parser.ts`, `masking.ts`, `export.ts`, `audit.ts` | a table; one audit event per mutation | `create`, `update`, `remove`, `list`, `findOne`, `exportCsv` | replies and audit trail tell of writes made; If-Match; versions; readonly fields; soft delete; pages, masks and exports tell what is there |
| Audit event publisher, `audit/event-publisher.ts` | a producer, `connected` | `init`, `publish`, `close` | never throws into the business call; an event is sent or lost, once |
| Quota manager, `middleware/quota-manager.ts` | timestamps per key and window, shared by all limiters of the process | the middleware, `clearQuotaStore` | the sliding limit; rejections are due; the advertised reset is a time with room |
| Kafka client, `kafka/kafka-client.ts` | a producer, a consumer, and at the broker the offset and the dead letter queue | `connectProducer`, `connectConsumer`, `subscribe`, `publish`, `disconnect` | a consumer with an offset passes over nothing it did not deal with; none handled twice without a crash; failed ones in the dead letter queue, or dropped for want of a producer |
| Mongo adapter, `database/mongo-adapter.ts`, with the audit logger and the PII detector, `interceptors/*` | documents in memory and at rest, the logger's connection, the vault | hooks on save, update and delete; `scanAndTokenize`, `reveal` | personal data is saved as tokens that reveal what was meant; audit events tell of calls that resolved |
| Module announcement, `module-announcement/service.ts`, `canonical-json.ts`, `dependencies.ts` | a producer field shared by overlapping rounds | `announce`, `publish`, `notifyRegistry` | a round that nothing overlaps delivers and closes what it opened; the registry can verify the signature; every round notifies |
| Encryption, `encryption/` | keys from the environment; columns at rest | `encrypt`, `decrypt`, `encryptAll`, `decryptAll` | what `encryptAll()` took is at rest encrypted once, what is read is what was meant, kept keys go on reading |
| HTTP clients, config, errors, health, tracing, identifiers, wiring | none, or set once at boot | - | - |

How they meet: a request passes the quota manager, the JWT guard and strategy (which
asks the privilege resolver), the namespace and privilege guards, and then a CRUD
controller, whose service writes through TypeORM and reports to the audit event
publisher, which owns a Kafka producer. Documents kept in Mongo pass the adapter's hooks on
their way to the database, columns of a TypeORM entity the encryption hooks. The integration
runner is triggered by controllers and streams to subscribers; a module announces itself
at boot and when asked. All of them share one process and die with it.

## 2. Modules

| Module | Models | Notes |
|---|---|---|
| `PrivilegeLookup` | what callers of `resolve()` rely on (abstract) | an answer is the hash's set and was learned less than a TTL ago, or is empty after a failure of one's own |
| `PrivilegeResolver` | `privilege-resolver.ts` | the steps around the one `await`; the Map and its insertion order are two variables, `cache` and `order` |
| `RequestAuth` | the guards, the strategy and the Express middleware chain | composes `PrivilegeResolver` (`INSTANCE`) |
| `RunLifecycle` | what clients see of a run (abstract) | record and announcement |
| `IntegrationRunner` | `integration-runner.service.ts` | one action per stretch between two awaits; the store, the audit sink and the executor are external |
| `EntityService` | the mutations of `service-factory.ts`, their controllers, `emitAudit()`, the audit event publisher | a mutation is two halves around the write, then the audit event |
| `EntityReads` | `list()`, `findOne()`, `exportCsv()`, their controllers, the query parser, masking, CSV | a page is two statements, and the parser, masking and CSV are operators on words |
| `QuotaManager` | `quota-manager.ts` | a call of the middleware has no await and is one action |
| `KafkaClient` | `kafka-client.ts` with kafkajs and the broker as the code uses them | connecting, `eachMessage` with the dead letter queue, `disconnect()`, crashes |
| `MongoHooks` | `mongo-adapter.ts`, `audit-logger.ts`, `pii-detector.ts` | both ways to set the hooks up; mongoose, vault and Kafka are external |
| `ModuleAnnouncement` | `service.ts`, `canonical-json.ts`, `dependencies.ts` of the announcement | rounds that share `this.producer`; the signed message member by member |
| `ColumnEncryption` | `encryption.service.ts`, its module, `encrypted.decorator.ts` | processes with different keys over one row |
| `MC*` | small instances for TLC | model values and functions for the `.cfg` files |
| `*_proofs` | - | theorems and their proofs, section 5: about the module of that name (`PrivilegeResolver`, `RequestAuth`, `IntegrationRunner`, `QuotaManager`, `MongoHooks`, `ColumnEncryption`), about `EntityService` and `EntityReads` (`EntityCrud_proofs`), and about `KafkaClient` and `ModuleAnnouncement` (`Kafka_proofs`) |

A definition whose name ends in `_Something` after the name of an action or helper
(`Cacheable_Always` beside `Cacheable`) is that definition with a plausible mistake in
it. No behaviour uses it; each one shows that some property of the runs below would
notice the mistake. `PROJECT.json` pairs them.

Each module has one type invariant, `TypeOK`. The modules that share a module of proofs with
another, `EntityReads` and `ModuleAnnouncement`, name theirs `ReadsTypeOK` and `RoundsTypeOK`, and
likewise `ReadsSpec`, `RoundsSpec` and their parts. Where a short invariant goes with it, the two are
checked as one (`RunnerInv`, `EntityInv`, `ReadsInv`, `QuotaInv`, `KafkaInv`, `AuthInv`, `HooksInv`,
`AnnouncementInv`, `EncryptionInv`); the conjuncts have names of their own.

### State and actions against the code

*PrivilegeResolver.* `req[r]` is the local state of one call of `resolve()`: idle, awaiting
`fetch()`, or done. `Hit` and `Miss` are the code up to the await, with the clock read once
(`start`); `FetchAnswers`, `FetchMalformed`, `FetchFails` and `FetchTimesOut` are what follows
it, with `Put` in the first. `Put` evicts the head of `order` and sets the key, which as in a
JavaScript Map keeps its place if it is there already, even when it was the evicted one that
is set anew. How a call came by its answer is history.

*RequestAuth.* `http[r]` is how far request `r` is; the resolver's variables are those of
`PrivilegeResolver`, and `req[r]` there is the lookup made for `http[r]`. A token is what
the strategy tells apart (none that verifies, another type than access, fat, slim, neither), whose
it is (`sub`) and whether its header reads as the code that forwards it expects (`bearer`): a slim
token that cannot be forwarded is a 401 (`WithoutBearer`). `ResolverThrows` is the strategy's catch,
and its 401 is kept apart as `"unresolved"`; `resolve()` catches what its own call may throw, so in
this code only a resolver that an application puts in its place would get there. A route is its decorators, its guards and whose namespace its parameters name. The guards after
the strategy have no await, so `Enter` is all of them. `AskIdentity` also sends the request by
which the lookup asks the identity service, `ByHashCall[r]`: that one passes the same guard
and strategy there, and the lookup is answered (`IdentityAnswers`) only after its controller
has been reached. The identity service is another process; its requests never reach a
resolver, which is what `LookupsAreFlat` says, so that they need no cache of their own.
A route of the `"express"` chain has the middleware instead: `Chain` is `jwtAuthMiddleware()` and
`namespaceMiddleware()`, which run in one stretch, and `Authorized` and `AuthorizationFails` are what
follows the await of `authorizationMiddleware()`, which asks by the token's `sub` and is answered from
`Grants`; what the token carries (`Carried`) counts on the Nest chain only. Departments are treated as organisations
are, and are not told apart.

*IntegrationRunner.* `run[t].pc` names the await a run is at; `Create` ... `AuditFailure` are the
stretches between them. A `'completed'` emission calls the handlers in order until one throws
(`Reached`), and a throwing handler decides where the run goes on, in the try or out of it.
`StoreRejects` is a rejection of any store call, `SaveFailure` what the catch does. `Crash` loses
everything but the store.

*EntityService.* `call[c]` carries the copy of the row that a request took with it across the
await. `Save` upserts the whole copy; `Audit` publishes or loses the event, or finds the publisher
closed (`linked`); `Die` is the process going between any two steps. `RemoveRow` is `remove()`.
`Serial` are the rows whose callers take turns. A body names any columns, the status included, and
all of them go into one save (`Patches`; `Bodies` picks those of an instance). It names no id and no
scope column.

*EntityReads.* `walk` is a caller who asks for a page, takes the rows (`Select`), gets the total by a
second statement (`Count`), and goes on while pages are full; an export is a walk of one page.
`Where` and `Clauses` build the TypeORM clause in the order of the code, which is what decides
between clauses on the same column: a filter takes the place of what the service has put on
it, the scope and the status included, and `ListedMatch` says what holds where the query names
neither. `Write` is any other request's insert,
rename, soft or hard deletion. `first`, `due`, `grew`, `shrank` and `tied` are history: the page the
walk began at, what matched then, and whether matches came, went or tied since. A walk may begin
at a later page; that it leaves nothing out is claimed of one that begins at the first. Values are words; a filter, a search
and a masking pattern are sets of words. Filters in the instance are on columns of data and on
the status.

*QuotaManager.* `store[k][w]` is the counter of key `k` in window `w`; `passed` is the history of
requests let through, which the properties compare with the configured limits. Time is in
ticks, two to a second.

*KafkaClient.* `producer` and `consumer` say how far each connection is, a refused one included, and
`closing` how far `disconnect()` is; `ConnectConsumer`, `Subscribe` and `Join` are steps of their own,
each of which the broker may refuse. `work` is where `eachMessage` is; `position` what the consumer is
past, `from` where it joined, `committed` what the broker remembers, `since` where the group's
first consumer joined. `dropped` is the history of failed messages let go because there was no
producer or it refused. The subscription has `fromBeginning: false`: a group that has not committed
yet joins at the end of the log each time, and `jumped` is the history of what it leaves behind
so. `Accounted` names both; nothing else is ever passed over.

*MongoHooks.* `doc[h]` is the document a caller holds, `work[h]` where its save, update or removal is:
scanning field by field, each an await of the vault, writing, or auditing. `calls` is the history of
the calls that resolved and of what each wrote: a save with nothing modified resolves, writes
`"nothing"`, and runs the post hook all the same. `meant` and `meaning`
are history, the plain values documents and rows stand for, which `RevealsOriginal` compares with
what the vault gives back. They follow what is on its way to the row, so an edit that the scan
overwrites is gone from `meant` too: see section 4. `placeholders` are the tokens made up when the vault did not answer.
`factory` chooses between `createMongoConnection()`, which hooks all three operations, and
the module factory, which does not wait for the logger and hooks saves.

*ModuleAnnouncement.* `current` is `this.producer`, which a round assigns when it connects and reads
again before it sends and before it disconnects; `link[r]` is the connection round `r` made. A JSON
object is its members in order, so that `Canonicalize` has something to sort and the registry
may decode another order. `alone` and `clean` are history.

*ColumnEncryption.* `proc[p]` holds a process's service (active key and keys) and its copy of the row;
`encryptAll()` and `decryptAll()` go field by field. An envelope is what was encrypted, the
key id and the key material; it opens with that material only. `meant` is what the application last
assigned; `late` are the columns assigned after `encryptAll()` has been at them and before the
write, `lost` those assigned during the await of their own encryption. All three are history.

## 3. Runs

| Run | Shows | Bounds |
|---|---|---|
| `resolver_lookup` | cap, provenance, degradation, refinement of `PrivilegeLookup`, termination | 3 calls, 4 hashes (one without privileges), room for 2, TTL 2, clock to 3: enough for an entry to expire, for two calls to miss one hash, and for an eviction of a live and of a refreshed key |
| `auth_pipeline` | controllers see entitled requests only, refusals have their cause, lookups never nest, every request is answered | 2 clients and the requests their lookups make, 2 subjects, 7 tokens, one of them slim and not forwardable, 7 routes of which 2 on the Express chain, TTL 1, lookup timeout 1, clock to 2: an entry learned at 0 expires, and so does a lookup begun at 1 |
| `runner_run` | records only advance and lead the news, a failure is last, runs end, watchers hear, refinement of `RunLifecycle` | 2 runs, one of them with a watcher that throws, 2 watchers, a store and an audit sink that may reject, one crash |
| `entity_run` | audit trail and replies tell the truth, readonly fields keep their values; where callers take turns versions count writes, If-Match holds, a write changes no column its request does not name | 3 concurrent calls, 2 rows: one soft deleted whose callers take turns, one hard deleted whose callers do not; bodies of no column, of one and of two, with the status and without; ids that collide |
| `entity_conflict` | *violated*: If-Match under concurrency | 3 calls on one row |
| `reads_walk` | what is listed matches, walks are whole, masks are exact, CSV reads back | 4 rows of which 2 tie, 2 declarations, 3 callers, 7 queries, pages of 1 and 2, 2 writes of others: enough to shift a page under a walk twice |
| `quota_shared` | sliding limit, due rejections, useful resets | two limiters, one key, windows of 2 and 4 ticks, clock to 8 |
| `kafka_consume` | nothing skipped but what a group without an offset leaves behind, nothing repeated short of a crash, everything else settled in the end | 3 messages, one crash, one `disconnect()`, a broker that may refuse every call |
| `kafka_shutdown` | *violated*: a message that fails during `disconnect()` is dropped | no crash, no broker failure |
| `mongo_hooks` | saves are tokenised, tokens reveal what was meant, events tell of calls that resolved | 2 callers, one row, 2 fields of which one personal, 2 values, 2 tokens, 2 calls, 2 edits |
| `announce_rounds` | a lone round delivers and closes, signatures verify, every round notifies | 2 rounds, 4 shapes of `dependencies`, 2 versions |
| `encrypt_rotation` | what was taken is encrypted once at rest, read as assigned, kept keys read | 2 processes, 3 starts, 4 environments (one key, rotated, replaced, invalid), 3 texts, 2 assignments |

Bounds stop counters (`MaxTime`, `MaxCrashes`, `MaxCloses`, `MaxLog`, `MaxWrites`, `MaxCalls`, `MaxEdits`, `MaxVersion`,
`MaxBoots`, `MaxSets`) and fix the number of calls. The properties relate at most two calls and
one shared object; a third call, and a second expiry, write, start or crash where the bound
has room for it, is what makes a needless eviction, a reused version, a shifted page or a
second redelivery possible. Callers, processes, plain values and tokens that are alike
are permuted (`SYMMETRY`) where only invariants and action properties are checked.

Deadlock is checked except where a bounded log or clock ends the behaviour (`kafka_*`);
elsewhere a `Finished` step marks the end that is meant.

### Fairness

* *Resolver.* The clock ticks, and axios' `timeout` fires (`FetchTimesOut`): nothing is asked of
  the identity service. `LookupSettles` needs only that.
* *Requests.* The event loop gets to every request (`WF` of its guard step), the clock ticks, and the
  timers of a lookup and of a call to the authorization service fire; neither service is
  asked to answer.
* *Runner.* `WF` of the run's next step: the store and the audit sink settle their promises, and
  an executor "Must return a result object or throw" (`integration-runner/types.ts`). Crashes and
  rejections are not fair; `RunsSettle` names the ends they bring.
* *Kafka.* The service starts its client, again after a crash, a refusal or a `disconnect()`; kafkajs
  delivers, commits and completes `disconnect()`; a handler settles. Connecting and joining the
  consumer are strongly fair: the broker may refuse them any number of times, but not for ever.
  No fairness for the producer's connection, crashes or arrivals.
* *Announcement.* `WF` of a round's next step: kafkajs settles every call, one way or the other, and
  the notice's timer fires.

## 4. Where the code and its words differ

Two disagreements are runs that TLC finds violated:

* `update()` checks If-Match against a row it then overwrites unconditionally after an await:
  concurrent updates that name one version both succeed (`entity_conflict`). The same window lets
  an update bring back a row that was removed meanwhile.
* `disconnect()` takes the producer from under a consumer that still runs, so a message that fails then
  is not forwarded (`kafka_shutdown`).

In six more places words promise what the code does not do. The models do as the code does, and
the passing properties leave the promise out by name, so that they say where it ends:

* "only 'access' tokens are valid for API requests" (`types/jwt-payload.ts:22`, and `jwt.strategy.ts:51`). The
  Nest strategy keeps to it. The Express middleware (`jwt-auth.middleware.ts:57`) passes on whatever
  verifies, refresh and MFA tokens too, and authorizes it by its `sub`. `HandledIsEntitled` demands
  an access token on the Nest chain only.
* An audit event has the "Type of mutation" (`audit-logger.ts:33`), and the save's hook is for "creates and
  updates" (`mongo-adapter.ts:116`); the hook calls every save a creation, that of a loaded document
  and that of an unmodified one, for which mongoose writes nothing. `EventsTellCalls` claims what is
  left: no event of a call that was rejected, and no two of one call.
* The logger of the module factory "will buffer events until connected" (`mongo-adapter.ts:245`). An event
  that comes before is lost (`Publish`).
* `announce()` executes "one announcement round: connect to Kafka, publish, disconnect"
  (`module-announcement/service.ts:126`). Rounds that overlap share one producer field: the later
  one's `connect` takes it over (line 135), the message of one may be lost though the broker refuses
  nothing, and a connection stays open. `LoneRoundsDeliver` is claimed of rounds nothing overlaps.
* A field is stored "as the v1 envelope" (`encrypted.decorator.ts:4`). A text of five parts that starts with
  `v1:` is taken for one: it is stored as it is, and the row cannot be loaded (`Lookalikes`).
* An assigned property "is encrypted before persistence" (`encrypted.decorator.ts:23`). One assigned after
  `encryptAll()` has been at it, while it awaits a later field, is stored in plain (`late`); one assigned
  while its own value is being encrypted is overwritten by the envelope of the old one (`lost`).
  `EncryptionInv` says that no other text is in plain, and `ReadsBack` that no other is lost.

The models have the following as the code has it; no run is spent on them.

* Concurrent misses of one hash fetch it twice, against "once per process"
  (`privilege-resolver.ts:16`). `put()` says "drop the oldest entry" and drops the first key of the
  Map, which after a refresh need not be the oldest.
* A completion listener that throws makes a run that was recorded and audited as succeeded fail,
  and be audited a second time. A rejection of the first `updateRun()` leaves the run "queued" for
  good although the comment at `integration-runner.service.ts:103` says it is recorded.
* The rate-limit headers show the window with the least remaining *share* (`quota-manager.ts:230`)
  where the comment at line 211 says capacity.
* `ALLOW_UNAUTHENTICATED_SEED` lets a request past the JWT guard "for bootstrap seeding without
  auth", which the privilege guard on the seed controller then refuses for want of a user
  (`SkipJwt` enters with `Nobody`).
* Only `save()` tokenises (`mongo-adapter.ts:15`), and the module factory hooks saves alone (line 17).
  The scan sets every field of its copy back on the document, over edits made while it awaited the
  vault: such an edit is lost, with no error (`ScanEnds`; no property says otherwise).
* A placeholder, made when the vault does not answer (`pii-detector.ts:184`), reveals nothing, and
  the call that precedes it has no timeout (line 170). It has two random bytes and may be a token the
  vault knows; `RevealsOriginal` exempts placeholders.
* A group that has not committed an offset begins again at the end of the topic (`fromBeginning: false`,
  `kafka-client.ts:124`): what it was given before a crash and had not committed, and what arrived
  until it is back, nobody handles. No comment denies it; the properties count it as `jumped`.
* A request that passes two limiters with one key is counted twice in the windows they have in common
  (`quota-manager.ts:185`); `RejectionIsDue` counts it so.
* The audit trail need not be complete: `publish()` loses what it cannot send, and the process may die
  between a write and its event. The `before` of a soft deletion is the row after it. A hash id
  may collide, and a create then overwrites. `TellsOf` and `ReadOnlyFromCreate` are stated as the
  code has it.
* After a save the entity in memory holds the envelopes (`encrypted.decorator.ts:22` promises the plain
  view). `forRoot()` builds a service and does not register it with the decorator.
* An export is said to be capped at 10k rows (`service-factory.ts:338`); since `parseQuery()` caps a
  page lower, it holds 1000. `findOne()` returns soft-deleted rows, replies to create and update are
  not masked, a search replaces a filter on the column it searches, and a walk over pages can
  leave rows out where they tie on the sort column: `WalkTells` and `ListedMatch` are stated
  around these.

## 5. Proofs

Each theorem is about the specification itself, for every value of its constants: any number
of requests, rows, limiters, processes or messages, and any bound on clocks, crashes and writes.
Each states a property that a run of section 3 checks on a small instance. The inductive
invariants were checked on the same instances before they were proved.

**`PrivilegeResolver_proofs`**

* `TypeCorrect`: `TypeOK`, which says besides types that `order` enumerates the keys of
  `cache` without repetition; `Put` keeps that (lemma `PutKeepsMap`), whether or not it evicts
  and whether or not the key was there, which is the crux of it.
* `SizeBounded`: the cap. It needs `TypeOK`: one eviction makes room for one key.
* `CacheLearned`: each entry is the service's answer to a call that is done. Inductive together
  with `TypeOK`, because a call that is done stays as it is (`DoneIsFinal`).
* `DegradationIsOwn`: a hit answers from an entry, so it rests on `CacheLearned`.
* `WorkingSetStays`: an eviction means that the service has named privileges for at least as many
  hashes as there is room for. The keys of a full Map are as many hashes, each of them named
  (`CacheLearned`), and the one that is put is not among them.
* `ResolverImplementsLookup`: initial states and steps map under `callBar`, `learnedBar`; the step
  of a hit is an abstract `Recall` because its entry was learned less than a TTL ago, which is
  `CacheLearned` again.

**`RequestAuth_proofs`** stands on these: `Spec => Proved!Spec` (lemma `RunsResolver`), since every
step of a request is a step of the resolver or leaves it alone, and so the resolver's theorems hold of
the resolver within (`ResolverHolds`).

* `LookupsDoNotNest` (`AuthInv`), `OnlyTheEntitled` (`HandledIsEntitled`), `RefusalsHaveCause`
  (`RefusedForCause`). The invariant says of each request how it came where it is: the one that answers
  a lookup carries the token of the request that asked and takes the by-hash route, a lookup in
  progress is for the hash of its token, and who was let in, or refused, satisfies the
  property already. The step that matters is `Resume`: the set the lookup came back with is the set
  the hash names, or is empty because this lookup failed (`DegradedByOwnFailure`).

**`IntegrationRunner_proofs`**

* `AnnouncesOnce` (`RunnerInv`): at most a success and then a failure. The invariant gives, for each
  await a run can be at, what its record says and what it has announced; nobody knows an id
  that was not yet drawn (`Unknown`), so a fresh run finds no listener and no record.
* `RecordFirst` (`RecordLeads`): the record goes forward, and news follows it.
* `RunnerImplementsLifecycle`: for runs nobody's throwing listener watches (`Quiet`), the runner refines
  `RunLifecycle`, whatever the store rejects and wherever the process dies.

**`EntityCrud_proofs`, the writes**: `Accounted` ties the progress of a call to how many writes and events it has
made, `InHand` what it is about to write to what a `create()` granted, and, for rows whose callers
take turns, `Fresh` says that the row is still the one the call has read.

* `ReadOnlyKept` (`EntityInv`), `TrailIsTrue` (`TrailTellsWrites`), `RepliesAreTrue`, `VersionsTellApart`
  (`VersionsCount`), `IfMatchIsHonoured` (`IfMatchHolds`), `ChangesAreAskedFor` (`ChangesAreAsked`). Versions and
  If-Match are proved of versioned declarations, as the code has them for those only. Without turns
  `IfMatchHolds` is false: the run `entity_conflict` is the counterexample.

**`EntityCrud_proofs`, the reads**: tables, declarations, queries, callers, walks and exports of any
size. The invariant, `ReadInv`, says of each row that was shown that it met the query (`Meets`) and
is masked (`Masks`), and of the walk as a whole what its pages so far tell (`WalkSoFar`).

* `WalksTell` (`WalkTells`). A row's `Rank` is the number of matching rows ahead of it. Where no rows
  tie, a page is the rows whose rank is between its bounds (`PlaceIsRank`, `PageOfFound`),
  however the database arranges them. What was due and has a rank below the walk's bound
  has been listed; what was listed and still matches has such a rank. A row that is added only raises
  the ranks of the others, so nothing listed comes again only if nothing is added; a row
  that goes only lowers them, so nothing is left out only if nothing goes (`RanksGrow`,
  `SoFarAfterWrite`). The last page is not full, so no rank is beyond it (`InvTells`).
* `ReadsMask` (`ReadsAreMasked`). `MaskRow` applies the rules one after another; by induction on their
  number each column shows its value, or the replacement of a rule on it (`MaskRowMasks`). A rule
  that comes later may mask a replacement once more, which is why the property asks for some
  rule and not for the first.
* `ReadsInvariant` (`ReadsInv`): types, `ListedMatch`, and `ExportReadsBack`. For the last, the reader of
  `ReadCsv` is followed through the text it is given: `CellReads`, `LineReads` and `FileReads` say
  where a cell, a line and a file take it, quoted or not, from any state in which one may
  begin (`Reads` composes over concatenation, `ReadsThen`).

Induction over numbers is by `SetInduction`, a consequence of the well-foundedness of `<`: a set of
numbers that has 0, and with each number the next, has all. Recursive functions and
`FlattenSeq` are brought to it by `RunExists`, which builds the sequence of their values.

**`QuotaManager_proofs`**: each counter is in order. Every request a limiter let through that is younger
than the window is still in it, no further from its end than it is in the history (`Kept`), so pruning
forgets no request that counts. Every timestamp in a counter is that of a different request let
through (`Source`, an injection), so no rejection is due to a request counted twice.

* `LimitHolds` (`SlidingWindow`), `RejectionsAreDue` (`QuotaInv`, with types), `ResetsFree` (`ResetFrees`).

**`Kafka_proofs`, the client**: `PlacesInLog` keeps offset, position, the place the consumer joined and the
beginning of the group in order within the log; with it `NothingSkipped` and `CommittedIsSettled` are
inductive. A step that is not `Join` adds to what is accounted for (`AccountedStays`); `Join` moves the
position either to the offset, behind which all is accounted for, or over what it counts as jumped.

* `NothingLost` (`KafkaInv`), and `HandledOnce` (`RedeliveredOnlyAfterCrash`), for which a message beyond the
  last one given has been handled before the last crash only.

**`Kafka_proofs`, the announcement**: any number of rounds, overlapping or not, any manifests.

* `AnnouncementInvariant` (`AnnouncementInv`): `Undisturbed` follows a round that nothing overlaps. The
  producer field is its own as long as it is under way, and the message it sends was built from a
  manifest no older than it found.
* `SignaturesVerify` (`SignatureVerifies`): the canonical form depends on what members an object has, and
  not on their order. `Sorted` puts a member where the number of those before it says (`Before`),
  which is a matter of the set of members (`BeforeInOrder`); the objects of the payload and of
  its dependencies are the two levels that may arrive in another order.

**`MongoHooks_proofs`**: `DataInv` follows a value on all its ways, from the document to the copy that is
scanned, to the row: plain it is what the application meant, and as a token the vault stands for
that (`Fits`), or the token was made up. It is kept when the vault learns, as a vault forgets nothing
(`StillFits`). `TrailInv` counts a caller's events, the one it is about to publish included,
against its calls that resolved.

* `EventsAreTrue` (`HooksInv`), `TokensReveal` (`RevealsOriginal`), `SavesAreClean` (`SavedIsTokenised`): a copy
  that was scanned has tokens in all detected fields, and one that was not is only written
  where nothing is sent and the row exists.

**`ColumnEncryption_proofs`**: what a process holds is, field by field, a text the column stands for or
an envelope of it under a key that was active (`Held`); it stands for the text last assigned, or,
where that was lost, for one that was encrypted before (`Means`). Behind the hook that loads, fields
are in plain (`LoadedSoFar`), and behind the one that saves they are as they may be written
(`SavedSoFar`), also where a setter comes between two awaits. What is being encrypted is the text of the
field whose turn it is, unless that field is `lost` by now (`TakenRight`).

* `StoredEncrypted` (`EncryptionInv`), `LoadsAreTrue` (`ReadsBack`), `OldKeysRead` (`KeptKeysRead`).

### What the proofs assume

The `ASSUME`s of the modules, which TLC evaluates in the runs:

* What the code enforces or states: positive settings (`resolveTtlMs()` and its siblings), windows of
  whole seconds (`WindowsAreSeconds`), bounds that are numbers. The hash determines the set
  (`ContentAddressed`; the header of `privilege-resolver.ts`: SHA-256 of the sorted privileges).
* What the wiring is: a route of the Express chain has no Nest class decorators (`ChainHasNoClasses`), and
  the by-hash route has no guards of privileges or namespaces (`ByHashIsOpen`;
  `jwt.strategy.ts:229`). The status column is not one of the declared fields (`Declaration`). Every
  subject has been granted some set of privileges, maybe none (`SubjectsHold`), and a body names
  columns (`BodiesArePatches`).
* What a declaration and a query may be (`Declared`): its fields are columns, and there are some, its
  rules replace words by words, and who sorts does so by a column. A table holds rows of
  words of the vocabulary (`Table`).
* What sets and placeholders are: there are finitely many limiters and calls (`FewManagers`,
  `FewCalls`), the fields come in an order (`AnOrder`), and the word for "nothing" is no id and no value
  (`NoIdIsNone`, `NoneIsNoValue`).

### Model-checked only

Liveness (`LookupSettles`, `RequestsAnswered`, `RunsSettle`, `EarlyWatchersHear`, `EventuallySettled`,
`EveryRoundNotifies`), which the prover does not reach. Every invariant and every action property of
the passing runs is proved; the two violated ones are false, and TLC has their counterexamples.
Both refinements are proved, too; the abstract specifications state no fairness.

## 6. Plan

Sections 3 to 5 cover what was planned. What could still be done, in this order:

1. The query parser: `ListedMatch` relates what is listed to the query as parsed, and what
   `CoerceFilter` and `ClampInt` make of a query string has no property of its own.
2. A temporal proof of the liveness properties, once the prover reaches `ENABLED`.

## 7. Not modelled

* `guards/jwt-auth.guard.ts`: it reads one token and decides on the spot. `publish()` and the event envelope
  of `kafka-client.ts`, and `generateKey()`, keep no state either.
* A save that rejects although the database took it (`EntityService` has a rejected save write
  nothing), and kafkajs redelivering without a crash, on a rebalance or a refused commit:
  `RedeliveredOnlyAfterCrash` is about this client's own steps. Bodies that name the id or the scope
  column of an entity.
* The event log of a run (`appendEvent()` is not awaited, so its events may arrive out of order) and
  the adapter registry (an adapter is read before the run is made; disabled in between, it
  is run all the same): neither touches what the runner's properties relate. Run ids have
  two random bytes; `IntegrationRunner` takes ids as fresh, `EntityService` does let ids collide.
* The clock of the quota manager only goes forward, and keys are never forgotten (the store grows
  with them; `clearQuotaStore()` is for tests).
* HTTP clients (`clients/*`): one call each, no state between calls. The vault client is seen as
  `MongoHooks` uses it.
* Configuration, errors, health, tracing, identifiers, DTO and type files: mappings without state.
* Entity declarations and wiring, the authentication module: schema validation by a library and
  dependency injection, once at boot.
* Wording, logging and headers that no property is about; TypeORM, mongoose, kafkajs, the
  broker and the vault themselves beyond how this code uses them.

`PROJECT.json` lists each part with its reason.
