# A TLA+ model of the editorial catalog

This directory models the Node/Express/MongoDB service under `src/`: a GraphQL
API over a catalog of products with an editorial workflow, an audit trail, a
search index and a message bus fed on the side, and an authentication with
rotating refresh tokens. Paths below are relative to `src/src/`.

## 1. The system

One Node process serves GraphQL mutations. Between two `await`s a request runs
without interruption; at every `await` any other request, a timer, a close
event or the death of the process may come in between. Nothing spans two
database calls: no transaction, no lock, no version check. That is where the
properties below come from.

| Component | State | Operations | Interacts with |
|---|---|---|---|
| Product workflow (`modules/products/application/product.service.js`, resolvers) | `products` collection, unique `gtin` | `createWithRole`, `updateWithAudit`, `approvePending`, queries | audit service (awaited), RabbitMQ and Elasticsearch (not awaited) |
| Audit diff (`diff.util.js`) | none | `pick`, `computeAuditDiff` | workflow |
| Product change audit (`modules/product-changes`) | `productchanges` collection | `createAudit`, `findByProduct` | workflow |
| Base service (`_shared/service/base.service.js`) | none | create, find, update, soft and hard delete, pagination, error mapping | every service |
| Authentication (`auth/`) | `refreshtokens` (unique `jti`, TTL index), `users` (unique `email`) | `register`, `login`, `refreshToken`, `getUser` | users, roles |
| Cleanup job (`_shared/jobs`) | none between runs | batch loop of `find` and `deleteMany` | `refreshtokens`, beside the TTL monitor |
| RabbitMQ manager (`_shared/integrations/rabbitmq`) | `connection`, `channel`, `connecting` | `connect`, `publish`, `waitForRabbitMQ`, `closeRabbitMQ` | broker, workflow, startup, shutdown |
| Elasticsearch client, indexer | client singleton; the index | `upsertProduct`, `ensureProductIndex`, ping loops | workflow, startup |
| Startup initializers (`_shared/dataInitializer`) | `roles` | `ensureEmployeeRole`, `ensureSearchAndBus` | roles, bus, index |
| Users and roles (`modules/users`, `modules/roles`) | `users`, `roles` | create, update, soft delete, permanent delete of a role | authentication |
| GraphQL layer (`graphql/`) | the schema promise | context, `@auth`, error mapping | everything |
| Lifecycle (`app.js`, `mongoConnect.js`) | `serverRef`, `shuttingDown`, timer | `main`, `shutdown` | everything |
| GTIN utilities | none | check digit, validation, normalisation | schemas and DTOs |
| REST middlewares, diagnostics, swagger, logging, configuration | none | not mounted by `app.js`, or wording and I/O | - |

What makes each of them correct:

* **Workflow**: a product is published only by an editor's hand, once, for
  good; a provider touches only its own products; a call has one effect at most; `gtin` is unique; the audit
  trail tells what was written and nothing else.
* **Authentication**: a token that was exchanged or revoked is never exchanged
  again; the chain of successors is never broken.
* **Cleanup**: removes what was expired, only that, and ends.
* **Bus**: one connection, the exchange asserted before it is used, startup
  ends.
* **Lifecycle**: a shutdown ends, and takes nothing from a client that waits for
  its answer.
* **Users and roles**: one bearer per role name and per email, deleted or not;
  an email is registered twice only after its first user gave it up; what was
  deleted stays deleted and is given to nobody; a token names a role that its
  user was once given.
* **Lists**: walking through the pages shows everything once while nothing
  changes, and what it can promise while something does.
* **GTIN**: accepts what GS1 accepts, and refuses the usual slips.
* **Index and events**: nothing is announced that was not written; everything
  written is, as long as nothing fails.

What is hard about them is listed line by line under `hazards` in
`PROJECT.json`: check-then-act across an await, snapshots that are stale when
used, one step of several failing, unawaited deliveries overtaking each other,
a rejected promise kept in a cache, and concurrent rotation of one token.

## 2. The modules

| Module | Models | Kind |
|---|---|---|
| `AuditDiff` | documents, payloads, `computeAuditDiff`, what `updateById` and `save` store | operators |
| `EditorialCatalog` | what the workflow promises of the catalog | abstract specification |
| `RefreshTokens` | what rotation, cleanup and TTL index promise of refresh tokens | abstract specification |
| `ProductWorkflow` | the three mutations, one step per await, with audit, failures, crashes | component |
| `CatalogSync` | `ProductWorkflow` with events and index upserts under way | composition |
| `AuthService` | register, login, refresh as far as refresh tokens go; cleanup job, TTL monitor, soft delete, clock | component |
| `RabbitBus` | the connection manager with its publishers, startup check and shutdown | component |
| `Lifecycle` | `app.js`: bootstrap, requests, signals, graceful shutdown and its timer; the schema promise; the check of search and bus | component |
| `Accounts` | users and roles: seven administrative mutations, register, login, refresh; the role initializers of processes that start side by side | component |
| `Listing` | `findAll` and `pageInfo` under a client that walks through the pages while others write | component |
| `Gtin` | check digit, validation, normalisation, and slips on the way from a label to the DTO | algorithm and reference |
| `MCProductWorkflow`, `MCCatalogSync`, `MCAccounts`, `MCListing`, `MCGtin` | inputs, claims and symmetry for TLC | instances |
| `MCAuthService`, `MCRabbitBus`, `MCLifecycle` | nothing of their own: the component with its proofs, so that TLC sees the inductive invariant | instances |
| `ProductWorkflowProofs` | the workflow refines the catalog; its audit trail | proofs |
| `CatalogSyncProofs` | announcements and index, on top of the workflow's proofs | proofs |
| `AuthServiceProofs` | the rotation refines the refresh tokens; the cleanup | proofs |
| `RabbitBusProofs`, `LifecycleProofs`, `AccountsProofs`, `ListingProofs`, `GtinProofs` | the component they are named after | proofs |

What exists for a proof only, as an inductive invariant does, stands in the
proof module; a component's module holds the model and its properties.

### How they correspond to the code

`map` in `PROJECT.json` gives the lines of every definition. The conventions:

* A request `r` is one GraphQL mutation. `pc[r]` names the await it is at;
  an action is what happens when that await is over, up to the next one. The
  code before the first await (context, `@auth`, checks on the role) belongs to
  the arrival action. `lost` is a request whose process died.
* `current[r]`, `result[r]` (`ProductWorkflow`), `signed[r]` (`AuthService`) are
  local variables of the handler: copies that may be stale when used.
* A document is reduced to the fields properties tell apart: `gtin` (unique
  index), `name` (any free business field), `status`, `createdBy`. `Trim` is
  the Mongoose setter that trims strings when they are stored; the caller's
  string is raw, because the resolver passes on the unvalidated input. A gtin
  is taken as trimmed already: what blanks do is shown on `name`.
* A failed database call is a step of its own (`CallFails`), answered as the
  code's error mapping answers it. `AckLost` is a write that took effect
  although its caller saw an error. `Crash` kills all requests in flight.
  After a crash MongoDB keeps its collections and the requests that arrive
  later belong to the restarted process.
* In `EditorialCatalog` a call is asked for once, with a claim that stays, and
  is open until it had its effect or ended without one. `ProductWorkflow`
  implements it with `open` as the requests that are at an await before their
  write, so that a write is checked against the claim of the very request that
  makes it.
* In `AuthService` a user is named by its `_id` and a token by the request that
  signed it: both are drawn once, and no two are equal. Which registration gets
  an email is decided by the unique index, in `Accounts`: here `CheckEmail` and
  `CreateUser` may each be refused. `parent[j]` is a history variable: the token
  `j` was rotated from. It survives the document. `SessionOf(j)` is what
  `RefreshTokens` sees of it: owner and expiry as the request that signed it
  had them, and a state read off the document (`removed` when there is none).
* In `CatalogSync` `upserting` and `publishing` are the calls started and not
  awaited. Each may arrive at any later time, in any order, or fail. The index
  keeps what `mapProduct` makes of the business fields; its `createdBy` is left
  out (the resolvers populate it, and `String()` of a populated user is no id).
* In `RabbitBus` an attempt is one evaluation of the async function inside
  `connect()`. Its connection and channel are `conn[k]`, `chan[k]`; the
  module's three variables hold the number of an attempt. Broker and amqplib
  are external: modelled from how `rabbitmq.js` uses them. `closer` is
  `closeRabbitMQ`, with the object it took from the module before its await.
* In `Lifecycle` `seq` is what `shutdown()` waits for and `cause` its argument.
  `bus` and `es` only say whether there is something to close. `left` are
  the requests whose client hung up: their resolver goes on, but
  `serverRef.close()` waits for sockets and so no longer for them. New requests
  still come while it waits, on connections that are kept alive. A request is
  `cut off` when the database is closed under it. `main()` up to `listen()` is one
  step after the connection, as nothing in it is awaited that has to wait;
  `schema`, `startup` and `index` are what it leaves running. `Publish` and
  `Upsert` are the calls a mutation does not await, possibly after its answer.
* In `Accounts` `req[q]` is one record per request: its input, the await it is
  at, and the copies its handler holds (`role`, `doc`). An `_id` is drawn from
  those never used. `deletedAt` holds the request that set it, in place of its
  time, so that a second deletion, which moves it, is seen. `plain` says that the password is stored as it was sent, as
  `createUser` and `updateUser` do: `comparePassword` then matches nothing and
  such a user cannot log in. `refreshToken` begins at its load of the user;
  what comes before is in `AuthService`. `given` and `bore` are history
  variables; `gone` and `freed` are history, too, of one request and one start.
* In `Listing` `Listings` is the set of orders MongoDB may return: `createdAt`
  descending, ties in any order, drawn anew for each page. `changes` and
  `atStart` are history variables.
* In `Gtin` a state is a number on its way: the label, what was entered, the
  verdict. `GS1Valid` is the reference: weights counted from the right.

Definitions commented "Mistake:" are plausible bugs of the operation that
follows them. No specification uses them; they exist to show that each property
notices the bug it is meant for (`mutants` in `PROJECT.json`).

## 3. What TLC checks

Runs that must pass:

| Run | Bounds | States | Shows |
|---|---|---|---|
| `workflow` | 3 mutations, 2 products, 2 providers and an editor, 2 gtins, 3 raw names (one is another one padded), 1 fault | 822,827 | `TrailIInv`, `PublishedByEditor`, `EntriesRecordOwnWrite`, `AuditedUnlessFault`, `TrailExplainsProducts`, `OnlyBlanksShowNoChange`, and the refinement `CatalogPromise` |
| `sync` | 3 mutations, 1 product, a provider and an editor, 1 fault | 239,323 | `AnnouncedAreWrites`, `IndexShowsStoredVersions`, `SettledIsAnnounced` |
| `auth_rotation` | 3 mutations, 2 users, lifetime 1, batches of 2, clock 0..1, 1 fault | 1,835,172 | `RotationIInv`, `SuccessorsOfRevoked`, `SpentTokenRefused`, `RotatedUnlessFault`, `CleanupIsComplete`, the refinement `TokenPromise`, `CleanupEnds` |
| `bus` | 2 publishers, 2 tries, 2 refusals or closures, a shutdown | 140,107 | `BusIInv`, `OneConnection`, `ExchangeBeforePublish`, `HealthyBusPublishes`, `StartupEnds` |
| `lifecycle` | 2 requests, whose clients may hang up | 708,872 | `LifecycleIInv`, `RequestsKeepTheirDatabase`, `CleanExit`, `StartLeavesAnIndex`, `ShutdownEnds`, `NobodyWaitsForever` |
| `accounts` | 2 requests out of ten mutations, 2 initializers, 3 roles, 3 users, 2 emails, 3 role names of which 2 are baseline; any call may fail | 1,662,873 | `AccountsIInv`, `OneRegistrationWins`, `ClaimsWereGranted`, `BaselineKept`, `DeletionsKeepTheRest`, `DeletedRolesNotAssigned` |
| `listing` | 3 documents, 3 times, page size at most 2, limits -1..3, first pages -1..1; any number of walks | 1,223,269 | `QuietWalkIsExact`, `ArrivalsHideNothing`, `DeparturesRepeatNothing`, `TotalsMatchPage` |
| `gtin` | the four lengths, bases with at most two neighbouring digits other than 0 | 1,458,734 | `AcceptsExactlyGS1`, `SlipsRefused` |

The first invariant of every run but `sync`, `listing` and `gtin` is the
inductive one the proofs rest on; it contains the types. `SyncIInv` and
`ListingIInv` hold in all states of `sync` and `listing`, `TokenIInv` and
`GtinIInv` in those of `auth_rotation` and `gtin`, too; the runs name what
follows from them.

Why the bounds suffice. A race in this code is between a request that has read
and one that writes before it does, on a document a third one made: three
requests are create, then update against update, update against approval, or
approval against approval; for tokens, a login and two refreshes. Two products
and two gtins make a conflict of gtins and its absence possible. One fault
reaches every error path; two faults in one request do not combine, since the
first ends it (the audit failure, which does not, leaves nothing that can
fail). In `bus` two faults are needed: a closure and a refusal of the attempt
that follows it. `MaxFaults` and `MaxTime` are bounds in guards (`Fault`,
`Tick`); `Attempts` is large enough never to be one, as each new attempt but
the first follows a closure. With clock 0..1 and lifetime 1 a token stored at 0
expires and one stored at 1 does not. Two users are needed for a refresh that
might take another user's token for its own. Requests and ids are
interchangeable, so `workflow`, `sync`, `accounts` and `listing` use symmetry;
`auth_rotation`, `bus` and `lifecycle` check liveness and do not. In `accounts`
two requests are the reader and the writer of a race, the initializers two more
writers; the manager and the role the behaviour begins with are the documents
they race for. Two of the three users are for two registrations that both pass
the check of their email. With a third request and neither initializers nor a
second role `OneRegistrationWins` holds as well (192,638 states, not part of
the runs): only there can a soft delete or a change of the email come between
two registrations. An initializer or a `createRole` that finds no unused id
waits, which is why deadlock is not checked there. `listing` has three
documents, since a page of one or two must be followed by one that is not full,
and a limit above the maximum of 2, which stands for 250. `gtin` needs no more
than two digits: a weighted sum is linear, and a slip concerns two neighbours
at most; a verdict ends its behaviour, so deadlock is not checked. `Lifecycle`
has no bound but its two requests: one of them can be answered, or lose its
client, while the other holds the HTTP server open.

Runs that find a disagreement between code and documentation (`findings`):

| Run | Violated | Document |
|---|---|---|
| `workflow_pending_only` | `ProvidersUpdatePendingOnly` | `product.service.js:14`: providers update only own PENDING_REVIEW items. An approval between check and write defeats the check. |
| `auth_reuse` | `NoReuse` | `auth.service.js:17`: no reuse of refresh tokens. Two concurrent refreshes both succeed. |
| `sync_stale` | `SettledIndexAgrees` | `product.service.js:24`: the index is eventually consistent. Upserts that overtake each other leave it stale for good. |
| `bus_retries` | `EveryTryDials` | `README.md:33`: startup checks with retry. After a refused dial the rejected promise is what every retry gets. |

Further places where a document says more than the code does. They have no run
of their own; the passing property named with each says what is left of the
claim:

* `README.md:24`, "Full audit trail": the result of `createAudit` is not looked
  at, so a mutation whose audit insertion failed answers its success
  (`product.service.js:85`, `172`, `227`). `AuditedUnlessFault`.
* `productUpdate.dto.js:9`, no audit entry without an effective change: the
  resolver passes the raw input on, and a name that differs from the stored one
  in surrounding blanks only is audited as a change. `OnlyBlanksShowNoChange`.
* `auth.service.js:7`, "invalidate old, issue new pair atomically": a failure
  after the revocation leaves the client with neither. `RotatedUnlessFault`
  excludes it.
* `role.dataInitializer.js:5`, "Guarantee critical baseline roles are present":
  a soft-deleted baseline role is not seen, cannot be created, and stays
  deleted at every start. `BaselineKept` accepts a deleted bearer.
* `roleDelete.middleware.js:2`, a role in use is not deleted: the middleware is
  not mounted and `deleteRolePermanent` makes no such check.
  `ClaimsWereGranted` says what such users' tokens still name.
* `app.js:158`, "Duplicate signal ignored": `process.once` has removed the
  handler, so a second signal of the same kind kills the process in the middle
  of the shutdown (`SignalAgain`).
* `user.schema.js:10`, "password stored as hash": only `register` hashes.
* `UserCreateInput` and `UserUpdateInput` have a `phone` that the DTOs refuse.
* `es.product.indexer.js:5`, "creates index + mappings if missing": an upsert
  between the question and the creation makes an index without the mapping, for
  good. `StartLeavesAnIndex` says that there is one.
* `_shared/joi/paginateDto.joi.js` bounds `limit` from below, but nothing uses
  it. A negative limit gives a page of its absolute value with `totalPages` of 0
  or less, and an error from the second page on.

The passing properties are stated as weak as the code needs and as strong as it
allows. `RequestsKeepTheirDatabase` and `CleanExit` speak of requests whose
client still waits: when a client hangs up, its socket closes,
`serverRef.close()` (`app.js:146`) calls back, and `closeMongo` may end the
connection, and `process.exit` the process, between two awaits of a mutation
that nobody waits for any more. Such a mutation can be half done, for instance
written and not audited. `OneRegistrationWins` excludes an email that
`updateUser` took from its first user: it is then free, and its second
registration is right to succeed. `DeletionsKeepTheRest` allows a second
deletion to move `deletedAt`, as it does. `AuditedUnlessFault` and
`RotatedUnlessFault` exclude failures, because one is enough to violate them.
`EntriesRecordOwnWrite` binds an entry to the fields its caller sent, because
the others are stale under concurrency. `SpentTokenRefused` speaks of tokens
spent when the request arrived, because `NoReuse` fails for concurrent ones.
`DeletedRolesNotAssigned` likewise speaks of roles deleted when the request
arrived. `ClaimsWereGranted` allows a token to name what a role was called at
another time than its user had it: a login reads the user and its role with two
queries, and a change of the user's role and a rename may both come in between.
`ArrivalsHideNothing` excludes a document that arrives between the count and
the find of the page that ends the walk: the count then ends it one page too
early. Arrivals between those of an earlier page are covered. The list
properties exclude equal `createdAt` (`NoTies`), whose order may differ from
page to page, so that a document is shown twice or not at all.

### Fairness

* `AuthService`: weak fairness of `Cleanup`. A database call of the job returns
  or throws, and the loop goes on in the same process; nothing lets it wait for
  ever. Nothing is assumed of requests, of the TTL monitor or the clock:
  `CleanupEnds` holds because the cutoff is fixed when the run starts and what
  is stored later expires later.
* `RabbitBus`: weak fairness of every attempt (a call to the broker is
  answered, refused or cut off) and of `Try` and `TryEnds` (`main` starts the
  check, timers fire, a settled promise resumes its waiter). No publisher has
  to publish and nobody has to shut down.
* `Lifecycle`: weak fairness of `GraceOver` and `SchemaTimeout`, timers that
  fire in the end, and of `Enter`, the continuation of a settled promise. The
  build of the schema need not end. No client, server or request has to answer. The timer is unref'd: it fires
  as long as something else keeps the event loop alive, which here is what the
  sequence waits for.
* `ProductWorkflow`, `CatalogSync`, `Accounts`, `Listing` and `Gtin` have no fairness and no liveness
  property: a request may stay where it is.

### Assumptions of the model

* Storing a refresh token takes less than the token's lifetime (`Tick`); with
  lifetimes of days this is the timing of the real system.
* The cleanup's filter `{ expiresAt: { $lte: now } }` means what it says.
  `mongoConnect.js:50` turns Mongoose's `sanitizeFilter` on; where Mongoose
  applies it to this query, the operator is read as a value and every run is a
  `CleanupFails`.
* `app.js` calls `waitForRabbitMQ` with `retries: 1`
  (`searchAndBus.initializer.js:61`); `Retries` is 2 in the runs, as the
  function offers. With one try `EveryTryDials` is not at stake, but the rejected
  promise is then what every later publish gets.
* Mongoose leaves the state `connected` when it starts to disconnect, whether
  that succeeds or not (`MongoClosed`), and the database does not go away by
  itself in `Lifecycle`.
* One cleanup run at a time: cron starts it once a day.
* `InputAssumption`: no input carries a status. The GraphQL input types have no
  such field, so the check at `product.service.js:149-151` never fires.
* An access token's claim `[userId, role]` is whatever it was when it was
  signed. All roles may call; `@auth` decides.
* Products are never deleted: no resolver does it. `Listing` deletes documents
  all the same, as it stands for the lists of users and roles, too.
* `save()` of a soft delete writes the changed paths only, and fails when the
  document is gone; a populated reference to a missing document passes its
  validation (Mongoose 8). An upsert into a missing index creates it
  (Elasticsearch's default).
* `helpers.message` of a Joi external refuses the input.

## 4. What is proved

`tlapm` proves every safety property the passing runs check: 45 theorems, for
every number of requests, products, users, tokens, roles, publishers, starts
and faults, every lifetime, batch size, page size and first page, and every
number of the four lengths. `theorems` in `PROJECT.json` says which theorem
states which property.

| Module | Theorems | State |
|---|---|---|
| `ProductWorkflowProofs` | `InvariantHolds`, `OnlyEditorsPublish`, `ImplementsCatalog` | `IInv`, `PublishedByEditor`, the refinement `CatalogPromise` |
| the same, of the trail | `TrailInvariantHolds`, `EntriesAreOwn`, `EntriesShowChanges`, `WritesAreAudited`, `TrailIsComplete` | `TrailIInv`, `EntriesRecordOwnWrite`, `OnlyBlanksShowNoChange`, `AuditedUnlessFault`, `TrailExplainsProducts` |
| `CatalogSyncProofs` | `SyncInvariantHolds`, `AnnouncementsAreWrites`, `IndexIsHonest`, `SettledWasAnnounced`, `SyncImplementsCatalog` | `SyncIInv`, `AnnouncedAreWrites`, `IndexShowsStoredVersions`, `SettledIsAnnounced`, `CatalogPromise` of the composition |
| `AuthServiceProofs` | `InvariantHolds`, `RevokedBeforeReplaced`, `SpentIsRefused`, `CleanupComplete`, `RotationInvariantHolds`, `RotatedWithoutFaults`, `TokenInvariantHolds`, `ImplementsTokens`, `CleanupLeavesLess` | `IInv`, `SuccessorsOfRevoked`, `SpentTokenRefused`, `CleanupIsComplete`, `RotationIInv`, `RotatedUnlessFault`, `TokenIInv`, the refinement `TokenPromise`, the action property `DueShrinks` |
| `RabbitBusProofs` | `BusInvariantHolds`, `ConnectionIsSingle`, `ExchangeIsAsserted`, `HealthyPublishes`, `NumbersSuffice` | `BusIInv`, `OneConnection`, `ExchangeBeforePublish`, `HealthyBusPublishes`, `AttemptsSuffice` |
| `LifecycleProofs` | `LifecycleInvariantHolds`, `DatabaseOutlivesRequests`, `ExitsClean`, `StartsWithAnIndex` | `LifecycleIInv`, `RequestsKeepTheirDatabase`, `CleanExit`, `StartLeavesAnIndex` |
| `AccountsProofs` | `AccountsInvariantHolds`, `RightsWereGranted`, `BaselineIsKept`, `OneRegistration`, `DeletionsAreFinal`, `DeletedRolesStayOut` | `AccountsIInv`, `ClaimsWereGranted`, `BaselineKept`, `OneRegistrationWins`, the action properties `DeletionsKeepTheRest` and `DeletedRolesNotAssigned` |
| `ListingProofs` | `ListingInvariantHolds`, `QuietWalksAreExact`, `ArrivalsAreHarmless`, `DeparturesAreSeen`, `TotalsAreRight` | `ListingIInv`, `QuietWalkIsExact`, `ArrivalsHideNothing`, `DeparturesRepeatNothing`, `TotalsMatchPage` |
| `GtinProofs` | `GtinInvariantHolds`, `AcceptsGS1`, `SlipsAreRefused` | `GtinIInv`, `AcceptsExactlyGS1`, `SlipsRefused` |

The assumptions are the named ones of the modules, which TLC evaluates in the
runs: that `None` is not a value (nor a document, `IndexAssumption` and
`AccountsAssumption`); that trimming twice trims once (`DataAssumption`); what
inputs and bounds are (`InputAssumption`, `ConstantsAssumption`,
`BusAssumption`); that the list of baseline roles is not empty, as the literal
at `role.dataInitializer.js:29` is not (`AccountsAssumption`); that a
collection is finite (`ListingAssumption`); that a base has a length the DTO
knows, without its check digit (`BasesAssumption`).

### The arguments

*The workflow.* The properties are about the database, but what
a step writes depends on local variables read at an earlier await, which may be
stale. `IInv` therefore says, for each stage of a request, what still holds of
its copies: `createdBy` of a product never changes, so the ownership check stays
true although the status check does not; an id is drawn once, so the insertion
finds the place empty (`Origins`); a product that was there stays there. From
that every write is a `Submit`, an `Edit` or an `Approve` of `EditorialCatalog`,
by the open call of the request that writes: its operation, its input and its
claim are the ones it arrived with, and the guards on owner and role speak of
that claim. Arrivals are `Ask`, and every other step ends calls without effect
or stutters. An approval that finds the product published by
someone else meanwhile writes what is there already: its call is closed.

*The trail.* An entry is computed from two copies, `current` before the write
and `result` after it, and other requests write in between. `TrailIInv` adds
what relates them: a copy is a former version of its product (`Copies`: trimmed,
and published only if the product is), `result` carries what the caller
sent, an entry is the one its request would write again (`Entries`), and without
faults the request that wrote has it or is on its way to it (`Audited`). For
`TrailExplainsProducts` the product's own fields need a witness each:
`Explained` names, for each product, requests whose results have its gtin, its name and
its status and whose entries record them, or will. An overtaken update does not break
it, because `updateById` writes the sent keys only, and these are what the
entry has.

*The deliveries.* A step of `CatalogSync` is one of the workflow, or leaves its
variables alone but for the count of faults (`WorkflowSteps`), so all its
invariants carry over (`NextTrail`), and the products still refine the catalog.
A success is never taken back (`EndedStays`), which is why an upsert that arrives late still
comes from a request that wrote. What the index shows is a result, and a
published result has a published product behind it (`Copies`).

*The tokens.* `Chain` says that a token has a parent exactly
from its storing on, that its signer is over by then (so nobody stores it
again, even after its document was removed), and that a parent is revoked or
gone. `Stage` carries the revocation from the save to the storing of the successor, and
bounds what a request with a spent token can still do: it can be refused. That
is why the TTL monitor and the cleanup, which remove documents in the middle of
a rotation, do no harm: a removed token reads like a revoked one.
`CleanupStage` says that every id of a batch is due, and stays so, since a
token removed from the batch is never stored again. `RotatedUnlessFault` needs
to know whose tokens these are: `Ownership` (a request presents a token of its
own user, who exists) and `Rotation` (the refresh that revoked a token is past
its revocation).

*The promise of refresh tokens.* `RefreshTokens` knows no requests and no job: a
token is issued, revoked, removed. That every step of `AuthService` is one of
these, or none, needs two more facts, `Expiry`: a token expires within its
lifetime from now when it is stored, and its document says what was signed. The
rest is `Ownership` and `Chain`: the insertion finds its place never used
(`parent[r] = None`), the token it replaces superseded and of the same user.
A revocation of a token somebody else revoked is a stutter, and so is the
deletion of a batch the TTL monitor was faster with. What a token was issued
as does not change any more (`Frozen`), which is what lets the abstract state be
read off the request that signed it. `NoReuse` is not part of the promise, as
the code does not keep it: a token may have several successors.

*The end of the cleanup.* `CleanupEnds` itself is temporal, but its reason is
proved: during a run the set that is due only shrinks, since what is stored
meanwhile expires later than the cutoff, and a deleted batch never returns
(`DueShrinks`).

*The bus.* `OneConnection` is about all attempts, the code remembers one:
`Remembered` says that `connecting` holds the attempt as long as it dials or its
connection is up, so nobody begins a second. `Usage` says that a cached channel
belongs to an attempt that resolved, which it does after assertExchange only.
`Numbering` counts attempts by closures, so that the `Attempts` of the model
are enough (`NumbersSuffice`): no behaviour of the code is cut off.

*The process.* `Phases` orders the bootstrap and the shutdown by what is open,
`Served` ties a pending request whose client has not left to the open server,
which `closeHttpServer` waits for before `closeMongo`. A grace period that ends
earlier exits with failure, which `CleanExit` does not speak of.

*Users and roles.* `Carries` says what each stage has established in the copies
its handler holds; `Recorded` ties the history to the documents, so that a
claim's role and name were both granted although the two reads of a login are
separate; `Behind` says that an initializer is behind the baseline roles it saw
to, unless one of its calls failed or somebody took the name. The unique indexes
need no more than the types say: an insertion is refused when any document,
deleted or not, bears the name.

`Registrants` follows an email from its registration on: the user it made exists
ever after and bears it, deleted or not, unless an `updateUser` gave it another;
a second insertion of the email finds the first bearer (`OneRegistration`).

*Lists.* The argument is about places, not pages. `Rank(d)` counts the documents
listed no later than `d`; without ties it is the place of `d` in every order
MongoDB may return (`RankIsPlace`). `Passed` is the number of rows the walk has
behind it. A departure lowers ranks, so what was seen stays passed and is
not met again (`SeenIsPassed`); an arrival raises them, so what was not seen
stays ahead (`UnseenIsToCome`); and while nothing changes the rows seen have the
ranks from the first page on, in order (`SeenInOrder`). `hasNextPage` is read
off `totalPages`, a division that rounds up: for a positive page size it says
exactly that rows are left. The lemmas about cardinalities, `SubSeq` and
division are stated once for any set, sequence and size.

*Numbers.* The code weighs digits from the left, with a parity that depends on
the length; GS1 weighs them from the right. Both are totals of a sequence, and
the total is a recursive function, so the proofs begin with an induction over
its length, of a set of lengths rather than of a predicate (`Induction`, from the
well-foundedness of `<` on the naturals). From it come what a total does when
a term is appended, changed, or preceded by zeros (`SumOfAppended`,
`SumOfChanged`, `SumOfPadded`). `SumsMeet` then says that the two sums differ by
the check digit alone, so the DTO's verdict is GS1's (`ValidIsGS1`). A wrong
digit moves the sum by its difference or three times it, two swapped neighbours
by twice theirs: a multiple of 10 only when there is none, or when the neighbours
differ by 5 (`MistypedShows`, `SwappedShows`). `GtinIInv` compares label and
entry filled up to 14 digits, where a slip looks the same before and after.

### Only model-checked

* The liveness properties `CleanupEnds`, `StartupEnds`, `ShutdownEnds` and
  `NobodyWaitsForever`: fairness and ENABLED are out of the prover's reach.
* The four properties the code violates (section 3).

## 5. What is not modelled

* Queries other than the lists: `product`, `user`, `role`, `me`, the change
  history. They read one document or one list without pages.
* Of users: names, phones, `lastUsedRole`. No property depends on them.
* In `app.js`: the middlewares and the health endpoint, which keep no state,
  and errors of the HTTP server other than a taken port, which are logged.
* `createMany`, `findOneAndUpdate`, `deleteProduct`, `ensureESConnectivity`,
  `ensureSearchAndBusOrFail`, `roleDelete.middleware.js`: nothing calls them.
* How the schema is assembled: files found, resolvers merged (the last writer
  wins), endpoints listed. `Lifecycle` has its outcome.
* Password hashing, signing, REST middlewares,
  diagnostics, swagger, logging: no state, or not mounted by `app.js`.
* An anonymous mutation: `@auth` refuses it before anything is read.

## 6. Plan

Done, in this order: `AuditDiff`, `EditorialCatalog`, `ProductWorkflow` and its
proofs, `AuthService` and its proofs, `CatalogSync`, `RabbitBus`, `Lifecycle`;
then `Gtin`, `Listing`, `Accounts`, and the startup and the schema in
`Lifecycle`; then the proofs of all components; then those of `Gtin`, and
`RefreshTokens` with the proof that the rotation implements it.

Next:

1. Abstract specifications of the components that have none yet: a connection
   manager (at most one connection, used when ready) and a list; and the
   detailed modules shown to implement them, as `EditorialCatalog` and
   `RefreshTokens` are.
2. Weaker assumptions where a proof shows that one is not needed.
