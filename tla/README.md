# Device admission: models, checks and proofs

`deviceadm` decides which devices may join: it keeps *authentication sets* (an
identity and a key that a device presented), shows them to operators, records
whether each is `pending`, `preauthorized`, `accepted` or `rejected`, and keeps
the `deviceauth` service, which lets devices in, informed. This directory holds
TLA+ modules of that program, configurations that check them with TLC, and
theorems about them with proofs that TLAPS checks.

## The system

| Part | Source | State it keeps | Operations |
|---|---|---|---|
| HTTP handlers | `api/http/api_devadm.go` | none beyond a request | submit, list, get, status, accept/reject, claim, delete (three ways), preauthorize, provision a tenant |
| Admission logic | `devadm/devadm.go` | none; one value shared by all goroutines | the same operations, as sequences of database operations and one call to deviceauth |
| Data store | `store/mongo/datastore_mongo.go` | the `devices` collection of each tenant database, with a unique index on `id` | get, list, find by identity, insert, upsert, update, remove, remove by device, migrate |
| deviceauth client | `client/deviceauth` | none | update status, preauthorize, delete a set, each with a timeout |
| deviceauth | another service | its own sets | external; seen only through the client |
| Data model | `model/` | | `DeviceAuth`, `AuthSet`, validation |
| Migration | `store/mongo/migration_1_1_0.go`, `Migrate` | `migration_info` of each database | upsert every document into its new shape, record the version |
| Tenancy, headers | `middleware.go`, `context/httpheader`, `client/api_client.go` | the request's context | pick the tenant's database, pass the token on to deviceauth |
| Pagination, parameters | `utils/http.go` | none | parse, bound, make links |
| Start-up, configuration | `main.go`, `server.go`, `config/` | settings | read once, migrate, serve |

Interaction. Every request runs in a goroutine of its own, possibly in one of
several replicas. A handler calls the admission logic; that reads the database,
may call deviceauth over HTTP, and writes the database. deviceauth in turn calls
the internal API (submit a set, claim a preauthorized one, remove a device's
sets). Nothing orders two requests: no lock, no transaction, no version check;
the only thing that the database enforces is one document per `id`. Database
operations are atomic one by one and are acknowledged from the journal
(`SetSafe`, W 1, J true); between two of them anything may happen.

What is hard:

* *interleaving*: a check and the write that relies on it are separate
  operations (preauthorize, claim), and so are a read and the upsert that writes
  back what it read (accept, reject);
* *two stores*: the decision is propagated first and recorded second (accept,
  reject, delete) or the other way round (preauthorize); an error, a timeout or a
  crash in between leaves the two services apart, and nothing repairs that;
* *late calls*: a call that the handler gave up on may still be carried out;
* *swallowed errors*: the removal of a device's sets reports success when it
  fails;
* *liveness*: a handler waits for a service that may never answer;
* *migration*: not atomic, may be interrupted, run twice or beside live requests;
* *tenants*: one process serves all of them, set ids are not unique across them, and
  the token that decides reaches the database and deviceauth in different ways;
* *pages* are cut from a collection that changes, with arithmetic that narrows.

`PROJECT.json` lists each hazard at its line with the properties about it.

What makes each part correct, and where that is stated, is in the tables below.

## The modules

| Module | Models | Role |
|---|---|---|
| `DataStoreMongo` | the collection and what each method of the store does to it | operators, used by `DevAdm` |
| `DevAdm` | requests: handlers, admission logic, client, deviceauth, faults | state machine |
| `DevAdmProperties` | what the requests promise | properties, and the refinement mapping |
| `DevAdmClaims` | what the documents promise and the code does not keep | one refuted property per run |
| `AuthSetLifecycle` | how a set comes by its status | abstract specification |
| `SetStore` | the sets of each database as requests see them while databases are migrated | abstract specification, implemented by `Migration` |
| `Listing` | the listing of sets in pages, its parameters and links, and a client that walks over them | state machine |
| `Migration` | the choice and the migration of databases, by any number of processes, beside requests | state machine |
| `Tenancy` | the token of a request: context, database, headers of the calls; requests of several tenants | state machine, an extension of `AuthSetLifecycle` that implements it; for one tenant, an abstraction of `DevAdm` |
| `MCDevAdm`, `MCListing`, `MCMigration`, `MCTenancy` | | instances for TLC |
| `AuthSetLifecycleProofs`, `DevAdmProofs`, `DevAdmOverlapProofs`, `DevAdmRefinement`, `ListingProofs`, `MigrationProofs`, `MigrationRefinement`, `TenancyProofs` | | theorems |

### Correspondence

`store[i]` is the document with `id` i, or `NoDoc`; being a function it has the
unique index built in. A document keeps `device_id`, `device_identity` and
`status`, any of which may be `Unset`: the bson tags omit empty fields, from
documents, filters and `$set` alike, and `GenDeviceAuthUpdate` is what such a
`$set` does. The key, the attributes and the request time are always written
together with the identity and decide nothing, so they are left out.

`pc[r]` is where the goroutine of request r is, `dev[r]` the `model.DeviceAuth`
it holds, `req[r]` its operation and set, `reply[r]` the HTTP status it has
written. Each database operation is one action with everything the handler does
up to the next: `UpdateStatusLookup` reads, takes the device id out of the
document and sends the call; `UpdateStatusAnswered` takes the answer;
`UpdateStatusPut` upserts and responds. Deletion by device is one action although
`RemoveAll` may stop half-way, and then it removes any subset.

`call[r]` is the call as deviceauth sees it. `DevauthApply` and `DevauthRefuse`
happen at any time after it was sent, whether the handler still waits or not, so
a call that timed out may be carried out later, or never, and calls of different
requests may be carried out in any order. `devauth[i]` is the status deviceauth
was last told for set i.

`past[r]`, a history variable, holds the requests that were over when r arrived;
two requests overlapped if neither is in the other's `past`. The code cannot
keep every promise to requests that overlap, so several properties say precisely
which overlap an anomaly needs.

`InsertDeviceAuth` draws two fresh ObjectIds. The ids that request r would draw
are called r, so `Reqs` is a subset of `AuthIds` and of `DeviceIds`
(`MintedIds`); other requests can name such an id only after it was drawn (`KnownIds`),
also when its set is gone again. An insertion that fails without storing anything tells
nobody the id; a client may use it all the same, as any id of its own.

A further request models a retry. `Crash` ends every handler in flight; the
process comes back at once and serves the requests that have not arrived yet.
With replicas, a crash of one of them is covered by `GiveUp`, an error of the
database, or simply a request that takes no further step.

A response of 422 from deviceauth is an answer of its own for status updates and
an internal error for the other two calls, as in the code, whose client tells it
apart only there.

`Listing` is a component of its own: a listing only reads, and what other
requests do to it is that a set begins to match its filter (`Appear`: inserted, or
its status changed) or ceases to (`Vanish`). A set is a number in the order of the
ids; `Rank` is its place in the sorted result, and a page is an interval of ranks.
`matching` is the result of the one query a handler makes, which the model takes
at an instant; the response is computed from it alone. Parameters are numbers, a missing one
`Absent` and one that is not a number `Refused`. They are parsed into 32 bits
(`Modulus` is 2^32 there) and the driver keeps the skip as a signed word of the
same width (`Int32`), so `(page - 1) * per_page` can wrap; a negative skip is an
error of the database. `walking`, `seen`, `come` and `gone` are history: the
client has come from page 1 by "next" links only, what it has been shown on the
way, and what changed meanwhile.

`Migration` has several databases and no calls. A migrator is a server that starts
(`Migrate`, with or without automigration) or one database's migration (`MigrateTenant`,
from the command or from `POST /tenants`). `Apply` reads the record of the next
database and decides; `Fetch` is the cursor filling a batch, so a document may be
old when `Up` upserts it; `EnsureIndexes` and `UpdateMigrationInfo` end it. `Stop`
is an error or the end of the process, at any point; the migrator may then start again.
Other requests arrive while some server serves. A submission, a deletion and the internal
acceptance write once (`SubmitDeviceAuth`, `DeleteDeviceAuth`, `AcceptDevicePreAuth`, whose
own race is in `DevAdm`: it writes the status only). An operator's decision does not:
`GetDeviceAuth` reads the set, `GiveUp` is any end without a write, and
`UpdateDeviceAuthStatus` puts the new status together with the device id that was read,
whatever became of the set, its database and the server in between; `held[u]` is what
the update u has read. So it may write an older device id back over a given one, insert a
set again that was deleted, or leave the device id alone when the document that it read
was of the old shape and had none. A document has the device id it was
given, its own id, or none (the old shape); a document of a set in `Many` may fail
to be selected, since the driver encodes its attributes in the random order of a Go
map and the database compares them in order. `Init` leaves open whether the earlier
version had an index, as this repository does not tell. `kept`, `early` and
`rival` are history; `early` holds the databases that requests came to before the record,
be it only to read a set on which they decide later.

`SetStore` is what a migration should look like: nothing. It knows what the documents of
a set tell a request (`Seen`: their statuses, and whether the device id is one that a
request gave), what each decision under way has read (`asked`), which databases are
recorded, and the two things that may spoil a migration: requests before the record (`Mix`)
and a migrator still at work on a database that another has recorded (`raced`, then `Undo`).
Requests take the steps that they take without any migration: `Submit`, `Accept` and
`Delete` write once; a decision is an `Ask` and later a `Decide`, which writes back what was
asked, or a `GiveUp`. The old shape, the places, the batches, the index, the order of the
databases and the processes are gone.

`Tenancy` has several databases and all tenants' requests. A header is a tenant (a token
that names it), the default database (a token that names none), `Garbage` (one that
cannot be read) or `None`. `Context` is what `UpdateContextMiddleware` and
`IdentityMiddleware` make of it; a header without an identity is let in without one.
Every database operation goes by `DbFromContext`, as `Mine` says; `Do` adds the header
kept in the context to those the call already has, which is none for a status update
and the request's own for the other two calls, so `sent[r]` holds it once or twice.
deviceauth looks at the first. The sets are those of `AuthSetLifecycle`, whose ids are
here pairs of a database and an id (`SetsOfDatabases`): the same id in two databases is
two sets, and `told` is what deviceauth has carried out for a tenant. What `DevAdm` has
in detail is short here: a request has the reads, calls and writes that the tenant
matters to, documents are reduced to their status, and every error is `End`. `Crash` ends
all requests. Answers that the middleware or the router gives by itself are `TurnedAway`.

That the short requests are the detailed ones is not left to the eye: `Requests` in
`DevAdmProperties` maps a state of `DevAdm` to one of `Tenancy` with a single tenant whose
token every request bears, and `KeepsTenancy` says that each step of `DevAdm` is then a
step of `Tenancy` or a stutter. The mapping forgets documents but for their status, puts a
handler that has read but not called to `check` and one whose call was carried out, but
whose write is still to come, to `wait`, takes both kinds of refusal for `failed`, and
builds the context and the headers of the call that `Tenancy` gives such a request.

## Runs

All constants are sets of model values; requests are symmetric. `Offered` lists the
operations that may arrive, `Faults` what may go wrong: `db` (an operation fails;
a write may have happened all the same), `timeout` (the handler gives up its
call), `crash`. Deadlock is not checked where every request of the instance may
be over.

| Run | Instance | Shows |
|---|---|---|
| `faults` | 3 requests, any operation (a request that is refused at once only takes a slot and is left to `answer`), 1 identity, 1 submitted set, all faults | `TypeOK`, `DecisionsAuthorised`, `SuccessMeansApplied`, `PartialSetsAreConcurrent`, `ConflictsAreConcurrent`, `DivergenceIsExplained`, `SuccessStands`, `LateAcceptanceIsConcurrent` |
| `overlap` | 4 submissions, updates and deletions, 1 set, 2 devices, no faults | `DeletedStaysDeleted`, `SuccessStands`, `DecisionKeepsSet`, and `KeepsLifecycle`, the refinement of `AuthSetLifecycle` |
| `answer` | 2 requests, all operations and faults, 2 identities, fairness | `EveryRequestEnds`, and, with every operation and fault, `ConflictsAreConcurrent`, `KeepsLifecycle` and `KeepsTenancy`, the refinement of `Tenancy` |
| `tenancy` | 3 requests, a tenant and the default database, 1 id that both use and those drawn, all operations, all headers | `RequestsTypeOK`, `Authorised`, `SameTenant`, `OwnDatabaseOnly`, and `KeepsLifecycle`, in each database |
| `listing` | 4 sets, pages of 1 or 2, words of 3 bits, parameters that are missing, refused, in range, too large or make the skip wrap | `TypeOK`, `NoneMissed`, `NoneRepeated`, `WalkStaysInRange` |
| `migration` | 2 migrators, a tenant's and the default database, 1 set, 2 places for it, 1 decision under way at a time | `TypeOK`, `ServesMigrated`, `OldShapeOnlyInDefault` |
| `migration_rivals` | 3 migrators, the default database, 1 set that may differ from its copies in its status, 2 places for it, 1 decision under way at a time | `MigratedOnce`, `UndoingIsExplained`, and `MigrationIsNotSeen`, the refinement of `SetStore` |

* `DecisionsAuthorised`: a set is accepted or rejected in the database only if
  deviceauth carried out that decision for it, or it was preauthorized and claimed.
* `SuccessMeansApplied`: a success reported to a client is one in deviceauth.
* `DivergenceIsExplained`: deviceauth and the database agree about a set unless
  requests for it overlapped or one ended in a 500 or a crash. Requests that
  deviceauth sends to report what it did itself are excluded (`OnlyManaged`).
* `SuccessStands`: what a successful answer says of a set (it is what was submitted, has
  the status that was asked for, is gone) is so until a request touches the set that was
  not over when the successful one came, and that was not refused. No answer is ahead of
  its write, and a request answered with 4xx has written nothing.
* Some properties name what goes wrong instead of excluding it, because the code does not
  prevent it: overlapping decisions that reach deviceauth and the database in different
  orders, a failed write after a call that was carried out, and a preauthorization that was
  stored but not propagated are causes in `DivergenceIsExplained`, which says that there are
  no others. A deletion by device whose error is dropped is excused in `SuccessStands` and
  refuted as a claim in `removal_claim`; that a decision is legal from every status is a
  step of `AuthSetLifecycle` and refuted in `transition_claim`.
* `PartialSetsAreConcurrent`, `ConflictsAreConcurrent`, `DeletedStaysDeleted`,
  `LateAcceptanceIsConcurrent`, `DecisionKeepsSet`: a set without identity, two
  sets with one identity, a deleted set that is back, a claim of a set that is no
  longer preauthorized, a set moved to another device: each needs the overlap
  named in the property, and no sequence of finished requests and retries makes one.
* `NoneMissed`, `NoneRepeated`: a client that walks over all pages misses a set that
  matched all the while only if one before it went, and sees one twice only if it or
  one before it came. The listing cannot promise more, as pages are numbered.
* `WalkStaysInRange`: links lead only to pages that are served as they should be; a
  page near the limit that a client names by itself may be cut at a wrapped skip.
* `MigratedOnce`: where the migration is recorded, and no request came before, each
  set is there once and in the new shape, whatever was stopped or ran at the same
  time. `ServesMigrated`: a server that serves has its databases migrated.
* `OldShapeOnlyInDefault`: where tenants have databases, the default database is neither
  migrated nor checked, though requests without a tenant are served from it; while a server
  serves, documents of the old shape can be left there and nowhere else. If the server did
  look at the default database, one can only come from a request that was there before the
  record: a decision that read the set in its old shape, and puts it, without a device id,
  after it was deleted.
* `UndoingIsExplained`: a migration overwrites a device id that a request gave, or
  revives a deleted set, only where requests came before the record or a second
  migrator recorded the database meanwhile. Both happen; `migration_claim` shows one.
* `MigrationIsNotSeen`: every step of a migration is one of `SetStore`, so that what
  requests see of a set changes at their own hands only, unless some came early or a
  migrator was late. Their own hands do write back what they read before, migration or not;
  that is a step of `SetStore` too (`Decide`), and what it costs is the subject of
  `DecisionKeepsSet`, `PartialSetsAreConcurrent` and `DeletedStaysDeleted`.
* `SameTenant`: deviceauth acts for the tenant whose database the request works on,
  and no header but the request's own reaches it. `OwnDatabaseOnly`: a step of a request
  changes sets of the database that its header names and of no other, although others use
  the same ids meanwhile. `KeepsLifecycle` of `Tenancy`: a decision in a tenant's database
  is one that deviceauth carried out for that tenant. `KeepsTenancy`: see above.

Why the bounds are enough. Each anomaly is a race of two requests, over a set that
a third one creates; three requests show it, with every operation in every role. One
identity in `faults` makes all sets conflict; `answer` has two, so that sets may also
differ or a submission may change the identity of one, with two requests, which is what a
conflict takes (a third to come between is in `faults`). `overlap` has a fourth request because the promise it checks is
about *earlier* requests too: with three, TLC accepts the stronger statement that
only a submission overlapping *this* decision can move its set to another device.
With four it is false: a decision that was slow writes the old device id back over
a submission; a later decision, overlapping nothing, has read the new one
before that and then restores it. `DecisionKeepsSet` says what does hold.
`listing` has two full pages and a step of the walk on either side of each change, and a
word so short that the skips of pages just beyond the last one wrap. In `migration` and
`migration_rivals` sets do not influence each other, so one is enough, with a second place
for a duplicate of it. What concerns the choice of databases needs two of them, two
migrators, of which one becomes the server, and no status. What a late migrator undoes needs
one database and two statuses, and three migrators: one late, one that has recorded, and
one that is the server (the last two may be one). A decision under way may wait while the others
submit, delete, migrate and record; a second one does nothing to the first but by its write,
which is one of a submission's or of the first's own.
In `tenancy` two databases and one shared id are what it takes to confuse two sets; a
third request can claim or delete what the others made.

Every property of a run has a mutant, a definition marked *Wrong* next to the one
it breaks, with the kind of mistake the code could have had: a return left out,
an error taken for success, a write before the answer, a check that is too
narrow. TLC refutes the property for its mutant.

### Fairness

`EveryRequestEnds` assumes weak fairness of each request's own handler steps and
nothing of clients or of deviceauth. The Go scheduler runs every goroutine; the
driver's operations return within its timeouts; the wait for deviceauth ends
because `NewClient` replaces a missing timeout by ten seconds and all three calls
carry a context with it. Without `GiveUp` the property is false.

### What the documents say and the code does not do

Each of these runs checks one statement and TLC refutes it.

| Run | Statement | What happens |
|---|---|---|
| `identity_claim` | `docs/management_api.yml:99`: a preauthorized identity "must not yet exist in the DB (regardless of status)" | two overlapping preauthorizations both look, find nothing and insert |
| `claim_claim` | `docs/internal_api.yml:66`: "The only possible status transition using this endpoint is from 'preauthorized' to 'accepted'" | an operator rejects the set between the check and the update, and it ends up accepted |
| `transition_claim` | `docs/management_api.yml:275-279`, `:308`: only four transitions are valid | a preauthorized set is accepted by the management API |
| `removal_claim` | `docs/internal_api.yml:34`: 204 means the sets are removed | `DeleteDeviceAuthByDevice` returns nil for an error |
| `migration_claim` | `src/store/mongo/migration_1_1_0.go:33`: `id` was the device id before 1.1.0 and is a set id since | the migration writes `id` into `device_id` of every document, of those too that requests wrote in the new shape |

`HACKING.md:123-124` also says that a status is modified first and propagated
afterwards; the code does it the other way round (`devadm.go:217`), which is the
order that `DecisionsAuthorised` relies on. The comment at `devadm.go:222` says of a
decision's write "update only status and attributes fields"; it writes the device id too,
as it was before deviceauth was asked, which is why `DecisionKeepsSet` needs its exception.

## Proofs

TLAPS proves these theorems:

| Theorem | Statement |
|---|---|
| `DevAdmProofs!Typing` | `Spec => []TypeOK` |
| `DevAdmProofs!Invariance` | `Spec => []Inv`, the inductive invariant |
| `DevAdmProofs!Authority` | `Spec => []DecisionsAuthorised` |
| `DevAdmProofs!Acknowledgement` | `Spec => []SuccessMeansApplied` |
| `DevAdmOverlapProofs!PartialSets` | `Spec => []PartialSetsAreConcurrent` |
| `DevAdmOverlapProofs!DeletedStays` | `Spec => []DeletedStaysDeleted` |
| `DevAdmOverlapProofs!Conflicts` | `Spec => []ConflictsAreConcurrent` |
| `DevAdmOverlapProofs!LateAcceptances` | `Spec => LateAcceptanceIsConcurrent` |
| `DevAdmOverlapProofs!Decisions` | `Spec => DecisionKeepsSet` |
| `DevAdmOverlapProofs!Divergence` | `Spec => []DivergenceIsExplained` |
| `DevAdmOverlapProofs!Successful` | `Spec => []SuccessStands` |
| `DevAdmRefinement!Refinement` | `Spec => KeepsLifecycle`: `DevAdm` implements `AuthSetLifecycle` |
| `DevAdmRefinement!TenancyRefinement` | `Spec => KeepsTenancy`: `DevAdm` implements `Tenancy` with one tenant |
| `AuthSetLifecycleProofs!LifecycleAuthority` | `Spec => []Authorised` of the life cycle |
| `TenancyProofs!ServerInvariance` | `ServerSpec => []IInv`, the inductive invariant |
| `TenancyProofs!RequestsTyping` | `ServerSpec => []RequestsTypeOK` |
| `TenancyProofs!TenantAgreement` | `ServerSpec => []SameTenant` |
| `TenancyProofs!DatabasesApart` | `ServerSpec => OwnDatabaseOnly` |
| `TenancyProofs!Refinement` | `ServerSpec => KeepsLifecycle`: the tenants' requests implement `AuthSetLifecycle` |
| `TenancyProofs!TenantAuthority` | `ServerSpec => []Authorised` |
| `ListingProofs!TypeCorrect` | `Spec => []TypeOK` of the listing |
| `ListingProofs!NothingMissed` | `Spec => []NoneMissed` |
| `ListingProofs!NothingRepeated` | `Spec => NoneRepeated` |
| `ListingProofs!RangeKept` | `Spec => []WalkStaysInRange` |
| `MigrationProofs!Invariance` | `Spec => []IInv`, the inductive invariant |
| `MigrationProofs!TypeCorrect` | `Spec => []TypeOK` of the migration |
| `MigrationProofs!MigratesOnce` | `Spec => []MigratedOnce` |
| `MigrationProofs!ServesOnlyMigrated` | `Spec => []ServesMigrated` |
| `MigrationProofs!OldShapeIsInDefault` | `Spec => []OldShapeOnlyInDefault` |
| `MigrationProofs!UndoesOnlyBehindRivals` | `Spec => UndoingIsExplained` |
| `MigrationRefinement!Refinement` | `Spec => MigrationIsNotSeen`: `Migration` implements `SetStore` |
| `MigrationRefinement!SetsAreSingle` | `Spec => []Store!OnePerSet`: a set of a migrated database is one document |
| `MigrationRefinement!GivenIdsAreKept` | `Spec => Store!GivenStays`: a set keeps a device id that a request gave, unless a decision writes back that it read none, a request came early or a migrator is late |

Those about `DevAdm` hold for any requests, sets, devices, identities, offered operations
and faults; those about `Tenancy` for any requests, tenants and ids; those about the
listing for any sets, parameters, page sizes and width of words; those about the migration
for any migrators, databases, sets, places and any number of decisions under way.

Assumptions. In `DevAdm`: `MintedIds` (drawn ids are ids) and `ZeroValues` (the zero value
is no id, no status and no operation; `NoDoc` is no document), and for its view as
`Tenancy` `TenantHasName` (the names of the one tenant and of an unreadable token are no
zero values); that `Tenancy`'s own assumptions then hold is the lemma `TAssumptions`. In `AuthSetLifecycle`:
`UnsetIsNoStatus`. In `Tenancy`: `SetsOfDatabases` (a set is an id in a database),
`DrawnIds`, `HeaderValues` (a missing and an unreadable header differ and name no
database). In `Listing`: `SortedIds` (ids are numbers, finitely many), `PageSizes`,
`ParamsAreNumbers` and `WordSize`: at most 2^31 sets can be listed. In `Migration`:
`OneDefault` (the default database is no tenant's) and `NoDocument`. `FaultKinds` and
`OfferedOps` only check the instances. The runs evaluate them all.

The argument. `DecisionsAuthorised` is not inductive: nothing in it says why a
handler that is about to write may do so. `Inv` adds that. `CalledFirst`: a handler
of a status update or a deletion about to write has a call that was carried out.
`Carries`: a request carries the status of its operation and keeps it, so that the
status it writes is the one it propagated. `Draws` and `Known`: the id of a
preauthorized set is drawn when the set is inserted and nobody names it before, so
a set that the internal acceptance may claim was inserted by a preauthorization; a set
never goes back to `preauthorized`, since only insertions write that status.
`Phased` says which phases and calls each operation has. The proofs first reduce
every step to its shape (`ArrivalShape`, `HandleShape`): one request moves, along its own
phases, and writes at most the sets that its operation may write; each conjunct is
then preserved by three cases, an arrival, a handler's step, deviceauth's step,
and by a crash.

The refinement maps the collection to the status of each set, the calls of status
updates that were carried out to the decisions deviceauth was told, and insertions to
vouchers. Every database write is one step of the life cycle or none, and
everything else is a stutter; `Inv` supplies the life cycle's guards.

The refinement of `Tenancy` uses the same invariant and goes action by action: `THandleMaps`
names for each action of a handler the one of `Tenancy` that it is (`UpdateStatusLookup` is
`UpdateStatusPropagate` or `End`, `UpdateStatusAnswered` a stutter or `End`, and so on). The
guards of `Tenancy` speak of `told` and `vouched`, so `Carries`, `Draws` and `CalledFirst`
are needed again, and that an id which a client may name is one that `Tenancy` lets it
name (`KnownIds` of both). With it, `TenancyProofs` is also about `DevAdm`.

The listing. `Inv` of `ListingProofs` relates the collection of this moment to the
last page served: a set not shown yet is behind the page (`Behind`), a set
shown is on it or before it (`Ahead`), unless one before them went or came, and
a page with a successor ends within the collection (`InRange`), which is why
skips fit. `MoreFound` and `MoreExists` are the two halves of the handler's trick
of asking for one set more: they rest on ranks being dense (`RankOnto`, by the least
set of at least a given rank) and distinct (`RankInjective`), through the library's
theorems on surjections and injections between finite sets.

Overlap. The properties of `DevAdmOverlapProofs` all say "or somebody else was in flight",
and none is inductive: a property about what is written needs to know what the writer
read. `Effects` sums up what any step does: a set changes only by the last step of a
request in flight (`StoreSteps`); an update that waits or writes found its set, an
acceptance that writes found it preauthorized, a preauthorization that goes on found no
set with its identity (`UpdateSteps`, `AcceptSteps`, `PassSteps`); what a request asks for
and who was over when it came never change (`Stays`). As only requests that are over are in
anyone's past (`PastOver`), two requests in flight overlap (`FlightsOverlap`), for ever
(`OverlapStays`). With that, each property has an invariant of one shape: what a request
has read still holds, or a request that has overlapped it is to blame (`LossExplained`,
`RevivalExplained`, `SharingExplained`, `CheckHolds`, `ReadHolds`). `ReadHolds` must also
compare the device ids that two decisions have read, since a slow one may write back what
another then reads. For `DivergenceIsExplained`, `Progress` says more: as long as nothing
explains a divergence about a set (`Clean`), at most one request for it is in flight, and
the two services agree but for what that request has begun (`InStep`); `Settled` adds that
a request that ended well has left no call behind that deviceauth might still carry out.

`SuccessStands` is not inductive for two reasons. A request in flight that has not written
yet may still be refused, so only one that is past its last write can be blamed for good
(`Committed`); and a preauthorization has made its set before it knows that it will succeed
(`Succeeded`). `Stands` says the property of these two; `HandleSuccess` shows for each
action that the step in which a handler succeeds makes true what the answer says, and that
a step that changes the collection is the last one before an answer other than 4xx.

Tenants. `Routed`: a request's context and the headers of its call are made from its own
header, once or twice. From that follow `SameTenant` and `OwnDatabaseOnly`
(`ContextNames`, `CallNames`). For the refinement, `Backed` says that what a request is
about to write is what deviceauth has carried out *for the tenant of its database*, and
`DrawnOnce` that an id drawn by a preauthorization has no set before, in any database.

The migration. `Ahead` follows a document of the old shape until it is replaced: each
migrator at work has its place still to fetch, or the document in its batch, or there is
another document of the same set, which only happens where there is no index yet; and
as the index is made before the record (`Positions`), none is left when a migrator records
the database (`NoneLeft`). `Untouched` says that before a
request writes, a database holds only sets that it had, in the old shape or with their own
id as the device's. `FoundAreDone` and `TenantsAreFound` say which databases a server
has dealt with when it serves, and `RivalsAreSeen` that a migrator that finds itself
behind the record has a rival. `ReadsAreKnown` is about decisions: one that has read a set
came early, or the database was recorded when it read; so what it holds of a database that
no request came to early was read after the migration and has a device id, and putting it
leaves no document of the old shape.

`MigrationRefinement` adds what `IInv` leaves out. A migrator's upsert must not be seen, so
what it holds in its batch must be what the database still tells: `BatchIsStored`, as long
as no request came early and nobody has recorded the database. A migrator with a rival is
at work on a recorded database (`RacedAreRecorded`), and then its upsert is `Undo`, which
`SetStore` names. The upsert may put a second document beside the old one; it tells the
same, so the set of what is told does not change (`SeenAgain`), and where
the index is made, there is one document of a set (`SeenOne`), which is what recording
promises. A decision's two steps are `Ask` and `Decide` (`AskMaps`, `DecideMaps`): what
`held` says is what `asked` says, and a put without a device id keeps the one that the
document has, which `Decide` allows where requests came early, as `ReadsAreKnown` says they
did. `SetsAreSingle` and `GivenIdsAreKept` are then proved of `SetStore` (`StoreInv`) and
carried over.

Checked by TLC only: `EveryRequestEnds`, which needs fairness and is out of the prover's
reach.

## Not modelled

* Reading one set or its status: no state changes and nothing is decided on it.
* Several tenants in `DevAdm` and `Listing`: they have the one database that `Tenancy`
  shows a request to work on. `DevAdm` is shown to be `Tenancy` with one tenant; with
  several, requests have their documents in `DevAdm` only and their tenants in `Tenancy` only.
* A second decision about one set while a first one waits, in the runs of `Migration`; the
  theorems hold for any number (`Updaters`), and `DevAdm` has decisions that overlap.
* The verification of tokens: another service does it before a request gets here; this
  program reads the tenant out of a token and never checks its signature.
* Servers of an earlier version that write documents of the old shape while this one
  migrates: their code is not in this repository.
* Configuration, logging, compression, the recovery from panics, URL building, the table
  of routes and the command line: they keep no state that a request could find changed.
* The database itself: replication, failover and elections are only present as
  operations that fail and may have happened.

## Plan

Done: the core (`DataStoreMongo`, `DevAdm` and its properties), the life cycle and its two
refinements, the listing, the migration and its refinement, the tenants and their tie to
`DevAdm`, and theorems about every property that a run checks but the liveness. What could
still be added, in this order:

1. The listing beside the requests of `DevAdm`: `Appear` and `Vanish` as the steps of its
   collection that make a set match a filter or cease to.
2. An abstract specification of a walk over pages (what a client may rely on), refined by
   `Listing`.
3. The validation of request bodies (`ParseAuthSet`, `parseDevice`) as operators, if the
   formats of keys and attributes come to matter to a property.
