# csar-core: a TLA+ verification project

csar-core is a library of Go packages shared by services: audit and
notification clients, a transactional outbox, caches, configuration sources,
token clients, servers, middlewares and storage adapters.  This directory models
its stateful parts in TLA+, checks them with TLC on small instances and proves
the most important results with TLAPS for every instance.

`PROJECT.json` lists every part of the library with its status, the source
lines each definition models, the runs, a mutation of the code that every
checked property catches, the hazards of the code and the theorems.

## The parts of the system

| part | sources | modules | run |
|---|---|---|---|
| transactional audit outbox | `audit/outbox.go` | `AuditDelivery`, `AuditOutbox` | `outbox_safety`, `outbox_liveness` |
| audit client | `audit/client.go` | `BatchPipeline`, `AuditClient` | `audit_client` |
| notification client | `notify/client.go` | `BatchPipeline`, `NotifyClient` | `adapters`, `notify_record_close` |
| shared loads, request scope | `readcache/` | `ReadGroup`, `ReadScope` | `scope_safety`, `life_cycles` |
| configuration watcher and sources | `configsource/` | `ConfigSources`, `ConfigWatcher` | `config_watch`, `config_same_tag` |
| router client: STS token, retries | `stsclient/` | `RouterClient` | `credentials`, `life_cycles` |
| token minter, grant client, profiles | `tokenmint/` | `TokenMint`, `GrantClient`, `MintConfig` | `credentials`, `mint_sweep_floor` |
| keys and verification, remote key sets | `jwtx/` | `JWTVerify`, `RemoteJWKS` | `credentials`, `jwks_stale_store` |
| gRPC service tokens | `grpcjwt/` | `GRPCAuth` | `credentials` |
| IAM tokens | `ycloud/iam.go` | `IAMToken` | `credentials`, `life_cycles` |
| stored token objects | `s3store/format.go` | `TokenFormat` | `credentials` |
| migrations | `pgutil/migrate.go` | `Migrations` | `adapters`, `life_cycles` |
| email by SMTP and Postbox | `email/`, `postbox/` | `Email` | `adapters` |
| object uploads, downloads, listings | `s3store/` | `S3Stream`, `S3Listing` | `adapters`, `life_cycles` |
| audit store | `audit/postgres.go` | `AuditStore` | `adapters` |
| response capture, redaction | `audit/http_response.go`, `jsonredact/` | `AuditCapture`, `JSONRedact`, `RedactPasses` | `adapters` |
| readiness checks | `health/health.go` | `HealthCheck` | `adapters`, `life_cycles` |
| HTTP server | `httpserver/server.go` | `HTTPServer` | `life_cycles` |
| HTTP middlewares | `httpmiddleware/middleware.go` | `Middleware` | `adapters`, `life_cycles` |
| outbound HTTP | `httpx/clientx/` | `ClientX` | `adapters`, `life_cycles` |
| publisher confirms | `amqpconfirm/confirm.go` | `PublishConfirm` | `life_cycles` |
| router relay of the outbox | `audit/outbox_relay.go` | `AuditRelay` | `life_cycles` |

A service enqueues audit events in its own database transaction (`EnqueueTx`);
relay replicas (`Run`, started and stopped by `StartRouterRelay`) move them to the
ingest service through a `Transport`.  Services that can afford to lose events use
the asynchronous client instead, which batches in memory and sends through the same
kind of transport.  Calls to other services go through the router with a token of
the STS client; calls over gRPC carry a self-signed token, which the callee checks
with keys it may fetch from a key set.  The minter obtains tokens of third parties
for the credential pairs that `TokenFormat`'s objects describe.

Where one component calls another, the modules compose: `TokenMint` extends
`GrantClient`, `GRPCAuth` and `RemoteJWKS` extend `JWTVerify`, `ReadScope` extends
`ReadGroup`, `AuditClient` and `NotifyClient` extend `BatchPipeline`,
`AuditCapture` and `RedactPasses` extend `JSONRedact`, and `AuditOutbox`
implements `AuditDelivery`.  Components that share nothing at run time are not
interleaved.

## How components share a run

`MCCredentials`, `MCAdapters` and `MCLife` instantiate several components
that have no state in common.  The variable `part` is chosen in the initial state
and says which of them is at work in a behaviour; a step is a step of that one.  The
component that the module extends rests in its own initial state when it is not at
work, and the variables of the others hold `Off`.  So a run explores the sum of the
components' state spaces, not their product, and a property of a family says of
each component what its own definitions say: the invariants of the component are
written in its module, and the family's property names them under the condition on
`part`.  Liveness and fairness are stated again in the family's module, under that
condition, because a component that is off has no steps to be fair about.  Each
component's module keeps its own `Spec` and `FairSpec` (under names of their own in `ReadGroup` and
`HTTPServer`, which other modules extend), which are what its proofs are
about and what a reader should read first.

## The audit outbox

`AuditDelivery` is the contract: an event is committed together with its
business transaction and becomes pending; only pending events are accepted by
the ingest; only accepted events leave the outbox.  An event may be accepted
more than once.

`AuditOutbox` is the mechanism.

| state | code |
|---|---|
| `row` | table `csar_audit_outbox`, one row per identity; `lease`, `delay` are `lease_until`, `next_attempt` as ticks from now |
| `before` | the order of `next_attempt` that `claim` sorts by |
| `tx` | the business transaction each producer has open, and what its `EnqueueTx` did |
| `relay` | the local state of `DeliverOne` in each replica: claim, outcome of the send, deadline |
| `late` | finish statements whose client timed out but which the server may still run |
| `accepted` | what the ingest has accepted (external) |
| `committed` | history: events of committed transactions |

| action | code |
|---|---|
| `EnqueueTx`, `CommitTx`, `RollbackTx` | `EnqueueTx` and the end of the caller's transaction, identity conflicts included |
| `Claim`, `ClaimReply` | `claim` at the server, its reply and `json.Unmarshal` |
| `IngestAccept`, `SendReturns` | the two halves of `transport.Send`; the receipt may be lost |
| `Finish`, `FinishTimeout`, `LateFinish` | `finish`: the statement runs in time, or the client gives up and it runs later or never |
| `Crash`, `Pause` | a replica stops anywhere; a replica misses its deadlines |
| `Tick` | `clock_timestamp()` |

Deadlines are part of the model: a replica that is not paused leaves a step
before the step's deadline passes, so `LeaseOutlivesDelivery` is a statement
about the durations.  The lease starts when the server executes the claim, so it has
to cover the claim's round trip too: `Lease > 2 * DBTimeout + SendTimeout`.
The runs use the code's own durations in ticks of ten seconds (60 s, 5 s rounded
up, 30 s), and the backoff of `retrySeconds` rounded up to ticks.

Abstractions.  `service` and `payload` are one `content`, because `EnqueueTx`
compares them together and `claim` filters by service; rows of other services
are never touched and are left out.  `attempts` saturates at 6, above which
`retrySeconds`, its only reader, is constant.  Tokens are drawn from those not in
use, which is what `uuid.NewString` gives.  A statement that waited for a row
lock tests the lease when it runs; when the lock's holder rolled back,
PostgreSQL may act on the test it made before the wait, which can only admit the
token's own statement a little after the lease expired.  Rejected events (invalid,
oversized, of another service) make `EnqueueTx` fail before any statement and
leave no trace; the model starts after those checks.

* `outbox_safety`: two identities, two contents, two replicas, two transactions,
  two faults, five tokens (two on rows, two with stale owners, one fresh), with
  symmetry.  Two faults are what a stale finish needs: one replica is paused or
  times out, and the row is leased again.  `RowsWellFormed` adds to the types what the
  table's `CHECK` demands of the two columns of a lease: a row under a lease has a token.
* `outbox_liveness`: one replica and one fault, and a content that never
  unmarshals (`Poison`).  Checks that every other event is accepted and leaves, and
  that the fairness of `AuditDelivery` is implemented.

Fairness: the clock advances, a business transaction ends, and a running replica
takes its next step (`Run` loops until its context ends, with a second between
failed rounds).  Nothing is assumed of faults; they are bounded by `MaxFaults`.

`AuditRelay` is the life of that loop in a service: `StartRouterRelay` may fail at
each of its steps, the function it returns may be called by several goroutines, and
the service closes its database afterwards.  `Truthful` says that the worker never
runs on a closed database or transport, and that a stop which has returned leaves
nothing behind; `AllEnd` that every stop returns.

## The asynchronous clients

`BatchPipeline` is the code both clients share: the bounded queue, `dispatchLoop`
with its `flush` and debounce timer, the bounded channel of batches and
`workerLoop`.  The timer is armed exactly while the batch is not empty, so it needs
no variable.  `dropped` records the items handed to the fallback with the reason
the code logs; with `FallbackToLog` off they vanish at the same point.
`AuditClient` adds `Record` and `Close`, which run under the mutex; `NotifyClient`
adds the two steps that `Record` and `Close` take there, because both release the
mutex before they use the channel.  A panic ends the process.

* `audit_client`: one worker, so that the channel of batches has its real
  capacity of four, and seven events, which overflow both channels; one caller of
  `Close`.  Fairness: every goroutine is scheduled, the timer fires, `Send` returns
  within its deadline.
* in `adapters`: two callers of `Record` against one of `Close`, six notifications.
* `notify_record_close` (violated): `Record` sends on the channel that `Close`
  closed after `Record`'s check.

`MaxBatch` is 2 instead of 100 and `BufferSize` 1 or 2 instead of 1000, so that
full batches and full queues happen.  Executions may come to rest, so deadlock
is not checked in these runs; `CloseReturns` and `AllSettle` say what must happen.

## Shared loads and the request scope

`ReadGroup` models `Group`: `calls` is the map of current tickets, `call` the `Call`
objects, `proc` the progress of `Do` in each caller.  Each action is one critical
section of the mutex or one wake-up of a follower.  Tickets that nobody refers to
are used again, as memory is, so three tickets serve three callers for ever.
`outcome` is history: what each ticket's leader produced.  A leader calls `Finish`
twice, with its result and, deferred, with `ErrAborted`; the second call may come
when the next leader of the key is already loading, which is what `SharedOutcome`
(in `FlightSound`) is about.

`ReadScope` extends it.  The load that `Resolve` gives to `Do` becomes the steps
`Lookup`, `Fetch`, `Commit` and `Undo`, each a critical section of the scope's mutex
or a call of the provider.  `Close` is `Cancel` followed by `Clear`; expiry of
`MaxAge` is `Cancel` alone.  A value is represented by its length, and `BytesExact` compares
the counter with the number of retained bytes.

* `scope_safety`: three callers, which is what a stale leader, a new leader and a
  follower of one key take, and three keys, two in flight, one follower each, two
  entries, three bytes, values of one, two and (too large) three bytes.
* in `life_cycles`: every `Do` returns, also that of a follower whose leader
  panicked.  Loads return or panic and goroutines are scheduled; nobody is obliged
  to cancel.

## The configuration watcher

`ConfigSources` models `Fetch` of the four sources; `fetch` is the call in progress.
A file takes two steps (stat, read), an object or an HTTP request one, a manifest
those of its bootstrap source followed by those of the payload's.  The documents are
external and may be replaced between any two steps.  A hash is represented by the
content it hashes, a manifest by the entry of the service.  `ConfigWatcher` models
`Apply` and `RunPeriodicWatch`; the mutex of `Apply` is held throughout, so one fetch
is in progress at a time.

* `config_watch`: each source with the failures it recovers from, under each hash
  policy.  Two replacements allow a change and its roll-back, or a manifest and its
  payload in either order.  With honest tags an ETag identifies content, and a file's
  modification time does not return; with reused tags one ETag may be given to any number
  of contents, of an object or of a file whose time and size stay the same.  A file is
  replaced as a whole.  `SameTagCaught` says what `HashTOFU` gives against such servers;
  content that it takes for a forgery is not among what `Converges` waits for.  Fairness: the ticker fires, and
  fetches and applies return.  The loop may be cancelled, so deadlock is not checked.
  `HTTPSource` and `ManifestSource` remember what they returned before it is applied,
  so a transient apply failure is not repeated until the document changes.
  `Converges` therefore excludes such failures for these two.  A manifest behind an
  HTTP bootstrap source, or with an HTTP payload, is not in the run: there a failed
  payload fetch or checksum is not repeated either.
* `config_same_tag` (violated): the promise that same-ETag content changes are rejected, as
  the documents state it, with a server that reuses ETags.  Content `a` runs under an ETag; a
  configuration that `ApplyFunc` rejects is fetched and empties `lastETag`; `b` is then accepted
  under the ETag of `a`.

## Credentials

`credentials` checks six components.  Clocks are bounded, so a behaviour may come
to rest and deadlock is not checked.

`RouterClient`: `TokenSource.Token` holds its mutex (`holder`) for the whole exchange;
the answer's time of arrival decides the expiry in `cache`.  A request then goes through
`retryTransport`: `req[c]` holds its attempt and class, `tokens` and `last` are the shared
budget, and `spent` counts retries.  Two callers, lifetimes of 0, 2 and 4 ticks around the
refresh buffer of 2, a budget of one retry and one more each two ticks.
`SpentBounded`: all requests together never retry more often than the cap and the
refills allow.  `UnsafeSentOnce`: a request with side effects and without an idempotency
key is sent once.  `TokenAlive` (in `Disciplined`): a token handed out lives, if its
answer took no longer than the unused part of its lifetime.

`TokenMint` and `GrantClient`: `state` is the entry of a pair (token, boundaries, backoff,
last request), `flight` the single flight, which releases the lock during the request, and
`Sweep` deletes idle entries, also one that a flight still holds.  Every branch of the
classification of an answer is an element of `MintAnswers`; an `expires_in` loses its fraction, and
one below a second becomes 0.  One pair is modelled; other pairs
only draw on the limiter.  The lifetime left after the haircut exceeds the request's
timeout (`MintInstance`), as with the defaults of the code; endpoints that grant less than a second are
not in the run.  `ServedAlive` (in `NothingDead`),
`OutageInvisible` (in `Dependable`) and `FloorKept` (in `Disciplined`) are its properties.

`MintConfig`: a profile from its file through `Validate`, which may run twice, to the
address that its requests reach, while the host's addresses change.  Durations lie on
both sides of the defaults.  `StartsOrRefuses` and `CheckedIsDialled`.

`RemoteJWKS` over `JWTVerify`: lookups of two callers in the steps between which the lock is
free (read, fetch, store, drop, read again), with slow and failing fetches and two
rotations.  `WithdrawnKeyDies` bounds how long a withdrawn key is honoured;
`RotationFoundAlone` says that a published key is found when no other fetch is under way.

`GRPCAuth` over `JWTVerify`: the cached service token, transit and validation with a server
clock that differs, in half seconds, because the claims are truncated to seconds.
Deployments include key pairs whose halves do not belong together.  Signatures are ideal.  A subject
claim is absent, not a string, empty or a name; an empty one is validated like any other and reaches the
handler.
`AttachedAccepted` (an aligned server never refuses a call for the age of its token),
`SignedSparingly`, `SubjectVouched` (a call with a token runs only if the token vouches for the subject
that the handler finds).

`IAMToken`: `ResolveToken` of three callers over a flight that holds no lock, in every mode, from
the configuration on.  `TokenAlive`, `NoNeedlessRequest`.

`TokenFormat`: a token object is written, or comes from elsewhere with any combination of
fields, and is parsed and decoded with any KMS mode.  `NoDowngrade`, `ModeHeeded`, `ReadBack`.

* `mint_sweep_floor` (violated) and `jwks_stale_store` (violated) check what the comments of
  the code say without the exceptions that `FloorKept` and `RotationFoundAlone` make.

## Adapters

`adapters` checks what a service tells its callers about the systems it uses.

`Migrations`: several instances run `RunMigrations` at once.  `tx` is the open transaction of an
instance, `recorded` the table of names with its primary key, `effects` how often a migration took
effect.  A statement may fail, an instance may die at any step, and the answer to a commit may be
lost.  Three instances, two migrations, two faults.

`Email`: configuration, message checks, the SMTP dialogue stage by stage with the outcome that each
failure gets, the Postbox request, and a service that repeats what is retryable, three times at
most.  The server may answer any command with a code nobody awaits, and ask for more at `AUTH LOGIN`.
`NoDuplicate` is about the connection that breaks after the message was taken, `PasswordOnce` about the
server that keeps on asking.

`S3Stream`: three writers on one key of a versioned bucket, conditional or not, with bodies below, at
and above the reader's budget; answers are lost, calls are repeated, and who is told that the object
exists reads the version it was told of.  `S3Listing`: a listing of two pages, by the SDK or by plain
HTTP, while other clients put and delete.  Keys are in the form that `path.Join` leaves alone.

`AuditStore`: inserts that become visible late and with equal times, and a reader who walks the pages
with any filter and limit.  Four rows and pages of one or two suffice for a cursor row with
equals on both sides of a page's end.

`HealthCheck`: two calls of `Check` over two functions, which may hang, panic or answer as their timer
fires.

`JSONRedact`, `RedactPasses`, `AuditCapture`: a JSON value is a tree of depth three at most, compared
with a reference definition that says of every place of the tree whether a path or key
names it (`RedactsExactly`).  `AuditCapture` follows a response to the event, with the
allowlist, the declared omissions, and the order in which parts are given up for the size
limit.  A `null` is read as an empty string, and a body that is too long is truncated.  The redaction
operators are recursive.

## HTTP

`HTTPServer`: the state word of `Server`, written without a lock by starters, by the first `Accept`
and by `Shutdown`, over net/http's registration of listeners (external).  `Run` is one more
starter and one more caller of `Shutdown`.  Two starters, two further callers of `Shutdown`.

`Middleware`: one request through every chain of `RequestID`, `AccessLog`, `Recover` and `Timeout`, in any
order, around a handler that writes interim and final headers and bodies, flushes, panics or hangs.  `http.TimeoutHandler` (external) runs
what is below it in a goroutine, so `at` has two program counters.  `LogTruth` excludes responses whose
recorder was misled: flushed before their status was set, or announced by an interim header, which it
takes for the final one; see the list of differences.

`ClientX`: one call of `DoJSON` or `DoJSONEmpty` against a server that refuses, stalls, breaks off or sends
too much.  Bodies of 0 to 4 bytes around a limit of 2 and a cap of 1.

`HTTPSound`, of the calls and the middlewares, is checked in `adapters`; `ServerSafe` and `HTTPEnds` in
`life_cycles`, with a cap of one byte, a limit of one and at most two bytes for the calls and one
operation of the handler, which is enough for every wait.

## Life cycles

`life_cycles` has the smaller instances on which liveness is checked: shared loads, routed
requests, IAM tokens, publisher confirms, the router relay, migrations, uploads, listings and
probes, and the server, the calls and the middlewares of HTTP.  `AllEnd` and `HTTPEnds` are conjunctions
of one statement for each; `Truthful` and `ServerSafe` are the safety of the three components that
are only in this run.

`PublishConfirm`: `Await` over two Go channels that the AMQP library (external) fills from one wire;
`select` may pick either.  Three messages, so that what an earlier one left can meet a later one.

## Fairness

Each component assumes what its code arranges for, and nothing else.

| component | assumed | because |
|---|---|---|
| outbox | replicas take their steps, transactions end, time passes | `Run` loops; every database call and send has a timeout |
| audit client | goroutines run, the timer fires, `Send` returns | `Send` gets a context with a deadline |
| watcher | the ticker fires, fetches and applies return | `RunPeriodicWatch` |
| shared loads | loads end, a follower sees its call end | a load that never ends is outside `Do`'s promise; a panic is an end |
| router client | exchanges, attempts and waits end; strong fairness of the mutex | HTTP timeouts; Go's mutex hands over to a starved waiter |
| IAM tokens | the flight's request ends | the client's timeout |
| publisher | the library dispatches, a silent broker loses its connection | heartbeat; the context need not have a deadline |
| relay | deliveries end, the worker sees its context | timeouts of `DeliverOne` |
| migrations | statements end, a failed instance is started again | the service's supervisor |
| uploads, listings | requests are answered | the 30 s timeouts of `s3store`, or the caller's context |
| probes | timers fire, goroutines run; a check function need not return | `time.After` in `runCheck` |
| server | goroutines run, `Accept` returns when its listener is closed | net/http; nothing is assumed of signals or connections |
| middlewares | the server's goroutine runs; the handler need not return | `http.TimeoutHandler` |
| outbound calls | what is there is read, a deadline that exists passes | the context |

## Proofs

Eight modules hold theorems, for every value of the constants that the named
assumptions allow.  TLC checked every inductive invariant before its proof.

* Outbox (`AuditOutboxInvariant`, `AuditOutboxProofs`), from
  `OutboxConstants` and `LeaseCoversDelivery`: `TypeCorrect`, `NeverLost`, `NeverInvented`,
  `LeaseSuffices`, `BacklogIsProof` (for finitely many identities), `Fencing`, and
  `ImplementsDelivery`, the refinement of `AuditDelivery`.  They rest on one inductive invariant,
  `IInv`.  `NoLostEvent` is not inductive: a finish deletes a row because *its* send was
  accepted, so the proof needs that a claim which still holds a row's token speaks of the
  content in the row (`Sound`), that tokens identify claims (`TokenInv`), that a row an open
  transaction touched stays as it left it (`TxInv`) and that only committed rows carry tokens
  (`RowInv`).  `TypeCorrect` proves `RowsWellFormed`: claim, finish and release write the two columns of a
  lease together.  `LeaseInv` strengthens `LeaseOutlivesDelivery` with the time the replica may
  still need.
* Audit client (`AuditClientProofs`, from `PipelineConstants`): `EventsConserved`, for any
  number of events, workers and callers of `Close` and for any capacities, and `TransportLast`.
  `PipelineSound` counts the places of an event, so the invariant says it in two halves: no place
  holds an event twice and no two places share one (`Apart`), and who is in some place is exactly who
  was recorded (`Somewhere`).  `Stops` is the order in which the goroutines end, which makes the queues
  empty when `Close` goes on.  `TransportLast` assumes one caller of `Close`: a second one closes the
  transport at once (see the differences below).
* Shared loads (`ReadGroupProofs`, from `GroupConstants`): `GroupFlights`.  Tickets are used again, so
  the invariant must say who may still refer to one: a leader's ticket is current until its first
  `Finish` (`LeaderOK`), no two leaders share one (`OneLeader`), a current ticket has a leader
  (`Owned`), and a finished call keeps its value while anybody holds its ticket
  (`FollowerOK`, `DoneOK`).  The second half proves, step by step, that the counter of a call is
  the number of callers attached to it (`CountInv`).
* Request scope (`ReadScopeProofs`, from `GroupConstants` and `ScopeConstants`):
  `ScopeFlights`, `ScopeClosedEmpty`, `ScopeMemoStable`, `ScopeBytes`, `ScopeLimitsKept`, and
  `GroupFollowers` for the group alone.  `ScopeInv` ties each reservation to the load that made it
  (`Reservations`, `LoadOK`), which is why a load that ends after `Close` finds nothing to fill, and
  adds the group's invariant, which the scope's steps keep because `Resolve` only loads inside `Do`.
  `Room` bounds entries and bytes.  The bytes of a scope are a set (`Retained`), so that a committed value
  adds as many elements as it has bytes.  The facts about finite sets are collected in one formula
  (`Counting`), which the last section proves from the library.
* Clients (`ClientProofs`).  Of the router client, from `RouterConstants`: `RetriesBounded`, `UnsafeOnce`,
  `TokenLives`, `RouterTypes`.  `take` forgets the fraction of a refill interval, so the invariant
  compares what was spent and what is left with the refills until `last`, not until now (`BudgetInv`);
  the quotient lemmas (`Quotient`, `Fits`, `QuotientSum`, `QuotientMonotone`) carry the arithmetic.
  `RouterInv` says that the expiry beside the cached token counts from the arrival of its answer, and
  `WindowType` that the window and the slack fit into the lifetime.  Of publisher confirms:
  `VerdictsTrue`.  The invariant lists where the frames of the current message can be (`OnItsWay`,
  `OnItsWayBack`): what an earlier message left is gone, because `Await` took it or the channel was
  given up, and a return that comes with an acknowledgement is still to be seen (`Due`) when `Await`
  looks a second time.
* Life of a service (`LifeProofs`).  Migrations, from `MigrationConstants`: `MigrationsHold`.  The invariant
  adds the contents of a transaction at each step (`TxShape`), what the primary key gives, namely that
  who is about to commit is alone with its name and the name is not in the table (`Alone`), and
  that what an instance has left behind is recorded (`Behind`, `Started`).  HTTP server, from no
  assumption: `ServerHolds`, `ServingHolds`.  `WordInv` gives the values of the state word their
  meaning: who is past the compare-and-swap has taken the server out of idle, and who has stored draining
  has taken it out of reach of the first `Accept`.  `ListenerInv` says that the listeners net/http knows
  are closed together with its flag, `StopInv` that the flag is up only after the word was stored.
  Router relay: `RelayHolds`, for any number of goroutines that stop it; only one of them runs the
  body of the stop function, and it goes on after the worker has ended (`RelayInv`).
* Configuration watcher (`ConfigWatcherProofs`, from `SourceConstants`, `SetupShapes` and `WatcherConstants`),
  for any contents, versions, resources and ETags and any number of changes and failures:
  `WhatRunsIsChecked`, `AppliesChanges` and `TagNamesContent`.  `FetchOK` says what a fetch in progress holds:
  a payload is read only for an entry of the manifest, and what a manifest source returns carries
  the checksum it was compared with.  `AppliesChanges` assumes that servers send ETags; `TagNamesContent`
  assumes nothing of them.  `SameTagCaught` is not inductive, because a failed apply empties `lastETag`
  and the comparison with it passes.  `TagsInv` says that `lastETag` is the ETag in force unless an apply
  has failed, and what holds after a failure when no ETag is reused: an object's ETag still stands
  for the content that runs (`ObjectTags`), and a file whose ETag differed once will not have the old one
  again (`FileTags`), although a stat and the read after it may see different files.

## Only model-checked

Liveness is checked by TLC only: the provers do not handle fairness.  What
the recursive redaction computes is compared with its reference definition on the bounded trees only,
because induction over data is out of the provers' reach; the family of `adapters` reaches it, so its
properties are checked by TLC, the migrations' excepted.  Also left to TLC are the components of
`credentials` other than the router client (minter, key sets, gRPC tokens, IAM tokens, token objects), the
middlewares and outbound calls, and the notification client.

## Differences between the code and its documents

Four have a run and a finding in `PROJECT.json`: `notify_record_close`, `mint_sweep_floor`,
`jwks_stale_store` and `config_same_tag`.  The others were met while modelling; the models follow the code, and the
properties are stated so that they do not claim what the code does not do.

| code | document | what differs |
|---|---|---|
| `audit/client.go:151` | `audit/client.go:146` | a second `Close` closes the transport while the workers of the first still send; the run has one caller of `Close` |
| `audit/client.go:177` | `audit/client.go:146` | the flush of `Close` drops a batch to the fallback when the channel of batches is full |
| `configsource/watcher.go:88` | `README.md:50` | without an ETag every poll applies the same bytes again |
| `tokenmint/minter.go:203` | `tokenmint/minter.go:118` | the fallback is chosen with the time before the request, so a token past `HardExpiry` may be returned (its endpoint still accepts it) |
| `tokenmint/profile.go:234` | `tokenmint/profile.go:204` | a profile whose `client_id_param` equals its `client_secret_param` is accepted, and its requests lack the id |
| `stsclient/client.go:166` | `stsclient/client.go:118` | a token of at most 30 s may be dead when a slow answer is cached |
| `ycloud/iam.go:242` | `ycloud/iam.go:119` | an answer without a token is cached and returned as an empty one |
| `email/smtp.go:70` | `email/README.md:38` | a connection that breaks at EHLO is reported as `Rejected` |
| `s3store/format.go:96` | `s3store/format.go:31` | an object with both `plaintext` and `enc_token` is accepted |
| `audit/outbox_relay.go:18` | `audit/outbox_relay.go:13` | the stop function is nil after a failed start, when the comment asks to call it |
| `httpx/clientx/clientx.go:149` | `httpx/clientx/clientx.go:43` | `Status` is not zero when reading the body fails |
| `httpmiddleware/middleware.go:157` | `httpmiddleware/middleware.go:124` | a flush sends 200 without being recorded, and a later status is logged |
| `httpmiddleware/middleware.go:134` | `httpmiddleware/middleware.go:124` | an interim header (103) is recorded as the status, and the final one is not |
| `httpmiddleware/middleware.go:84` | `httpmiddleware/middleware.go:70` | after a partial response a panic cannot become a 500 |

## Not modelled

* The HTTP and gRPC transports of the audit and notification clients are one request each; they are
  the `Transport` of the models, which succeeds, fails or loses its answer.
* `RecordSync` is a bare call of the transport; `Migrate` of the outbox runs one idempotent script, and
  its metrics collector reads `Backlog`.
* CORS, cookies, pagination, query parsing, URLs and error responses, `apierror`, `errors`: headers and
  text of one request, without state.
* `configload`, `configutil`, `authnconfig`, `authzconfig`: flags, environment expansion, defaults and
  checks of single fields at startup.
* `storage` contracts, presigned requests, key joining, `emailnorm`, `secret`, the attribute redaction
  of `logutil`: checks and formatting of single values.
* `tlsx`, `grpcdial`, `authzclient`, `authntokens`, the pool and `WithTx` of `pgutil`, the health sidecar
  and TCP check, `gatewayctx`, `observe`: construction of library objects and copying of values.
* PEM, DER and base64 decoding, HMAC signing, MIME text and the patterns of `RedactText`: conversions
  whose result is a success or a failure in the models.
* A change of provider between two manifest entries, partially written files, and manifests
  behind HTTP sources (see the configuration watcher).
