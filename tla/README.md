# Fluss Gateway in TLA+

Fluss Gateway is a stateless HTTP process in Rust (axum, tokio) that turns REST
requests into calls of the Fluss client library. This directory holds a TLA+
model of the parts of it where order, sharing and failure matter, the TLC
configurations that check the model on small instances, and proofs that TLAPS
checks for every instance.

Paths below are relative to the repository's sources; `S:89` style references in
`PROJECT.json` give the exact lines every definition stands for.

## 1. Inventory

| Component | State | Operations | Interacts with |
|---|---|---|---|
| Circuit breaker and retry loop, `src/resilience.rs` | failures, last_failure_time, is_open behind a `RwLock`; three atomic counters | `allow_request`, `record_success`, `record_failure`, `health`, `execute_with_retry` | any task that runs an operation through it; `health` of the REST handlers |
| Connection pool, `src/pool.rs` | a moka cache from hashed credentials to `Arc<FlussConnection>` | `get_or_create`, `hash_credentials`, `create_connection`, `close` | every backend call; moka's single flight and eviction |
| Fluss backend, `src/backend/mod.rs` | the pool, the startup credentials | `new` (warm-up), `check_health`, `conn`, metadata calls, `lookup`, `scan`, `append_rows`, `upsert_rows`, `delete_rows`, Arrow to JSON | pool, Fluss |
| REST handlers, `src/server/rest/mod.rs` | none of their own | 15 handlers, `extract_creds`, `produce`, `table_info`, `batch_lookup`, deep `health` | backend, breaker |
| Server lifecycle, `src/server/mod.rs`, `src/main.rs` | the router, the listener | warm up, bind, serve, signal, drain, close the pool; body limit, auth and metrics middlewares | everything above, the OS |
| Basic authentication, `src/server/auth.rs` | none | parse the `Authorization` header | auth middleware |
| Metrics, `src/metrics.rs` | Prometheus counters | `install`, `scrape`, `normalize_path` | metrics middleware |
| Requests, errors, conversion, `src/types/mod.rs` | none | `json_to_datum`, `status_code`, `error_code` | handlers, backend |
| Configuration, `src/config.rs`, `load_config` of `src/main.rs` | none | file, arguments and defaults merged | start-up |
| Lifecycle script, `bin/fluss-gateway.sh` | the PID file, the processes | start, stop, restart, status | the gateway process through signals, `/health` and the PID file |
| Installer, `deploy/install.sh` | files, systemd unit | a sequence of copies | systemd |
| OpenAPI, `src/api_doc.rs` | none | a declaration | |

What is hard here:

* **Check, unlock, act.** `allow_request` decides under the read lock and closes
  the circuit under the write lock; half-open is not a state of its own. Tasks
  that were admitted long ago report into whatever state the circuit has reached,
  and one that is dropped with its client, or panics, reports nothing.
* **Sharing one fallible initialiser.** `create_connection` panics, inside moka's
  `get_with`, on behalf of every handler that waits for the same key; the handler
  that runs it can be dropped when its client disconnects.
* **Shutdown against running requests.** The pool is closed after the drain; the
  drain waits for handlers that wait for each other, for Fluss, and for bodies that
  their clients have not sent.
* **Two reads of one table.** `produce` reads the table's metadata to convert rows
  and to choose the operation, and the backend call gets the table again.
* **Buffered writes.** `append` and `upsert` return before anything is written;
  `flush` is the only thing that waits. A row that fails leaves others behind it.
* **Many calls, one catalogue.** A batch of lookups gets its table anew for each
  key, while other requests drop, replace and write tables, and a call is executed
  although the gateway has given up on its answer.
* **Conversions with an arm for each type**, on the way in and on the way out, and
  integers that are narrowed with `as`.
* **Three sources of configuration**, one of which may be missing or broken.
* **Processes and files.** The script's PID file, processes that die behind it, and
  two people running the script at once.

What makes each component correct: the breaker rejects only when it has reason to
and always recovers; the pool never hands out a connection of other credentials,
never closes one under a handler and never leaves a handler waiting for nobody;
the server closes the pool when nobody can use it, answers or accounts for every
request, and ends when told to; a write is acknowledged only when it happened and
refused only when it never will; what the API says it created, dropped, found or
scanned is what was created, dropped, found or scanned, and a row reads back as it was
written; the script knows the gateway it started, and a stop stops it.

## 2. Modules

| Module | Models | State and actions |
|---|---|---|
| `CircuitBreaker` | `resilience.rs` | `failures`, `sinceFailure`, `isOpen` are `CircuitState`; the counters are the atomics; `pc`, `attempt` are a task in `execute_with_retry`. One action per critical section (`AllowRead`, `AllowUpgrade`, `RecordSuccess`, `RecordFailure`), as no critical section awaits, plus `Call`, `Wake` (end of a backoff), `Dropped` and `Panics` (a task that ends at an await) and `Tick`. History: `issued`, `gone`, `lost` (operations that ended with their tasks), `probe` and `probeLost` (who half-opened the circuit, and whether it is gone), `sinceOpened`. |
| `PooledConnections` | the promise of the pool | connections are live until dropped, never under a holder, and shared only by equal credentials. |
| `ConnectionPool` | `pool.rs` over moka | `cache`, `opened` (whose connection each one is), and per handler `pc`, `want`, `held`, `tries`. `Hit`, `Lead`, `Join` are the outcomes of `get_with`; `DialOk`, `DialFail` end `create_connection`, which authenticates only with a user and a password: `Principal` is who the connection speaks for, nobody if either is empty; `Disconnect` drops a handler anywhere; `Evict`, `Close`. It implements `PooledConnections`. |
| `GatewayErrors` | the errors of `types/mod.rs` and `into_response` | operators: the status and the code of each error, the class `errors_total` counts it in. |
| `Configuration` | `config.rs`, `load_config` of `main.rs` | operators: `Default`, `FromFile`, `Overridden`, `LoadConfig`, for a setup of command line and file. |
| `GatewayServer` | `server/mod.rs`, `main.rs`, `server/auth.rs`, `extract_creds`, `FlussBackend::conn` and the middlewares | composed with `ConnectionPool` (`Pool == INSTANCE`), uses `Configuration` and `GatewayErrors`: `mode` is how far `main` has come, `setup` and `config` what it was started with and what it loaded, `stage`, `header`, `left` a handler, and the counters those of `metrics_middleware`. A request with a body waits for it (`AwaitBody`, stage "reading") until it comes (`BodyArrives`) or its client leaves. |
| `Datums` | `json_to_datum`, `parse_data_type`, `arrow_value_to_json`, `record_batch_to_json` | operators: JSON values to datums and back, with integers that keep their width and reals that may be too large for FLOAT, for DOUBLE, infinite or not a number. |
| `RestTables` | every handler of `server/rest/mod.rs` with its calls in `backend/mod.rs`, the routes of `server/mod.rs`, `normalize_path` | uses `Datums` and `GatewayErrors`: `handler` is a request on its way (`pc` says which await it is at), `call` a call that Fluss has yet to execute, `databases` and `tables` the catalogue, in which a dropped table stays with `live = FALSE`. One action per await of a handler and one per call that Fluss executes. |
| `AtomicCatalogue` | the promise of the API to its clients | an order is called at most once, its call takes effect at one moment and as a whole, and the answer says how: "yes" after the effect, "no" when there never is one, "unknown" when it may still come. No handlers, no awaits, no rows, no dropped tables. `RestTables` implements it (`Promise == INSTANCE`, `CatalogueIsAtomic`). |
| `RowWrites` | the promise of a write | a request's rows are applied by one operation to one table, at most once each; acknowledged means all, refused means none. |
| `ProducePath` | `produce` and the three write calls of the backend | `pc`, `op`, `target`, `next` are a handler; `buffer` is the writers' buffer, `applied` what reached tables; `kinds`, `live` are the tables created under the path. It implements `RowWrites`. |
| `LifecycleScript` | `bin/fluss-gateway.sh` | `proc`, the processes by PID, `pidFile`, and per invocation `cmd`, `fn`, `at`, `pid`; `begun` counts invocations and `disturbed` remembers one that overlapped or was interrupted. One action per system call the script makes on shared state: test, read, signal, spawn, write or remove. |
| `MC*` | | the constants of the runs. |
| `DatumsProofs` | | lemmas about the conversions, for integer types of any width. |
| `CircuitBreakerProofs`, `ConnectionPoolProofs`, `ProducePathProofs`, `GatewayServerProofs`, `LifecycleScriptProofs`, `RestTablesProofs`, `RestCatalogueProofs` | | the theorems about each module, with their proofs. |

External parts, modelled from how the source uses them: moka's `get_with` (the
handlers that miss on one key share one initialiser; when it panics or is dropped
the others try again, a bounded number of times), hyper (a handler is dropped when
its client's connection closes; a panic ends that connection's task), SHA-256
(free of collisions), the Fluss writer (buffers rows, delivers those of one bucket
in order and in the background; `flush` waits for the writer's own rows and
reports a row that could not be delivered), Fluss tables (a table created again
under its old path is another table; a call is executed once or not at all, at any time after
it was sent; a lookup gives the row of a primary key, a scan of a log gives each bucket in
order), and the operating system's processes.

Definitions whose comment starts with "Mutated:" are broken variants of the
definition that follows them. They are not part of any specification; each is
what a property was tried against, to see that it notices.

## 3. Runs

| Run | Question | Bounds |
|---|---|---|
| `breaker` | Do the half-open state, the counters, the retry budget and the recovery survive every interleaving of tasks and clock, and the loss of tasks? | 3 tasks, threshold 2, timeout 2 ticks, 1 retry, 4 calls in all, 2 tasks dropped or panicking |
| `breaker_half_open` | Does the half-open state admit one request, as `resilience.rs:103` says? No. | same |
| `breaker_recovery` | Does a circuit that opens stay open for `recovery_timeout`, short of a success, as `resilience.rs:52` says? No: one that a probe has reopened is closed at once by the loser of the race for half-open. | same |
| `pool` | Does the pool keep the promise of `PooledConnections`, and strand nobody? | 3 handlers, 2 credentials with the same `user:pass` text, one of them without a password, 2 tries, 2 connections |
| `server` | Do requests keep their identity, is every one accounted for, and does a shutdown drain, close and end? | 2 handlers and the main task, 5 setups, 4 headers, 4 credentials, 2 backend calls per handler, 2 requests, with and without a body |
| `server_drain` | Does the drain end by itself, as `DEPLOY.md:271` says? No. | same |
| `server_health` | Does a deep health check report a coordinator that is down, as `backend/mod.rs:39` says? No, it panics. | same |
| `produce` | Do the answers to writes mean what `RowWrites` promises, with drops, failures, lost clients and crashes? | 2 requests of up to 2 of 3 rows, 2 tables under the path |
| `produce_delete` | Is only a row marked `Delete` deleted, as `API.md:168` says? No, its whole request is. | same |
| `tables` | Is what the API creates, drops, looks up, scans, shows and counts what was asked, while other requests change the tables under it, fail, and lose their clients? Does the API implement `AtomicCatalogue`? | 3 requests at a time out of 31, 3 tables and one more to be made, integers of 2 to 5 bits, 3 rows in a bucket |
| `script` | Does a stop end its gateway, and does every invocation end or wait at its health check, also when invocations overlap? Is no gateway lost when they do not? All over crashes and reused PIDs. | 2 users, 4 invocations |
| `script_restart` | Does a restart stop and start the gateway, as `fluss-gateway.sh:246` says? Not without a PID file. | same |

Why the bounds are enough. *Breaker*: the race in `allow_request` needs one task
between its two locks, one that half-opens the circuit and one whose result reopens
it; three tasks give that with one to spare for a late result, and the fourth call,
by a task that has ended before, meets a circuit left behind by the others. Two losses
take the probe and a task beside it. Ages beyond the recovery timeout
are not told apart by the code, so `sinceFailure` saturates. *Pool*: a leader, a
waiter and a third handler that arrives between them; two credentials
whose `user:pass` texts are equal, so that a key without the user name would confuse
them; the second try is the last, so both branches of a retry occur; two connections,
so that an evicted one is still held while its successor is in use; one of the credentials
lacks a password, so its connections are nobody's. `MaxOpened`
makes further dials fail, which they may anyway. *Server*: the second backend call
sees a pool changed since the first; both authentication modes occur among the setups,
which also have a file that is missing, broken or of an unknown auth type, named or not, an
unknown `--auth-type`, a setting that file and command line disagree on, one that the
file leaves out, and no startup user. The headers are none, one whose password is a colon, one
without a password and one without a user.
Actions on their way out (a panic, a client that leaves) occur in every stage.
*Produce*: two requests share the buffer; the second table under the path is of
either kind; rows of one and of two buckets, to delete, to write, and one that does
not convert. The two requests are interchangeable and the run uses that symmetry
(its properties are safety properties). *Tables*: replacing the table under a
request takes a drop and a creation beside it, so there are three slots. The first serves
any request, the other two those that get in its way (drops, creations, writes), since a
request that only reads changes nothing that others see; these two are interchangeable.
There is a primary key table, a log of two buckets whose name begins with an underscore, and
a table of the types that are left; the first is replaced by one with another schema, and by a
log. The log is also looked up in and a database of its name is dropped, so the underscored name
stands last in a path of three segments, which `normalize_path` treats apart. Reals are written
that are too large for FLOAT, `NaN` and `inf`. A creation needs the drop of the first table
before it, so three slots make one table at most and `MaxTables` cuts nothing off. Integers of
2 to 5 bits have numbers that are too large for every type.

*Script*: two users race on
every step; four invocations allow start, stop, start against another stop, each over a
PID left by a gateway that crashed. `NoStrayGateway` is stated for invocations that do
not overlap and are not interrupted, since the script takes no lock: a gateway that two
overlapping invocations lose is outside it. `StopMeansStopped` and `InvocationEnds` hold for
any; they say nothing of a PID file that one invocation writes and another removes.

Deadlock is checked for `pool`. In the other runs the system really may stop: calls
are bounded, the process exits, every request has been answered.

### Fairness

`CircuitBreaker!Fairness` and `ConnectionPool!Fairness`: a task that can run and is not
dropped is polled (tokio), an operation or dial ends one way or the other, a sleep ends, time
passes. `LifecycleScript` assumes that an invocation goes on, except at its health check:
the `curl` in it sets no `--max-time`, so `HEALTH_TIMEOUT` counts its calls and does not end
one. Of the processes it assumes nothing. `GatewayServer` separates `GatewayFairness` (what the
process itself does) from `FlussFairness` (dials and calls of Fluss end) and `ClientFairness`
(a client sends the body it has begun, or leaves). The last two are assumptions about others:
the source sets no timeout anywhere. `ShutdownCompletes` holds under all three; `server_drain`
shows that under the first alone the drain need not end. Arrivals, departures of clients, the
loss of tasks, evictions, signals, crashes and the creation or removal of tables are never
forced. A client that stalls within the head of its request, or does not read its response, is
outside the model.

## 4. Proofs

Every theorem holds for all values of the constants that satisfy the assumptions next to
them, which TLC evaluates in the runs. Each of the six components has one inductive
invariant `IInv`, one lemma for each action that keeps it, and
`Invariance == Spec => []IInv`; TLC checked each `IInv` before it was proved. The properties
follow from it. `RestCatalogueProofs` adds a second one, `PathInv`, on top of the first.

| Module | Theorem | States |
|---|---|---|
| `CircuitBreakerProofs` | `TypeCorrect`, `OpenIsEarned`, `RejectionIsEarned`, `RetriesAreExact`, `HalfOpenIsDecided`, `OperationsAreConserved`, `OpenIsClosedToNewcomers` | `TypeOK`, `OpenAfterThreshold`, `RejectionsNeedFailures`, `RetryBudget`, `HalfOpenHasProbe`, `EveryOperationRecorded`, `OpenAdmitsNobody` |
| `ConnectionPoolProofs` | `TypeCorrect`, `CredentialsKept`, `DialsAreShared`, `WaitersAreServed`, `PoolImplements` | `TypeOK`, `OwnCredentials`, `SingleFlight`, `NobodyStranded`, `ImplementsPooledConnections` |
| `ProducePathProofs` | `TypeCorrect`, `AckedMeansWritten`, `RefusalLeavesNoTrace`, `KindsAreRespected`, `RowsAreWrittenOnce`, `ProduceImplementsRowWrites` | `TypeOK`, `AckedIsWritten`, `RefusedLeavesNoTrace`, `KindRespected`, `WrittenOnce`, `ImplementsRowWrites` |
| `GatewayServerProofs` | `TypeCorrect`, `ClosedPoolStaysEmpty`, `IdentitiesKept`, `WarmedUpFirst`, `RequestsCounted`, `ServerRunsThePool`, `ServerSharesDials`, `ServerImplementsPooledConnections` | `TypeOK`, `ClosedPoolIsEmpty`, `IdentityRespected`, `ServesAfterWarmUp`, `RequestsAccounted`; `Pool!Spec`, and what is proved of the pool, for the server |
| `LifecycleScriptProofs` | `TypeCorrect`, `NoGatewayIsLost`, `StopStops` | `TypeOK`, `NoStrayGateway`, `StopMeansStopped` |
| `RestTablesProofs` | `TypeCorrect`, `CreationsAreHonest`, `BatchesAreInOrder`, `ScansArePrefixes`, `RowsSurvive`, `SeriesAreApart` | `TypeOK`, `CreatedMeansMade`, `AnswersInKeyOrder`, `ScanIsPrefix`, `RowsReadBack`, `SeriesTellRoutesApart` |
| `RestCatalogueProofs` | `PathInvariance`, `ApiImplements`, `CatalogueIsConsistent` | `PathInv`, `CatalogueIsAtomic`, `Promise!Consistent` |

`CircuitBreakerProofs`, for any finite number of tasks and any threshold, timeout and
retries. The invariant joins to the properties what carries them: the number of
failures counted never exceeds the failures recorded (`FailuresCounted`), a task between
the two locks of `allow_request` saw an open circuit, so the threshold was reached once
(`UpgradersSawOpen`), and a task waiting for its answer has made no attempt
(`WaitingFresh`). `HalfOpenHasProbe` names the one task a half-open circuit waits for and is
then inductive by itself: every result leaves the half-open state, so that task stops running
in it only by being lost, which the property admits and the code cannot prevent.
`EveryOperationRecorded` counts running tasks and lost ones, so it needs cardinalities of
finite sets.

`ConnectionPoolProofs`, for any finite number of handlers and any credentials. Neither
`OwnCredentials` nor `NobodyStranded` is inductive: the first also needs that whatever is
cached under the key of some credentials was opened as their `Principal` (`CacheMatches`), which
several keys may share when it is nobody; the second
that no two handlers initialise one key (`OneLeader`), or the first to end would leave
behind the waiters of both. `KeyInjective` is where `hash_credentials` enters: for any
texts, equal keys have equal credentials, although `user:pass` does not
determine the user. `PoolImplements` is the refinement of `PooledConnections` step by step.

`ProducePathProofs`, for any requests, rows and tables. Each property alone is far from
inductive; `IInv` follows a row from the handler through the buffer to the table. A row on
its way was given to the writer of its request (`BufferTraced`, `AppliedTraced`), which is
of its table's kind (`Aimed`); a request without a writer has given it nothing (`Fresh`);
the rows of a bucket are in order in the buffer and behind what is applied
(`BufferOrdered`, `AppliedFirst`), which also makes them distinct; and no accepted row of a
running request has vanished without `flush` going to fail (`Kept`).
`ProduceImplementsRowWrites` is the refinement of `RowWrites` step by step.

`GatewayServerProofs`, for any finite number of handlers, any headers, credentials, setups
and bounds. The server is composed with the pool and so are its proofs:
`PoolProofs == INSTANCE ConnectionPoolProofs`, each step of the server is one of the pool
or leaves it alone (`ServerRunsThePool`), and `IInv` contains the pool's, so that a
handler's connection is that of the principal the handler asked for. What is added
relates the two: a handler without a request, or one that still waits for its body, has nothing
to do with the pool (`FreeIsIdle`), and requests exist only while the server serves or drains (`ServingOnly`),
which makes a closed pool stay empty (`ClosedIsEmpty`); an API request asks in the name
of its header and a health check in the gateway's (`ActsForItself`); the main task uses
the pool for the warm-up alone (`MainWarmsUp`, `WarmUpFirst`); and the configuration in
use is one that the setup loads (`Configured`), which types and identities rest on. `HandlersAssumption` keeps the main task
apart from the handlers, `CredentialsAssumption` says that whoever an accepted header or a
configuration names is among the credentials the pool is given. Since the server is a
behaviour of the pool, the pool's theorems are then read for the server (`ServerSharesDials`,
`ServerImplementsPooledConnections`): warm-up, health checks,
panics and the shutdown use the pool as its own model says it may be used.

`LifecycleScriptProofs`, for any users and number of invocations. `NoStrayGateway` only
speaks of states nobody has disturbed, and needs to know what the script, undisturbed, may
rely on between two of its steps: nobody else is in it (`OneAtATime`), the PID it has read
is still in the file (`KnowsPidFile`), and there is no gateway when it is about to spawn one
(`KnowsGateways`). `StopMeansStopped` holds even when disturbed, as a process about to be
taken out of the file has been seen or made to end (`RemovesEnded`) and a PID that is gone
never comes back as a gateway.

`RestTablesProofs`, for any requests of the API, any catalogue to begin with and integer types
of any width. `IInv` is about the catalogue (`Catalogue`: what is in it is a table, live ones
in a database, and a primary key table has no two rows of one key) and, for each request by
itself, what it has found so far (`Typed`, `Follows`, `LooksUp`, `InOrder`), what row it is
about to write (`Writes`), and what it has made (`Makes`, `Made`). That actions of other
requests keep the latter rests on one fact (`Grows`): a table never changes its path, its
schema or its maker, and none is forgotten. `UniqueKeys` is what makes a lookup return at most
one row; it is kept by writes, which remove or replace the row of their key (`AppendKeepsKeys`,
`ReplaceKeepsKeys`, `RemoveKeepsKeys`). `DatumsProofs` has what the conversions do: `Narrow`
keeps to its type and is the identity within it, `json_to_datum` gives a datum of its column's
type, and what is shown reads back when it is finite and not bytes. The assumptions are that a
width is positive and none exceeds that of BIGINT (`HalfAssumption`), that texts and JSON values are ones
(`TextsAssumption`), that requests are ones of the API, with at most one value for an optional
field (`RequestsAssumption`), and that the catalogue there is to begin with consists of tables,
no two of them at one path (`InitialAssumption`). A scan puts the rows of a poll together
bucket after bucket. `Polled` says which places of the log a poll may bring, as sequences
without repetition in the order of the log (`SetToSeqs`, no recursion), so `ScansArePrefixes`
needs no induction: that what came before a place of its bucket is all that is before it
follows from the order, the finiteness of a log, and that the log of a table without a primary
key only ever grows (`LogsGrow`).

`RestCatalogueProofs`, from the same assumptions, is the refinement of `AtomicCatalogue`, and
the one proof about all requests together. Its mapping forgets where a handler is: `Told` is
what the client has heard, `Fate` what became of the call, `Entries` the live tables without
their rows and ids. A handler's steps map to `Serve` or to a stutter, what Fluss executes maps
to `Execute`. Two things are not in `IInv`. A request that found a table long ago reads or
writes that one, while the promise speaks of the path: `Placed` says that a handler's table is
at the path its request names, and `Apart` that no two live tables share a path; `PathInv` is
both. With them a table that is still live when it is used is the one at the path. The step
that is easy to get wrong is an answer that comes while the call is still on its way: neither a
success nor a 4xx may, and only a 5xx or a lost client leaves a call that takes effect later
(`Answering`, `Failing`, `Finishing`).

Only model-checked: everything under fairness (`CallTerminates`, `LockoutIsTemporary`,
`GetReturns`, `ShutdownCompletes`, `InvocationEnds`), which is out of the prover's reach.
What a `violation` run refutes is of course not proved either.

## 5. Where code and documentation part

Each is shown by a run (see `findings` in `PROJECT.json`): the half-open state admits
everybody; a stale decision closes a circuit that was just reopened; the drain
has no limit, for Fluss or for a body; the deep health check panics; one `Delete` deletes all rows;
a restart without a PID file starts nothing.

Seen while modelling, without a run of their own: `resilience.rs:30` says
last_failure_time is when the circuit "was last opened", every failure updates it;
`resilience.rs:70` speaks of requests blocked by an open circuit, but a task that loses the
race for half-open is counted too while the circuit is closed; `execute_with_retry`
panics where `resilience.rs:205` speaks of an error; the jitter is added after the cap of
`resilience.rs:173`. The server only calls `CircuitBreaker::health`: no deployed request
passes through the breaker, so it always reports Healthy, which is what `GatewayServer`
assumes. `API.md` names 400xx for every request error while `InvalidOperation` is 422.

On configuration, `DEPLOY.md:235` says "CLI args > config file > defaults". Between the file
and the defaults this is not so: `host`, `port`, `coordinator` and `level` are empty or zero
when a file exists that leaves them out (`Absent`). A `gateway.toml` that cannot be read or
names an unknown auth type is passed over in silence, a named file that does not exist gives
the defaults, and an unknown `--auth-type` is ignored.

On identity, `parse_basic_auth` accepts a user with an empty password, and `create_connection`
(`pool.rs:76`) sets up SASL only when neither is empty: such a request, or a gateway without a
startup user, works over a connection of nobody. `IdentityRespected` says so.

On requests, `API.md:75` and `API.md:99` spell key columns `pk.{col}`, `lookup` looks for
the plain name and answers 400; `API.md:118` projects by names, `ScanParams` takes indices.
Keys of type TINYINT, SMALLINT or BYTES cannot be looked up as they are shown: text is
parsed for INT and BIGINT only, and bytes are shown in hexadecimal but taken as they are.
NaN and the infinities are shown as 0; the texts `inf` and `NaN` are accepted for FLOAT and
DOUBLE, and a number that is too large for a FLOAT column is stored there as infinity. A JSON
number that is too large for its column is stored wrapped around,
while the same number given as text is refused. `normalize_path` keeps the names of tables
that begin with an underscore, and of the tables of `PUT` and `DELETE
/v1/{db}/_tables/{table}`, in its labels; the operations are still told apart
(`SeriesTellRoutesApart`). The body limit reads `Content-Length` of POST and PUT only, and
axum's own limit on JSON bodies is below the default of `max_body_size`; `FromHead` and `FromBody` have both
answers.

In the script, `wait_for_health` runs `curl` without `--max-time`: a listener on the port that
accepts and never answers keeps a start for ever.

## 6. Not modelled, and the plan

1. Done: every component that keeps state or decides something, and the proofs of its safety
   properties.
2. Done: the abstract catalogue, that the API implements it, and that the server's use of the
   pool inherits the pool's theorems. Every safety property that a run checks is now proved.
   Left: that a write of `RestTables`, which is there a call of one row, is one that
   `RowWrites` allows; the two models share no state, and `ProducePath` has the detail.
3. Could be added: how long a backoff lasts (`CircuitBreaker` lets a sleep take any number of
   ticks, which covers every growth, cap and jitter); partitioned tables; bodies and their
   limits with their sizes.

Hazards that no property covers, with the reasons in `PROJECT.json`: the loser of the race for
half-open is rejected although the circuit is closed (`resilience.rs:112`); the number of
connections beside `max_connections` (`pool.rs:22`), since moka decides when to evict and the
model lets any entry go at any time; a write that its client sends again (`backend/mod.rs:369`),
which is another request to the gateway; two invocations of the script that overlap
(`fluss-gateway.sh:108` and `:169`), which takes no lock; and a key that the configuration file
leaves out (`config.rs:175`).

Left out for good: the installer (a sequential script), the OpenAPI declaration, wording
and logging, durations, comments and properties that are passed on unread, and the rounding
of reals. A restart by systemd or a person needs no model of its own: the process keeps
nothing, so a restarted gateway is a new behaviour from `Init`.
