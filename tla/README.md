# framego: TLA+ specifications and proofs

This directory holds a verification development for the Go library *framego*
(`src/`): TLA+ modules for its stateful parts, TLC models of small instances,
and TLAPS proofs of the central results. `PROJECT.json` maps every definition
to the lines it translates and lists runs, hazards, findings and theorems.

## 1. Inventory

| Part | State | Operations | Hard behaviour |
|---|---|---|---|
| `pool` | `closed`, `active`, idle list, token channel `ch`, `poolConnMap` under `mu` | Get, Put, Close, lazyInit, get, put | `mu` is released around Dial, TestOnBorrow and every close; tokens are sent with `mu` held; Close races with all of it |
| `uniqueid` | `lastTime`, `step`, node id (memory only) | NewGenerator(FromHostName), NewID | clocks set back, step overflow, restarts, several instances |
| `health` runner | `lastStatus`, `runningCheckCycle`, report channel (capacity 1), `stop` | AddCheck, Start, Stop, ticker loop, cycle | checks run concurrently on an unsynchronised `finalStatus`; deadlines; ticks during a cycle |
| `health` server | list of watcher channels under `statusReportLock` | Check, Watch, newStatusChan, removeStatusChan, broadcastStatus | blocking sends under the lock; clients that go away; registration racing with a broadcast |
| `datacache` DataCache | `data`, `nextUpdateTime`, `initCutOffTime` | Get, background load | readers act on old clock readings; slow and failing loads |
| `datacache` CacheMap | map of items with four fields each | Get, GetMany, updateData, updateBatch, evictKeys | two mutexes for one field; check-then-act eviction; waiting for first data |
| `copy` | codec pool | GobDeepCopy | unsynchronised creation of the pool; buffers that survive a failed decode |
| `appmgr` lifecycle | jobs, services, context, wait groups | Init, Run, RunOrExit, service and observable Run, serve*, shutdown | job errors, cancellation, signals, two goroutines per server, shutdown timeout |
| `appmgr` middleware with the interceptors of `grpcex` | the chains of a service | Apply, the interceptors | order and configuration of the chain, panics inside it, streams, the HTTP gateway |
| `errors` | code, detail, cause, cached gRPC status | New, Wrap, With*, GRPCStatus | cache and mutation through chains of causes |
| `client/cache` | keys in redis | Get, MGet, Set, Add, Update, IncrBy, Expire, Del... | retries after lost replies, typed text, other callers |
| `client/http` | one request | RequestJSON of both clients | error paths, pooled objects, two builders of one request |
| `client/database`, `client/pulsar`, `config`, `ginex`, `log`, `crypto`, `encoding`, `utils` | tables of third-party clients, or none | wrappers | mostly input and output |

How they interact: a service of `appmgr` owns a health runner and a health
server; `Run` starts the runner and refuses to serve unless the first cycle is
healthy; the server reads the runner through the `Reporter` interface (last
status and report channel). `datacache.GetCopy` calls `copy`, whose gob codecs
come from `pool`. `appmgr` creates one id generator per process, builds the
middleware chains of its services and serves them until its context is done.
Errors made by handlers become gRPC statuses in the chain.

What makes each part correct: the pool never has more than `MaxActive`
connections, never lends one twice and never loses a slot; ids never repeat;
a cycle's verdict reflects its checks, cycles do not overlap and end, watchers
learn the current status; a cache loads once per interval, waits for first data
and goes back to older data only after a load slower than that; an application
that exits cleanly has no failed job and left no job or serving server running;
the chain guards the handler, contains panics and logs each request's end; a
copy is a copy of its own source; a status reflects its error; what one caller
of the cache stores another reads back; an HTTP client takes no failure for a
success.

## 2. Modules

| Module | Models | Composes / refines |
|---|---|---|
| `Pool` | `pool/pool.go` | refines `ConnLease` |
| `ConnLease` | what a user of the pool may rely on | abstract |
| `PoolProofs` | theorems about `Pool` | |
| `UniqueID`, `UniqueIDProofs` | `uniqueid/generator.go` and theorems | |
| `HealthReporter` | the `Reporter` interface of `health/runner.go` | abstract |
| `HealthRunner` | `health/runner.go` | refines `HealthReporter` |
| `HealthServer` | `health/service.go` | extends `HealthReporter`: the server over any reporter |
| `HealthRunnerProofs`, `HealthServerProofs` | theorems about the two | |
| `DataCache` | `datacache/datacache.go` | |
| `CacheMap` | `datacache/datacachemap.go` | |
| `DataCacheProofs`, `CacheMapProofs` | theorems about the two | |
| `App` | `appmgr/app.go`, `service.go`, `observable.go`, `serve.go` | abstracts a health runner's first cycle to its verdict |
| `AppProofs` | theorems about `App` | |
| `Middleware` | `appmgr/middleware.go`, interceptors of `grpcex` | |
| `Codec` | `GobDeepCopy` of `copy/copy.go` | the pool is reduced to what its unlimited use shows |
| `ErrorStatus` | `errors/error.go` | |
| `CacheClient` | `client/cache/redis.go`, `utils.go` | over a redis server, external |
| `HttpClient` | `client/http/client.go` | net/http and fasthttp, external |
| `LibraryProofs` | theorems about the five before | |
| `MC*` | instances for TLC: symmetry sets and constant definitions only | |

Names of the source are kept where TLA+ allows it. Operators commented
`Mutant:` are deliberately wrong variants of the definition that follows them;
they are used only to show that each checked property depends on the code.

**Pool.** One step is what a goroutine does between two points where it
releases `mu`, blocks on `ch` or is inside a callback. `pc` says where a
borrower is, `held` is its local `poolConn`, `left` the rest of its prune loop.
`idle` is the linked list as a sequence, `ch`/`tokens` the channel and what is
buffered in it, `closing` the list Close detached and walks outside the mutex,
`open` the connections that physically exist. `wedged` records a panic of
`put` with `mu` locked. Time is `now`; `stamp` is the time of the last Put.
MaxConnLifetime is folded into the rejection of `TestConn`. `DialMayFail` and
`PutsNil` say whether dials fail and whether callers put back the nil they then
get, as the usage example of `pool.go:73-77` does.

**UniqueID.** A process is a pair (service id, instance index). One attempt of
`NewID` is one step (the generator's lock is held); an id in the reserved range
leads to another attempt. The cipher is a constant injection, external to the
repository. Clocks are past the generator's epoch (`generator.go:113` subtracts
it unsigned), and instances have an index of their own, as outside of debug mode. Field widths are constants (`StepCount`, `InstanceCount`, ...).

**HealthRunner.** `Main` runs Start's cycle, `Ticks` are the goroutines of
ticks. The goroutines of `compositeChecker.Check` test `finalStatus.State` and
store its three fields in separate steps, in any order: the data race of the
code at the granularity of fields (tearing inside an interface value or a
string is not modelled, nor is tearing of `lastStatus`, of which other
goroutines use the State word only). A check whose deadline passed is in
`late` until it returns or panics.

**HealthServer.** Channels are named by their watcher. `newStatusChan` and
`removeStatusChan` never block under the lock and are one step each; the
broadcaster holds the lock exactly while `bpc = "send"`. `removeStatusChan`
panics when the removed channel is not the last in the list (the loop's bound
is the old length); with the recovery middleware the handler ends without
closing the channel, otherwise the process ends.

**DataCache, CacheMap.** Milliseconds are the unit, as in the options. Data is
represented by the time its load began, so that "older" is visible. Readers
keep their own `now`, read once. The end of a load reads the clock and takes the
lock in one step of `DataCache`, in two of `CacheMap`. In `CacheMap` each key of
GetMany's loops is a step of its own; the test and the store of `nextUpdateTime` in its second loop
are separate steps, because the mutex it holds is not the one Get uses. Items
and goroutine names are reused once nothing refers to them. The values GetMany
and Get return are left out. Whether there is a batch loader and whether errors
are cached is the rigid variable `options`, so that one run covers several kinds.

**App.** `pc` is the main goroutine. A job is a goroutine with the states of
`app.go:196-203`; `chJobs` and `closed` are its channel. A server is a pair
(service, protocol) with two goroutines: `serve` is the one in Serve, `stop` the
one that waits for the context; they meet in the listener `lis`, the connections
`busy` and the wait group `wg`. A stop closes the listener only if Serve has
started; a Serve that starts later closes it itself. A signal before Notify has its default action.
Init's steps all end in the same exit and are one action.

**Middleware.** A request is a record that walks down the frames of its path and
back up, one step per frame; panics start in the handler or in a middleware. `starts` and
`logs` are the lines log_request writes on the way down (of a stream) and up.
The gateway's path is the Gin chain followed by the gRPC chain of the in-process
channel, whose handler runs in a goroutine of its own.

**Codec.** Calls are at the points where the code may be preempted. `buffer` is
what an encoder wrote and no decoder took. `spoiled` remembers codecs that were
given a destination that is no pointer (section 5). There is no pool before the
first call.

**ErrorStatus.** Errors are numbered in the order of their creation; a cause has
a smaller number or is a foreign error with a status. Messages are the numbers.

**CacheClient.** A command takes effect at the server once or, when its reply is
lost and it is sent again, twice. A stored value remembers the type it was
written as and its text; `Wide` and `Narrow` are half the number of values of
int64 and of int8. IncrBy refuses numbers that are not an int64, before and after.

**HttpClient.** Both clients work on one request in steps and keep what they were
given to send; what the two libraries add on the wire (chunks, user agent,
compression) is left out, and so are the resources that are released by defer.

## 3. Runs

Passing runs (small instances, full state space):

| Run | Bounds | Shows |
|---|---|---|
| `pool_wait` | 4 borrowers, MaxActive 3, MaxIdle 2, clock 0..3, dials that fail and Puts of the nil they return | counter, limit, safe sends, ownership and list order in every interleaving; refinement of `ConnLease` |
| `pool_live` | 3 borrowers, MaxActive 2, dials that fail, no Put of nil, fairness | every Get returns; the lease with its fairness, so that Close drains |
| `id` | accepted and refused pairs of 2x2, one clock set back at will, one process that restarts | no id repeats, fields never overlap |
| `runner` | 2 checks that may hang or panic, 2 tick goroutines, with `panicOnError` | one cycle at a time, sound verdict, refinement of `HealthReporter`; cycles end; rest after Stop |
| `server` | 2 watchers, streams that may fail, recovery on, 2 statuses, fairness | exact channel list, watchers agree with the reporter; watchers catch up unless a client is just leaving |
| `cache` | 3 readers, 3 loaders, loads of up to 3 with a retry interval of 2, clock 1..7, with and without cached errors | one load per interval, wait for first data, older data only from a slow load |
| `map` | 2 readers; one key read with Get, one with GetMany; with a batch loader, and without one but with cached errors; 3 loaders, loads of up to 2 with a retry interval of 1; eviction; clock 1..4 | one load per item and interval, an item is never replaced under its readers, older data only from a slow load |
| `app` | 2 jobs and an unregistered name, a service with both protocols, one with none, the observable service | sends on `chJobs` are safe, no job and no serving server left running and no failed job in a clean exit, panics only while stopping, a signal or the end of the jobs ends Run |
| `library` | see below | guarded handler, one closing log line, contained panics; exact copies, panics after a race only; fresh and inherited statuses; exclusive Add, read-back; sound success of the HTTP clients |

`library` holds `Middleware`, `Codec`, `ErrorStatus`, `CacheClient` and
`HttpClient`, which share no state: the rigid variable `part` of `MCLibrary`
says which of them moves. Its bounds: middleware lists of up to three entries,
with repeated, unknown and faulty ones; 2 copiers that start without a pool,
2 codecs, 3 pools, buffers of 2 messages; 3 errors, codes 0
and 5, two details of which one cannot be encoded; 2 callers, 2 keys, one retry
(as configured in `redis.go:40`), integers of 4 and 3 bits; every shape of an HTTP
request; no answer, one that breaks off, a 500, a 200 with or without JSON, a
redirect. Chains of three errors contain a wrapper of a
wrapper; a race on a key or a codec has two sides.

Runs that end in a violation, each of a sentence of the repository:

| Run | Sentence | Behaviour |
|---|---|---|
| `pool_nil` | `pool.go:146`, "waits for a connection to be returned", with the usage of `pool.go:73-77` | Put of the nil that Get returned after a failed dial leaves the mutex locked, and a waiting Get never returns |
| `server_stuck` | `runner.go:68`, "consumed immediately" | broadcaster and leaving watcher deadlock |
| `map_double` | `datacachemap.go:55`, "Only one goroutine" | Get and GetMany load the same key |

**Bounds.** The limits of the pool are below the number of borrowers, so
exhaustion, waiting and eviction happen; the clock exceeds the idle timeout.
Two checks are enough for every race on `finalStatus` (a third adds no new pair
of racing steps). The clock of `cache` runs over three expirations, that of
`map` over one expiration and one eviction. In both, loads may be slower than
the retry interval (`MaxLoad`), so that a second and, in `cache`, a third load
of the same data starts beside a first that is still to end. What is stored
lasts at least the retry interval: with a shorter expiration the end of a slow
load makes data due within the interval of another load (section 5). `Prompt`
(and, in `CacheMap`, the guard of `Tick`) says that a goroutine that can run
does so before the next millisecond: without it the promise fails too. A pool
that refuses instead of waiting is not an instance of its own: the theorems of
section 4 hold for both kinds. A pool whose mutex a Put of nil left locked
stops, and clocks are bounded, so the cache models stop: their runs do not
check for deadlock. A third status would only repeat what two show to a
watcher; `ListExact` and `WatchersAgree` are theorems for any set of them. The
health runner stops after Stop, a panic or a crash, the application when Run is
over, and the calls of `library` may all have been made: these runs do not
check for deadlock either. The type invariants are conjuncts of `OneCycle`,
`ListExact`, `SingleLoad` (of `DataCache`) and `JobSendSafe`, and parts of the
inductive invariants of section 4; those of `Pool`, `UniqueID`, `CacheMap` and
`LibraryProofs`' components are stated in the proofs only.

**Fairness.** Goroutines that can run do run (weak fairness of each step);
receivers of a channel and waiters of a mutex are served in order or by the
starvation mode of `sync.Mutex` (strong fairness of `Receive` in the pool and
of `removeStatusChan`); deadlines of a context fire. Borrowers put back what
they got, and a `Send` on a stream completes one way or the other; check
functions need not return, and nobody need call Get, Stop or Close. In `App`
timers fire and a job returns once its context is done, but may run for ever
before; connections may stay for ever, and nobody need send a signal. `pool_live`
has no rejecting borrow test: with one, a borrower may spin in the borrow loop
on connections that others keep returning, and no fairness of the scheduler
excludes it.

## 4. Proofs

Every invariant, every action property and every refinement without fairness
of the passing runs is a theorem checked by TLAPS, for every value of the
constants that satisfies the named assumptions of its module: `PoolAssumption`,
`UniqueIDAssumption`, `EncryptAssumption`, `ReporterAssumption`,
`RunnerAssumption`, `StatusAssumption`, `ServerAssumption`, `CacheAssumption`,
`MapAssumption`, `AppAssumption`, `CodecAssumption`, `CommandAssumption`,
`HttpAssumption`, `MiddlewareAssumption`. They say that sets of goroutines,
jobs and checks are finite where the code counts them, that `None` is not a
value, which options exist and which forms the calls have; `EncryptAssumption`,
that the external cipher is injective, is the only one about behaviour. Five
theorems, of three modules, have a further hypothesis called `Regime`; sections
3 and 5 say what happens outside of it.

- `PoolProofs!TypeCorrect`, `AccountingHolds`, `SendsNeverBlock`,
  `ConnLimitHolds`, `SoleOwnerHolds`. `Accounting` alone is not inductive: that
  tokens never run over needs `TokenBalance` (tokens plus the borrowers past
  the receive are exactly `MaxActive` while the pool is open), which needs to
  know that the channel is initialised and closed together with the pool
  (`ChannelOK`); the limit needs that Close moves what it subtracts from
  `active` to `closing` (`ActiveLimit`, `ListsOK`). `CountingInv` is their
  conjunction. Ownership is a second invariant on top of types. The bound on
  physically open connections combines both: open connections inject into the
  idle list, the borrowers that count and the list of Close.
- `PoolProofs!IdleListHolds`: a Put keeps the list in order because no stamp
  lies in the future (`IdleInv`); that a step changes no stamp of a connection
  in the list is ownership again.
- `PoolProofs!PoolImplementsLease`: every step of the pool is a step of
  `ConnLease` or leaves its variables unchanged (`LeaseStep`).
- `UniqueIDProofs!UniqueHolds`: under `Regime` (the processes that restart have
  clocks that never go back and are past what they handed out; the clocks of
  the others move freely) no id is minted twice. The inductive invariant says
  that every minted id is the encryption of a triple (time, node, step) not
  after the current one of its node; injectivity of packing and cipher do the
  rest. `FieldsFitHolds` and `TickGrowsHolds` need no regime, only `TInv`:
  types, the bound on the step and that living generators passed the tests on
  their service id and instance index.
- `HealthRunnerProofs!OneCycleHolds`: `OneCycle` with one more fact, that no
  cycle is under way before Start (`NotStarted`). `VerdictHolds`: `WorkersOK`
  ties each check goroutine to what its check answered, also in the middle of
  its racing stores, and `FinalOK` says that `finalStatus` is in the state of one
  of them if it is not healthy, and is not healthy once one of them has stored
  its state or has seen that another did.
  `RunnerImplementsReporter`: a step of the runner changes the status, offers a
  report or stutters; the status that was assigned and not offered yet
  (`Pending`) is that of the one cycle at its report (`PendingOK`).
- `HealthServerProofs!ListExactHolds`: `Exact` adds to `ListExact` that the
  channels of all clients that watch are open and that the broadcaster has only
  such clients left to send to. `WatchersAgreeHolds`
  accounts for every status under way: in the report channel, in the hands of the
  broadcaster and still to be sent to `left`, or in the channel of a watcher
  (`Delivered`, `InFlight`).
- `DataCacheProofs!SingleLoadHolds`, `DataGrowsHolds`: `Regime` asks for
  `Prompt` readers, and that a load ends within the retry interval or that what is
  stored lasts at least as long (`Lasting`); loads may overlap in the second
  case. `LoadsOK`: a load under way keeps `nextUpdateTime` at least the retry
  interval after its start, is that far apart from every other load, and began no
  earlier than the load of the data, or that long before it. So what an ending
  load overwrites is older, or newer by the interval at least.
  `WaitsForFirstHolds` (`ReadersOK`, `WaitOK`) needs no regime.
- `CacheMapProofs!OneItemHolds` rests on `Owned`: an item belongs to one key for
  everyone who refers to it. `SingleLoadHolds` and `ItemDataGrowsHolds` need
  `Regime`: no key is read both with Get and with GetMany, and loads are fast or
  data is `Lasting`, as above. `ClaimsOK`: the loads of an item are more than the
  interval apart and hold off the next; a reader's claim is the only one and comes
  that long after every load. `MarkOK`: what GetMany has tested and not marked yet
  may still be claimed, even if a load ends in between. When the two
  readers share a key one step breaks that: Get renews an item that a GetMany has
  tested, which run `map_double` shows.
- `AppProofs!JobSendSafeHolds`, `ErrorNotLostHolds`: `JobsOK` and `ErrorsOK`
  count what is in `chJobs` against the jobs that have ended, and keep the
  error of a failed job in it until Run selects. `StoppedOnReturnHolds`,
  `PanicOnlyAtStopHolds`: `ServersOK` relates the two goroutines of a server,
  its listener and the wait group, whichever of the two runs first; `WaitOK` is
  what Run knew when it returned.
- `LibraryProofs`, about the specification of each of the five components on
  its own (`CacheSpec`, `CodecSpec`, `HttpSpec`, `ErrorSpec`,
  `MiddlewareSpec`); run `library` lets one of them move at a time.
  - `AddExclusiveHolds`: the counter of winners is 0 for an absent key
    (`AddedOK`). `ReadBackHolds`: what is stored is the text of the value it
    comes from (`Sound`), a text is read back as its own type (`RoundTrip`, for
    integers of any two widths), and the order in which MGet asks has each of
    its keys once (`OrderOfKeys`).
  - `CopyExactHolds`, `PanicNeedsRaceHolds`: a codec is in one pool or in
    one call (`LeasesOK`), and its buffer is empty unless its call has encoded
    and not decoded (`BuffersOK`); as long as one pool was made every codec is
    on its way back to it (`FirstPool`), and a codec on its way back arrives
    whatever the other calls do (`ReturningStep`).
  - `SuccessSoundHolds`: `HttpInv` says that the state of a call is one of the
    stages on its way, each a function of the request and the answer.
  - `StatusFreshHolds`, `InheritsNearestHolds`: `ErrorsOK` says that a cause is
    older than its wrapper and that a cached status is current. The chain of
    causes is a recursive function; facts about all chains are proved from
    the least error that would be a counterexample (`LeastNat`), since the
    library's induction rules cannot be instantiated.
  - `HandlerGuardedHolds`, `LoggedOnceHolds`, `PanicContainedHolds`:
    `AppliedOK` says that the chains are what Apply makes of the configuration,
    in its order (`KeptIs`); `WayOK` that the frames a request is past have let
    it through; `PanicOK` where a panic can have come from; `LogsOK` that
    closing lines are written exactly for the logging frames between the
    position of the request and the deepest it has been, and opening lines for
    all it has been through.

Only model-checked, and why:

- liveness (`GetReturns`, `ImplementsFairLease`, `CycleEnds`,
  `Quiesces`, `WatchersCatchUp`, `RunEnds`): the prover has no rules for
  fairness and ENABLED;
- the runs that end in a violation.

## 5. Behaviour to know about

What the code does and a user might not expect. The models contain these
behaviours, so none of the properties above excludes them.

- `pool.go:353`: `Put(nil)` on an open pool dereferences nil with `mu` locked.
  The usage example (`pool.go:74-75`) puts back whatever Get returned, which is
  nil when a pool without `Wait` is exhausted or a dial fails. The mutex stays
  locked and every later call on the pool hangs (run `pool_nil`).
- `generator.go:114`: `lastTime` lives in memory. A process that restarts while
  it is ahead of the clock repeats ids; `RestartEarly = FALSE` excludes that, and
  processes whose clock is set back do not restart in run `id`. Left out: a clock
  before the epoch (`generator.go:113` underflows) and debug mode, which gives
  every instance the index 0.
- `runner.go:190-191`: a check that timed out and tested `finalStatus` before
  another check stored its error overwrites that error with Unknown, so that
  `WithPanicOnError` does not panic; the Source and the Error of two failing
  checks can mix. `VerdictSound` is what remains true.
- `service.go:31`: the rpc Check answers SERVICE_UNKNOWN before the first cycle
  ends and after a timeout.
- `runner.go:112`: before a panic crashes the process the deferred close of the
  channel lets the cycle read a zero status, which counts as Unknown.
- `datacache.go:88`: `nextUpdateTime` is computed from the clock reading at the
  start of Get. A reader that is descheduled in between (`Prompt = FALSE`) sets
  a time in the past, and a second load starts beside its own.
- `datacache.go:107-110`, `datacachemap.go:103-109`: a load that takes longer than
  the retry interval is joined by a second one. When it ends last it puts its
  older data back; `DataGrows` and `ItemDataGrows` bound what may happen: the load
  it overwrites began at least the retry interval later. With an expiration below
  the retry interval the end of a slow load makes the data due at once, and loads
  are closer than the interval although `datacachemap.go:55` promises one.
- `datacachemap.go:128`: `evictKeys` deletes the keys it chose under the read
  lock without looking again, also those accessed in between. An item that was
  evicted while its load ran is loaded again beside it; `SingleLoad` is per item.
- `datacachemap.go:308`: without a batch loader GetMany waits out WaitTimeout
  although its data has arrived.
- `serve.go:78`: when the context is done before the goroutine in Serve was
  scheduled, the Serve of gRPC returns ErrServerStopped and the goroutine panics.
  With HTTP (`serve.go:36`, `:55`) `http.Server` does not know the listener yet
  and Shutdown leaves it open: Run may return and `app.go:262` say that all
  services stopped while the socket still listens, until the goroutine of Serve
  runs and closes it. `StoppedOnReturn` makes that one exception.
- `app.go:241`: a job's error makes Run return at once; other jobs and the
  servers go on until RunOrExit ends the process. An error that comes after a
  signal, or that select passes over for one, is logged and otherwise lost
  (`ErrorNotLost` speaks of the end of all jobs only). The case of `ctx.Done()`
  cannot be reached before another case was. HTTP connections may outlive the
  shutdown timeout. A signal before Notify kills the process without a shutdown.
- `middleware.go:63`: an unknown middleware without a service (the observable
  service, a client) dereferences nil while the error is logged.
- `access_controller.go:108`: without TLS the peer has no AuthInfo and the
  request panics.
- `copy.go:96`: a destination that is no pointer leaves the message in the
  buffer; the next copy on that codec returns it. Racing first calls create two
  pools, and Put of a codec into the other one panics with its mutex locked.
  `PanicNeedsRace` says that it takes two such creators, and that the danger is
  over once every codec is on its way back to the pool in use and nobody is about
  to create another.
- `error.go:43` and `docs/errors.md:39` say that changes after GRPCStatus are not
  reflected. The mutators do reset the cache; what stays is the status that a
  wrapper inherited from a cause that changed later, or takes over from a cause
  without a code that cached it before (`InheritsNearest`). `docs/errors.md:123`
  says that the code is Unknown if not set; it is inherited from a cause first.
  One detail that structpb cannot encode drops all of them.
- `client/cache`: the comments of Add and Update (`client.go:22`, `:62`) are
  interchanged. After a lost reply Add may return false although it added, and
  IncrBy may count twice. Expire with KeepExpiration deletes the key. Reading
  into a narrower integer truncates silently. MGet replaces the pointer of an
  absent key by nil, so that a map that is used again loses it.
- `client/http`: a URL that does not parse panics in both clients; the fasthttp
  client appends a second "?" to a URL with a query, sends no body with GET, and
  returns an error when there is nothing to decode into. It follows no
  redirects, and sends a default content type with a POST that has none;
  `net/http` does the one and not the other. `client.go:261` allows a DataMap or a
  struct for any format, but Raw takes strings only. A header whose value is a
  pointer to anything but a struct is sent as "{}".

## 6. Not modelled

Input and output of third-party libraries (gorm, redis, pulsar, net/http, gRPC
transport), logging, encodings, ciphers, generated code. `Stats` and the counts
of the pool only read. `config` (typed reads of a map that is filled once),
`client/database` and `client/pulsar` (tables of clients filled at start), the
text form of ids, and the modules of the observable service keep no state that
two actors could see differently. See "components" in `PROJECT.json` for each
part.

## 7. Plan

1. Done: `Pool` with `ConnLease`, `UniqueID`, `HealthRunner`, `HealthServer`,
   `DataCache`, `CacheMap`, `App`, `Middleware`, `Codec`, `ErrorStatus`,
   `CacheClient`, `HttpClient`; theorems for all their invariants, action
   properties and, without fairness, refinements.
   `DataCache` and `CacheMap` with loads that overlap, `Pool` with dials that
   fail in the liveness run.
2. Next: how much of `DataGrows` and of `SingleLoad` of the caches remains when
   the clock may outrun a reader; a step property for the order in which a
   watcher sees the statuses of a reporter.
