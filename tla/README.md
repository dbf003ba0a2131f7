# konekti, verified

TLA+ models of the concurrent core of the konekti framework, the TLC runs that
check them on small instances, and TLAPS proofs, for instances of every size, about the
dependency-injection container, the application over its platform shell, the cron
scheduler and its distributed lock, refresh tokens, transactions, Redis Streams and the
throttler.

konekti is a TypeScript application framework: a module graph is compiled into a
dependency-injection container, an application is bootstrapped over it and over
registered platform components, and packages for HTTP, WebSockets, message
brokers, scheduling, sagas, caching, queues, tokens and delivery hang their life
cycles on the application's hooks. Everything runs on one JavaScript event loop.
What goes wrong in such code goes wrong between two `await`s: state read before an
await is used after it, two calls share a promise, a `close()` overtakes a
`listen()`, a retry meets what the first attempt left, a client leaves. The models
therefore make **one action of one stretch of code between two awaits** and leave
the order of the stretches open.

## 1. Inventory

| part | state it keeps | operations | depends on | what is hard |
|---|---|---|---|---|
| `di` container | registrations, singleton and request caches of *promises*, request scopes, stale disposals, disposal promise | register, override, createRequestScope, resolve, dispose | factories and `onDestroy` hooks | calls sharing a creation, overrides between two awaits, cycles over several calls, disposal with creations in flight, retried disposal |
| `runtime` application | state, adapter binding, closing promise, children | bootstrap, listen, close, connectMicroservice, startAllMicroservices | container, platform shell, adapter, hooks | close during listen or start, rejecting hooks, retried close |
| `runtime` platform shell | started, stopped, order, pending rollback | start, stop | platform components | order, partial start, failing rollback, restart |
| `runtime` module graph | compiled modules, cache by metadata version | compileModuleGraph | metadata | order of imports, cycles, what a module may inject, stale cache |
| HTTP adapters (six hosts) | server, dispatcher, requests under way, close promise | listen with retries, requests, close with drain | the host's server | close during listen, requests during close, drain timeout |
| readers of bodies | bytes read so far | materialize, parse | the host's stream | limits, bodies that break off, refused bodies |
| native routes | the host's router beside the mapping | register, match | Express, Fastify, Bun | two matchers that must agree |
| `http` dispatcher | request container, response, observers | dispatch | middleware, guards, interceptors, handlers | answers from everywhere, next() twice, aborts, streams |
| `websockets`, `socket.io` | sockets, reservations, queues, rooms | upgrade, message, disconnect, shutdown | guards, handlers, sockets | buffering before ready, order, limits, shutdown |
| `graphql` | operations and their containers by socket and id | subscribe, complete, stream an answer, shutdown | graphql-ws, yoga | reused ids, clients that leave, failing streams |
| `microservices` service and transports | handler instances, pending requests, consumer groups, calls | send, emit, listen, close, dispatch | brokers, gRPC | close during listen, aborts before publishing, redelivery, streams |
| `cron` scheduler | registry by name, timers, running ticks | add, remove, enable, disable, updateCronExpression, bootstrap, shutdown | timers, lock manager | a name reused while its tick runs, shutdown with ticks that never end |
| `cron` distributed lock | owned keys, renewal deadlines; the Redis key | acquire, renew, release, release at shutdown | Redis, clock | stalled event loop, lost replies, leftovers, crash |
| `cqrs` saga bus, event bus | per-saga promise chains, active work | dispatch, publish, publishAll, shutdown | handlers, event bus | nesting, failure in the middle of a chain, waiting on each other, order of shutdowns |
| `event-bus` | subscriptions, active publications | publish, shutdown drain | transport | what the drain waits for, timeouts |
| `cache-manager` service and interceptor | in-flight loads, reset version, invalidation marks; the store | remember, del, reset; read-through and deferred eviction | store, response | invalidation during load and store, fallback timer against response |
| `queue` service | life-cycle state, start promise, resources, dead letters | ensureStarted, enqueue, shutdown | Redis, BullMQ | failed start rolled back by several callers, shutdown over a start, forced close |
| `config` reload | snapshot, listeners, file hash | reload, watch | files | reload inside a notification, rollback of a rejected snapshot |
| `jwt` | refresh-token store; cached keys | issue, rotate, revoke; sign, verify | store, identity provider | concurrent rotation, failure between two store calls, withdrawn keys, which key |
| `passport` | requests under a strategy | authenticate, link accounts | strategies | callbacks, promises and timers that settle one request |
| `throttler` | windows | consume | memory or Redis | window boundaries, sweeps |
| `prisma`, `mongoose`, `drizzle` | open transactions, sessions | transaction, requestTransaction, shutdown drain | clients | a transaction that begins while shutdown does, nesting, aborts |
| `email`, `slack`, `discord`, `notifications` | shared transport | send, init, shutdown; dispatchMany | providers, queue | shared creation, shutdown during start, partial failure of a batch |
| `i18n` | catalogs in flight and cached | load, invalidate; negotiate, translate | provider | overlapping loads, fallbacks |
| `cli` dev runner | child process, pending restarts, content hashes | watch, restart, stop | child, files | edits during a restart, signals |

The remaining packages keep no concurrent state of their own: decorators and
metadata, validation, serialization, OpenAPI, scaffolding, studio, testing; or they
wrap a client library (redis, metrics) or fan out once (terminus, the command and
query buses). Each is listed with its reason in `PROJECT.json`.

How the parts meet: the application compiles the module graph, resolves its
life-cycle services from the container, starts the platform shell, and calls hooks;
`close()` closes the microservices, runs the shutdown hooks (the shell's `stop()` is
one of them; buses, scheduler, queue, databases, gateways and delivery hang their
shutdown on others), closes the adapter and disposes the container. A request passes
host, reader, router, dispatcher, guards and handler. The parts share promises, not
memory: what one awaits, another settles.

What makes each part correct, in one line each:

- *container*: one live instance per provider and cache; never a replaced, foreign or
  destroyed dependency in a cache; everything that was cached is destroyed, once.
- *shell*: start order is a topological order whenever there is one; nothing that runs
  is forgotten.
- *application*: ready means serving, closed means released, whoever overtakes whom.
- *module graph*: what compiles is exactly what is visible; nobody sees through an import.
- *hosts*: nobody who was let in waits for a host that has closed; two matchers choose one route.
- *bodies*: a handler is given the whole body or is not called.
- *dispatcher*: one answer; when it is over, its container is closed and its observers know.
- *sockets*: connect first, messages in order, disconnect last, limits kept, scopes around operations.
- *transports*: ready means listening; after close nothing is pending, published or begun; acknowledged means handled.
- *scheduler*: an enabled task has exactly one timer; nothing runs once shutdown began.
- *lock*: a run that reports success held its lock throughout; leftovers expire.
- *sagas and buses*: executions of one saga do not interleave; dispatches settle; drains wait for what they promise.
- *cache*: a stale value in the store will be removed; a load is shared; a write evicts, once.
- *queue and delivery*: what is open is somebody's to close; shutdown is final and complete; every outcome is told once.
- *config and dev runner*: what runs is what was accepted, in the end what is saved.
- *tokens and guards*: one successor per refresh token, none after a revocation; a signed token verifies; no key outlives its withdrawal; one ruling per request.
- *throttler*: no window lets more through than its limit, and every window ends.
- *databases*: no tracked transaction is open when the connection is disposed of.

## 2. Modules

| module | models | source (under `packages/`) |
|---|---|---|
| `Container` | the container, on the level of its promises | `di/src/container.ts` |
| `SharedCells` | abstract: one creation per cell | what `Container` promises of sharing |
| `ContainerProofs` | theorems about `Container`: types, destruction, caches, isolation of scopes | |
| `DependencyOrder` | the start order as a recursive function | `runtime/src/platform-shell.ts` |
| `DependencyGraphs` | `start()` on every small registration | as above |
| `PlatformShell` (EXTENDS `DependencyOrder`) | start, stop, rollback | as above |
| `Application` (EXTENDS `PlatformShell`) | bootstrap, listen, close, microservices, **composed with the shell** | `runtime/src/bootstrap.ts` |
| `ApplicationProofs` | theorems about `Application` and its shell | |
| `ServerLifecycle` | abstract: listen and close of one server | what the application and each microservice promise |
| `ModuleGraph` | compileModuleGraph on every small graph | `runtime/src/module-graph.ts` |
| `HttpHosts` | listen, requests and close of six hosts | `runtime/src/node`, `platform-*/src/adapter.ts` |
| `RouteTables` | the dispatcher's matcher beside the host's | `http/src/dispatch`, `platform-*` |
| `RequestBodies` | reading a body against its limits, and the one answer around it | `runtime/src/web.ts`, `multipart.ts`, `node`, `platform-express`, `platform-fastify` |
| `Dispatcher` | one request through the pipeline, streams included | `http/src/dispatch/dispatcher.ts` |
| `WebSockets` | gateways on Node, Bun, Deno and Workers | `websockets/src` |
| `SocketIo` | the namespace of a gateway | `socket.io/src/adapter.ts` |
| `GraphqlOperations` | scopes of operations over sockets and HTTP | `graphql/src` |
| `MessageTransports` | the service over TCP, NATS, Kafka, RabbitMQ, MQTT, Redis Pub/Sub | `microservices/src/service.ts`, `transports` |
| `MessageHandlers` | from a packet to its handlers and answer | `microservices/src/service.ts` |
| `RedisStreams` | consumer groups, acknowledgement, pending entries | `microservices/src/transports/redis-streams-transport.ts` |
| `GrpcTransport` | calls and streams of both sides | `microservices/src/transports/grpc-transport.ts` |
| `NetworkProofs` | theorems about `RedisStreams`, `HttpHosts`, `WebSockets`, `SocketIo`, `MessageTransports`, `MessageHandlers`, `GrpcTransport`, `GraphqlOperations` | |
| `CronScheduler` | tasks, timers, ticks on one node; its theorems | `cron/src/service.ts` |
| `CronLock` | the lock of one task over several nodes and Redis; its theorems | `cron/src/distributed-lock-manager.ts` |
| `SagaBus` | dispatch and drain | `cqrs/src/buses/saga-bus.ts` |
| `EventBus` | publish, inbound messages, drain | `event-bus/src/service.ts` |
| `CqrsEvents` (EXTENDS `EventBus`) | the CQRS event bus **composed with the event bus** | `cqrs/src/buses/event-bus.ts` |
| `CacheService`, `CacheInterceptor` | remember, del, reset; read-through, eviction | `cache-manager/src` |
| `QueueService` | the queue's life and its dead letters | `queue/src` |
| `ConfigReload` | the reloader under either of its managers | `config/src/load.ts`, `reload-module.ts`, `module.ts` |
| `RestartRunner` | `fluo dev`'s child under edits | `cli/src/dev-runner/node-restart-runner.ts` |
| `TransactionDrain` | transactions against disposal; its theorem | `prisma`, `drizzle`, `mongoose`, `runtime/src/request-transaction.ts` |
| `RefreshTokens` | rotation over three kinds of store | `jwt/src/refresh`, `passport` |
| `ServiceProofs` | theorems about `RefreshTokens`, `ConfigReload`, `EventBus` and `CqrsEvents`, `PassportGuard`, `RestartRunner`, `CacheService`, `CacheInterceptor`, `SagaBus`, `QueueService`, `Delivery`, `I18n`, `Notifications` | |
| `SigningKeys`, `TokenKeys` | fetched keys; which key signs and verifies | `jwt/src/signing` |
| `PassportGuard` | the guard, bridged strategies, account linking | `passport/src` |
| `Throttler` | windows in memory and in Redis; its theorem | `throttler/src` |
| `Delivery`, `Notifications` | email, slack, discord; batches | `email`, `slack`, `discord`, `notifications` |
| `I18n` | remote catalogs; negotiation and fallbacks | `i18n/src` |

`PROJECT.json` maps each definition to the lines it stands for.

The instances for TLC are in four modules: `MCContainer` and `MCCron`; `MCRuntime` (graphs
and routes, shell and application, hosts, buses, config, dev runner, databases, tokens,
guards, throttler); and `MCServices` (bodies, dispatcher, locales, transports, sockets, sagas,
cache, queue, delivery).
**Scenarios.** Every one of them checks its modules on many small programs rather than
on one product. A record holds the programs, the initial state chooses one, the module
is instantiated with that program's constants, and whatever takes no part stands still.
One run explores all scenarios that its configuration names.

### How the models read

**Container.** A cache holds promises, so a creation is an identifier in `1..MaxIds`
and the instance it is fulfilled with has the same one. `promise[i]` is the
creation: its provider, the cache it belongs to (`home`), the container it is built
in (`within`), its call (`owner`), the next dependency, what was injected (`deps`),
and its state: `new` (its call is descending into it; it is not in the cache yet),
`pending` (the call waits for a dependency), `building` (factory called), then `ok`
or the failure. A call runs without interruption (`running`) from one await to
the next: `Looking` and the actions of `Lookups` are the body of
`resolveWithChain`, `StorePromise` and `Suspend` are the return through the frames up
to the caller's await, `ResumeWithDependency` and `ResumeWithFault` the
continuations. A creation that fails evicts its token from its cache, whatever promise is
there by then; where that was a newer one, the newer creation becomes a `stray`, which its
caller still gets but the container no longer answers for. `ActiveTokens` is the chain of tokens being resolved. Disposal of a container
runs through the phases `children`, `stale`, `settle`, `destroy`, `done` or
`failed`; `stale` and `StaleDisposal` are the background destruction of
instances that an override replaced.

**Application and shell.** `boot`, `listening`, `closing`, `starter` and
`op` are program counters of the five long operations. `closing` has one phase per
await of `close()`: the listen in flight, each child, each hook, the adapter, the container. A
hook that stops the shell hands over to `PlatformShell`'s actions through `op`, and
continues when `last` reports the outcome.

**HttpHosts, Dispatcher, RequestBodies.** A host looks at what its close() looks at: the Node family at
`server.listening`, the others at a promise and a counter. A dispatch is a stack of
the stages that called `next()`; a step is what happens between two awaits, and the
client may leave between any two. A body is a sequence of pieces that arrive one by one; the
readers differ in when they compare, in what they hold, and in what they must cancel.

**RouteTables, ModuleGraph, TokenKeys, I18n (locales), DependencyGraphs.** Algorithms without
concurrency: the initial state chooses an input from every small one, the steps
compute, and the invariant compares with a definition of what the result means.

**CronScheduler.** A task state and a timer are objects with identities, because
the code keeps both: removing a name and adding it again makes new ones while
a tick of the old task may still run. `owed` is history: tasks somebody asked to
have scheduled, and that did not tick since.

**CronLock.** Time is a counter of units. A request reaches Redis in one step; only
SET's reply is a step of its own, because the renewal deadline is computed from the
time before it. Timers may be late by up to `Late`; a reply may be lost before or after Redis
applied the request; a node may crash.

**SagaBus.** An execution is a record; its `path` is the stack of executions it was
published from and `prev` the one it is chained behind. A handler publishes its events
one after the other, awaits each, and may swallow its failure.

**EventBus and CqrsEvents.** A publication's work is its handlers and one item for its
channels; what the drain does not wait for leaves the active set. The CQRS bus drives the
event bus through its own `publish`, and shuts down before it.

**CacheService, CacheInterceptor.** One key. Values are versions of the data that the
loader reads. A request to the store is applied some time before it returns.

**QueueService, Delivery.** A start is an object that its callers share; resources are
(kind, set) pairs; whoever closes them takes them first. A delivery service's transport
is a promise its callers share in the same way.

**MessageTransports, RedisStreams, GrpcTransport.** The frame of a request goes out one microtask
after the request is registered, and microtasks run before anything else (`Quiet`). Brokers may
repeat frames and replies. A stream's loop reads a batch, handles its entries and acknowledges
each; Redis keeps what was read pending. A gRPC reader has a buffer, a waiter and an end.

**WebSockets, SocketIo, GraphqlOperations.** A client takes a slot, is guarded, is bound, its connect
handlers run while its messages wait, and it leaves at any time. An operation of GraphQL owns a
container by socket and id.

**RefreshTokens, SigningKeys, Throttler, TransactionDrain, ConfigReload.** Calls to stores, providers and clients are
steps that may fail, or whose answer may be lost after the call was carried out. Reloading configuration is
synchronous, so what interleaves is the stack of notifications. `Manager` says which manager a reloader has:
`ConfigModuleWatchManager` aligns the service with the reloader that it makes (`Creates`) and has neither
listeners nor `reload()`; `ConfigReloadManager` leaves the service what it has until a reload is adopted, so that
a file written between the service's own load and the making of the reloader is not seen before the next
reload, and makes another reloader when it is asked to reload after `close()`. A reload that is queued when a
listener closes the manager still reads the file, and neither service nor listeners hear of it (`ReadsInVain`).
Left out: a manager that is closed and reloaded by listeners of one notification, and both managers at once,
which the package's README advises against.

## 3. Runs

Twelve runs: four that pass, each with all the properties of its modules, and eight
that end in a violation of what the repository says of itself (section 5).

| run | what it asks | distinct states |
|---|---|---|
| `container` | do concurrent resolves, overrides, request scopes and disposals ever duplicate, leak, keep or twice destroy an instance? is a reported cycle real? do the caches implement `SharedCells`? do calls and disposals settle? | 73 thousand |
| `runtime` | orders, module graphs, routes, the shell, applications, hosts, buses, configuration, the dev runner, databases, tokens, guards, throttling | 371 thousand |
| `cron` | is an enabled task scheduled once, and nothing after shutdown? is a successful run a run that held its lock? | 320 thousand |
| `services` | sagas, cache, queue, delivery, transports, streams, sockets, GraphQL, bodies, dispatch, locales | 612 thousand |
| `container_cycle`, `runtime_late`, `runtime_sessions`, `cron_orphan`, `saga_cross`, `queue_overlap`, `streams_pending`, `sse_web` | one scenario and one property each, violated | |

A property of a run conjoins what its modules promise in one subject: `SocketsInOrder`,
for instance, stands for the properties of that kind of `WebSockets`, `SocketIo` and `GraphqlOperations`. The
conjuncts are stated, with the code they are about, in the modules; the comment above the
combined property names them.

| property of `runtime` | what it says |
|---|---|
| `GraphsExact` | the start order is topological exactly when there is one; a module graph compiles exactly when every token is visible where it is injected |
| `NativeKeepsMatch` | the route that a host chooses is the dispatcher's |
| `NothingForgottenOnce`, `OrderedByDependency` | the shell stops everything that runs, dependencies after their dependents |
| `StateMatchesResources`, `UnwindUndoesInit`, `ServersKeepPromise` | an application's state tells what it holds; a failed bootstrap undoes what was done; application and microservices refine `ServerLifecycle` |
| `HostsDrain` | no client waits for a host that has closed; none that was let in finds no dispatcher |
| `EventsDrained` | the transport closes after awaited work, and no event is lost between the buses |
| `ConfigInStep` | the service holds what no listener refused, also when a reload goes on after `close()`; the watcher ends with the file; the dev runner's one child runs what is saved |
| `DisposeAfterTransactions` | no tracked transaction is open when the connection is disposed of |
| `TokensRotateOnce` | a refresh token has one successor; none outlives a revocation that a store with rotate() saw |
| `OnlyTheRightfulPass` | withdrawn keys leave, a signed token verifies, a guarded request has one outcome, links are confirmed |
| `ThrottleHolds` | limits hold in every window and windows end |

| property of `services` | what it says |
|---|---|
| `SagasInTurn` | one saga's executions do not interleave; a drain leaves none |
| `LoadsStayFresh` | staleness is transient, loads are shared, catalogs are as young as they claim |
| `NothingIsLost` | what is open is owned; dead letters find Redis; every notification has one outcome |
| `AckedWasHandled` | an entry is acknowledged after its handler |
| `SocketsInOrder` | messages in order, disconnect last, limits kept, shutdown drains, scopes cover operations |
| `AnsweredWell` | one answer, in the best locale; a finished dispatch has closed its container; handlers are given whole bodies |
| `EvictsOnce` | a write evicts once, by response or timer |
| `ShutdownIsFinal` | a stopping queue stays so; a delivery service hands over nothing and leaves nothing open |
| `TransportsInStep` | ready means listening; after close nothing is pending, published or begun; readers lose nothing; packets are answered by their handlers |

In both runs, `EverythingSettles` says that again and again nobody waits. Each property of a
passing run has a mutant: a plausible bug, defined beside the definition it replaces, under
which the run finds the property violated. The modules define more mutants than the
passing runs use, one for each conjunct that deserves it; they document what the conjunct
excludes, and each can be tried by substituting it by hand.

### Bounds, and why they are enough

- **Container.** Three calls, at most two request scopes, two levels of dependencies,
  nine creations (`MaxIds`; a creation beyond it is not started). Every hazard
  needs two calls that meet in one creation, and a third party that fails, overrides or
  disposes between two awaits. Each scenario has those and asks for nothing
  else. A container resolves each of its asks at most once; an override happens once,
  because it needs its provider not to be registered yet.
- **Orders, graphs, routes.** All registrations of three components, each with
  any list of at most two of four ids: self-dependencies, unknown ids, two- and
  three-cycles and diamonds. All module graphs of a root, a module that may import it back and one that may be
  global, around one token. All tables of three routes of one segment and of two of two.
- **Application.** A diamond of four components in the worst order of
  registration, with failing start, validation and stop; two services; two microservices.
- **Hosts.** Two requests, one retry of listen, and two calls of close, but one on Express, Fastify and Node: they look at
  `server.listening` first, so that a second close() returns at once (section 6).
- **Buses, databases, config.** Two or three publications with and without timeout; a manual
  transaction with one nested and one beside; two valid versions of a file and an invalid one, at most two listeners, one reload asked for by them.
- **Dev runner.** Two files, three edits: one before a restart, one during, one that takes it back.
- **Tokens.** Two requests of which each may present what it has, three tokens, one logout, a clock; two keys, two
  fetches, a cache of one. **Throttler.** Limits of one and two, windows of one and two, five units of time.
- **Guards.** Three requests of three kinds; two callbacks of a strategy; an identity that matches two accounts.
- **Scheduler.** Two names, three task states and three timers: a name can be
  reused once while an old tick runs, beside a task that does not change. The passing run
  holds the reuse of a timeout's name to `ShutdownSettles` only: `cron_orphan` shows why, and a
  timer so lost not only stays but can start a tick after shutdown.
- **Lock.** Two nodes, a time to live of 4 units, renewed every 2, replies within 1: the least with room
  for a renewal in time and for a reply that is under way while time passes. A renewal is counted as late up to
  `Late` = 2 units; SET's reply and the lateness together let the key expire before any
  renewal notices, which is the interesting case. `MaxPending` = 2 tells "several attempts queued"
  from one. In the scenario `faults` one node
  may shut down and the other crash; in `prompt` both nodes may do both.
- **Sagas.** Two sagas and five events: a chain there and back, a re-entry, a
  nesting deeper than `MaxDepth` (3, for the real 32) and an event for both.
- **Cache.** Two calls against two `del()`s, or a `del()` and a `reset()`, three calls against a
  `reset()`, where callers alike start in the order of their names; a GET and two writes for the interceptor.
- **Queue.** Two starts (`MaxStarts`; a start beyond it is not begun), four sets of resources
  (`MaxSets`: one per job and start), two dead letters. Either one caller starts again,
  or two callers share the only start, the first of which is named first. Both at once is `queue_overlap`, which fails.
- **Transports.** Two requests, one or two calls of `listen()`, one or two of `close()`; two calls of gRPC with streams of two
  items; two messages of Redis Streams with one or two listeners.
- **Sockets.** Two clients and one slot for admission; one client and more messages than are kept for each policy of a full
  queue. **GraphQL.** Three operations, two of one id, with one allowed at a time; two sockets; one request over HTTP.
- **Bodies.** Every body of up to three pieces of one or two units against a limit of three units and two
  files, on five readers. **Dispatch.** One request with all stages, or two without any, of which
  one may lose its client. **Locales.** Two requested ranges over
  two supported locales, under every setting.

`CHECK_DEADLOCK FALSE` wherever calls are counted: nobody is obliged to call
anything, and all calls may be over. Liveness properties catch whoever waits in vain.

### Fairness

Only what the event loop and the callees owe is fair; no caller is obliged to call, no
client to stay, no message to arrive.

Most modules name in `Due` the steps that must come: a microtask, a timer, the answer of
a store, provider or broker to a call that bounds its wait, the end of a code's own loop. The
specification has weak fairness of `Due` as a whole. That is enough where the
steps of `Due` are finitely many between two steps of anybody else, and it is
why independent machines get scenarios of their own: one that goes round for ever would
satisfy the fairness of both. `EverythingSettles` is `[]<>` of a state predicate, which a call that
hangs for ever violates and a later call does not excuse.

- *Container*: a call that can continue does, a factory that was called settles,
  disposal goes on. An `onDestroy` hook settles in the step that calls it.
- *Application*: each await settles: hooks, adapter, shell, each microservice's listen and
  close. These are conjoined one by one, since a user could otherwise starve one
  operation with calls of another.
- *Hosts*: a server's close event comes when its connections are over; the drain's timer fires.
- *Buses, databases*: hooks go on and timers fire; handlers and the functions of transactions
  may hang, but for the drains that promise to wait for them.
- *Scheduler*: only shutdown's drain and its timeout. A tick need never end.
- *Lock*: time passes and SET's reply arrives. Renewals, releases and bodies need not.
- *Sagas*: an execution whose predecessor settled starts, and handlers end.
- *Interceptor*: the fallback timer fires and the store answers. A response need
  never be sent.
- *Queue*: connections open or fail, closes end (by force if need be), dead-letter
  writes settle or time out. Jobs need not end.
- *Transports, gRPC*: subscriptions are answered and timers fire. A frame, a reply or a handler's end may be lost.
- *Sockets*: handlers and closes end, or their bounded wait does.
- *Bodies, dispatch*: the code of an application ends, and a client that stays sends what it announced.

## 4. Proofs

TLAPS proves the theorems below for every value of the constants: any number of calls,
tokens, scopes, services, microservices, components, nodes, requests and clients, any
provider or dependency graph, any choice of what may reject. In each, an inductive
invariant says what the half-run operations still know of each other. The properties were
checked by TLC on the scenarios before they were proved. Theorems rest on the named assumptions about the
constants, which TLC evaluates in the runs, and on the conditions stated in the theorem.

| theorem | states | on the runs |
|---|---|---|
| `ContainerProofs`: `TypeCorrect`, `RootOnce`, `OneInstance`, `DisposalReaches`, `ScopesIsolated` | `TypeOK`, `RootDestroyedOnce`, `OneLiveInstance`, `DisposalReachesCached`, `RequestIsolation` | the same, in `container` |
| `ContainerProofs`: `FailuresLeave` | `NoFailureCached` | in `FailuresAreSound` |
| `ContainerProofs`: `CachesShareCreations` | `SharesCreations`, the refinement of `SharedCells` | in `SharesCreationsWhenAsked` |
| `ContainerProofs`: `StaysFresh`, `FreshInSharedGraph` | `FreshDependencies`; the same for the containers that see the root's graph | the former, in `container` |
| `ApplicationProofs`: `AppTypeCorrect` | `AppTypeOK`, which only the proof shows | |
| `ApplicationProofs`: `ServersKept`, `FailedBootUndone` | `ServersKeepPromise`, the refinement of `ServerLifecycle`; `UnwindUndoesInit` | the same, in `runtime` |
| `ApplicationProofs`: `NothingIsForgotten` | `NothingForgotten` | in `NothingForgottenOnce` |
| `ApplicationProofs`: `StateIsTrue` (`ReadyMeansServing`, `ClosedMeansReleased`) | `StateMatchesResources` (its conjuncts `ReadyServes`, `ClosedReleases`) | the same, in `runtime` |
| `ApplicationProofs`: `ShellKeepsOrder`, `ShellInside`, `ComponentsInOrder` | `OrderedByDependency` of the shell alone; every application's shell is that shell; `OrderedByDependency` of an application | the same, in `runtime` |
| `CronLock`: `LockTypeCorrect`, `LockGuards`, `RenewedInTime` | `TypeOK`, `LockGuardsRun`, `PromptRenewedInTime` | in `cron`, the last two as they are |
| `CronScheduler`: `TimersFollowTasks`, `NoTickAfterShutdown` | `AskedIsScheduled`, `NoOrphanTimer`, `ShutdownStopsTimers`; `NoRunAfterShutdown` | in `TimersMatchTasks` and by itself, in `cron` |
| `TransactionDrain`: `DrainedFirst` | `DisposeAfterTransactions` of a database | in the property of that name |
| `Throttler`: `LimitsHold` | `LimitHolds`, `WindowsEnd` | in `ThrottleHolds` |
| `ServiceProofs`: `ExchangedOnce`, `RevokedFamiliesEnd` | `RotatesOnce`, `RevokedStayOut` of `RefreshTokens` | in `TokensRotateOnce` |
| `ServiceProofs`: `GuardAnswersOnce` | `OneAnswer`, `LinksAreConfirmed` of `PassportGuard` | in `OnlyTheRightfulPass` |
| `ServiceProofs`: `SnapshotsInStep`, `WatcherFollowsFile` | `ServiceInStep`, `WatchConverges` of `ConfigReload` | in `ConfigInStep` |
| `ServiceProofs`: `RunnerKeepsOneChild`, `RunnerRunsWhatIsSaved` | `OneChild`, `RunsWhatIsSaved` of `RestartRunner` | in `ConfigInStep` |
| `ServiceProofs`: `BusDrainsFirst`, `EarlyEventsArrive` | `DrainedBeforeClose` of `EventBus`, `EarlyEventsReachBus` of `CqrsEvents` | in `EventsDrained` |
| `ServiceProofs`: `SagasTakeTurns` | `SerializedPerSaga`, `DrainWaitsForAll` of `SagaBus` | in `SagasInTurn` |
| `ServiceProofs`: `CacheStaysFresh`, `CatalogsStayFresh` | `StaleIsTransient`, `OneLoadAtATime` of `CacheService`; `FreshCatalogs` of `I18n` | together they are `LoadsStayFresh` |
| `ServiceProofs`: `WritesEvictOnce` | `EvictsOnce` of `CacheInterceptor` | in the property of that name |
| `ServiceProofs`: `QueueOwnsWhatIsOpen`, `StoppedQueueStays` | `OpenIsOwned`, `LettersReachRedis`; `ShutdownIsFinal` of `QueueService` | in `NothingIsLost`; in `ShutdownIsFinal` |
| `ServiceProofs`: `MailsEndWithTheService` | `StopsClean`, `HandedWhileOpen` of `Delivery` | in `ShutdownIsFinal` |
| `ServiceProofs`: `EachIsToldOnce` | `OneTerminalEach` of `Notifications` | in `NothingIsLost` |
| `NetworkProofs`: `HandledBeforeAck` | `AckedWasHandled` of `RedisStreams` | in the property of that name |
| `NetworkProofs`: `HostsClose` | `ClosedIsQuiet`, `KeepsAccepted` of `HttpHosts` | in `HostsDrain` |
| `NetworkProofs`: `SocketsKeepOrder`, `SocketIoKeepsOrder`, `ScopesEndWithOperations` | the three properties of `WebSockets`, `ReadyFirst` and `RegistryForgets` of `SocketIo`, `ScopesCoverOperations` and `RequestsWindUp` of `GraphqlOperations` | together they are `SocketsInOrder` |
| `NetworkProofs`: `LinksCloseClean`, `GrpcReadsInOrder`, `DispatchesWell` | `ServiceMatchesTransport` and `NoWorkOnceOver` of `MessageTransports`; the three properties of `GrpcTransport`; `DispatchedWell` of `MessageHandlers` | together they are `TransportsInStep` |

A run's property conjoins those of several modules, each in its scenarios; a theorem is about
one module, for all constants. `ServiceProofs` and `NetworkProofs` therefore
reach their modules by INSTANCE, a section for each, and their theorems name the module's own property.

### Container

Assumed: `ConstantsAssumption` (shapes of the provider table) and `InitialAssumption` (at
most one initial provider per token).

- **`TypeCorrect`.** `TypeOK` alone is not inductive: that a resumed creation has a
  provider, or that the fault an awaiting call will report is a failure, follows only from how
  the call got there. `TypeInv` adds `CallInv` (what a call's locals hold in each mode) and
  `CreationInv` (a started creation has a provider and a container).
- **`RootOnce`.** An instance can be destroyed from three places: the snapshot a disposal works
  through (`todo`), the stale disposals (`stale`), and the cache from which a disposal takes its
  snapshot. `RootInv` says that what they hold is undestroyed, that `stale` shares nothing
  with the other two, and that `todo` is empty until the snapshot is taken; `HomeInv` that each
  container's places hold its own creations. The step that matters is `FinishDisposal`, which
  empties the caches also when the disposal failed. The statement is about the root: a
  request scope's instance *can* be destroyed twice (section 6).
- **`OneInstance`, `FailuresLeave`, `CachesShareCreations`.** `CellInv` says that a cache holds one
  creation of a token. To keep that, a creation about to be stored must find its cell empty
  although it looked before it descended into its dependencies: `BeginInv` says that a creation
  begun and not cached belongs to the running call, and that no inner frame of that call puts the
  same token there, because the token is in `ActiveTokens` (`FrameInv`). Every live instance
  but a stray is in its cache (`ReachInv`), hence `OneInstance`. The refinement maps the cells of
  `SharedCells` to the caches; each action of the container is one step of the cells or none.
- **`DisposalReaches`.** `ReachInv` follows an instance that is still owed its destruction through the
  phases of a disposal: cache, then stale or to settle, then the snapshot.
- **`ScopesIsolated`.** An instance is built in the container it may be shared in. What is
  injected was found by a frame above it, so the proof needs the whole stack of a call:
  `StackInv` says that each frame waits for the next one's provider, in its container, and that
  identifiers grow upwards (`OrderInv`); `PlaceInv` that a frame's container is the one
  `shouldResolveFromRoot` and the scope checks demand.
- **`FreshInSharedGraph`, `StaysFresh`.** A creation takes its dependencies one await after another, and
  each may be overridden before the last is there. `FreshAt` says of a creation in use that its provider
  is still the registered one and that all it has taken is intact and *reachable from it*, so that
  whatever the override of a dependency evicts evicts the creation as well (`Feeds`; a transient, which no cache
  holds, must feed its own dependencies in turn); of the call that builds it, that all inner frames are so
  too. `TrackedInv` is needed because the root evicts the scopes it tracks, and `DepsInv` because an
  instance is only injected once it is built. The induction over what is reachable stays inside
  `Reachable`, which is a closure stated as a set and not by recursion.
  `StaysFresh` has the condition `RootChanges`, `register()` and `override()` are called on
  the root: no caller in `src/packages` outside the tests of the container does otherwise. Without it the property
  is false, and TLC shows it: a request scope overrides `Y` by a provider without dependencies and caches
  a request instance `B` built from the root's singleton `X`, which was built from the root's `Y` and its `L`.
  An override of `L` in the root evicts `X`, `Y` and `L`; but `shouldInvalidateCachedToken`
  (`container.ts:1348`) walks from `B` by the scope's own lookups, finds no `L`, and leaves `B`, which holds the
  destroyed `X`. The README of di (line 82) promises such descendants their invalidation.
  `FreshInSharedGraph` says what holds without the condition: the containers that have no provider of their own keep
  nothing stale, whatever others override.

### Application and shell

- **`ServersKept`.** `ControlInv` says where bootstrap, `listen()`, `close()` and the shell can be
  together: no teardown before bootstrap is over or has failed, no `listen()` beyond the phase in
  which `close()` waits for it, a shell that works only while somebody awaits it, and a bound adapter
  after a failed release only with an error recorded. With it every step of the application is a step
  of the server or a stutter; a microservice takes a step of its own server in the four ways that
  `ChildKeeps` lists, whoever asks it.
- **`NothingIsForgotten`.** Condition: `OrderLists`, that the walk of `orderByDependency` lists the
  registered components. It is a fact about a recursion; TLC checks
  it on every registration of `graphs` and on the applications' own. `KeptInv` says what is up in
  each phase: during a start exactly what it has started, during a rollback at most that, and if
  nothing failed at most what is left to stop, during a `stop()` likewise.
- **`AppTypeCorrect`.** The same condition. The application's types come with `ControlInv`, the
  shell's with `KeptInv`; `RestTyped` adds the fields neither of them needs.
- **`ReadyMeansServing`.** The same condition. `ServeInv`: until `close()` is called nothing
  is released, and the shell rests with all components up. With the next theorem it makes `StateIsTrue`.
- **`ClosedMeansReleased`.** Further condition: `~ConnectLate`, that no
  `connectMicroservice()` ends after `close()` began; `runtime_late` shows that without it the statement is
  false. `Released` lists, phase by phase, what a teardown in which nothing failed has left behind
  it; `CloseInv` adds that nobody connects any more.
- **`FailedBootUndone`.** Condition: `NoShutdownHookRejects`, that neither a hook of the shutdown nor
  a component's `stop()` rejects: `runShutdownHooks` ends at the first that does. `UnwindInv` says
  that for each service whose `onModuleInit` ran, `onModuleDestroy` was called or is still
  listed, and that the shell's own hook, which stands between them, succeeds.
- **`ShellKeepsOrder`, `ShellInside`, `ComponentsInOrder`.** Conditions: `OrderLists`, and `OrderSorts`, that the
  walk lists each component once and after what it depends on, where it finds no cycle. Both are facts about the same
  recursion; TLC evaluates them for every application and shell of `runtime`, and `graphs` compares
  the walk with the definition of a topological order on every registration of three components.
  The theorems are about what becomes of that list in the half-run operations: `OrderInv` says that what
  `start()` has done and has still to do make up the list, that a rollback and a `stop()` work
  from its end (`TopDown` of the rest), and that a rollback that failed leaves a list in order.
  `ShellInside` shows that an application's steps are steps of the shell it contains, so that the shell's theorem carries over.

### Scheduler and lock

- **`TimersFollowTasks`, `NoTickAfterShutdown`.** Condition: `~ChangeWhileRunning`, no name is enabled or
  added during its own tick; `cron_orphan` shows why. `SchedulerInv` relates names, task states, timers
  and ticks both ways: different names have different tasks, different tasks different
  timers, each timer set is the handle of a registered task, and a tick knows which task it runs.
- **`LockGuards`.** Condition: `Latency <= RenewEvery`, the reply of SET takes no longer than the renewal
  interval. The renewal deadline is computed from the reply (`createLockRenewalState`), so that the
  key would expire before the first renewal otherwise. `LeaseInv` compares the two clocks: as long as no
  renewal is owed, the key outlives the time until the next one. `ExpiryInv` says that a run whose key
  expired does not own it again before its end.
- **`RenewedInTime`.** Condition: `Latency < RenewEvery`, and in the weather `prompt` timers and
  requests are not late. `PunctualInv` strengthens the lease to an inequality that is strict.

### Tokens, guards, transactions, throttler

- **`ExchangedOnce`, `RevokedFamiliesEnd`.** `StoredInv` is about what the store has seen (an exchanged
  token is live no more and has one successor), `PendingInv` about what each request may still do
  to it: its next token is its own and unknown to the store, and what it consumed has no successor
  yet. `FamilyInv` says that no live record belongs to a revoked family.
- **`GuardAnswersOnce`.** `AnswerInv` says of each state of a bridged strategy which callbacks have come and
  what became of the request: one whose strategy is open has no answer.
- **`DrainedFirst`.** Condition: `TracksWhatOpens`, that a connection of mongoose runs the transaction
  itself; `runtime_sessions` shows the session that fluo opens, and tracks only once it is open.
  `TrackedInv` says who tracks each open transaction, also one nested in another, and
  `AwaitedInv` that shutdown waits for all that is tracked and nothing is added later.
- **`LimitsHold`.** `CountInv` relates what passed to what is counted in the window held now, and puts
  everything that passed before in windows that are over, also where a sweep has removed them.

### Configuration, dev runner, buses, sagas

- **`SnapshotsInStep`.** `SnapshotInv`: between reloads the service holds what was agreed on (`agreed`, a history
  variable); while listeners are notified, what a rollback restores is that, and once the service has
  adopted a snapshot of its reloader the reloader restores the same; after `close()` by a listener nothing but
  that rollback changes the service.
- **`WatcherFollowsFile`.** `WatchInv`, for a service that only its watcher reloads: between reloads
  the snapshot is what was hashed, and the hash that of the file unless an event is under way.
- **`RunnerKeepsOneChild`, `RunnerRunsWhatIsSaved`.** `ChildInv`: all children but the last are closed. `SavedInv`: each
  file that differs from its baseline is announced or waits for a restart, so that a running child cannot
  have missed it; the files that came back to their baseline in the debounce of a restart (`hasty`) are excepted.
- **`BusDrainsFirst`, `EarlyEventsArrive`.** `DrainInv`: what shutdown finds active is in the set that
  it drains, and nothing is added. `EarlyInv` says of the CQRS bus, which stops first, that what began
  in time is awaited by it or over; `BatchInv` orders the events of a `publishAll()`.
- **`SagasTakeTurns`.** Condition: `PublishedAlone`, that a handler publishes one event for one route at a time. `fluo` does not
  forbid otherwise, and section 6 says what happens then. Executions bypass the chain of their saga when they
  are nested in it, so that serialization is about a tree: `NestInv` says that whatever encloses an execution awaits it or another
  around it, `LineInv` that what is alive in one execution is nested in a line, `HomeInv` that
  an execution off the chain is inside one on it, `ChainInv` that whoever runs has
  nobody alive before it on its chain. `SagaDrainInv` says that the drain awaits all of `before` that is on a chain; the
  rest is inside.

### Cache, queue, delivery, locales

- **`CacheStaysFresh`.** `LoadInv`: a load that is not the shared one is one that a `reset()` left behind. `ReadInv`: who
  has read a value older than a finished write may not store it.
- **`WritesEvictOnce`.** `EvictInv`: once a write has asked for its eviction, neither the replaced `send()` nor the timer will ask again.
- **`QueueOwnsWhatIsOpen`, `StoppedQueueStays`.** `QueueStartInv`: one start is under way at a time, the one that all wait
  for; `ResourceInv`: a set being opened is nobody else's, each actor closes only while it is at it; `WorkerInv`: after a
  success no more is rolled back. The first theorem has a condition on behaviours, `RollsBackFirst`: no start begins while a caller of the
  one that failed still rolls it back. It is what `queue_overlap` breaks, and what callers that await one another keep.
  `StoppedQueueStays` has no condition.
- **`MailsEndWithTheService`.** `MailInv` says who creates, starts and closes the one transport that there is at a time.
- **`CatalogsStayFresh`.** A catalog that has been read is `GoodUntil` the time to live after its load began; the cache keeps it no longer.
- **`EachIsToldOnce`.** `NotesInv`: those before `at` have been told what became of them and are accounted for, in order.

### Hosts, sockets, transports

- **`HostsClose`.** Condition: `ClosesOnce`, that on Node, Express and Fastify `close()` is called once; section 6 has the
  second call. `QuietInv`: without a dispatcher nothing is active. `KeepsAccepted` excepts Bun, whose dispatcher
  may be gone when a request that awaited its realtime binding goes on.
- **`SocketsKeepOrder`.** `ConnectionsInv` says of each connection that what it sent before it was bound, what is
  queued and what is being handled are one ascending sequence; `SlotsInv` that everybody under way holds a slot, so that admission
  cannot exceed the limit between check and registration; `HaltInv` whom a shutdown that is not hurried has seen in each of its phases.
- **`SocketIoKeepsOrder`.** `IoLink`, the same for a client of a namespace with its buffer and replay.
- **`ScopesEndWithOperations`.** `HolderInv`: the container that an id holds is of an operation that made it and is not disposed of;
  `OperationInv`: one that was made and is not held was disposed of; `RequestInv` lists what a request over HTTP still holds.
  An operation has its container to the end if it is *alone*, that is if no other of its id uses one of somebody else's. The proof
  asked for that wording: three operations of one id in a row break the weaker one, which two cannot.
- **`LinksCloseClean`.** `LinkInv`: one start is under way at a time, of a transport neither closed nor being closed.
- **`GrpcReadsInOrder`.** `GrpcCall`: what was read and what waits are together what was sent; a call that
  awaits its answer has a transport that listens (`GrpcLife`).
- **`DispatchesWell`.** `PacketInv`: where a packet is says which of its handlers may run and whether its scope is open.
- **`HandledBeforeAck`.** `AckInv` says that a loop which answers or acknowledges has handled the
  entry; `HandlerInv` that a listener has its handler until its loops are over, since a loop without
  one would acknowledge what nobody handled.

### What stays with TLC, and why

- **Liveness**: fairness and ENABLED are out of the prover's reach (`ResolveSettles`,
  `DisposeSettles`, `CloseSettles`, `EverythingSettles`, ...).
- **Recursion over data**: the order of components, the visibility of modules (`GraphsExact`), the choice of
  routes (`NativeKeepsMatch`), keys (`SignedVerifies`) and locales (`BestLocale`). An induction over numbers can be done with the sets of numbers
  for which a statement holds, but that a recursive function has the value that its definition gives
  cannot be had from these provers for a function of this kind; `OrderLists` and `OrderSorts` are the
  places where a proof takes such a fact as a condition.
- **Filters and folds**: `SelectSeq` and the folds of the community modules are recursive inside and opaque to the
  provers. The queue of `SigningKeys` (`WithdrawnKeysLeave`), the pieces of
  `RequestBodies` (`WholeBodyOrNone`) and the stages of `Dispatcher` (`OneAnswerEach`) are built with them.
- **Container**: `CircularIsReal`, since after an override between two awaits the cycle a call met may be gone
  when its error is reported: it holds in the scenarios, not for every program. `FirstDependencyOutlives` presumes that no token is
  injected twice into one provider.

## 5. Where code and documents part

Eight runs end in a violation of what the repository says of itself:

1. `container_cycle`: the README of di promises a `CircularDependencyError`. Two
   concurrent calls that enter one cycle at different tokens wait for each other's pending
   promise instead (`container.ts:742`).
2. `runtime_late`: the README of runtime says `close()` closes connected microservices.
   One whose connection ends during `close()` is not closed, and can be
   started in the closed application (`bootstrap.ts:630`).
3. `runtime_sessions`: the README of mongoose says that dispose runs only after transactions have
   settled and that new ones are refused once shutdown begins. A transaction whose session is still
   being opened when shutdown begins is neither refused nor waited for (`connection.ts:166`).
4. `cron_orphan`: shutdown is said to clean up timeouts. A timeout that is removed and added again
   during its tick loses the handle of its new timer (`service.ts:562`).
5. `saga_cross`: dispatch is said to resolve or fail with `SagaTopologyError`. Two
   events that pass two sagas in opposite order wait for ever (`saga-bus.ts:173`).
6. `queue_overlap`: shutdown is said to close the workers the queue owns. A rollback that ends after another
   caller began the next start makes the service forget that start (`service.ts:288`);
   a third start replaces its workers, and nobody closes them. The same late rollback drops the Redis
   client under running workers, so that their dead letters are lost.
7. `streams_pending`: the README of microservices says that failed events stay pending for recovery. close() destroys the
   consumer's own group of the event stream, and the list of its failed events with it
   (`redis-streams-transport.ts:329`).
8. `sse_web`: the README of http says that managed async iterables become event streams. A host that returns a
   `Response` makes it only when the source has ended (`web.ts:333`).

## 6. Noticed on the way

Behaviour that modelling brought up and no run states, because no document says otherwise,
or because it lies outside the sequences that the framework itself produces. The models have it
all, or exclude it by a named condition; properties are worded so as not to claim the contrary.

- **di**: a failed creation is evicted by token, whatever promise is there by then
  (`container.ts:743`): a newer creation so evicted lives on with its caller, beside the next one, and no
  disposal reaches it (the strays of `Container`); a `resolve()` in flight does not see a `dispose()` that came
  after its entry (`:378`); destruction follows the reverse order of cache insertion,
  which is not that of creation (`:973`); an override in the root schedules a
  request-scope instance for disposal that the scope's own disposal may destroy too
  (`:1270`); an override in the root misses what a scope with a provider of its own built through an instance of
  the root (`:1348`, see `StaysFresh` in section 4).
- **shell**: `stop()` returns early after a restart that failed, because `stopped` is still
  set (`platform-shell.ts:234`). `NothingForgottenOnce` is therefore about shells that are
  started once, as bootstrap does.
- **application**: the readiness marker is set to starting, not removed, while `close()` runs
  (`bootstrap.ts:176`); a shutdown hook that rejects makes a failed bootstrap skip the
  remaining hooks, and hooks run in reverse order of instances (`:1181`).
- **module graph**: an `optional(token)` whose token is absent is refused at compile time
  (`module-graph.ts:403`, `:651`), though di's README speaks of `undefined`; with
  `moduleGraphCache`, `useValue` providers are cloned.
- **hosts**: on Express, Fastify and Node a concurrent or retried close() returns at once and releases the
  dispatcher while requests drain; Fastify answers requests that are parsed then with 500. On Bun a request that
  awaits the realtime binding is not counted, and a late request on a kept-alive connection sets the server again. On
  Workers a failed bootstrap or close stays a rejected promise for ever. Node's close() during the delay of a listen
  retry returns early, and the retry binds afterwards (the application awaits listen first).
- **bodies**: on Deno and Workers, and on Bun for multipart, the body is read from `request.clone()`. When a body
  without declared length goes over the limit before its end, `await reader.cancel()` (`web.ts:728`,
  `multipart.ts:251`) waits for the other branch, which nobody reads: the 413 never comes until the client leaves
  (`AllSettled` of `RequestBodies` names the case). Bun reads JSON without declared length whole
  before it compares (`web.ts:652`). A form is fields on Express, text on Node and the Web hosts, 415 on Fastify; malformed
  multipart is a 500 but on Fastify.
- **native routes** (`Orderly` in `RouteTables`): Express registers paths in the order of declaration, so that `/users/:id`
  before `/users/me` answers `/users/me`; a versioned or ALL route of another shape beside an unversioned native one is
  shadowed on Express and Fastify; Express is case-insensitive by default.
- **http**: the fast path keeps a rejected controller promise for ever (`dispatcher.ts:637`), and a handler that rejects with a
  falsy value there is run again by the full path; a client that leaves while the loop awaits
  the drain leaves the iterator without return() (`:593`); on web hosts a cancelled stream makes close() throw before its
  listeners are told; onRequestSuccess and onRequestError may both be notified; an aborted request still runs its handler.
- **websockets**: on Node a client that vanishes while the guard runs makes ws drop the socket without
  calling back, so that its reservation is never released (`node-service.ts:511`); joinRoom after unregistration leaves a ghost member
  (`:1408`); on Deno a socket bound while connecting is not closed by shutdown; the fetch-style runtimes do not await
  disconnect handlers of sockets already closed (`cloudflare-workers-service.ts:341`).
- **socket.io**: listeners are attached when the gateways are resolved, so what arrives before is lost, a disconnect too; messages
  that arrive during the replay are handled beside and before buffered ones; getServer() after shutdown creates a server
  nobody closes; shutdown does not wait for disconnect handlers.
- **graphql**: an operation id that is used again after Complete, before the first operation's end is reported,
  shares and then loses the first one's container, and so does one between two others of its id (`Alone` in `GraphqlOperations`); a valid document without an operation leaves its container until the
  socket closes; a disconnect during contextFactory lets the operation run with a disposed container; a body that fails in
  mid-stream is cancelled but its response never ended (`transport.ts:181`).
- **microservices**: Kafka and MQTT publish a request aborted in the same tick; listen() of TCP after close() always rejects; after a
  failed transport.close() the service still says it listens; close() during a listen() that fails rejects without closing the
  transport; MQTT's own client may be opened twice or after close. Redis Streams: an error on one entry abandons the rest of
  its batch; listen() retried after a failure between its own group creations fails with BUSYGROUP until close(); a handler that hangs keeps
  close() waiting.
- **gRPC**: a unary request aborted in the tick of its send() is dispatched and not cancelled; an aborted client stream is
  ended, not cancelled; an iterable taken before close() may start its call during or after it; a close() whose
  tryShutdown fails forgets its clients; tryShutdown waits for a handler that never ends; after return() a buffered item is still
  given by next().
- **cron**: a timeout that is enabled during its own run is disabled at its end
  (`service.ts:685`); the key of a run is registered as running only when SET's reply is there (`:632`), so
  that a shutdown that gives up waiting may release it while the reply to a new tick is under way, when an
  earlier release of the key had failed.
- **saga bus** (`PublishedAlone` in `SagaBus`): an execution nested in its own saga bypasses the chain (`saga-bus.ts:165`), and the drain
  waits for it only through its enclosing execution (`:190`); two such executions that one
  handler starts together, as for an event that matches two routes of its saga (`:134`), run at once.
- **event bus**: a background publication with two handlers of one token that cannot be resolved leaves an unhandled rejection;
  publications that nobody awaits are not drained, as documented.
- **cache**: `del()` during a lookup leaves its mark until the load is over
  (`service.ts:164`); a GET may store what it read before a write evicted the key
  (`interceptor.ts:241`); the fallback timer evicts although the response
  then fails (`interceptor.ts:177`).
- **queue**: shutdown may end while a caller still closes the resources of a failed start
  (`service.ts:548`), so that "everything is closed" holds in the end and not at its end.
- **config**: a manual reload does not update the watcher's hash, so that the snapshot can stay at content the file no longer has; with
  watch, ConfigReloadManager does not align ConfigService at bootstrap; its reload() after close() creates a new reloader.
- **dev runner**: a file set back to its baseline while its report waits for the debounce, in the window around a restart, leaves the
  child at content the file no longer has (`hasty` in `RestartRunner`); a child that crashes right after an edit is restarted.
- **jwt**: stores that only consume, and the memory store when a logout falls between two calls, may save a successor after
  a revocation (documented for rotate() only); the JWKS timeout ends with the headers; the refresh strategy verifies the access token
  after the rotation, so that a failure there loses the new token; key sets outside `Coherent` sign tokens that do not verify.
- **passport**: a strategy whose redirect throws is settled without an outcome, and its request hangs.
- **delivery**: the queue adapter of email drops the job's id, and its enqueueMany may partly succeed; a transport whose
  creation rejected stays rejected; discord does not look at its state again after awaiting its transport, and its webhook retries, as those
  of slack, go on after shutdown.
- **i18n**: invalidate() during a load is undone by its later set (`remote.ts:287`); with a missingMessage hook validation never tries
  less specific keys (`validation.ts:114`); `en;q=0, *` may still select `en`.
- **prisma**: manual transactions are neither tracked nor refused at shutdown (documented).

## 7. Not modelled

- **Data**: messages, names, formatting, logs, configuration values, frames, headers.
- **Container**: multi providers, optional tokens, resolution-plan caches (pure
  memoisation of the graph walk the model does each time).
- **Application**: the context resolution cache, the application context, the stand-alone
  microservice. **Shell**: `ready()`, `health()`, `snapshot()`, which only aggregate.
- **Hosts**: TLS, compression, the writing of responses.
- **Sockets**: rooms, the backpressure of broadcasts beyond "terminates", discovery, the engine of Socket.IO. **GraphQL**: schema construction,
  data loaders, limits of documents.
- **Transports**: Protobuf, events of the transports that answer requests, MQTT's own clients.
- **Scheduler**: the hooks of a task, which are part of its run; two task names that share
  a lock key.
- **Cache**: failing store requests of `remember()`, `close()`, the stores themselves.
- **Queue**: discovery of workers; the handling of one job.
- **No module**: decorators and metadata (core), validation, serialization, OpenAPI, the code generators, migrations and scaffolding of
  the CLI, vite plug-ins and studio run once over data and keep no state between steps; redis and metrics
  hand everything to a client library; terminus and the command and query buses ask once and return.
  They are more than half of the implementation's lines, which is why the map's share of all lines stays
  well below one half.

## 8. Plan

1. *(done)* container, application and shell, scheduler and lock, saga bus, cache, queue;
   type correctness and the destroy-once invariant of the container.
2. *(done)* buses, configuration, databases, tokens, guards, throttler; module graph and routes; hosts, bodies and the
   dispatcher; transports, streams and gRPC; sockets and GraphQL; delivery, locales, the dev runner.
3. *(done)* Theorems about the container (types, destruction, caches, isolation, freshness, the refinement of
   `SharedCells`), application and shell (with their order and the refinement of `ServerLifecycle`), scheduler, lock,
   tokens, guards, transactions, throttler, configuration, dev runner, buses, sagas, cache, queue, delivery,
   notifications, catalogs, hosts, sockets, GraphQL, transports, streams.
   What would need definitions without filters and folds: bodies, dispatcher, fetched keys.
4. Health checks of terminus, rooms and broadcasts of the gateways, a composition of the
   saga bus and the queue with `Application`'s close.
