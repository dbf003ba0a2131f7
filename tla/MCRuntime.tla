------------------------------ MODULE MCRuntime ------------------------------
(***************************************************************************)
(* Applications for model-checking Application, and its parts: the start   *)
(* order and the module graph on every small graph, the platform shell,    *)
(* and the whole application.  A gateway over a queue and a cache that     *)
(* share one connection is registered with the dependents first.           *)
(* Before them the modules whose hooks the application calls and the hosts *)
(* it stops, and the configuration that is reloaded under them: small      *)
(* programs for CqrsEvents over EventBus, ConfigReload, TransactionDrain   *)
(* and HttpHosts, and RestartRunner, the process around them in            *)
(* development; then for RefreshTokens, SigningKeys, Throttler and         *)
(* PassportGuard, and TokenKeys on all small options.  The initial state   *)
(* chooses a scenario and it stays.                                        *)
(***************************************************************************)
EXTENDS Application, Sequences, TLC

CONSTANT Scenarios  \* those a configuration runs

VARIABLES
  scenario,  \* the one that was chosen
  bus, busBoot, discovery, pub, work, uncovered, aborted, stop, drained, gaveUp, \* EventBus
  stage, handled, batch, cqrs, awaitedWork, forsook, early,                     \* CqrsEvents
  file, event, current, service, hash, step, left, saved, seen, queued, asks, failed, open,
  booted, adopted, agreed,                                                      \* ConfigReload
  db, tx, requests, scopes, aborts, awaits,                                     \* TransactionDrain
  hostDispatcher, server, serverOf, closeInFlight, isClosed, attempts, listener, closer, incoming, \* HttpHosts
  disk, baseline, notices, pendingRestartPaths, restartTimer, restarting, stopping,
  restartAfterClosePaths, cleanedUp, children, exit, edits, hasty                 \* RestartRunner

cqrsVars == <<stage, handled, batch, cqrs, awaitedWork, forsook, early>>
eventVars == <<bus, busBoot, discovery, pub, work, uncovered, aborted, stop, drained, gaveUp, cqrsVars>>
configVars == <<file, event, current, service, hash, step, left, saved, seen, queued, asks, failed, open,
                booted, adopted, agreed>>
dataVars == <<db, tx, requests, scopes, aborts, awaits>>
hostVars == <<hostDispatcher, server, serverOf, closeInFlight, isClosed, attempts, listener, closer, incoming>>
runnerVars == <<disk, baseline, notices, pendingRestartPaths, restartTimer, restarting, stopping,
                restartAfterClosePaths, cleanedUp, children, exit, edits, hasty>>
moduleVars == <<scenario, eventVars, configVars, dataVars, hostVars, runnerVars>>

Events == [
  \* a batch of two events, each through a handler
  batch |-> [pubs |-> {"one", "two"}, inbound |-> {}, awaited |-> {"one", "two"}, bounded |-> {},
             pipelines |-> {"one", "two"}, batches |-> "batch" :> <<"one", "two">>],
  \* an event from CQRS beside one that is not awaited and a message with a
  \* timeout that arrives on the transport
  mixed |-> [pubs |-> {"one", "msg", "plain"}, inbound |-> {"msg"}, awaited |-> {"one", "msg"},
             bounded |-> {"msg"}, pipelines |-> {"one"}, batches |-> <<>>],
  \* a publication with a timeout or a signal, and one without
  bounds |-> [pubs |-> {"one", "two"}, inbound |-> {}, awaited |-> {"one", "two"},
              bounded |-> {"two"}, pipelines |-> {}, batches |-> <<>>]]

Configs == [
  \* reloads that callers and listeners ask for; the file may change meanwhile
  reload |-> [manager |-> "reload", listeners |-> 2, manual |-> TRUE, racing |-> TRUE, asks |-> 1],
  \* reloads of the watcher only, of either manager
  watch  |-> [manager |-> "watch", listeners |-> 0, manual |-> FALSE, racing |-> FALSE, asks |-> 0],
  notify |-> [manager |-> "reload", listeners |-> 2, manual |-> FALSE, racing |-> FALSE, asks |-> 0]]

\* A manual transaction with a request nested in it, and a request.
Databases == [
  prisma   |-> [provider |-> "prisma", delegates |-> FALSE],
  drizzle  |-> [provider |-> "drizzle", delegates |-> FALSE],
  \* the connection has a transaction() of its own
  mongoose |-> [provider |-> "mongoose", delegates |-> TRUE],
  \* sessions that fluo starts
  sessions |-> [provider |-> "mongoose", delegates |-> FALSE]]

\* Two requests, one close() or two at once.
Adapters == [
  onNode    |-> [host |-> "node", closers |-> {"c"}, binding |-> FALSE],
  onExpress |-> [host |-> "express", closers |-> {"c"}, binding |-> FALSE],
  onFastify |-> [host |-> "fastify", closers |-> {"c"}, binding |-> FALSE],
  onBun     |-> [host |-> "bun", closers |-> {"c", "d"}, binding |-> FALSE],
  onSockets |-> [host |-> "bun", closers |-> {"c", "d"}, binding |-> TRUE],
  onDeno    |-> [host |-> "deno", closers |-> {"c", "d"}, binding |-> FALSE],
  onWorkers |-> [host |-> "workers", closers |-> {"c", "d"}, binding |-> FALSE]]

Bus(s) == INSTANCE CqrsEvents WITH
  Publications <- Events[s].pubs, Inbound <- Events[s].inbound, Awaited <- Events[s].awaited,
  Bounded <- Events[s].bounded, HandlersOf <- [p \in Events[s].pubs |-> {"h"}], HasTransport <- TRUE,
  Pipelines <- Events[s].pipelines, CqrsHandlers <- [c \in Events[s].pipelines |-> 1],
  Batches <- DOMAIN Events[s].batches, EventsOf <- Events[s].batches,
  boot <- busBoot, left <- uncovered
Config(s) == INSTANCE ConfigReload WITH
  Versions <- {"v1", "v2", "bad"}, Initial <- "v1", Invalid <- {"bad"}, Watch <- TRUE,
  Manager <- Configs[s].manager, Listeners <- Configs[s].listeners,
  Manual <- Configs[s].manual, Racing <- Configs[s].racing, MaxAsks <- Configs[s].asks
Database(s) == INSTANCE TransactionDrain WITH
  Calls <- {"m", "n", "r"}, Requests <- {"n", "r"}, Outer <- "n" :> "m",
  Provider <- Databases[s].provider, Delegates <- Databases[s].delegates
Adapter(s) == INSTANCE HttpHosts WITH
  Host <- Adapters[s].host, Requests <- {"r", "s"}, Closers <- Adapters[s].closers, RetryLimit <- 1,
  Binding <- Adapters[s].binding, dispatcher <- hostDispatcher, bound <- serverOf, req <- incoming
Runner == INSTANCE RestartRunner WITH Files <- {"main", "env"}, MaxEdits <- 3, None <- 99

ASSUME \A s \in DOMAIN Events : Bus(s)!EventBusAssumption /\ Bus(s)!CqrsAssumption
ASSUME \A s \in DOMAIN Configs : Config(s)!ConfigAssumption
ASSUME \A s \in DOMAIN Databases : Database(s)!TransactionAssumption
ASSUME \A s \in DOMAIN Adapters : Adapter(s)!HostsAssumption

\* A component that takes no part is in the initial state of one that may.
Choice(programs) == IF scenario \in DOMAIN programs THEN scenario ELSE CHOOSE s \in DOMAIN programs : TRUE
ModulesInit ==
  /\ \E s \in DOMAIN Events : s = Choice(Events) /\ Bus(s)!Init
  /\ \E s \in DOMAIN Configs : s = Choice(Configs) /\ Config(s)!Init
  /\ \E s \in DOMAIN Databases : s = Choice(Databases) /\ Database(s)!Init
  /\ \E s \in DOMAIN Adapters : s = Choice(Adapters) /\ Adapter(s)!Init
  /\ IF scenario = "edits" THEN Runner!RunnerInit ELSE Runner!NoRunner

ModulesNext ==
  \/ \E s \in Scenarios \cap DOMAIN Events :
       scenario = s /\ Bus(s)!Next /\ UNCHANGED <<scenario, configVars, dataVars, hostVars, runnerVars>>
  \/ \E s \in Scenarios \cap DOMAIN Configs :
       scenario = s /\ Config(s)!Next /\ UNCHANGED <<scenario, eventVars, dataVars, hostVars, runnerVars>>
  \/ \E s \in Scenarios \cap DOMAIN Databases :
       scenario = s /\ Database(s)!Next /\ UNCHANGED <<scenario, eventVars, configVars, hostVars, runnerVars>>
  \/ \E s \in Scenarios \cap DOMAIN Adapters :
       scenario = s /\ Adapter(s)!Next /\ UNCHANGED <<scenario, eventVars, configVars, dataVars, runnerVars>>
  \/ scenario = "edits" /\ Runner!RunnerNext /\ UNCHANGED <<scenario, eventVars, configVars, dataVars, hostVars>>

\* The fairness of each, in the scenario that was chosen.
ModulesFairness ==
  /\ WF_eventVars(\E s \in Scenarios \cap DOMAIN Events : scenario = s /\ Bus(s)!Due)
  /\ WF_dataVars(\E s \in Scenarios \cap DOMAIN Databases : scenario = s /\ Database(s)!Due)
  /\ WF_hostVars(\E s \in Scenarios \cap DOMAIN Adapters : scenario = s /\ Adapter(s)!Due)
  /\ WF_runnerVars(scenario = "edits" /\ Runner!Due)

\* EventBus!DrainedBeforeClose and CqrsEvents!EarlyEventsReachBus: the transport
\* closes when the awaited work is over, and no event that began before
\* shutdown is lost between the two buses.
EventsDrained ==
  \A s \in Scenarios \cap DOMAIN Events :
    scenario = s => Bus(s)!DrainedBeforeClose /\ Bus(s)!EarlyEventsReachBus

\* ConfigReload!ServiceInStep and ConfigReload!WatchConverges: the service holds
\* what no listener refused, also when a reload goes on after close(), and the
\* watcher's reloads end with the file.
\* RestartRunner!OneChild and RestartRunner!RunsWhatIsSaved: so does the child that
\* the development runner restarts, and it is the only one.
ConfigInStep ==
  /\ \A s \in Scenarios \cap DOMAIN Configs :
       scenario = s => Config(s)!ServiceInStep /\ Config(s)!WatchConverges
  /\ scenario = "edits" => Runner!OneChild /\ Runner!RunsWhatIsSaved

\* TransactionDrain!DisposeAfterTransactions: no transaction that a package
\* promises to drain is open when it disposes of the connection.
DisposeAfterTransactions ==
  \A s \in Scenarios \cap DOMAIN Databases : scenario = s => Database(s)!DisposeAfterTransactions

\* HttpHosts!ClosedIsQuiet and HttpHosts!KeepsAccepted: no client waits for a
\* host that has closed, and none that was let in finds no dispatcher.
HostsDrain ==
  /\ [](\A s \in Scenarios \cap DOMAIN Adapters : scenario = s => Adapter(s)!ClosedIsQuiet)
  /\ [][\A s \in Scenarios \cap DOMAIN Adapters : scenario = s => Adapter(s)!KeepsAccepted]_hostVars

\* CqrsEvents!AllSettled, TransactionDrain!AllSettled and HttpHosts!AllSettled: the
\* shutdown hooks of the buses and of the databases end though handlers and
\* functions hang, and so do the close() of an adapter and a
\* restart or stop of the development runner.
ModulesSettled ==
  /\ Bus("batch")!AllSettled /\ Database("prisma")!AllSettled
  /\ \A s \in Scenarios \cap DOMAIN Adapters : scenario = s => Adapter(s)!AllSettled
  /\ scenario = "edits" => Runner!Rested

VARIABLES
  records, signed, family, expired, held, exchange, stored, barred, \* RefreshTokens
  time, withdrawn, keyCache, generation, call,                      \* SigningKeys
  clock, windows, nextSweep, answer, passed,                        \* Throttler
  options, token, accepted,                                         \* TokenKeys
  ruling, bridge, timer, promised, calls, redirected, principal, linking \* PassportGuard

tokenVars == <<records, signed, family, expired, held, exchange, stored, barred>>
keyVars == <<time, withdrawn, keyCache, generation, call>>
throttleVars == <<clock, windows, nextSweep, answer, passed>>
tokenKeyVars == <<options, token, accepted>>
guardVars == <<ruling, bridge, timer, promised, calls, redirected, principal, linking>>
authVars == <<tokenVars, keyVars, throttleVars, tokenKeyVars, guardVars>>

\* Two requests, which any call of the store may fail.
Tokens == [
  rotating  |-> [store |-> "rotate", max |-> 3],
  consuming |-> [store |-> "consume", max |-> 3],
  fixed     |-> [store |-> "fixed", max |-> 2]]

\* The time for which a key is cached; 0 caches none.
Keys == [keys |-> 1, uncached |-> 0]

Stores == [inMemory |-> "memory", inRedis |-> "redis"]
\* A handler with a decorator, one whose class has one, and one that is skipped.
NotSet == [limit |-> 0, ttl |-> 0]
OfMethod == "a" :> [limit |-> 2, ttl |-> 1] @@ "b" :> NotSet @@ "s" :> NotSet
OfClass == "a" :> [limit |-> 1, ttl |-> 1] @@ "b" :> [limit |-> 1, ttl |-> 2] @@ "s" :> NotSet

\* Two requests with strategies, one without; and an identity that matches accounts.
Bridged == [strategy |-> "bridge", scopes |-> TRUE, optional |-> FALSE]
Own == [strategy |-> "own", scopes |-> FALSE, optional |-> TRUE]
Unguarded == [strategy |-> "none", scopes |-> TRUE, optional |-> FALSE]
Guards == [
  guards  |-> [requirement |-> "a" :> Bridged @@ "b" :> Own @@ "c" :> Unguarded, accounts |-> {}],
  linking |-> [requirement |-> <<>>, accounts |-> {"x", "y"}]]

Refreshing(s) == INSTANCE RefreshTokens WITH
  Store <- Tokens[s].store, MaxTokens <- Tokens[s].max, Requests <- {"r", "s"}, Faults <- TRUE,
  request <- exchange
Signing(s) == INSTANCE SigningKeys WITH
  Kids <- {"k", "l"}, Calls <- {"c", "d"}, Ttl <- Keys[s], MaxEntries <- 1, MaxTime <- 2, cache <- keyCache
Throttling(s) == INSTANCE Throttler WITH
  Store <- Stores[s], Keys <- {"a", "b", "s"}, Method <- OfMethod, Class <- OfClass,
  Module <- [limit |-> 1, ttl |-> 1], Skipped <- {"s"}, MaxTtl <- 2, MaxTime <- 5, time <- clock
Guarding(s) == INSTANCE PassportGuard WITH
  Requests <- DOMAIN Guards[s].requirement, Requirement <- Guards[s].requirement,
  Accounts <- Guards[s].accounts, MaxCalls <- 2, verdict <- ruling
Choosing == INSTANCE TokenKeys WITH Kids <- {"k", "l"}, MaxKeys <- 2

ASSUME \A s \in DOMAIN Tokens : Refreshing(s)!TokensAssumption
ASSUME \A s \in DOMAIN Keys : Signing(s)!KeysAssumption
ASSUME \A s \in DOMAIN Stores : Throttling(s)!ThrottlerAssumption
ASSUME \A s \in DOMAIN Guards : Guarding(s)!GuardAssumption
ASSUME Choosing!TokenKeysAssumption

AuthInit ==
  /\ \E s \in DOMAIN Tokens : s = Choice(Tokens) /\ Refreshing(s)!Init
  /\ \E s \in DOMAIN Keys : s = Choice(Keys) /\ Signing(s)!Init
  /\ \E s \in DOMAIN Stores : s = Choice(Stores) /\ Throttling(s)!Init
  /\ \E s \in DOMAIN Guards : s = Choice(Guards) /\ Guarding(s)!Init
  /\ IF scenario = "tokenKeys" THEN Choosing!Init
     ELSE options = <<>> /\ token = Choosing!NoToken /\ accepted = ""

AuthNext ==
  \/ \E s \in Scenarios \cap DOMAIN Tokens :
       scenario = s /\ Refreshing(s)!Next /\ UNCHANGED <<keyVars, throttleVars, tokenKeyVars, guardVars>>
  \/ \E s \in Scenarios \cap DOMAIN Keys :
       scenario = s /\ Signing(s)!Next /\ UNCHANGED <<tokenVars, throttleVars, tokenKeyVars, guardVars>>
  \/ \E s \in Scenarios \cap DOMAIN Stores :
       scenario = s /\ Throttling(s)!Next /\ UNCHANGED <<tokenVars, keyVars, tokenKeyVars, guardVars>>
  \/ scenario = "tokenKeys" /\ Choosing!Next /\ UNCHANGED <<tokenVars, keyVars, throttleVars, guardVars>>
  \/ \E s \in Scenarios \cap DOMAIN Guards :
       scenario = s /\ Guarding(s)!Next /\ UNCHANGED <<tokenVars, keyVars, throttleVars, tokenKeyVars>>

\* The timers of bridged strategies fire.
AuthFairness == WF_guardVars(\E s \in Scenarios \cap DOMAIN Guards : scenario = s /\ Guarding(s)!Due)

\* PassportGuard!AllSettled: every guarded request ends.
AuthSettled == \A s \in Scenarios \cap DOMAIN Guards : scenario = s => Guarding(s)!AllSettled

\* RefreshTokens!RotatesOnce and RefreshTokens!RevokedStayOut: a refresh token has
\* one successor at most, and none outlives a revocation that a store with
\* rotate() saw.
TokensRotateOnce ==
  \A s \in Scenarios \cap DOMAIN Tokens :
    scenario = s => Refreshing(s)!RotatesOnce /\ Refreshing(s)!RevokedStayOut

\* SigningKeys!WithdrawnKeysLeave, TokenKeys!SignedVerifies, PassportGuard!OneAnswer
\* and PassportGuard!LinksAreConfirmed: the verifier finds the key that signed a
\* token and keeps none that its provider withdrew; a guarded request gets one
\* answer, and an identity no account that its user did not confirm.
OnlyTheRightfulPass ==
  /\ \A s \in Scenarios \cap DOMAIN Keys : scenario = s => Signing(s)!WithdrawnKeysLeave
  /\ scenario = "tokenKeys" => Choosing!SignedVerifies
  /\ \A s \in Scenarios \cap DOMAIN Guards :
       scenario = s => Guarding(s)!OneAnswer /\ Guarding(s)!LinksAreConfirmed

\* Throttler!LimitHolds and Throttler!WindowsEnd: no window lets more through than
\* the limit, and all windows end.
ThrottleHolds ==
  \A s \in Scenarios \cap DOMAIN Stores :
    scenario = s => Throttling(s)!LimitHolds /\ Throttling(s)!WindowsEnd

---------------------------------------------------------------------------

VARIABLES graph, verdict,  \* a registration to order, and what start() made of it
          table, mapping,  \* RouteTables
          definitions, version, kept, compiled \* ModuleGraph

graphVars == <<definitions, version, kept, compiled>>
pureVars == <<graph, verdict, table, mapping, graphVars>>
otherVars == <<moduleVars, authVars>>
allVars == <<vars, pureVars, otherVars>>

MCRegistered == <<"gateway", "queue", "cache", "redis">>
MCDependencies ==
  [gateway |-> <<"cache", "queue">>, queue |-> <<"redis">>,
   cache |-> <<"redis">>, redis |-> <<>>]
MCServices == <<"db", "mailer">>

\* A platform alone: nothing of the application happens.
Alone(restarts) ==
  [services |-> <<>>, micros |-> {}, late |-> FALSE, restarts |-> restarts,
   validate |-> {"queue"}, start |-> {"gateway", "cache"}, stop |-> {"gateway", "queue", "redis"},
   resolve |-> {}, hook |-> {}, serve |-> FALSE, dispatcher |-> FALSE,
   microListen |-> {}, microClose |-> {}]
\* An application in which nothing fails.
Works(services) ==
  [Alone(FALSE) EXCEPT !.services = services, !.validate = {}, !.start = {}, !.stop = {}]

Program == [
  once    |-> Alone(FALSE),
  restart |-> Alone(TRUE),
  \* bootstrap fails at any point
  boot    |-> [Works(MCServices) EXCEPT
                 !.validate = {"redis"}, !.start = {"queue"}, !.resolve = {"db", "mailer"},
                 !.hook = {<<"onModuleInit", "mailer">>, <<"onApplicationBootstrap", "db">>},
                 !.dispatcher = TRUE],
  \* every step of listen() and close() may reject
  serve   |-> [Works(<<"db">>) EXCEPT
                 !.stop = {"queue"}, !.hook = {<<"onModuleDestroy", "db">>}, !.serve = TRUE],
  \* two microservices, started and closed by everyone at once
  micros  |-> [Works(<<>>) EXCEPT
                 !.micros = {"m1", "m2"}, !.microListen = {"m2"}, !.microClose = {"m1"}],
  \* a microservice whose connection may end during close()
  late    |-> [Works(<<"db">>) EXCEPT !.micros = {"m1"}, !.late = TRUE]]

Shells == {"once", "restart"}
Applications == DOMAIN Program \ Shells

In(s) == INSTANCE Application WITH
  Restarts <- Program[s].restarts, Services <- Program[s].services,
  FailsValidate <- Program[s].validate, FailsStart <- Program[s].start,
  FailsStop <- Program[s].stop, FailsResolve <- Program[s].resolve,
  FailsHook <- Program[s].hook, FailsDispatcher <- Program[s].dispatcher,
  FailsReady <- Program[s].serve, FailsListen <- Program[s].serve,
  FailsCleanup <- Program[s].serve, FailsClose <- Program[s].serve,
  FailsDispose <- Program[s].serve, FailsMicroListen <- Program[s].microListen,
  FailsMicroClose <- Program[s].microClose, ConnectLate <- Program[s].late

\* Every registration of three components that depend on at most two ids.
Graphs == INSTANCE DependencyGraphs WITH
  Components <- {"a", "b", "c"}, Unregistered <- {"x"}, MaxDependencies <- 2

\* Every table of three routes with one segment and of two with two.
MCSizes == <<3, 2>>
Router == INSTANCE RouteTables WITH
  Methods <- {"GET"}, Words <- {"me"}, Names <- {"id", "slug"}, Versions <- {"1"}, MaxRoutes <- MCSizes

\* Every graph of a root, a module that may import it back and one that may be
\* global, with one token to provide, need and export.
Definition(imports, provides, needs, exports, global) ==
  [imports |-> imports, provides |-> provides, needs |-> needs, exports |-> exports, global |-> global]
Some == {{}, {"t"}}
Definitions ==
  [root : {Definition(i, {}, n, {}, FALSE) : i \in {<<>>, <<"a">>, <<"b">>, <<"b", "a">>}, n \in Some},
   a    : {Definition(i, p, n, e, FALSE) : i \in {<<>>, <<"b">>, <<"root">>}, p \in Some, n \in Some, e \in Some},
   b    : {Definition(i, p, {}, e, g) : i \in {<<>>, <<"a">>}, p \in Some, e \in Some, g \in BOOLEAN}]
ModuleGraphs == INSTANCE ModuleGraph WITH
  Modules <- {"root", "a", "b"}, Root <- "root", Runtime <- {}, Definitions <- Definitions,
  Redefined <- {Definition(<<>>, {}, {"t"}, {}, FALSE)}

ASSUME Router!RoutesAssumption /\ ModuleGraphs!GraphAssumption
ASSUME \A s \in Applications : In(s)!ApplicationAssumption /\ In(s)!OrderLists /\ In(s)!OrderSorts

MCInit ==
  /\ scenario \in Scenarios
  /\ IF scenario = "graphs" THEN Graphs!Init
     ELSE graph = Graphs!Unordered /\ verdict = Graphs!Verdict("none", <<>>)
  /\ IF scenario = "routes" THEN Router!Init ELSE table = <<>> /\ mapping = "none"
  /\ IF scenario = "modules" THEN ModuleGraphs!Init
     ELSE definitions = <<>> /\ version = 0 /\ kept = {} /\ compiled = ModuleGraphs!None
  /\ \E s \in DOMAIN Program : s = (IF scenario \in DOMAIN Program THEN scenario ELSE "once") /\ In(s)!Init
  /\ ModulesInit /\ AuthInit

Does(s, act) == scenario = s /\ act /\ UNCHANGED <<pureVars, otherVars>>

MCNext ==
  \/ scenario = "graphs" /\ Graphs!Next /\ UNCHANGED <<vars, table, mapping, graphVars, otherVars>>
  \/ scenario = "routes" /\ Router!Next /\ UNCHANGED <<vars, graph, verdict, graphVars, otherVars>>
  \/ /\ scenario = "modules" /\ ModuleGraphs!Next
     /\ UNCHANGED <<vars, graph, verdict, table, mapping, otherVars>>
  \/ \E s \in Scenarios \cap Shells : Does(s, In(s)!ShellNext /\ UNCHANGED appVars)
  \/ \E s \in Scenarios \cap Applications :
       Does(s, In(s)!Next /\ connecting' \subseteq Program[s].micros)
  \/ ModulesNext /\ UNCHANGED <<vars, pureVars, authVars>>
  \/ AuthNext /\ UNCHANGED <<vars, pureVars, moduleVars>>

\* Application's Fairness, in the scenario that was chosen, and its parts'.
Chosen(s, act) == scenario = s /\ act
MCFairness ==
  /\ ModulesFairness /\ AuthFairness
  /\ \A s \in Scenarios \cap Applications :
       /\ WF_vars(Chosen(s, In(s)!BootStep)) /\ WF_vars(Chosen(s, In(s)!ListenStep))
       /\ WF_vars(Chosen(s, In(s)!StarterStep)) /\ WF_vars(Chosen(s, In(s)!CloseStep))
       /\ WF_vars(Chosen(s, In(s)!Shell))
       /\ \A m \in Program[s].micros :
            /\ WF_vars(Chosen(s, In(s)!Connected(m)))
            /\ WF_vars(Chosen(s, In(s)!MicroListenEnds(m)))
            /\ WF_vars(Chosen(s, In(s)!MicroCloseEnds(m)))
MCSpec == MCInit /\ [][MCNext]_allVars /\ MCFairness

\* DependencyGraphs!OrdersExactlyAcyclic and ModuleGraph!CompilesExactlyVisible:
\* start() orders every acyclic registration after its dependencies, compile
\* orders every acyclic module graph whose modules see what they need, and both
\* refuse every other.
GraphsExact ==
  /\ scenario = "graphs" => Graphs!OrdersExactlyAcyclic
  /\ scenario = "modules" => ModuleGraphs!CompilesExactlyVisible

\* RouteTables!NativeKeepsMatch: the hosts' routers change no handler in tables
\* whose paths do not hide each other.
NativeKeepsMatch == scenario = "routes" => Router!NativeKeepsMatch

\* NothingForgotten, for shells that are started once, as bootstrap does.
NothingForgottenOnce == scenario # "restart" => NothingForgotten

\* What the application was asked for ends: bootstrap up or unwound, a close()
\* and a startAllMicroservices(), whatever they wait for and whatever rejects;
\* and so do the shutdown of the modules and every guarded request.
EverythingSettles ==
  /\ (scenario \in Applications) ~> (boot.pc \in {"up", "failed"})
  /\ CloseSettles /\ StartAllSettles
  /\ []<>(ModulesSettled /\ AuthSettled)
=============================================================================
