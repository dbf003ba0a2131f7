------------------------------ MODULE QueueService ------------------------------
(***************************************************************************)
(* QueueLifecycleService (packages/queue/src/service.ts) with its dead     *)
(* letters (dead-letter-manager.ts).  Callers of ensureStarted share one   *)
(* start, which opens two connections, a queue and a worker per job; each  *)
(* caller of a failed start rolls it back; shutdown waits for the start,   *)
(* closes what is registered and drains the dead letters.  The workers     *)
(* process jobs from the time the application is ready.  BullMQ and Redis  *)
(* are external: a connection may fail to open, a worker may not close in  *)
(* time and is then closed by force, a write may fail or hang.             *)
(***************************************************************************)
EXTENDS Integers, FiniteSets, Functions

CONSTANTS Jobs,      \* job names of the discovered workers
          ShutdownCall, \* the call of shutdown
          Callers,   \* callers of enqueue and the bootstrap hook
          Letters,   \* terminal failures of jobs that may happen
          MaxStarts, \* bound on the starts
          MaxSets    \* bound on the sets of resources opened for a job

QueueAssumption ==
  /\ MaxStarts \in Nat \ {0} /\ MaxSets \in Nat \ {0}
  /\ ShutdownCall \notin Callers /\ (Callers \cup {ShutdownCall}) \cap (1..MaxStarts) = {}

VARIABLES
  lifecycleState, startPromise, \* the fields; 0 when there is no start
  redisClient,  \* is it set?
  current,      \* queuesByJobName and workersByJobName: the set of each job, 0 when none
  owned,        \* sets whose connections are in ownedConnections
  readyWorkers, \* sets whose worker is in readyWorkers
  phase, left, building, \* of each start: where it is, the jobs to come, the set it opens
  jobOf,        \* the job of each set opened
  open,         \* resources that are open
  scheduled,    \* workers each start handed to the bootstrap-ready signal
  ready,        \* has the application signalled it?
  running,      \* workers whose processor may still fail a job
  closing,      \* the resources each actor has taken to close
  caller, waitsFor, \* where each caller is, and the start it, or shutdown, waits for
  stop,         \* where shutdown is
  letter,       \* the dead letter of each terminal failure
  awaited       \* the writes shutdown waits for

registry == <<current, owned, readyWorkers>>
starts == <<phase, left, building, jobOf>>
workers == <<scheduled, ready, running>>
callers == <<caller, waitsFor>>
letters == <<letter, awaited>>
vars == <<lifecycleState, startPromise, redisClient, registry, starts, open, workers, closing, callers, stop, letters>>

Starts == 1..MaxStarts
Sets == 1..MaxSets
\* The order in which resources are closed.
Rank == [worker |-> 1, queue |-> 2, workerConnection |-> 3, queueConnection |-> 3]
Kinds == DOMAIN Rank
Resources == Kinds \X Sets
Waiters == Callers \cup {ShutdownCall}
Actors == Callers \cup Starts \cup {ShutdownCall}
Stopped == {"stopping", "stopped"}
InFlight == {s \in Starts : phase[s] \in {"resolving", "opening", "cleaning"}}
Registered == Range(current) \ {0}

TypeOK ==
  /\ lifecycleState \in {"idle", "starting", "started", "stopping", "stopped"}
  /\ startPromise \in {0} \cup Starts /\ redisClient \in BOOLEAN
  /\ current \in [Jobs -> {0} \cup Sets] /\ owned \subseteq Sets /\ readyWorkers \subseteq Sets
  /\ phase \in [Starts -> {"unused", "resolving", "opening", "cleaning", "ok", "failed"}]
  /\ left \in [Starts -> SUBSET Jobs] /\ building \in [Starts -> {0} \cup Sets]
  /\ DOMAIN jobOf \subseteq Sets /\ open \subseteq Resources
  /\ scheduled \in [Starts -> SUBSET Sets] /\ ready \in BOOLEAN /\ running \subseteq Sets
  /\ closing \in [Actors -> SUBSET Resources]
  /\ caller \in [Callers -> {"out", "waiting", "closing", "accepted", "refused"}]
  /\ waitsFor \in [Waiters -> {0} \cup Starts]
  /\ stop \in {"no", "waiting", "closing", "draining", "done"}
  /\ letter \in [Letters -> {"none", "pending", "written", "failed", "abandoned", "lost"}]
  /\ awaited \subseteq Letters

Init ==
  /\ lifecycleState = "idle" /\ startPromise = 0 /\ redisClient = FALSE
  /\ current = [j \in Jobs |-> 0] /\ owned = {} /\ readyWorkers = {}
  /\ phase = [s \in Starts |-> "unused"] /\ left = [s \in Starts |-> {}]
  /\ building = [s \in Starts |-> 0] /\ jobOf = <<>> /\ open = {}
  /\ scheduled = [s \in Starts |-> {}] /\ ready = FALSE /\ running = {}
  /\ closing = [a \in Actors |-> {}]
  /\ caller = [c \in Callers |-> "out"] /\ waitsFor = [w \in Waiters |-> 0]
  /\ stop = "no" /\ letter = [l \in Letters |-> "none"] /\ awaited = {}

---------------------------------------------------------------------------
(* ensureStarted and enqueue *)

\* The queue has started, or enqueue throws because it is stopping.
EnsureStartedReturns(c) ==
  /\ caller[c] \in {"out", "refused"} /\ lifecycleState \in {"started"} \cup Stopped
  /\ caller' = [caller EXCEPT ![c] = IF lifecycleState = "started" THEN "accepted" ELSE "refused"]
  /\ UNCHANGED <<lifecycleState, startPromise, redisClient, registry, starts, open, workers, closing, waitsFor, stop, letters>>

\* A start under way is shared, otherwise one begins.  All who wait for a start
\* that settled resume before anybody calls again.
EnsureStartedWaits(c) ==
  /\ caller[c] \in {"out", "refused"} /\ lifecycleState \in {"idle", "starting"}
  /\ \A d \in Callers : caller[d] = "waiting" => waitsFor[d] \in InFlight
  /\ \E s \in Starts :
       /\ IF startPromise # 0
          THEN s = startPromise /\ UNCHANGED <<lifecycleState, phase>>
          ELSE /\ phase[s] = "unused" /\ \A t \in Starts : t < s => phase[t] # "unused"
               /\ lifecycleState' = "starting"
               /\ phase' = [phase EXCEPT ![s] = "resolving"]
       /\ startPromise' = s
       /\ waitsFor' = [waitsFor EXCEPT ![c] = s]
  /\ caller' = [caller EXCEPT ![c] = "waiting"]
  /\ UNCHANGED <<redisClient, registry, left, building, jobOf, open, workers, closing, stop, letters>>

\* The start succeeded: enqueue looks at the state again.
StartSucceeded(c) ==
  /\ caller[c] = "waiting" /\ phase[waitsFor[c]] = "ok"
  /\ startPromise' = 0
  /\ caller' = [caller EXCEPT ![c] = IF lifecycleState = "started" THEN "accepted" ELSE "refused"]
  /\ UNCHANGED <<lifecycleState, redisClient, registry, starts, open, workers, closing, waitsFor, stop, letters>>

\* closeInitializedResources: what is registered is taken at once ...
Initialized ==
  (({"worker", "queue"} \X Registered) \cup ({"workerConnection", "queueConnection"} \X owned)) \cap open
TakesAll(a) ==
  /\ closing' = [closing EXCEPT ![a] = Initialized]
  /\ current' = [j \in Jobs |-> 0] /\ owned' = {} /\ readyWorkers' = {}

\* ... and closed one by one.  A worker that does not close within
\* workerShutdownTimeoutMs is closed by force, and its job may still fail.
Close(a) ==
  /\ \E r \in closing[a] :
       /\ \A q \in closing[a] : Rank[r[1]] <= Rank[q[1]]
       /\ closing' = [closing EXCEPT ![a] = @ \ {r}]
       /\ open' = open \ {r}
       /\ \/ running' = IF r[1] = "worker" THEN running \ {r[2]} ELSE running
          \/ r[1] = "worker" /\ r[2] \in running /\ running' = running
  /\ UNCHANGED <<lifecycleState, startPromise, redisClient, registry, starts, scheduled, ready, callers, stop, letters>>

\* Mutant: idle whatever happened during the rollback.
AfterRollbackAlways(state) == "idle"
AfterRollback(state) == IF state = "starting" THEN "idle" ELSE state

RolledBack(c) ==
  /\ lifecycleState' = AfterRollback(lifecycleState)
  /\ redisClient' = FALSE /\ startPromise' = 0
  /\ caller' = [caller EXCEPT ![c] = "refused"]

\* handleStartupFailure: each caller closes what is left, and then makes the
\* service idle again, unless it is stopping.
StartFailed(c) ==
  /\ caller[c] = "waiting" /\ phase[waitsFor[c]] = "failed"
  /\ TakesAll(c)
  /\ IF Initialized = {} THEN RolledBack(c)
     ELSE /\ caller' = [caller EXCEPT ![c] = "closing"]
          /\ UNCHANGED <<lifecycleState, startPromise, redisClient>>
  /\ UNCHANGED <<starts, open, workers, waitsFor, stop, letters>>

StartupFailureHandled(c) ==
  /\ caller[c] = "closing" /\ closing[c] = {}
  /\ RolledBack(c)
  /\ UNCHANGED <<registry, starts, open, workers, closing, waitsFor, stop, letters>>

---------------------------------------------------------------------------
(* startLifecycle *)

\* The client is resolved and the workers discovered.  A start under way walks
\* the same map, which is cleared and filled again.
ResolveClient(s) ==
  /\ phase[s] = "resolving"
  /\ \/ /\ phase' = [phase EXCEPT ![s] = "opening"]
        /\ redisClient' = TRUE
        /\ left' = [t \in Starts |-> IF t = s \/ phase[t] = "opening" THEN Jobs ELSE left[t]]
     \/ /\ phase' = [phase EXCEPT ![s] = "failed"]
        /\ UNCHANGED <<redisClient, left>>
  /\ UNCHANGED <<lifecycleState, startPromise, registry, building, jobOf, open, workers, closing, callers, stop, letters>>

\* cleanupWorkerInitializationFailure
GivesUp(s, resources) ==
  /\ phase' = [phase EXCEPT ![s] = "cleaning"]
  /\ closing' = [closing EXCEPT ![s] = resources]

OpenQueueConnection(s) ==
  /\ phase[s] = "opening" /\ building[s] = 0 /\ Cardinality(DOMAIN jobOf) < MaxSets
  /\ \E j \in left[s] :
       LET i == Cardinality(DOMAIN jobOf) + 1 IN
       \/ /\ jobOf' = [k \in 1..i |-> IF k = i THEN j ELSE jobOf[k]]
          /\ left' = [left EXCEPT ![s] = @ \ {j}]
          /\ building' = [building EXCEPT ![s] = i]
          /\ open' = open \cup {<<"queueConnection", i>>}
          /\ UNCHANGED <<phase, closing>>
       \/ GivesUp(s, {}) /\ UNCHANGED <<jobOf, left, building, open>>
  /\ UNCHANGED <<lifecycleState, startPromise, redisClient, registry, workers, callers, stop, letters>>

\* The resources of an unfinished set.
Opened(i) == {<<kind, i>> : kind \in Kinds} \cap open

OpenWorkerConnection(s) ==
  /\ phase[s] = "opening" /\ building[s] # 0 /\ <<"workerConnection", building[s]>> \notin open
  /\ \/ /\ open' = open \cup {<<"workerConnection", building[s]>>}
        /\ UNCHANGED <<phase, closing>>
     \/ GivesUp(s, Opened(building[s])) /\ UNCHANGED open
  /\ UNCHANGED <<lifecycleState, startPromise, redisClient, registry, left, building, jobOf, workers, callers, stop, letters>>

\* The queue and the worker are made and the set is registered; making the
\* worker may throw.
RegisterInitializedWorker(s) ==
  /\ phase[s] = "opening" /\ building[s] # 0 /\ <<"workerConnection", building[s]>> \in open
  /\ LET i == building[s] IN
     \/ /\ open' = open \cup {<<"queue", i>>, <<"worker", i>>}
        /\ current' = [current EXCEPT ![jobOf[i]] = i]
        /\ owned' = owned \cup {i} /\ readyWorkers' = readyWorkers \cup {i}
        /\ building' = [building EXCEPT ![s] = 0]
        /\ UNCHANGED <<phase, closing>>
     \/ /\ open' = open \cup {<<"queue", i>>}
        /\ GivesUp(s, Opened(i) \cup {<<"queue", i>>})
        /\ UNCHANGED <<registry, building>>
  /\ UNCHANGED <<lifecycleState, startPromise, redisClient, left, jobOf, workers, callers, stop, letters>>

CleanedUp(s) ==
  /\ phase[s] = "cleaning" /\ closing[s] = {}
  /\ phase' = [phase EXCEPT ![s] = "failed"] /\ building' = [building EXCEPT ![s] = 0]
  /\ UNCHANGED <<lifecycleState, startPromise, redisClient, registry, left, jobOf, open, workers, closing, callers, stop, letters>>

StateOnceOpen(state) == IF state = "starting" THEN "started" ELSE state

FinishStart(s) ==
  /\ phase[s] = "opening" /\ building[s] = 0 /\ left[s] = {}
  /\ phase' = [phase EXCEPT ![s] = "ok"]
  /\ lifecycleState' = StateOnceOpen(lifecycleState)
  /\ IF lifecycleState = "starting"
     THEN scheduled' = [scheduled EXCEPT ![s] = readyWorkers] /\ readyWorkers' = {}
     ELSE UNCHANGED <<scheduled, readyWorkers>>
  /\ UNCHANGED <<startPromise, redisClient, current, owned, left, building, jobOf, open, ready, running, closing, callers, stop, letters>>

---------------------------------------------------------------------------
(* scheduleReadyWorkers, and the dead letters of the workers *)

BootstrapReady ==
  /\ ~ready /\ ready' = TRUE
  /\ UNCHANGED <<lifecycleState, startPromise, redisClient, registry, starts, open, scheduled, running, closing, callers, stop, letters>>

MayRun(state) == state = "started"

RunWorkers(s) ==
  /\ ready /\ scheduled[s] # {}
  /\ running' = IF MayRun(lifecycleState) THEN running \cup scheduled[s] ELSE running
  /\ scheduled' = [scheduled EXCEPT ![s] = {}]
  /\ UNCHANGED <<lifecycleState, startPromise, redisClient, registry, starts, open, ready, closing, callers, stop, letters>>

\* trackTerminalFailure: a job of a running worker failed for the last time.
\* getRedisClient throws when there is no client, which is only logged.
TrackTerminalFailure(l) ==
  /\ letter[l] = "none" /\ running # {}
  /\ letter' = [letter EXCEPT ![l] = IF redisClient THEN "pending" ELSE "lost"]
  /\ UNCHANGED <<lifecycleState, startPromise, redisClient, registry, starts, open, workers, closing, callers, stop, awaited>>

WriteSettles(l) ==
  /\ letter[l] = "pending"
  /\ \E outcome \in {"written", "failed"} : letter' = [letter EXCEPT ![l] = outcome]
  /\ UNCHANGED <<lifecycleState, startPromise, redisClient, registry, starts, open, workers, closing, callers, stop, awaited>>

---------------------------------------------------------------------------
(* shutdown *)

\* Mutant: shutdown does not wait for the start.
InFlightStartupNone(promise) == 0
\* waitForInFlightStartup
InFlightStartup(promise) == promise

Shutdown ==
  /\ stop = "no" /\ stop' = "waiting"
  /\ lifecycleState' = "stopping"
  /\ waitsFor' = [waitsFor EXCEPT ![ShutdownCall] = InFlightStartup(startPromise)]
  /\ UNCHANGED <<startPromise, redisClient, registry, starts, open, workers, closing, caller, letters>>

\* A start that failed is no error here.
ShutdownCloses ==
  /\ stop = "waiting" /\ waitsFor[ShutdownCall] \notin InFlight
  /\ TakesAll(ShutdownCall)
  /\ stop' = "closing"
  /\ UNCHANGED <<lifecycleState, startPromise, redisClient, starts, open, workers, callers, letters>>

Pending == {l \in Letters : letter[l] = "pending"}
\* drainPendingWrites: writes that began meanwhile are waited for as well.
MayStop(pending) == pending = {}

\* Mutant: the client is dropped before the drain.
DrainPendingWritesBlind ==
  /\ stop = "closing" /\ closing[ShutdownCall] = {}
  /\ stop' = "draining" /\ awaited' = Pending /\ redisClient' = FALSE
  /\ UNCHANGED <<lifecycleState, startPromise, registry, starts, open, workers, closing, callers, letter>>
DrainPendingWrites ==
  /\ stop = "closing" /\ closing[ShutdownCall] = {}
  /\ stop' = "draining" /\ awaited' = Pending
  /\ UNCHANGED <<lifecycleState, startPromise, redisClient, registry, starts, open, workers, closing, callers, letter>>

DrainWriteTimesOut ==
  /\ \E l \in awaited \cap Pending : letter' = [letter EXCEPT ![l] = "abandoned"]
  /\ UNCHANGED <<lifecycleState, startPromise, redisClient, registry, starts, open, workers, closing, callers, stop, awaited>>

DrainAgain ==
  /\ stop = "draining" /\ awaited \cap Pending = {} /\ ~MayStop(Pending)
  /\ awaited' = Pending
  /\ UNCHANGED <<lifecycleState, startPromise, redisClient, registry, starts, open, workers, closing, callers, stop, letter>>

ShutdownDone ==
  /\ stop = "draining" /\ awaited \cap Pending = {} /\ MayStop(Pending)
  /\ stop' = "done" /\ awaited' = {}
  /\ lifecycleState' = "stopped" /\ redisClient' = FALSE /\ startPromise' = 0
  /\ UNCHANGED <<registry, starts, open, workers, closing, callers, letter>>

---------------------------------------------------------------------------
CallerStep(c) == StartSucceeded(c) \/ StartFailed(c) \/ StartupFailureHandled(c)
StartStep(s) ==
  \/ ResolveClient(s) \/ OpenQueueConnection(s) \/ OpenWorkerConnection(s)
  \/ RegisterInitializedWorker(s) \/ CleanedUp(s) \/ FinishStart(s)
ShutdownStep == ShutdownCloses \/ DrainPendingWrites \/ DrainWriteTimesOut \/ DrainAgain \/ ShutdownDone
Next ==
  \/ \E c \in Callers : EnsureStartedReturns(c) \/ EnsureStartedWaits(c) \/ CallerStep(c)
  \/ \E s \in Starts : StartStep(s) \/ RunWorkers(s)
  \/ \E a \in Actors : Close(a)
  \/ \E l \in Letters : TrackTerminalFailure(l) \/ WriteSettles(l)
  \/ BootstrapReady \/ Shutdown \/ ShutdownStep

\* Promises settle: Redis answers a connect or a close with success or failure,
\* workers are closed by force after a timeout, writes are given up after one.
\* Nothing makes a caller call, a job fail or the application stop.
Due ==
  \/ \E c \in Callers : CallerStep(c)
  \/ \E s \in Starts : StartStep(s)
  \/ \E a \in Actors : Close(a)
  \/ ShutdownStep
Spec == Init /\ [][Next]_vars /\ WF_vars(Due)

---------------------------------------------------------------------------
(* Properties *)

\* What is open is registered, taken by somebody who closes it, or being set up:
\* nothing is left for which no close will be called (cleanup of a failed worker,
\* rollback, closeInitializedResources).  It takes that no caller rolls a start
\* back while another begins the next one: handleStartupFailure of the first
\* forgets the start of the second, a third then replaces its workers.
OpenIsOwned ==
  \A r \in open :
    \/ r[1] \in {"worker", "queue"} /\ r[2] \in Registered
    \/ r[1] \in {"workerConnection", "queueConnection"} /\ r[2] \in owned
    \/ \E a \in Actors : r \in closing[a]
    \/ \E s \in InFlight : r[2] = building[s]

\* No rollback or start that ends late brings a stopping service back.
StaysStopped == (lifecycleState \in Stopped) => (lifecycleState' \in Stopped)
ShutdownIsFinal == [][StaysStopped]_vars

\* "When a worker exhausts its retry attempts, Queue appends a dead-letter record
\* to Redis" (README of the package): until the service has stopped, no failure
\* finds the Redis client gone.  It takes the same as OpenIsOwned: a rollback that
\* ends late drops the client of the start that followed.
LettersReachRedis == \A l \in Letters : letter[l] = "lost" => stop = "done"

\* In the end shutdown is over and everything the service opened is closed.
AllClosed == stop # "no" => stop = "done" /\ open = {}

=============================================================================
