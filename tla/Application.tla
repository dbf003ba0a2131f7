----------------------------- MODULE Application -----------------------------
(***************************************************************************)
(* An application of packages/runtime/src/bootstrap.ts over the platform   *)
(* shell: bootstrapApplication, FluoApplication's listen(), close(),       *)
(* connectMicroservice() and startAllMicroservices(), and the connected    *)
(* FluoMicroserviceApplications.  Each action runs to the next await.      *)
(* What a hook, the adapter, a microservice's runtime and the container do *)
(* is external: each may reject where the constants say so.                *)
(***************************************************************************)
EXTENDS PlatformShell

CONSTANTS Services,        \* lifecycle instances in provider order, a sequence
          FailsResolve,    \* services whose resolution may reject
          FailsHook,       \* <<hook, service>> pairs that may reject
          FailsDispatcher, \* may createRuntimeDispatcher throw?
          FailsReady,      \* may the readiness check before listen() fail?
          FailsListen,     \* may adapter.listen() reject?
          FailsCleanup,    \* may a runtime cleanup callback throw?
          FailsClose,      \* may adapter.close() reject?
          FailsDispose,    \* may the container's dispose() reject?
          Micros,          \* microservice tokens that may be connected
          FailsMicroListen, FailsMicroClose, \* those whose runtime may reject
          ConnectLate      \* may a connectMicroservice() end after close() began?

VARIABLES
  boot,       \* bootstrapApplication: where it is and the hooks left to call
  instances,  \* lifecycleInstances; "shell" stands for the shell's own entry
  called,     \* the hooks called so far
  marker,     \* the modules' readiness marker
  appState,   \* applicationState; "closed" also stands for the closed flag
  listening,  \* listenPromise: "none", or the await it is in
  bound,      \* the adapter listens
  disposed,   \* the container is disposed
  closing,    \* the teardown in progress
  closeCalled,\* has close() been called?
  connecting, connected, \* connectMicroservice() calls in flight; connectedMicroservices
  child,      \* the connected microservices
  starter     \* startAllMicroservices()

bootVars == <<boot, instances>>
serveVars == <<appState, listening, bound>>
closeVars == <<closing, closeCalled>>
microVars == <<connecting, connected, child, starter>>
appVars == <<boot, instances, called, marker, appState, listening, bound, disposed,
             closing, closeCalled, connecting, connected, child, starter>>
vars == <<shellVars, appVars>>

NoTeardown == [pc |-> "none", todo |-> <<>>, wait |-> FALSE, errors |-> FALSE]
NoStarter == [pc |-> "none", todo |-> <<>>, done |-> <<>>, wait |-> FALSE]
NewChild == [state |-> "bootstrapped", listening |-> FALSE, closing |-> FALSE, up |-> FALSE]

Hooks == {"onModuleInit", "onApplicationBootstrap", "onModuleDestroy", "onApplicationShutdown"}
Each(hook, s) == [j \in DOMAIN s |-> <<hook, s[j]>>]
BootstrapHooks(s) == Each("onModuleInit", s) \o Each("onApplicationBootstrap", s)
\* The shell's entry, the last one if it is there, has onModuleDestroy only.
WithoutShell(s) == IF s # <<>> /\ Last(s) = "shell" THEN Front(s) ELSE s
\* runShutdownHooks: reverse order.
ShutdownHooks(s) ==
  Each("onModuleDestroy", Reverse(s)) \o Each("onApplicationShutdown", Reverse(WithoutShell(s)))

ASSUME ApplicationAssumption ==
  /\ Services \in Seq(SetOf(Services)) /\ "shell" \notin SetOf(Services)
  /\ FailsHook \subseteq Hooks \X SetOf(Services)

\* The values the variables take.
AppTypeOK ==
  /\ ShellTypeOK
  /\ boot.pc \in {"resolving", "initialising", "starting", "unwinding", "up", "failed"}
  /\ SetOf(instances) \subseteq SetOf(Services) \cup {"shell"}
  /\ called \subseteq Hooks \X SetOf(Services)
  /\ marker \in {"starting", "ready"}
  /\ appState \in {"bootstrapped", "ready", "closed"}
  /\ listening \in {"none", "ready", "adapter"}
  /\ bound \in BOOLEAN /\ disposed \in BOOLEAN /\ closeCalled \in BOOLEAN
  /\ closing.pc \in {"none", "listen", "children", "hooks", "adapter", "container"}
  /\ closing.wait \in BOOLEAN /\ closing.errors \in BOOLEAN
  /\ connecting \subseteq Micros /\ SetOf(connected) \subseteq Micros
  /\ child \in [Micros -> [state : {"bootstrapped", "ready", "closed"},
                           listening : BOOLEAN, closing : BOOLEAN, up : BOOLEAN]]
  /\ starter.pc \in {"none", "starting", "rolling"}

Init ==
  /\ ShellInit
  /\ boot = [pc |-> "resolving", todo |-> <<>>] /\ instances = <<>>
  /\ called = {} /\ marker = "starting"
  /\ appState = "bootstrapped" /\ listening = "none" /\ bound = FALSE
  /\ disposed = FALSE
  /\ closing = NoTeardown /\ closeCalled = FALSE
  /\ connecting = {} /\ connected = <<>>
  /\ child = [m \in Micros |-> NewChild]
  /\ starter = NoStarter

---------------------------------------------------------------------------
(* bootstrapApplication *)

\* Mutant: only the shell's own entry is undone.
UnwindShell(insts) ==
  /\ boot' = [pc |-> "unwinding", todo |-> <<>>]
  /\ marker' = "starting"
  /\ closing' = [NoTeardown EXCEPT !.pc = "hooks", !.todo = ShutdownHooks(<<"shell">>)]
\* The catch block: the marker is reset, and the hooks of what was resolved
\* run; with no instance there is none to run.
Unwind(insts) ==
  /\ boot' = [pc |-> "unwinding", todo |-> <<>>]
  /\ marker' = "starting"
  /\ closing' = [NoTeardown EXCEPT !.pc = "hooks", !.todo = ShutdownHooks(insts)]

\* What may be left of a sequence, in its order.
Sublists(s) ==
  {t \in UNION {[1 .. n -> SetOf(s)] : n \in 0 .. Len(s)} :
     \E at \in [DOMAIN t -> DOMAIN s] :
       \A j \in DOMAIN t : t[j] = s[at[j]] /\ \A i \in 1 .. j - 1 : at[i] < at[j]}

\* resolveLifecycleInstances settles every resolution; what was resolved is
\* kept when one of them fails.
ResolveServices(resolved) ==
  /\ boot.pc = "resolving"
  /\ SetOf(Services) \ SetOf(resolved) \subseteq FailsResolve
  /\ IF resolved = Services
     THEN /\ instances' = Append(resolved, "shell")
          /\ boot' = [pc |-> "initialising", todo |-> BootstrapHooks(resolved)]
          /\ UNCHANGED <<marker, closing>>
     ELSE instances' = resolved /\ Unwind(resolved)
  /\ UNCHANGED <<shellVars, called, serveVars, disposed, closeCalled, microVars>>

InitHook ==
  /\ boot.pc = "initialising" /\ boot.todo # <<>>
  /\ called' = called \cup {Head(boot.todo)}
  /\ \/ boot' = [boot EXCEPT !.todo = Tail(@)] /\ UNCHANGED <<marker, closing>>
     \/ Head(boot.todo) \in FailsHook /\ Unwind(instances)
  /\ UNCHANGED <<shellVars, instances, serveVars, disposed, closeCalled, microVars>>

BootStartsShell ==
  /\ boot.pc = "initialising" /\ boot.todo = <<>>
  /\ ShellStart
  /\ boot' = [boot EXCEPT !.pc = "starting"]
  /\ UNCHANGED <<instances, called, marker, serveVars, disposed, closeVars, microVars>>

\* markReadinessState, then the dispatcher, whose creation may throw.
BootEnds ==
  /\ boot.pc = "starting" /\ op.pc = "idle"
  /\ \/ /\ last = "started"
        /\ boot' = [boot EXCEPT !.pc = "up"] /\ marker' = "ready"
        /\ UNCHANGED closing
     \/ /\ last = "start-failed" \/ FailsDispatcher
        /\ Unwind(instances)
  /\ UNCHANGED <<shellVars, instances, called, serveVars, disposed, closeCalled, microVars>>

---------------------------------------------------------------------------
(* FluoApplication.listen *)

Closing == closing.pc # "none"
Refused == Closing \/ appState = "closed"

Listen ==
  /\ boot.pc = "up" /\ ~Refused /\ appState = "bootstrapped" /\ listening = "none"
  /\ listening' = "ready"
  /\ UNCHANGED <<shellVars, bootVars, called, marker, appState, bound, disposed, closeVars, microVars>>

\* Mutant: the state is set when adapter.listen() is called.
ListenReadyEager ==
  /\ listening = "ready"
  /\ \/ listening' = "adapter" /\ appState' = "ready"
     \/ FailsReady /\ listening' = "none" /\ UNCHANGED appState
  /\ UNCHANGED <<shellVars, bootVars, called, marker, bound, disposed, closeVars, microVars>>
\* assertCriticalReadiness, then adapter.listen() is called.
ListenReady ==
  /\ listening = "ready"
  /\ \/ listening' = "adapter"
     \/ FailsReady /\ listening' = "none"
  /\ UNCHANGED <<shellVars, bootVars, called, marker, appState, bound, disposed, closeVars, microVars>>

\* Mutant: the check after the await is dropped.
StateOnceBoundUnchecked == "ready"
\* The state when the adapter has bound, unless a shutdown began meanwhile.
StateOnceBound == IF Refused THEN appState ELSE "ready"

ListenEnds ==
  /\ listening = "adapter"
  /\ listening' = "none"
  /\ \/ bound' = TRUE /\ appState' = StateOnceBound
     \/ FailsListen /\ UNCHANGED <<bound, appState>>
  /\ UNCHANGED <<shellVars, bootVars, called, marker, disposed, closeVars, microVars>>

---------------------------------------------------------------------------
(* Connected microservices *)

\* container.resolve() refuses once disposed; the push comes after its await,
\* onto the array over which startAllMicroservices() may be iterating.
Connect(m) ==
  /\ boot.pc = "up" /\ ~disposed
  /\ m \notin connecting \cup SetOf(connected)
  /\ ConnectLate \/ ~closeCalled
  /\ connecting' = connecting \cup {m}
  /\ UNCHANGED <<shellVars, bootVars, called, marker, serveVars, disposed, closeVars,
                 connected, child, starter>>

Connected(m) ==
  /\ m \in connecting
  /\ connecting' = connecting \ {m}
  /\ connected' = Append(connected, m)
  /\ starter' = IF starter.pc = "starting" THEN [starter EXCEPT !.todo = Append(@, m)]
                ELSE starter
  /\ UNCHANGED <<shellVars, bootVars, called, marker, serveVars, disposed, closeVars, child>>

ChildRefused(m) == child[m].closing \/ child[m].state = "closed"

ChildListens(m) ==
  /\ ~ChildRefused(m) /\ child[m].state = "bootstrapped" /\ ~child[m].listening
  /\ child' = [child EXCEPT ![m].listening = TRUE]

MicroListen(m) ==
  /\ m \in SetOf(connected) /\ ChildListens(m)
  /\ UNCHANGED <<shellVars, bootVars, called, marker, serveVars, disposed, closeVars,
                 connecting, connected, starter>>

ChildCloses(m) ==
  /\ ~ChildRefused(m)
  /\ child' = [child EXCEPT ![m].closing = TRUE]

MicroClose(m) ==
  /\ m \in SetOf(connected) /\ ChildCloses(m)
  /\ UNCHANGED <<shellVars, bootVars, called, marker, serveVars, disposed, closeVars,
                 connecting, connected, starter>>

StarterWaits(pc, m) == starter.pc = pc /\ starter.wait /\ Head(starter.todo) = m
NextMicro(s) == [s EXCEPT !.todo = Tail(@), !.wait = FALSE]
Started(s) == [NextMicro(s) EXCEPT !.done = Append(@, Head(s.todo))]
Rollback(s) == [pc |-> "rolling", todo |-> Reverse(s.done), done |-> <<>>, wait |-> FALSE]

\* runtime.listen() settles; the child is ready unless its close() began.
MicroListenEnds(m) ==
  /\ child[m].listening
  /\ \E outcome \in {"ready", "interrupted", "failed"} :
       /\ outcome = "failed" => m \in FailsMicroListen
       /\ outcome # "failed" => (outcome = "ready" <=> ~ChildRefused(m))
       /\ child' = [child EXCEPT ![m].listening = FALSE,
                                 ![m].up = @ \/ outcome # "failed",
                                 ![m].state = IF outcome = "ready" THEN "ready" ELSE @]
       /\ starter' = IF StarterWaits("starting", m)
                     THEN IF outcome = "ready" THEN Started(starter) ELSE Rollback(starter)
                     ELSE starter
  /\ UNCHANGED <<shellVars, bootVars, called, marker, serveVars, disposed, closeVars,
                 connecting, connected>>

\* A teardown that waits for this child goes on, with an error if it failed.
ChildDone(m, ok) ==
  IF closing.pc = "children" /\ closing.wait /\ Head(closing.todo) = m
  THEN [closing EXCEPT !.todo = Tail(@), !.wait = FALSE, !.errors = @ \/ ~ok]
  ELSE closing

\* A child's close() waits for its listen(), then calls its runtime's close().
MayRelease(m) == child[m].closing /\ ~child[m].listening

MicroCloseEnds(m) ==
  /\ MayRelease(m)
  /\ \E ok \in BOOLEAN :
       /\ ~ok => m \in FailsMicroClose
       /\ child' = [child EXCEPT ![m].closing = FALSE,
                                 ![m].up = IF ok THEN FALSE ELSE @,
                                 ![m].state = IF ok THEN "closed" ELSE @]
       /\ closing' = ChildDone(m, ok)
  /\ starter' = IF StarterWaits("rolling", m) THEN NextMicro(starter) ELSE starter
  /\ UNCHANGED <<shellVars, bootVars, called, marker, serveVars, disposed, closeCalled,
                 connecting, connected>>

\* startAllMicroservices, from the first microservice to the last connected.
StartAll ==
  /\ boot.pc = "up" /\ starter.pc = "none" /\ connected # <<>>
  /\ starter' = [NoStarter EXCEPT !.pc = "starting", !.todo = connected]
  /\ UNCHANGED <<shellVars, bootVars, called, marker, serveVars, disposed, closeVars,
                 connecting, connected, child>>

StarterAsks ==
  /\ starter.pc = "starting" /\ ~starter.wait /\ starter.todo # <<>>
  /\ LET m == Head(starter.todo)
     IN IF ChildRefused(m) THEN starter' = Rollback(starter) /\ UNCHANGED child
        ELSE IF child[m].state = "ready" THEN starter' = Started(starter) /\ UNCHANGED child
        ELSE /\ starter' = [starter EXCEPT !.wait = TRUE]
             /\ child' = [child EXCEPT ![m].listening = TRUE]
  /\ UNCHANGED <<shellVars, bootVars, called, marker, serveVars, disposed, closeVars,
                 connecting, connected>>

StarterRollsBack ==
  /\ starter.pc = "rolling" /\ ~starter.wait /\ starter.todo # <<>>
  /\ LET m == Head(starter.todo)
     IN IF child[m].state = "closed" THEN starter' = NextMicro(starter) /\ UNCHANGED child
        ELSE /\ starter' = [starter EXCEPT !.wait = TRUE]
             /\ child' = [child EXCEPT ![m].closing = TRUE]
  /\ UNCHANGED <<shellVars, bootVars, called, marker, serveVars, disposed, closeVars,
                 connecting, connected>>

StarterEnds ==
  /\ starter.pc # "none" /\ starter.todo = <<>>
  /\ starter' = NoStarter
  /\ UNCHANGED <<shellVars, bootVars, called, marker, serveVars, disposed, closeVars,
                 connecting, connected, child>>

---------------------------------------------------------------------------
(* FluoApplication.close and the cleanup of a failed bootstrap *)

Close ==
  /\ boot.pc = "up" /\ ~Refused
  /\ ConnectLate \/ connecting = {}
  /\ closing' = [NoTeardown EXCEPT !.pc = "listen"]
  /\ closeCalled' = TRUE
  /\ UNCHANGED <<shellVars, bootVars, called, marker, serveVars, disposed, microVars>>

\* close() first waits for listenPromise, however it ends.
ListenSettled == listening = "none"

CloseAfterListen ==
  /\ closing.pc = "listen" /\ ListenSettled
  /\ closing' = [closing EXCEPT !.pc = "children", !.todo = Reverse(connected)]
  /\ UNCHANGED <<shellVars, bootVars, called, marker, serveVars, disposed, closeCalled, microVars>>

\* closeConnectedMicroservices: one at a time, the last connected first.
CloseChild ==
  /\ closing.pc = "children" /\ closing.todo # <<>> /\ ~closing.wait
  /\ LET m == Head(closing.todo)
     IN IF child[m].state = "closed"
        THEN closing' = [closing EXCEPT !.todo = Tail(@)] /\ UNCHANGED child
        ELSE /\ closing' = [closing EXCEPT !.wait = TRUE]
             /\ child' = [child EXCEPT ![m].closing = TRUE]
  /\ UNCHANGED <<shellVars, bootVars, called, marker, serveVars, disposed, closeCalled,
                 connecting, connected, starter>>

\* resetReadinessState.
MarkerReset == "starting"

\* closeRuntimeResources: reset the marker, run the cleanup callbacks, and
\* call the first hook.
CloseChildrenDone ==
  /\ closing.pc = "children" /\ closing.todo = <<>>
  /\ marker' = MarkerReset
  /\ \E ok \in BOOLEAN :
       /\ ~ok => FailsCleanup
       /\ closing' = [closing EXCEPT !.pc = "hooks", !.todo = ShutdownHooks(instances),
                                     !.errors = @ \/ ~ok]
  /\ UNCHANGED <<shellVars, bootVars, called, serveVars, disposed, closeCalled, microVars>>

HookDone(c) == [c EXCEPT !.todo = Tail(@), !.wait = FALSE]
\* runShutdownHooks stops at the first hook that rejects.
HookFailed(c) == [c EXCEPT !.todo = <<>>, !.wait = FALSE, !.errors = TRUE]

AtHook == closing.pc = "hooks" /\ closing.todo # <<>>
AtShellHook == AtHook /\ Head(closing.todo)[2] = "shell"

ShutdownHook ==
  /\ AtHook /\ ~AtShellHook
  /\ called' = called \cup {Head(closing.todo)}
  /\ \/ closing' = HookDone(closing)
     \/ Head(closing.todo) \in FailsHook /\ closing' = HookFailed(closing)
  /\ UNCHANGED <<shellVars, bootVars, marker, serveVars, disposed, closeCalled, microVars>>

ShutdownStopsShell ==
  /\ AtShellHook /\ ~closing.wait
  /\ ShellStop
  /\ closing' = [closing EXCEPT !.wait = TRUE]
  /\ UNCHANGED <<bootVars, called, marker, serveVars, disposed, closeCalled, microVars>>

ShellStopped ==
  /\ AtShellHook /\ closing.wait /\ op.pc = "idle"
  /\ closing' = IF last = "stopped" THEN HookDone(closing) ELSE HookFailed(closing)
  /\ UNCHANGED <<shellVars, bootVars, called, marker, serveVars, disposed, closeCalled, microVars>>

HooksDone ==
  /\ closing.pc = "hooks" /\ closing.todo = <<>>
  /\ closing' = [closing EXCEPT !.pc = IF boot.pc = "unwinding" THEN "container" ELSE "adapter"]
  /\ UNCHANGED <<shellVars, bootVars, called, marker, serveVars, disposed, closeCalled, microVars>>

CloseAdapter ==
  /\ closing.pc = "adapter"
  /\ \/ bound' = FALSE /\ closing' = [closing EXCEPT !.pc = "container"]
     \/ /\ FailsClose
        /\ closing' = [closing EXCEPT !.pc = "container", !.errors = TRUE]
        /\ UNCHANGED bound
  /\ UNCHANGED <<shellVars, bootVars, called, marker, appState, listening, disposed,
                 closeCalled, microVars>>

\* Mutant: only the container's own error counts.
StateOnceDisposedAnyway(ok) == IF ok THEN "closed" ELSE appState
\* createLifecycleCloseError when any step failed; the state stays as it is.
StateOnceDisposed(ok) == IF ok /\ ~closing.errors THEN "closed" ELSE appState

\* The container is marked disposed even when its dispose() rejects.
DisposeContainer ==
  /\ closing.pc = "container"
  /\ disposed' = TRUE
  /\ closing' = NoTeardown
  /\ \E ok \in BOOLEAN :
       /\ ~ok => FailsDispose
       /\ IF boot.pc = "unwinding"
          THEN boot' = [boot EXCEPT !.pc = "failed"] /\ UNCHANGED appState
          ELSE /\ appState' = StateOnceDisposed(ok)
               /\ UNCHANGED boot
  /\ UNCHANGED <<shellVars, instances, called, marker, listening, bound, closeCalled, microVars>>

---------------------------------------------------------------------------
\* What the application does by itself, and what its user asks for.
BootStep == (\E resolved \in Sublists(Services) : ResolveServices(resolved))
              \/ InitHook \/ BootStartsShell \/ BootEnds
ListenStep == ListenReady \/ ListenEnds
MicroStep == \E m \in Micros : Connected(m) \/ MicroListenEnds(m) \/ MicroCloseEnds(m)
StarterStep == StarterAsks \/ StarterRollsBack \/ StarterEnds
CloseStep ==
  \/ CloseAfterListen \/ CloseChild \/ CloseChildrenDone
  \/ ShutdownHook \/ ShutdownStopsShell \/ ShellStopped \/ HooksDone
  \/ CloseAdapter \/ DisposeContainer
Shell == ShellStep /\ UNCHANGED appVars

User == Listen \/ StartAll \/ Close
          \/ \E m \in Micros : Connect(m) \/ MicroListen(m) \/ MicroClose(m)
Next == BootStep \/ ListenStep \/ MicroStep \/ StarterStep \/ CloseStep \/ Shell \/ User

\* Each await settles: the promises the code waits for are fair, one by one.
\* What the user asks for is not.
Fairness ==
  /\ WF_vars(BootStep) /\ WF_vars(ListenStep) /\ WF_vars(StarterStep)
  /\ WF_vars(CloseStep) /\ WF_vars(Shell)
  /\ \A m \in Micros :
       WF_vars(Connected(m)) /\ WF_vars(MicroListenEnds(m)) /\ WF_vars(MicroCloseEnds(m))

Spec == Init /\ [][Next]_vars
FairSpec == Spec /\ Fairness

---------------------------------------------------------------------------
(* Properties *)

\* A successful close() leaves nothing behind: the adapter is down, the
\* container disposed, every platform component stopped and every connected
\* microservice closed, after any failed close() before it.
ClosedReleases ==
  appState = "closed" =>
    /\ ~bound /\ disposed /\ up = {}
    /\ \A m \in SetOf(connected) : ~child[m].up /\ ~child[m].listening

\* An application that reports ready serves: its adapter is bound over a live
\* container and running components, until a close() is asked for.
ReadyServes ==
  appState = "ready" /\ ~closeCalled =>
    bound /\ ~disposed /\ up = SetOf(registered)

\* What the application reports is what it holds: a closed one has released what
\* it opened, and a ready one serves.
StateMatchesResources == ClosedReleases /\ ReadyServes

\* A service whose onModuleInit ran before a bootstrap that failed gets its
\* onModuleDestroy, as long as no shutdown hook rejects.
UnwindUndoesInit ==
  boot.pc = "failed" =>
    \A i \in SetOf(Services) :
      <<"onModuleInit", i>> \in called => <<"onModuleDestroy", i>> \in called

\* README of the runtime: close() closes the connected microservices, which
\* the application owns.
OwnedMicrosClosed == appState = "closed" => \A m \in Micros : ~child[m].up

\* The application and each microservice keep the promise of a server: none
\* becomes ready or stays bound when a close() overtakes its listen().
AppServer == INSTANCE ServerLifecycle WITH
  state <- appState, starting <- (listening # "none"),
  stopping <- (Closing /\ boot.pc = "up"), bound <- bound
MicroServer(m) == INSTANCE ServerLifecycle WITH
  state <- child[m].state, starting <- child[m].listening,
  stopping <- child[m].closing, bound <- child[m].up
ServersKeepPromise ==
  /\ AppServer!Spec
  /\ \A m \in Micros : MicroServer(m)!Init
  /\ [][\A m \in Micros : [MicroServer(m)!Next]_(MicroServer(m)!vars)]_vars

\* A close() and a startAllMicroservices() end, whatever they wait for and
\* whatever rejects.
CloseSettles == Closing ~> ~Closing
StartAllSettles == starter.pc # "none" ~> starter.pc = "none"
=============================================================================
