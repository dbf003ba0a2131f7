------------------------------ MODULE Container ------------------------------
(***************************************************************************)
(* The dependency-injection container of packages/di/src/container.ts: one *)
(* root container, request scopes below it, and resolve() calls that run   *)
(* concurrently on one JavaScript event loop.                              *)
(*                                                                         *)
(* A call runs without interruption (running = c) until it awaits; then    *)
(* any other call, override(), dispose() or settled factory may run.  The  *)
(* caches hold promises, not instances, so a promise is an identifier here *)
(* and the instance it is fulfilled with has the same identifier.  Every   *)
(* provider builds like an asynchronous factory: a class constructor is a  *)
(* factory that happens to settle at once.                                 *)
(***************************************************************************)
EXTENDS Integers, FiniteSets, Sequences

CONSTANTS
  Tokens,       \* the tokens of the provider graph
  Providers,    \* normalized providers, registered or passed to override()
  Root,         \* the root container
  Children,     \* request scopes createRequestScope() may return
  Calls,        \* resolve() calls a test or a request makes, each at most once
  None,         \* absence of a provider, token, container or running call
  MaxIds,       \* bound: promises created in one behaviour
  provide,      \* provider -> the token it provides
  scope,        \* provider -> "singleton", "request" or "transient"
  inject,       \* provider -> the tokens of its inject list
  useExisting,  \* provider -> the token an alias points at, or None
  Initial,      \* providers registered on the root before anything resolves
  Registers,    \* <<container, provider>> pairs register() may be called with
  Overrides,    \* <<container, provider>> pairs override() may be called with
  Asks,         \* <<call, container, token>>: what each call may resolve
  Disposes,     \* the containers whose dispose() may be called from outside
  Throws,       \* providers whose factory or constructor may throw
  DestroyThrows \* providers whose instance may throw in onDestroy()

Containers == {Root} \cup Children
Ids == 1 .. MaxIds
Pairs == Containers \X Providers

ASSUME ConstantsAssumption ==
  /\ MaxIds \in Nat
  /\ Root \notin Children
  /\ None \notin Tokens \cup Providers \cup Containers \cup Calls
  /\ provide \in [Providers -> Tokens]
  /\ scope \in [Providers -> {"singleton", "request", "transient"}]
  /\ inject \in [Providers -> Seq(Tokens)]
  /\ useExisting \in [Providers -> Tokens \cup {None}]
  /\ Initial \subseteq Providers
  /\ Registers \subseteq Pairs /\ Overrides \subseteq Pairs
  /\ Asks \subseteq Calls \X Containers \X Tokens
  /\ Disposes \subseteq Containers
  /\ Throws \subseteq Providers /\ DestroyThrows \subseteq Providers

\* At most one initial provider per token: register() rejects a duplicate.
ASSUME InitialAssumption ==
  \A p, q \in Initial : provide[p] = provide[q] => p = q

VARIABLES
  registrations,  \* container -> token -> its own provider, or None
  promise,        \* identifier -> the creation it stands for
  cache,          \* container -> promises in its singleton / request cache
  call,           \* resolve call -> its program counter and locals
  running,        \* the call the event loop is executing, or None
  childScopes,    \* request scopes the root will dispose
  trackedByRoot,  \* request scopes that hold themselves tracked
  phase,          \* container -> how far its disposal is
  todo,           \* container -> cached promises its disposal still handles
  kids,           \* request scopes the root's disposal is waiting for
  errors,         \* container -> whether its disposal collected an error
  stale,          \* container -> promises its staleDisposalTasks wait for
  staleErrors,    \* container -> whether staleDisposalErrors is not empty
  destroyed       \* identifier -> number of onDestroy() calls

graphVars == <<registrations, running>>
trackVars == <<childScopes, trackedByRoot>>
disposalVars == <<phase, todo, kids, errors, stale, staleErrors, destroyed>>
vars == <<graphVars, promise, cache, call, trackVars, disposalVars>>

Failures == {"circular", "missing", "outside-request", "scope-mismatch", "threw"}
Unsettled == {"free", "new", "pending", "building"}

\* stray (history): the container does not answer for the instance, which was
\* stored when disposal had begun or was evicted by the failure of another.
FreePromise ==
  [prov |-> None, home |-> None, within |-> None, owner |-> None, next |-> 1,
   toks |-> {}, deps |-> {}, state |-> "free", stamp |-> 0,
   stray |-> FALSE]

IdleCall == [mode |-> "idle", in |-> None, want |-> None, via |-> {},
             waits |-> 0, fault |-> "none"]

(***************************************************************************)
(* The provider graph as a container sees it.                              *)
(***************************************************************************)

\* lookupProvider: the container's own registration, else its parent's.
Lookup(k, t) ==
  IF registrations[k][t] # None THEN registrations[k][t] ELSE registrations[Root][t]

\* One edge of the graph: the injected tokens, or the target of an alias.
Edges(p) ==
  IF useExisting[p] # None THEN {useExisting[p]}
  ELSE {inject[p][n] : n \in 1 .. Len(inject[p])}

Successors(k, t) == IF Lookup(k, t) = None THEN {} ELSE Edges(Lookup(k, t))

\* Tokens reachable from S by zero or more edges of container k's graph.
Reachable(k, S) ==
  {t \in Tokens : \A C \in SUBSET Tokens :
      (S \subseteq C /\ \A u \in C : Successors(k, u) \subseteq C) => t \in C}

\* assertSingletonDependencyScopes: what a singleton may not reach.
ReachesRequestScope(k, p) ==
  \E t \in Reachable(k, Edges(p)) :
    Lookup(k, t) # None /\ scope[Lookup(k, t)] = "request"

\* Mutant: only direct consumers are invalidated.
AffectedDirectly(k, t, u) == u \in {t} \cup Successors(k, t)

\* shouldInvalidateCachedToken: u is overridden, does cached token t go?
Affected(k, t, u) == u \in Reachable(k, {t})

\* shouldResolveFromRoot and cacheFor: the container whose cache p lives in.
Home(k, p) ==
  IF scope[p] = "singleton" /\ registrations[k][provide[p]] = None THEN Root ELSE k

\* Mutant: a request scope instantiates the root's singletons itself.
WithinCaller(k, p) == k

\* Where a provider found by container k is instantiated: a shared singleton
\* by the root, from the root's graph.
Within(k, p) == IF scope[p] = "transient" THEN k ELSE Home(k, p)

\* Mutant: the cache is of instances, filled when a creation is over.
CachedInstanceFor(h, t) ==
  {i \in cache[h] : provide[promise[i].prov] = t /\ promise[i].state = "ok"}

\* The cache entry of a token: there is at most one.
CachedFor(h, t) == {i \in cache[h] : provide[promise[i].prov] = t}

Disposed(k) == phase[k] \notin {"absent", "open"}
DisposedInHierarchy(k) == Disposed(k) \/ Disposed(Root)

(***************************************************************************)
(* Calls.                                                                  *)
(***************************************************************************)

Settled(i) == promise[i].state \notin Unsettled
Fulfilled(i) == promise[i].state = "ok"

\* Creations call c is inside of: its stack of resolveWithChain frames.
Frames(c) == {i \in Ids : promise[i].owner = c /\ ~Settled(i)}
NewFrames(c) == {i \in Frames(c) : promise[i].state = "new"}
\* Identifiers are handed out in order, so the innermost frame is the largest.
Innermost(i, S) == i \in S /\ \A j \in S : j <= i

\* Mutant: withTokenInChain never removes its token.
ActiveTokensKept(c) ==
  UNION {promise[i].toks : i \in {j \in Ids : promise[j].owner = c}} \cup call[c].via

\* Mutant: no cycle check.
ActiveTokensNone(c) == {}

\* The chain / activeTokens arguments: every token c is in the middle of.
ActiveTokens(c) == UNION {promise[i].toks : i \in Frames(c)} \cup call[c].via

NextFree(i) ==
  promise[i].state = "free" /\ \A j \in Ids : j < i => promise[j].state # "free"
LastStamp == Cardinality({i \in Ids : promise[i].stamp # 0})

Init ==
  /\ registrations = [k \in Containers |-> [t \in Tokens |->
       IF k = Root /\ \E p \in Initial : provide[p] = t
       THEN CHOOSE p \in Initial : provide[p] = t ELSE None]]
  /\ promise = [i \in Ids |-> FreePromise]
  /\ cache = [k \in Containers |-> {}]
  /\ call = [c \in Calls |-> IdleCall]
  /\ running = None
  /\ childScopes = {} /\ trackedByRoot = {}
  /\ phase = [k \in Containers |-> IF k = Root THEN "open" ELSE "absent"]
  /\ todo = [k \in Containers |-> {}]
  /\ kids = {}
  /\ errors = [k \in Containers |-> FALSE]
  /\ stale = [k \in Containers |-> {}]
  /\ staleErrors = [k \in Containers |-> FALSE]
  /\ destroyed = [i \in Ids |-> 0]

\* register(): a token not yet registered here; no singleton on a child.
Register(k, p) ==
  /\ running = None /\ <<k, p>> \in Registers
  /\ phase[k] # "absent" /\ ~DisposedInHierarchy(k)
  /\ k # Root => scope[p] # "singleton"
  /\ registrations[k][provide[p]] = None
  /\ registrations' = [registrations EXCEPT ![k][provide[p]] = p]
  /\ UNCHANGED <<promise, cache, call, running, trackVars, disposalVars>>

\* createRequestScope()
CreateRequestScope(k) ==
  /\ running = None /\ k \in Children
  /\ phase[k] = "absent" /\ ~Disposed(Root)
  /\ phase' = [phase EXCEPT ![k] = "open"]
  /\ UNCHANGED <<graphVars, promise, cache, call, trackVars, todo, kids, errors,
                 stale, staleErrors, destroyed>>

\* resolve(): the disposal check is made here and nowhere below.
Resolve(c, k, t) ==
  /\ running = None /\ <<c, k, t>> \in Asks
  /\ phase[k] # "absent" /\ call[c].mode = "idle"
  /\ IF DisposedInHierarchy(k)
     THEN /\ call' = [call EXCEPT ![c] =
               [@ EXCEPT !.mode = "done", !.fault = "disposed"]]
          /\ UNCHANGED running
     ELSE /\ call' = [call EXCEPT ![c] =
               [@ EXCEPT !.mode = "resolve", !.in = k, !.want = t]]
          /\ running' = c
  /\ UNCHANGED <<registrations, promise, cache, trackVars, disposalVars>>

(***************************************************************************)
(* resolveWithChain / resolveFromRegisteredProviders, one lookup at a      *)
(* time, for the call the event loop runs.                                 *)
(***************************************************************************)

Looking(c) == running = c /\ call[c].mode = "resolve"
Circular(c) == call[c].want \in ActiveTokens(c)
Found(c) == Lookup(call[c].in, call[c].want)

\* Leave the lookup: await promise i (0: one already rejected with f).
AwaitNext(c, i, f) ==
  call' = [call EXCEPT ![c] =
             [@ EXCEPT !.mode = "suspend", !.waits = i, !.fault = f, !.via = {}]]

\* ensureTrackedRequestScope: using a request cache makes the root track it.
Track(h) ==
  LET newly == ({h} \cap Children) \ trackedByRoot
  IN /\ childScopes' = childScopes \cup newly
     /\ trackedByRoot' = trackedByRoot \cup newly

\* resolveForwardRefCircularDependency: the token is being resolved already.
ThrowCircular(c) ==
  /\ Looking(c) /\ Circular(c)
  /\ AwaitNext(c, 0, "circular")
  /\ UNCHANGED <<graphVars, promise, cache, trackVars, disposalVars>>

\* requireProvider: no provider registered.
ThrowMissing(c) ==
  /\ Looking(c) /\ ~Circular(c) /\ Found(c) = None
  /\ AwaitNext(c, 0, "missing")
  /\ UNCHANGED <<graphVars, promise, cache, trackVars, disposalVars>>

\* cacheFor: a request-scoped provider resolved on the root.
ThrowOutsideRequest(c) ==
  /\ Looking(c) /\ ~Circular(c) /\ Found(c) # None
  /\ useExisting[Found(c)] = None
  /\ scope[Found(c)] = "request" /\ call[c].in = Root
  /\ AwaitNext(c, 0, "outside-request")
  /\ UNCHANGED <<graphVars, promise, cache, trackVars, disposalVars>>

\* resolveAliasTarget: go on with the target, the alias token in the chain.
FollowAlias(c) ==
  /\ Looking(c) /\ ~Circular(c) /\ Found(c) # None
  /\ useExisting[Found(c)] # None
  /\ call' = [call EXCEPT ![c] =
       [@ EXCEPT !.want = useExisting[Found(c)],
                 !.via = call[c].via \cup {call[c].want}]]
  /\ UNCHANGED <<graphVars, promise, cache, trackVars, disposalVars>>

\* An alias is never cached, a transient never shared.
Cacheable(c) ==
  /\ Found(c) # None /\ useExisting[Found(c)] = None
  /\ scope[Found(c)] # "transient"
  /\ ~(scope[Found(c)] = "request" /\ call[c].in = Root)

Hits(c) == CachedFor(Home(call[c].in, Found(c)), call[c].want)

\* The promise is cached, settled or not: wait for it.
ShareCached(c) ==
  /\ Looking(c) /\ ~Circular(c) /\ Cacheable(c)
  /\ \E i \in Hits(c) : AwaitNext(c, i, "none")
  /\ Track(Home(call[c].in, Found(c)))
  /\ UNCHANGED <<graphVars, promise, cache, disposalVars>>

\* A miss (or a transient): instantiate as i, first dependency first.
Instantiate(c, i) ==
  /\ Looking(c) /\ ~Circular(c) /\ NextFree(i)
  /\ LET p == Found(c)
         transient == scope[p] = "transient"
         h == IF transient THEN None ELSE Home(call[c].in, p)
         within == Within(call[c].in, p)
         mismatch == scope[p] = "singleton" /\ ReachesRequestScope(within, p)
     IN /\ p # None /\ useExisting[p] = None
        /\ transient \/ (Cacheable(c) /\ Hits(c) = {})
        /\ promise' = [promise EXCEPT ![i] =
             [FreePromise EXCEPT !.prov = p, !.home = h, !.within = within,
                !.owner = c, !.toks = call[c].via \cup {call[c].want},
                !.state = "new"]]
        /\ Track(h)
        /\ IF mismatch THEN AwaitNext(c, 0, "scope-mismatch")
           ELSE IF inject[p] = <<>> THEN AwaitNext(c, i, "none")
           ELSE call' = [call EXCEPT ![c] =
                  [@ EXCEPT !.want = inject[p][1], !.in = within, !.via = {}]]
  /\ UNCHANGED <<graphVars, cache, disposalVars>>

\* The first real await unwinds the stack: the innermost instantiate()
\* returns its promise first, so it is put into its cache first.
StorePromise(c, i) ==
  /\ running = c /\ call[c].mode = "suspend" /\ Innermost(i, NewFrames(c))
  /\ LET h == promise[i].home
     IN /\ promise' = [promise EXCEPT
             ![i] = [@ EXCEPT
               !.state = IF call[c].waits = i THEN "building" ELSE "pending",
               !.stamp = IF h = None THEN 0 ELSE LastStamp + 1,
               !.stray = h # None /\ DisposedInHierarchy(h)]]
        /\ cache' = IF h = None THEN cache ELSE [cache EXCEPT ![h] = @ \cup {i}]
  /\ UNCHANGED <<graphVars, call, trackVars, disposalVars>>

\* Every frame awaits: the event loop is free.
Suspend(c) ==
  /\ running = c /\ call[c].mode = "suspend" /\ NewFrames(c) = {}
  /\ call' = [call EXCEPT ![c].mode = "await"]
  /\ running' = None
  /\ UNCHANGED <<registrations, promise, cache, trackVars, disposalVars>>

\* Mutant: no catch handler.
EvictNothing(i) == cache

\* Mutant: a failure clears the whole cache.
EvictAll(i) ==
  IF promise[i].home = None THEN cache ELSE [cache EXCEPT ![promise[i].home] = {}]

\* The factory (or constructor) of a creation with all its dependencies
\* settles; on failure the catch handler deletes the cache entry BY TOKEN.
Evict(i) ==
  IF promise[i].home = None THEN cache
  ELSE [cache EXCEPT ![promise[i].home] =
          @ \ CachedFor(promise[i].home, provide[promise[i].prov])]

\* Whoever else is evicted with it: a creation that came after an override.
Others(i) ==
  IF promise[i].home = None THEN {}
  ELSE CachedFor(promise[i].home, provide[promise[i].prov]) \ {i}

Fails(i, fault) ==
  /\ promise' = [j \in Ids |->
       IF j = i THEN [promise[j] EXCEPT !.state = fault]
       ELSE [promise[j] EXCEPT !.stray = @ \/ j \in Others(i)]]
  /\ cache' = Evict(i)

FactorySettles(i) ==
  /\ running = None /\ promise[i].state = "building"
  /\ \/ promise' = [promise EXCEPT ![i].state = "ok"] /\ UNCHANGED cache
     \/ promise[i].prov \in Throws /\ Fails(i, "threw")
  /\ UNCHANGED <<graphVars, call, trackVars, disposalVars>>

\* Mutant: a rejection wakes nobody up.
WaitedFulfilled(c) ==
  running = None /\ call[c].mode = "await"
  /\ call[c].waits \in Ids /\ Fulfilled(call[c].waits)

WaitedSettled(c) ==
  running = None /\ call[c].mode = "await"
  /\ (call[c].waits \in Ids => Settled(call[c].waits))
WaitedOk(c) == call[c].waits \in Ids /\ Fulfilled(call[c].waits)
WaitedFault(c) ==
  IF call[c].waits \in Ids THEN promise[call[c].waits].state ELSE call[c].fault

\* A dependency arrived: resolve the next one, or build.
ResumeWithDependency(c, i) ==
  /\ WaitedSettled(c) /\ WaitedOk(c) /\ Innermost(i, Frames(c))
  /\ LET n == promise[i].next + 1
         last == n > Len(inject[promise[i].prov])
     IN /\ promise' = [promise EXCEPT ![i] =
             [@ EXCEPT !.next = n, !.deps = promise[i].deps \cup {call[c].waits},
                       !.state = IF last THEN "building" ELSE promise[i].state]]
        /\ IF last
           THEN /\ call' = [call EXCEPT ![c].waits = i]
                /\ UNCHANGED running
           ELSE /\ call' = [call EXCEPT ![c] =
                     [@ EXCEPT !.mode = "resolve", !.in = promise[i].within,
                               !.want = inject[promise[i].prov][n]]]
                /\ running' = c
  /\ UNCHANGED <<registrations, cache, trackVars, disposalVars>>

\* A dependency failed: the creation that awaited it fails and is evicted.
ResumeWithFault(c, i) ==
  /\ WaitedSettled(c) /\ ~WaitedOk(c) /\ Innermost(i, Frames(c))
  /\ Fails(i, WaitedFault(c))
  /\ call' = [call EXCEPT ![c].waits = i]
  /\ UNCHANGED <<graphVars, trackVars, disposalVars>>

\* Mutant: the outcome is reported without asking whether it is an error.
ReturnState(c) ==
  /\ WaitedSettled(c) /\ Frames(c) = {}
  /\ call' = [call EXCEPT ![c].mode = "done", ![c].fault = WaitedFault(c)]
  /\ UNCHANGED <<graphVars, promise, cache, trackVars, disposalVars>>

\* The promise resolve() returned settles.
Return(c) ==
  /\ WaitedSettled(c) /\ Frames(c) = {}
  /\ call' = [call EXCEPT ![c] =
       [@ EXCEPT !.mode = "done",
                 !.fault = IF WaitedOk(c) THEN "none" ELSE WaitedFault(c)]]
  /\ UNCHANGED <<graphVars, promise, cache, trackVars, disposalVars>>

(***************************************************************************)
(* override() and the disposal of what it invalidates.                     *)
(***************************************************************************)

\* Caches override() on k looks at: its own and, from the root, every
\* tracked request scope's.
Invalidates(k) == {k} \cup (IF k = Root THEN childScopes ELSE {})

Invalid(k, h, u) ==
  IF h \notin Invalidates(k) THEN {}
  ELSE {i \in cache[h] : Affected(h, provide[promise[i].prov], u)}


\* scheduleStaleDisposal, for every entry that is deleted
ScheduleStaleDisposal(k, u) ==
  stale' = [h \in Containers |-> stale[h] \cup Invalid(k, h, u)]

Override(k, p) ==
  /\ running = None /\ <<k, p>> \in Overrides
  /\ phase[k] # "absent" /\ ~DisposedInHierarchy(k)
  /\ cache' = [h \in Containers |-> cache[h] \ Invalid(k, h, provide[p])]
  /\ ScheduleStaleDisposal(k, provide[p])
  /\ registrations' = [registrations EXCEPT ![k][provide[p]] = p]
  /\ UNCHANGED <<promise, call, running, trackVars, phase, todo, kids, errors,
                 staleErrors, destroyed>>

\* One task of scheduleStaleDisposal: wait for the instance, destroy it.
StaleDisposal(k, i) ==
  /\ running = None /\ i \in stale[k] /\ Settled(i)
  /\ stale' = [stale EXCEPT ![k] = @ \ {i}]
  /\ destroyed' = IF Fulfilled(i) THEN [destroyed EXCEPT ![i] = @ + 1] ELSE destroyed
  /\ \E bad \in BOOLEAN :
       /\ ~Fulfilled(i) => bad
       /\ (Fulfilled(i) /\ bad) => promise[i].prov \in DestroyThrows
       /\ staleErrors' = [staleErrors EXCEPT ![k] = @ \/ bad]
  /\ UNCHANGED <<graphVars, promise, cache, call, trackVars, phase, todo, kids,
                 errors>>

(***************************************************************************)
(* dispose().                                                              *)
(***************************************************************************)

Startable == {k \in Containers : phase[k] \in {"open", "failed"}}
SettledPhase == {"done", "failed"}

\* dispose() of a request scope, and of the root: the root first starts the
\* disposal of every tracked request scope; a container with nothing to wait
\* for takes its snapshot of cached promises at once.
Dispose(k) ==
  /\ running = None /\ k \in Disposes /\ k \in Startable
  /\ LET below == IF k = Root THEN childScopes \cap Startable ELSE {}
         wait == IF k = Root
                 THEN {h \in childScopes : phase[h] # "done"} ELSE {}
     IN /\ phase' = [h \in Containers |->
             IF h = k /\ wait # {} THEN "children"
             ELSE IF h \in below \cup {k} THEN "stale" ELSE phase[h]]
        /\ todo' = [h \in Containers |->
             IF h \in below \/ (h = k /\ wait = {}) THEN cache[h] ELSE todo[h]]
        /\ kids' = IF k = Root THEN wait ELSE kids
        /\ childScopes' = IF k = Root /\ wait = {} THEN {} ELSE childScopes
  /\ UNCHANGED <<graphVars, promise, cache, call, trackedByRoot, errors, stale,
                 staleErrors, destroyed>>

\* disposeAll of the root goes on when every request scope has settled.
ChildrenDisposed ==
  /\ running = None /\ phase[Root] = "children" /\ kids = {}
  /\ childScopes' = {}
  /\ phase' = [phase EXCEPT ![Root] = "stale"]
  /\ todo' = [todo EXCEPT ![Root] = cache[Root]]
  /\ UNCHANGED <<graphVars, promise, cache, call, trackedByRoot, kids, errors,
                 stale, staleErrors, destroyed>>

\* waitForStaleDisposalTasks
StaleTasksDone(k) ==
  /\ running = None /\ phase[k] = "stale" /\ stale[k] = {}
  /\ phase' = [phase EXCEPT ![k] = "settle"]
  /\ UNCHANGED <<graphVars, promise, cache, call, trackVars, todo, kids, errors,
                 stale, staleErrors, destroyed>>

\* Mutant: creations still in flight are not waited for.
AllSettledNot(S) == TRUE

\* Promise.allSettled
AllSettled(S) == \A i \in S : Settled(i)

\* collectDisposableInstances: allSettled on the snapshot.
CollectInstances(k) ==
  /\ running = None /\ phase[k] = "settle"
  /\ AllSettled(todo[k])
  /\ phase' = [phase EXCEPT ![k] = "destroy"]
  /\ todo' = [todo EXCEPT ![k] = {i \in @ : Fulfilled(i)}]
  /\ errors' = [errors EXCEPT ![k] =
       @ \/ staleErrors[k] \/ \E i \in todo[k] : ~Fulfilled(i)]
  /\ staleErrors' = [staleErrors EXCEPT ![k] = FALSE]
  /\ UNCHANGED <<graphVars, promise, cache, call, trackVars, kids, stale, destroyed>>

\* Mutant: the order of insertion.
Earliest(i, S) == i \in S /\ \A j \in S : promise[j].stamp >= promise[i].stamp

\* disposeInstancesInReverseOrder: latest cached first.
Latest(i, S) == i \in S /\ \A j \in S : promise[j].stamp <= promise[i].stamp

DestroyNext(k, i) ==
  /\ running = None /\ phase[k] = "destroy" /\ Latest(i, todo[k])
  /\ todo' = [todo EXCEPT ![k] = @ \ {i}]
  /\ destroyed' = [destroyed EXCEPT ![i] = @ + 1]
  /\ \E bad \in BOOLEAN :
       /\ bad => promise[i].prov \in DestroyThrows
       /\ errors' = [errors EXCEPT ![k] = @ \/ bad]
  /\ UNCHANGED <<graphVars, promise, cache, call, trackVars, phase, kids, stale,
                 staleErrors>>

\* Mutant: the caches survive their disposal.
KeepDisposalCaches(k) == cache

\* clearDisposalCaches
ClearDisposalCaches(k) == [cache EXCEPT ![k] = {}]

\* Report the errors; a request scope leaves the root's set.
FinishDisposal(k) ==
  /\ running = None /\ phase[k] = "destroy" /\ todo[k] = {}
  /\ cache' = ClearDisposalCaches(k)
  /\ phase' = [phase EXCEPT ![k] = IF errors[k] THEN "failed" ELSE "done"]
  /\ childScopes' = childScopes \ ({k} \cap trackedByRoot)
  /\ trackedByRoot' = trackedByRoot \ {k}
  /\ kids' = kids \ {k}
  /\ errors' = [errors EXCEPT ![k] = FALSE,
                              ![Root] = IF k = Root THEN FALSE
                                        ELSE @ \/ (k \in kids /\ errors[k])]
  /\ UNCHANGED <<graphVars, promise, call, todo, stale, staleErrors, destroyed>>

(***************************************************************************)
(* The specification.                                                      *)
(***************************************************************************)

Lookups(c) ==
  \/ ThrowCircular(c) \/ ThrowMissing(c) \/ ThrowOutsideRequest(c)
  \/ FollowAlias(c) \/ ShareCached(c) \/ \E i \in Ids : Instantiate(c, i)
Unwinding(c) == (\E i \in Ids : StorePromise(c, i)) \/ Suspend(c)
Resumption(c) ==
  \/ \E i \in Ids : ResumeWithDependency(c, i) \/ ResumeWithFault(c, i)
  \/ Return(c)
CallStep(c) == Lookups(c) \/ Unwinding(c) \/ Resumption(c)

DisposalStep(k) ==
  \/ StaleTasksDone(k) \/ CollectInstances(k) \/ FinishDisposal(k)
  \/ \E i \in Ids : DestroyNext(k, i)

Configure ==
  \/ \E r \in Registers : Register(r[1], r[2])
  \/ \E o \in Overrides : Override(o[1], o[2])
  \/ \E k \in Children : CreateRequestScope(k)

Next ==
  \/ Configure
  \/ \E a \in Asks : Resolve(a[1], a[2], a[3])
  \/ \E c \in Calls : CallStep(c)
  \/ \E i \in Ids : FactorySettles(i)
  \/ \E k \in Containers, i \in Ids : StaleDisposal(k, i)
  \/ \E k \in Containers : Dispose(k) \/ DisposalStep(k)
  \/ ChildrenDisposed

Spec == Init /\ [][Next]_vars

\* The event loop runs what is ready, and a factory or constructor that was
\* called settles one day.  Nothing obliges anyone to resolve, override or
\* dispose.
Fairness ==
  /\ \A c \in Calls : WF_vars(CallStep(c))
  /\ \A i \in Ids : WF_vars(FactorySettles(i))
  /\ \A k \in Containers, i \in Ids : WF_vars(StaleDisposal(k, i))
  /\ \A k \in Containers : WF_vars(DisposalStep(k))
  /\ WF_vars(ChildrenDisposed)

FairSpec == Spec /\ Fairness

(***************************************************************************)
(* Properties.                                                             *)
(***************************************************************************)

PromiseState == Unsettled \cup {"ok"} \cup Failures
Promises ==
  [prov : Providers \cup {None}, home : Containers \cup {None},
   within : Containers \cup {None}, owner : Calls \cup {None}, next : Nat,
   toks : SUBSET Tokens, deps : SUBSET Ids, state : PromiseState,
   stamp : Nat, stray : BOOLEAN]
CallRecords ==
  [mode : {"idle", "resolve", "suspend", "await", "done"},
   in : Containers \cup {None}, want : Tokens \cup {None}, via : SUBSET Tokens,
   waits : Ids \cup {0}, fault : Failures \cup {"none", "disposed"}]
Phases == {"absent", "open", "children", "stale", "settle", "destroy",
           "done", "failed"}

\* The types of the container's fields, of the promises in its caches and of
\* the locals of its calls.
TypeOK ==
  /\ registrations \in [Containers -> [Tokens -> Providers \cup {None}]]
  /\ promise \in [Ids -> Promises]
  /\ cache \in [Containers -> SUBSET Ids]
  /\ call \in [Calls -> CallRecords]
  /\ running \in Calls \cup {None}
  /\ childScopes \subseteq Children /\ trackedByRoot \subseteq Children
  /\ phase \in [Containers -> Phases]
  /\ todo \in [Containers -> SUBSET Ids]
  /\ kids \subseteq Children
  /\ errors \in [Containers -> BOOLEAN]
  /\ stale \in [Containers -> SUBSET Ids]
  /\ staleErrors \in [Containers -> BOOLEAN]
  /\ destroyed \in [Ids -> Nat]

\* A creation whose instance is in use or may still come into use.
Live(i) ==
  /\ promise[i].state \in {"pending", "building", "ok"}
  /\ destroyed[i] = 0 /\ \A k \in Containers : i \notin stale[k]

\* Concurrent resolve() calls share one creation: no two live instances of
\* one singleton provider, nor two of a request-scoped provider in one
\* request scope (resolveScopedOrSingletonInstance), but for strays: instances
\* begun after disposal was, and those evicted by the failure of another.
OneLiveInstance ==
  \A i, j \in Ids :
    (/\ Live(i) /\ Live(j) /\ promise[i].home # None
     /\ ~promise[i].stray /\ ~promise[j].stray
     /\ promise[i].prov = promise[j].prov /\ promise[i].home = promise[j].home)
    => i = j

\* A failed creation stays in no cache: the next resolve() builds anew (the
\* catch handlers of resolveScopedOrSingletonInstance).
NoFailureCached ==
  \A k \in Containers : \A i \in cache[k] : promise[i].state \notin Failures

\* What an instance was built from: the injected instances, and what an
\* injected transient was itself built from.
Holds(i) ==
  promise[i].deps \cup
  UNION {promise[d].deps : d \in {e \in promise[i].deps : promise[e].home = None}}

\* While a container is in use, nothing in its cache was built from an
\* instance override() has replaced, however the override fell between the
\* awaits of the creation (invalidateAffectedCachedEntriesInHierarchy).
FreshDependencies ==
  \A k \in Containers : ~DisposedInHierarchy(k) =>
    \A i \in cache[k] : \A d \in Holds(i) :
      destroyed[d] = 0 /\ \A h \in Containers : d \notin stale[h]

\* No instance of one request scope is ever injected into another's or into
\* a singleton's, whoever resolves first (cacheFor, shouldResolveFromRoot and
\* assertSingletonDependencyScopes together).
RequestIsolation ==
  \A i \in Ids : promise[i].home # None =>
    \A d \in Holds(i) : promise[d].home \in {promise[i].home, Root, None}

\* onDestroy() runs at most once on an instance of the root's cache,
\* whichever of override() and dispose() gets to it, also when a failed
\* dispose() is called again.
RootDestroyedOnce == \A i \in Ids : promise[i].home = Root => destroyed[i] <= 1

\* When a container's disposal is over, every instance it had cached before
\* dispose() was called has been destroyed, those still being created at that
\* time included (disposalCacheEntries, collectDisposableInstances).
DisposalReachesCached ==
  \A i \in Ids :
    (/\ promise[i].home # None /\ Fulfilled(i) /\ ~promise[i].stray
     /\ phase[promise[i].home] \in SettledPhase)
    => destroyed[i] >= 1

\* Step in which k's disposal calls onDestroy() of i.
Destroys(k, i) == phase[k] = "destroy" /\ i \in todo[k] /\ i \notin todo'[k]

\* Disposal never destroys the first injected dependency of an instance it
\* has still to destroy (reverse order of cache insertion).
FirstDependencyOutlives ==
  [][\A k \in Containers : \A i, j \in Ids :
       (Destroys(k, i) /\ j \in todo'[k] /\ i \in promise[j].deps)
       => provide[promise[i].prov] # inject[promise[j].prov][1]]_vars

\* A call fails with CircularDependencyError only over a real cycle.
CircularIsReal ==
  \A c \in Calls : call[c].fault = "circular" =>
    \E k \in Containers, t \in Tokens : t \in Reachable(k, Successors(k, t))

\* The cell of a cache and a token holds the creation cached for it.
CreationIn(k, t) ==
  IF CachedFor(k, t) = {} THEN 0 ELSE CHOOSE i \in CachedFor(k, t) : TRUE
SharedCell == [q \in Containers \X Tokens |-> CreationIn(q[1], q[2])]

\* How far a creation is; that of a transient is in no cell and takes no part.
SharedProgress ==
  [i \in Ids |->
     IF promise[i].state \in {"free", "new"} \/ promise[i].home = None THEN "none"
     ELSE IF promise[i].state \in {"pending", "building"} THEN "creating"
     ELSE IF promise[i].state = "ok" THEN "ready" ELSE "failed"]

\* The caches behave as one cell per cache and token: see SharedCells.
Shared ==
  INSTANCE SharedCells WITH
    Keys <- Containers \X Tokens, Creations <- Ids,
    cell <- SharedCell, progress <- SharedProgress
SharesCreations == Shared!Spec

\* resolve() settles, with an instance or an error.
ResolveSettles ==
  \A c \in Calls : (call[c].mode # "idle") ~> (call[c].mode = "done")

\* dispose() settles, although it waits for request scopes, for stale
\* disposals and for creations still in flight.
DisposeSettles ==
  \A k \in Containers : Disposed(k) ~> (phase[k] \in SettledPhase)
=============================================================================
