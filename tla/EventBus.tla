------------------------------- MODULE EventBus -------------------------------
(***************************************************************************)
(* EventBusLifecycleService of packages/event-bus/src/service.ts: publish  *)
(* starts the matching handlers and the publication on the transport, and  *)
(* waits for them, at most until a timeout or an abort, or not at all.     *)
(* Messages that arrive on the transport go to handlers too.  Shutdown     *)
(* drains what publish still waits for and closes the transport.  Handler  *)
(* instances, payload clones and counters are left out; the work of a      *)
(* publication is its handlers and, as one item, its channels.             *)
(***************************************************************************)
EXTENDS Naturals, FiniteSets

CONSTANTS Publications,  \* events published here, and messages that arrive
          Inbound,       \* the messages
          Awaited,       \* publications with waitForHandlers
          Bounded,       \* publications with a timeout or an abort signal
          HandlersOf,    \* per publication: the handlers that match it
          HasTransport

Channels == "channels"
EventBusAssumption ==
  /\ Inbound \subseteq Publications /\ Awaited \subseteq Publications
  /\ Bounded \subseteq Publications /\ Inbound \subseteq Awaited
  /\ \A p \in Publications : Channels \notin HandlersOf[p]
  /\ HasTransport \in BOOLEAN

VARIABLES
  bus,        \* lifecycleState
  boot,       \* where onApplicationBootstrap is
  discovery,  \* "no", "running" (discoveryPromise) or "done" (discovered)
  pub,        \* per publication: where publish() is
  work,       \* per publication: the state of each work item
  left,       \* work items that a bound made publish stop waiting for
  aborted,    \* publications whose signal is aborted
  stop,       \* where onApplicationShutdown is
  drained,    \* the publications that the drain waits for
  gaveUp      \* the drain timed out

busVars == <<bus, boot, discovery, pub, work, left, aborted, stop, drained, gaveUp>>

Items(p) == HandlersOf[p] \cup (IF HasTransport /\ p \notin Inbound THEN {Channels} ELSE {})
Accepted(p) == pub[p] \in {"discovering", "waiting", "returned"}
\* activeDispatches
Active == {p \in Publications : pub[p] \in {"discovering", "waiting"}}

BusTypeOK ==
  /\ bus \in {"created", "discovering", "ready", "stopping", "stopped", "failed"}
  /\ boot \in {"no", "discovering", "subscribing", "done", "failed"}
  /\ discovery \in {"no", "running", "done"}
  /\ \A p \in Publications :
       /\ pub[p] \in {"no", "discovering", "waiting", "returned", "ignored"}
       /\ \A w \in Items(p) : work[p][w] \in {"no", "skipped", "running", "done"}
       /\ left[p] \subseteq Items(p)
  /\ aborted \subseteq Bounded
  /\ stop \in {"no", "draining", "closing", "ended"}
  /\ drained \subseteq Publications /\ gaveUp \in BOOLEAN

BusInit ==
  /\ bus = "created" /\ boot = "no" /\ discovery = "no"
  /\ pub = [p \in Publications |-> "no"]
  /\ work = [p \in Publications |-> [w \in Items(p) |-> "no"]]
  /\ left = [p \in Publications |-> {}] /\ aborted = {}
  /\ stop = "no" /\ drained = {} /\ gaveUp = FALSE

---------------------------------------------------------------------------
(* Bootstrap *)

\* ensureDiscovered: the first caller discovers, the others share its promise.
Discovers == discovery' = IF discovery = "no" THEN "running" ELSE discovery

Discovered ==
  /\ discovery = "running" /\ discovery' = "done"
  /\ UNCHANGED <<bus, boot, pub, work, left, aborted, stop, drained, gaveUp>>

Bootstrap ==
  /\ boot = "no" /\ bus = "created"
  /\ bus' = "discovering" /\ boot' = "discovering" /\ Discovers
  /\ UNCHANGED <<pub, work, left, aborted, stop, drained, gaveUp>>

BootstrapDiscovered ==
  /\ boot = "discovering" /\ discovery = "done"
  /\ IF HasTransport THEN boot' = "subscribing" /\ UNCHANGED bus
                     ELSE boot' = "done" /\ bus' = "ready"
  /\ UNCHANGED <<discovery, pub, work, left, aborted, stop, drained, gaveUp>>

\* The last subscription succeeded, or one failed.
BootstrapSubscribed(ok) ==
  /\ boot = "subscribing"
  /\ boot' = (IF ok THEN "done" ELSE "failed")
  /\ bus' = (IF ok THEN "ready" ELSE "failed")
  /\ UNCHANGED <<discovery, pub, work, left, aborted, stop, drained, gaveUp>>

---------------------------------------------------------------------------
(* Publish *)

\* Mutant: a bus that is stopping still accepts publications.
CanPublishWhileStopping == bus \notin {"failed", "stopped"}
CanPublish == bus \notin {"failed", "stopped", "stopping"}

Publish(p) ==
  /\ p \notin Inbound /\ pub[p] = "no"
  /\ IF CanPublish THEN pub' = [pub EXCEPT ![p] = "discovering"] /\ Discovers
                   ELSE pub' = [pub EXCEPT ![p] = "ignored"] /\ UNCHANGED discovery
  /\ UNCHANGED <<bus, boot, work, left, aborted, stop, drained, gaveUp>>

\* What the work items are when p is dispatched, and whether publish waits.
Dispatches(p) ==
  /\ work' = [work EXCEPT ![p] = [w \in Items(p) |-> IF p \in aborted THEN "skipped" ELSE "running"]]
  /\ pub' = [pub EXCEPT ![p] = IF p \in Awaited THEN "waiting" ELSE "returned"]

\* executePublish after ensureDiscovered.
Dispatch(p) ==
  /\ pub[p] = "discovering" /\ discovery = "done"
  /\ Dispatches(p)
  /\ UNCHANGED <<bus, boot, discovery, left, aborted, stop, drained, gaveUp>>

\* The callback of a channel's subscription.
Arrives(p) ==
  /\ p \in Inbound /\ pub[p] = "no" /\ HasTransport
  /\ boot \in {"subscribing", "done", "failed"} /\ stop # "ended"
  /\ IF bus = "ready" THEN Dispatches(p)
                      ELSE pub' = [pub EXCEPT ![p] = "ignored"] /\ UNCHANGED work
  /\ UNCHANGED <<bus, boot, discovery, left, aborted, stop, drained, gaveUp>>

\* A handler, or the transport, settles; failures are logged and no more.
WorkEnds(p, w) ==
  /\ work[p][w] = "running"
  /\ work' = [work EXCEPT ![p][w] = "done"]
  /\ UNCHANGED <<bus, boot, discovery, pub, left, aborted, stop, drained, gaveUp>>

\* awaitInvocationBounds: the timeout wins.  Each item has its own.
TimesOut(p, w) ==
  /\ p \in Bounded /\ pub[p] = "waiting" /\ work[p][w] = "running" /\ w \notin left[p]
  /\ left' = [left EXCEPT ![p] = @ \cup {w}]
  /\ UNCHANGED <<bus, boot, discovery, pub, work, aborted, stop, drained, gaveUp>>

\* The caller aborts the signal.
Aborts(p) ==
  /\ p \in Bounded \ (aborted \cup Inbound) /\ pub[p] # "ignored"
  /\ aborted' = aborted \cup {p}
  /\ left' = [left EXCEPT ![p] = @ \cup {w \in Items(p) : pub[p] = "waiting" /\ work[p][w] = "running"}]
  /\ UNCHANGED <<bus, boot, discovery, pub, work, stop, drained, gaveUp>>

ItemOver(p, w) == work[p][w] \in {"skipped", "done"} \/ w \in left[p]

\* Mutant: publish returns with the first item that settles.
WaitOverAny(p) == \E w \in Items(p) : ItemOver(p, w)
\* Promise.allSettled over the items.
WaitOver(p) == \A w \in Items(p) : ItemOver(p, w)

Returns(p) ==
  /\ pub[p] = "waiting" /\ WaitOver(p)
  /\ pub' = [pub EXCEPT ![p] = "returned"]
  /\ UNCHANGED <<bus, boot, discovery, work, left, aborted, stop, drained, gaveUp>>

---------------------------------------------------------------------------
(* Shutdown *)

\* Hooks of the application run one after the other: bootstrap is over, or was
\* never reached because another hook failed.
Shutdown ==
  /\ stop = "no" /\ boot \in {"no", "done", "failed"}
  /\ bus' = "stopping" /\ stop' = "draining" /\ drained' = Active
  /\ UNCHANGED <<boot, discovery, pub, work, left, aborted, gaveUp>>

DrainEnds(timedOut) ==
  /\ stop = "draining"
  /\ IF timedOut THEN drained # {} ELSE drained \cap Active = {}
  /\ stop' = "closing" /\ gaveUp' = timedOut
  /\ UNCHANGED <<bus, boot, discovery, pub, work, left, aborted, drained>>

\* transport.close() settles.
Closes(ok) ==
  /\ stop = "closing" /\ (HasTransport \/ ok)
  /\ stop' = "ended" /\ bus' = (IF ok THEN "stopped" ELSE "failed")
  /\ UNCHANGED <<boot, discovery, pub, work, left, aborted, drained, gaveUp>>

BusWork ==
  \/ Bootstrap \/ Discovered \/ BootstrapDiscovered
  \/ \E b \in BOOLEAN : BootstrapSubscribed(b) \/ DrainEnds(b) \/ Closes(b)
  \/ \E p \in Publications :
       \/ Dispatch(p) \/ Arrives(p) \/ Aborts(p) \/ Returns(p)
       \/ \E w \in Items(p) : WorkEnds(p, w) \/ TimesOut(p, w)

\* The drain's timer fires and a transport closes; a handler need never end.
BusDue == \E b \in BOOLEAN : DrainEnds(b) \/ Closes(b)

---------------------------------------------------------------------------
(* Properties *)

\* Unless the drain gave up, nothing that an awaited publication or an inbound
\* message started, and its bounds still cover, runs when the transport closes,
\* and nothing is started later ("drains in-flight awaited publish and inbound
\* transport handler work before closing the transport").
DrainedBeforeClose ==
  stop \in {"closing", "ended"} /\ ~gaveUp =>
    \A p \in Awaited : Accepted(p) => \A w \in Items(p) : ItemOver(p, w)

\* In the end shutdown is over though handlers hang (awaitShutdownDrain).
BusSettled == stop \in {"no", "ended"}
=============================================================================
