---------------------------- MODULE MessageHandlers ----------------------------
(***************************************************************************)
(* What MicroserviceLifecycleService does with an inbound packet           *)
(* (packages/microservices): it finds the handlers of its kind and         *)
(* pattern, resolves their classes, singletons once for all packets and    *)
(* others in a request scope of the packet, runs them and disposes of the  *)
(* scope.  An event runs its singleton handlers first and the others after *)
(* them, in one scope, and is answered whatever they do.  Patterns are the *)
(* sets they match; payloads are left out.                                 *)
(***************************************************************************)
EXTENDS FiniteSets

CONSTANTS Packets,
          Kind,      \* of each packet
          Handlers,
          Matches,   \* per packet: the handlers of its kind and pattern
          Token,     \* per handler: the class it is a method of
          Scoped     \* classes that are not singletons

Kinds == {"message", "event", "server-stream", "client-stream", "bidi-stream"}
HandlersAssumption ==
  /\ Kind \in [Packets -> Kinds] /\ Matches \in [Packets -> SUBSET Handlers]
  /\ DOMAIN Token = Handlers

VARIABLES
  packet,   \* per packet: where its dispatch is
  run,      \* per packet and handler: its invocation
  scope,    \* per packet: its request scope
  instances \* handlerInstances, per class

handlerVars == <<packet, run, scope, instances>>

Tokens == {Token[h] : h \in Handlers}
HandlersTypeOK ==
  /\ packet \in [Packets -> {"no", "singletons", "scoped", "disposing", "answered", "failed"}]
  /\ run \in [Packets -> [Handlers -> {"no", "resolving", "running", "ok", "failed"}]]
  /\ scope \in [Packets -> {"no", "open", "disposed"}]
  /\ instances \in [Tokens -> {"none", "resolving", "ready"}]

Init ==
  /\ packet = [p \in Packets |-> "no"] /\ scope = [p \in Packets |-> "no"]
  /\ run = [p \in Packets |-> [h \in Handlers |-> "no"]]
  /\ instances = [t \in Tokens |-> "none"]

InScope(p) == {h \in Matches[p] : Token[h] \in Scoped}
Shared(p) == Matches[p] \ InScope(p)
Over(p, hs) == \A h \in hs : run[p][h] \in {"ok", "failed"}

---------------------------------------------------------------------------
(* Invocation *)

Cached(t) == instances[t] = "ready"

\* resolveSingletonHandlerInstance: what is resolved or being resolved is shared.
Invokes(p, hs) == run' = [run EXCEPT ![p] = [h \in Handlers |->
  IF h \notin hs THEN @[h] ELSE IF Token[h] \notin Scoped /\ Cached(Token[h]) THEN "running" ELSE "resolving"]]
Resolves(hs) == instances' = [t \in Tokens |->
  IF t \notin Scoped /\ instances[t] = "none" /\ \E h \in hs : Token[h] = t THEN "resolving" ELSE instances[t]]

\* createRequestScope, and every handler in it.
OpensScope(p) ==
  /\ packet' = [packet EXCEPT ![p] = "scoped"] /\ scope' = [scope EXCEPT ![p] = "open"]
  /\ Invokes(p, InScope(p)) /\ UNCHANGED instances

\* Anything but an event needs one handler; a stream's writer is told, a caller's
\* promise is rejected.
Receive(p) ==
  /\ packet[p] = "no"
  /\ IF Kind[p] # "event" /\ Cardinality(Matches[p]) # 1
     THEN packet' = [packet EXCEPT ![p] = "failed"] /\ UNCHANGED <<run, scope, instances>>
     ELSE IF Matches[p] = {}
     THEN packet' = [packet EXCEPT ![p] = "answered"] /\ UNCHANGED <<run, scope, instances>>
     ELSE IF Shared(p) = {} THEN OpensScope(p)
     ELSE /\ packet' = [packet EXCEPT ![p] = "singletons"]
          /\ Invokes(p, Shared(p)) /\ Resolves(Shared(p)) /\ UNCHANGED scope

\* The container settles; a failure is forgotten and told to all who wait.
Resolved(t, ok) ==
  /\ instances[t] = "resolving"
  /\ instances' = [instances EXCEPT ![t] = IF ok THEN "ready" ELSE "none"]
  /\ run' = [p \in Packets |-> [h \in Handlers |->
       IF Token[h] = t /\ run[p][h] = "resolving" THEN (IF ok THEN "running" ELSE "failed") ELSE run[p][h]]]
  /\ UNCHANGED <<packet, scope>>

ResolvedInScope(p, h, ok) ==
  /\ Token[h] \in Scoped /\ run[p][h] = "resolving"
  /\ run' = [run EXCEPT ![p][h] = IF ok THEN "running" ELSE "failed"]
  /\ UNCHANGED <<packet, scope, instances>>

HandlerEnds(p, h, ok) ==
  /\ run[p][h] = "running" /\ run' = [run EXCEPT ![p][h] = IF ok THEN "ok" ELSE "failed"]
  /\ UNCHANGED <<packet, scope, instances>>

---------------------------------------------------------------------------
(* The end of a dispatch *)

Outcome(p) == IF Kind[p] = "event" \/ \A h \in Matches[p] : run[p][h] = "ok" THEN "answered" ELSE "failed"

\* Promise.allSettled
AllSettled(p, hs) == Over(p, hs)

SingletonsEnd(p) ==
  /\ packet[p] = "singletons" /\ AllSettled(p, Shared(p))
  /\ IF InScope(p) # {} THEN OpensScope(p)
     ELSE packet' = [packet EXCEPT ![p] = Outcome(p)] /\ UNCHANGED <<run, scope, instances>>

Disposes(p) ==
  /\ packet[p] = "scoped" /\ AllSettled(p, InScope(p))
  /\ packet' = [packet EXCEPT ![p] = "disposing"] /\ scope' = [scope EXCEPT ![p] = "disposed"]
  /\ UNCHANGED <<run, instances>>

\* A failure to dispose is logged.
Disposed(p) ==
  /\ packet[p] = "disposing" /\ packet' = [packet EXCEPT ![p] = Outcome(p)]
  /\ UNCHANGED <<run, scope, instances>>

Settles(p) == SingletonsEnd(p) \/ Disposes(p) \/ Disposed(p)
Next ==
  \/ \E p \in Packets : Receive(p) \/ Settles(p)
  \/ \E ok \in BOOLEAN :
       \/ \E t \in Tokens : Resolved(t, ok)
       \/ \E p \in Packets, h \in Handlers : ResolvedInScope(p, h, ok) \/ HandlerEnds(p, h, ok)

\* Promises settle when the classes and handlers they wait for do.
Due ==
  \/ \E p \in Packets : Settles(p)
  \/ \E ok \in BOOLEAN, t \in Tokens : Resolved(t, ok)
  \/ \E ok \in BOOLEAN, p \in Packets, h \in Handlers : ResolvedInScope(p, h, ok) \/ HandlerEnds(p, h, ok)
Spec == Init /\ [][Next]_handlerVars /\ WF_handlerVars(Due)

---------------------------------------------------------------------------
(* Properties *)

\* A packet's scope is open while a handler of it is under way and closed once
\* the packet is over (the finally blocks); an answer other than an event's means
\* that its handler succeeded, and an event never fails.
Busy(p, h) == run[p][h] \in {"resolving", "running"}
ScopeCoversHandlers ==
  \A p \in Packets :
    /\ \A h \in InScope(p) : Busy(p, h) => scope[p] = "open"
    /\ packet[p] \in {"answered", "failed"} => scope[p] # "open" /\ \A h \in Handlers : ~Busy(p, h)
    /\ Kind[p] = "event" => packet[p] # "failed"
    /\ packet[p] = "answered" /\ Kind[p] # "event" => \E h \in Matches[p] : run[p][h] = "ok"

\* No scoped handler of an event begins before its singleton handlers are over,
\* and what waits for a singleton class waits for one resolution
\* (dispatchEventHandlers, handlerInstances).
SingletonsFirst ==
  \A p \in Packets :
    /\ \A h \in InScope(p) : run[p][h] # "no" => Over(p, Shared(p))
    /\ \A h \in Shared(p) : run[p][h] = "resolving" => instances[Token[h]] = "resolving"

DispatchedWell == ScopeCoversHandlers /\ SingletonsFirst

\* In the end every packet that came is answered or refused, when handlers end.
AllAnswered == \A p \in Packets : packet[p] \in {"no", "answered", "failed"}
=============================================================================
