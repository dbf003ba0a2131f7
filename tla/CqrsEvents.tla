------------------------------ MODULE CqrsEvents ------------------------------
(***************************************************************************)
(* CqrsEventBusService of packages/cqrs/src/buses/event-bus.ts on top of   *)
(* the event bus: an event passes its CQRS handlers one by one, then the   *)
(* sagas, and is then published on the event bus.  A batch publishes its   *)
(* events one by one.  The application shuts the CQRS bus down before the  *)
(* event bus, which is a module it imports.  The sagas are SagaBus; here   *)
(* they are one await.                                                     *)
(***************************************************************************)
EXTENDS EventBus, Sequences

CONSTANTS Pipelines,   \* the publications that come from CQRS
          CqrsHandlers,\* per pipeline: the number of its handlers
          Batches,     \* calls of publishAll
          EventsOf     \* per batch: its pipelines in order

CqrsAssumption ==
  /\ Pipelines \subseteq Publications \ Inbound
  /\ CqrsHandlers \in [Pipelines -> Nat]
  /\ EventsOf \in [Batches -> Seq(Pipelines)] /\ Pipelines \cap Batches = {}
  /\ \A b, d \in Batches : \A j \in DOMAIN EventsOf[b], k \in DOMAIN EventsOf[d] :
       EventsOf[b][j] = EventsOf[d][k] => b = d /\ j = k

VARIABLES
  stage,    \* per pipeline: where runPublishPipeline is
  handled,  \* per pipeline: the handlers that ran
  batch,    \* per batch: the events published, or its outcome
  cqrs,     \* lifecycleState, without the states before "ready"
  awaitedWork, \* the pipelines and batches its drain waits for
  forsook,  \* that drain timed out
  early     \* history: the pipelines and batches that began before shutdown

cqrsVars == <<stage, handled, batch, cqrs, awaitedWork, forsook, early>>
allVars == <<busVars, cqrsVars>>

InBatch(c) == \E b \in Batches : \E k \in DOMAIN EventsOf[b] : EventsOf[b][k] = c
Running(c) == stage[c] \in {"handling", "sagas", "publishing"}
BatchRuns(b) == batch[b].state = "running"
\* activePublishPipelines
ActivePipelines == {c \in Pipelines : Running(c)} \cup {b \in Batches : BatchRuns(b)}

CqrsTypeOK ==
  /\ BusTypeOK
  /\ \A c \in Pipelines :
       /\ stage[c] \in {"no", "handling", "sagas", "publishing", "done", "failed"}
       /\ handled[c] \in 0..CqrsHandlers[c]
  /\ \A b \in Batches :
       batch[b].state \in {"no", "running", "done", "failed"} /\ batch[b].sent \in 0..Len(EventsOf[b])
  /\ cqrs \in {"ready", "stopping", "stopped"} /\ forsook \in BOOLEAN
  /\ awaitedWork \subseteq Pipelines \cup Batches /\ early \subseteq Pipelines \cup Batches

Init ==
  /\ BusInit
  /\ stage = [c \in Pipelines |-> "no"] /\ handled = [c \in Pipelines |-> 0]
  /\ batch = [b \in Batches |-> [state |-> "no", sent |-> 0]]
  /\ cqrs = "ready" /\ awaitedWork = {} /\ forsook = FALSE /\ early = {}

---------------------------------------------------------------------------
(* Pipelines *)

\* publish(): there is no guard on the life-cycle state.
Begins(c) ==
  /\ stage' = [stage EXCEPT ![c] = "handling"]
  /\ early' = IF cqrs = "ready" THEN early \cup {c} ELSE early

PublishCqrs(c) ==
  /\ stage[c] = "no" /\ ~InBatch(c)
  /\ Begins(c)
  /\ UNCHANGED <<busVars, handled, batch, cqrs, awaitedWork, forsook>>

\* A handler ends; the next one runs, or the sagas do.
HandlerEnds(c, ok) ==
  /\ stage[c] = "handling" /\ handled[c] < CqrsHandlers[c]
  /\ IF ok THEN handled' = [handled EXCEPT ![c] = @ + 1] /\ UNCHANGED stage
           ELSE stage' = [stage EXCEPT ![c] = "failed"] /\ UNCHANGED handled
  /\ UNCHANGED <<busVars, batch, cqrs, awaitedWork, forsook, early>>

ToSagas(c) ==
  /\ stage[c] = "handling" /\ handled[c] = CqrsHandlers[c]
  /\ stage' = [stage EXCEPT ![c] = "sagas"]
  /\ UNCHANGED <<busVars, handled, batch, cqrs, awaitedWork, forsook, early>>

\* sagaService.dispatch settles; then eventBus.publish.
SagasEnd(c, ok) ==
  /\ stage[c] = "sagas"
  /\ IF ok THEN stage' = [stage EXCEPT ![c] = "publishing"] /\ Publish(c)
           ELSE stage' = [stage EXCEPT ![c] = "failed"] /\ UNCHANGED busVars
  /\ UNCHANGED <<handled, batch, cqrs, awaitedWork, forsook, early>>

PipelineEnds(c) ==
  /\ stage[c] = "publishing" /\ pub[c] \in {"returned", "ignored"}
  /\ stage' = [stage EXCEPT ![c] = "done"]
  /\ UNCHANGED <<busVars, handled, batch, cqrs, awaitedWork, forsook, early>>

\* publishAll(): begins, publishes the next event, or ends with its last or
\* with the first failure.
BatchBegins(b) ==
  /\ batch[b].state = "no"
  /\ batch' = [batch EXCEPT ![b].state = "running"]
  /\ early' = IF cqrs = "ready" THEN early \cup {b} ELSE early
  /\ UNCHANGED <<busVars, stage, handled, cqrs, awaitedWork, forsook>>

MayPublishNext(b) ==
  /\ batch[b].sent < Len(EventsOf[b])
  /\ batch[b].sent > 0 => stage[EventsOf[b][batch[b].sent]] = "done"

PublishNext(b) ==
  /\ BatchRuns(b) /\ MayPublishNext(b)
  /\ batch' = [batch EXCEPT ![b].sent = @ + 1]
  /\ Begins(EventsOf[b][batch[b].sent + 1])
  /\ UNCHANGED <<busVars, handled, cqrs, awaitedWork, forsook>>

BatchEnds(b) ==
  /\ BatchRuns(b)
  /\ LET sent == batch[b].sent IN
     \/ /\ sent > 0 /\ stage[EventsOf[b][sent]] = "failed"
        /\ batch' = [batch EXCEPT ![b].state = "failed"]
     \/ /\ sent = Len(EventsOf[b]) /\ (sent > 0 => stage[EventsOf[b][sent]] = "done")
        /\ batch' = [batch EXCEPT ![b].state = "done"]
  /\ UNCHANGED <<busVars, stage, handled, cqrs, awaitedWork, forsook, early>>

---------------------------------------------------------------------------
(* Shutdown *)

\* Mutant: the drain takes the pipelines of publish(), not the batches.
ToDrainPipelines == ActivePipelines \ Batches
ToDrain == ActivePipelines

CqrsShutdown ==
  /\ cqrs = "ready" /\ boot \in {"no", "done", "failed"}
  /\ cqrs' = "stopping" /\ awaitedWork' = ToDrain
  /\ UNCHANGED <<busVars, stage, handled, batch, forsook, early>>

CqrsDrainEnds(timedOut) ==
  /\ cqrs = "stopping"
  /\ IF timedOut THEN awaitedWork # {} ELSE awaitedWork \cap ActivePipelines = {}
  /\ cqrs' = "stopped" /\ forsook' = timedOut
  /\ UNCHANGED <<busVars, stage, handled, batch, awaitedWork, early>>

\* runShutdownHooks: the event bus after the CQRS bus.
Next ==
  \/ /\ BusWork /\ UNCHANGED cqrsVars
     /\ boot' # boot => cqrs = "ready"
  \/ \E p \in Publications \ Pipelines : Publish(p) /\ UNCHANGED cqrsVars
  \/ Shutdown /\ cqrs = "stopped" /\ UNCHANGED cqrsVars
  \/ \E c \in Pipelines :
       \/ PublishCqrs(c) \/ ToSagas(c) \/ PipelineEnds(c)
       \/ \E ok \in BOOLEAN : HandlerEnds(c, ok) \/ SagasEnd(c, ok)
  \/ \E b \in Batches : BatchBegins(b) \/ PublishNext(b) \/ BatchEnds(b)
  \/ CqrsShutdown \/ \E b \in BOOLEAN : CqrsDrainEnds(b)

Due ==
  \/ (BusDue \/ (Shutdown /\ cqrs = "stopped")) /\ UNCHANGED cqrsVars
  \/ \E b \in BOOLEAN : CqrsDrainEnds(b)
Spec == Init /\ [][Next]_allVars /\ WF_allVars(Due)

---------------------------------------------------------------------------
(* Properties *)

\* What began before shutdown is not lost between the two buses: unless the
\* CQRS drain gave up, each pipeline and batch that began in time is over when
\* the event bus stops, and no event of it was ignored there.  It holds for a
\* bus whose bootstrap succeeded.
\* ("waits for active publish(...) pipelines, publishAll(...) sequences").
EarlyEventsReachBus ==
  /\ cqrs = "stopped" /\ ~forsook => early \cap ActivePipelines = {}
  /\ \A c \in Pipelines :
       /\ pub[c] = "ignored" /\ boot # "failed" /\ ~forsook
       => /\ c \notin early
          /\ \A b \in early \cap Batches : \A k \in DOMAIN EventsOf[b] : EventsOf[b][k] # c

\* In the end the shutdown of both buses is over though handlers hang.
AllSettled == BusSettled /\ (cqrs = "ready" \/ stop = "ended")
=============================================================================
