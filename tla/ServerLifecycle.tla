--------------------------- MODULE ServerLifecycle ---------------------------
(***************************************************************************)
(* What listen() and close() of an application and of a microservice       *)
(* promise (packages/runtime/src/bootstrap.ts, FluoApplication and         *)
(* FluoMicroserviceApplication): starting and stopping never overlap, a    *)
(* server is ready only when a start that no close() overtook has bound    *)
(* it, and it is closed only with nothing bound, for good.                 *)
(***************************************************************************)
VARIABLES state,     \* "bootstrapped", "ready" or "closed"
          starting,  \* a listen() is in flight
          stopping,  \* a close() is in flight
          bound      \* the transport accepts work

vars == <<state, starting, stopping, bound>>

TypeOK ==
  /\ state \in {"bootstrapped", "ready", "closed"}
  /\ starting \in BOOLEAN /\ stopping \in BOOLEAN /\ bound \in BOOLEAN

Init == state = "bootstrapped" /\ ~starting /\ ~stopping /\ ~bound

Listen ==
  /\ state = "bootstrapped" /\ ~starting /\ ~stopping
  /\ starting' = TRUE
  /\ UNCHANGED <<state, stopping, bound>>

\* The start fails, or binds and is overtaken by a close(), or is ready.
ListenEnds ==
  /\ starting /\ starting' = FALSE
  /\ \/ UNCHANGED <<bound, state>>
     \/ bound' = TRUE /\ state' = IF stopping THEN state ELSE "ready"
  /\ UNCHANGED stopping

Close ==
  /\ state # "closed" /\ ~stopping
  /\ stopping' = TRUE
  /\ UNCHANGED <<state, starting, bound>>

\* Only when no start is in flight is the transport released.
Release ==
  /\ stopping /\ ~starting
  /\ bound' = FALSE
  /\ UNCHANGED <<state, starting, stopping>>

CloseFails ==
  /\ stopping /\ ~starting
  /\ stopping' = FALSE /\ bound' \in {bound, FALSE}
  /\ UNCHANGED <<state, starting>>

Closed ==
  /\ stopping /\ ~starting
  /\ stopping' = FALSE /\ bound' = FALSE /\ state' = "closed"
  /\ UNCHANGED starting

Next == Listen \/ ListenEnds \/ Close \/ Release \/ CloseFails \/ Closed
Spec == Init /\ [][Next]_vars
=============================================================================
