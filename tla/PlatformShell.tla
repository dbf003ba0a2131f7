---------------------------- MODULE PlatformShell ----------------------------
(***************************************************************************)
(* RuntimePlatformShell of packages/runtime/src/platform-shell.ts: it      *)
(* starts the registered platform components in dependency order, rolls    *)
(* back a start that fails, and stops the components in reverse order, as  *)
(* often as it is asked.  One operation runs at a time: bootstrap starts   *)
(* the shell, and the shutdown hook that stops it runs within the          *)
(* application's one close().                                              *)
(***************************************************************************)
EXTENDS DependencyOrder

CONSTANTS registered,     \* registeredComponents, the ids in their order
          dependencies,   \* the dependency list of each component
          FailsValidate,  \* components whose validate() may report an error
          FailsStart,     \* components whose start() may reject
          FailsStop,      \* components whose stop() may reject
          Restarts        \* may start() be called again after a first call?

ASSUME ShellAssumption ==
  /\ registered \in Seq(Components)
  /\ dependencies \in [Components -> Seq(Components \cup Unregistered)]
  /\ FailsValidate \subseteq Components
  /\ FailsStart \subseteq Components
  /\ FailsStop \subseteq Components
  /\ Restarts \in BOOLEAN

VARIABLES
  started, stopped,  \* the fields of the same names
  ordered,           \* orderedComponents
  pending,           \* rollbackPendingComponents
  up,                \* the components that run
  op,                \* the start() or stop() in progress
  last               \* how the last one ended

flags == <<started, stopped>>
lists == <<ordered, pending>>
shellVars == <<started, stopped, ordered, pending, up, op, last>>

Idle == [pc |-> "idle", todo |-> <<>>, done |-> <<>>, failed |-> FALSE]
Phase(pc, todo) == [Idle EXCEPT !.pc = pc, !.todo = todo]
Stopping == {"stopping", "restopping", "rollback"}
Phases == {"idle", "validating", "starting"} \cup Stopping
Outcomes == {"none", "started", "start-failed", "stopped", "stop-failed"}

SetOf(s) == {s[j] : j \in DOMAIN s}

ShellTypeOK ==
  /\ started \in BOOLEAN /\ stopped \in BOOLEAN
  /\ ordered \in Seq(Components) /\ pending \in Seq(Components)
  /\ up \subseteq Components
  /\ op \in [pc : Phases, todo : Seq(Components), done : Seq(Components), failed : BOOLEAN]
  /\ last \in Outcomes

ShellInit ==
  /\ started = FALSE /\ stopped = FALSE
  /\ ordered = <<>> /\ pending = <<>>
  /\ up = {}
  /\ op = Idle
  /\ last = "none"

End(outcome) == op' = Idle /\ last' = outcome
Continue(next) == op' = next /\ UNCHANGED last

---------------------------------------------------------------------------
(* start() *)

MayStart == op.pc = "idle" /\ (Restarts \/ last = "none")

NothingToStart == registered = <<>> \/ started
NothingToStop == (~started /\ pending = <<>>) \/ stopped

\* stop() picks what a failed rollback left, else what start() ordered.
ToStop ==
  IF pending # <<>> THEN pending
  ELSE IF ordered # <<>> THEN ordered ELSE registered

StartNothing ==
  /\ MayStart /\ NothingToStart
  /\ End("started")
  /\ UNCHANGED <<flags, lists, up>>

\* start() first calls stop() when a rollback is pending; that stop() does
\* nothing on a shell that was already stopped.
StartAfterRollback ==
  /\ MayStart /\ ~NothingToStart
  /\ pending # <<>> /\ ~NothingToStop
  /\ Continue(Phase("restopping", Reverse(ToStop)))
  /\ UNCHANGED <<flags, lists, up>>

StartFresh ==
  /\ MayStart /\ ~NothingToStart
  /\ pending = <<>> \/ NothingToStop
  /\ Continue(Phase("validating", <<>>))
  /\ UNCHANGED <<flags, lists, up>>

ValidationFails ==
  /\ op.pc = "validating"
  /\ \/ ~WellNamed(dependencies)
     \/ SetOf(registered) \cap FailsValidate # {}
     \/ ~OrderByDependency(registered, dependencies).acyclic
  /\ End("start-failed")
  /\ UNCHANGED <<flags, lists, up>>

Validated ==
  /\ op.pc = "validating"
  /\ WellNamed(dependencies)
  /\ LET o == OrderByDependency(registered, dependencies)
     IN /\ o.acyclic
        /\ ordered' = o.seq
        /\ Continue(Phase("starting", o.seq))
  /\ UNCHANGED <<flags, pending, up>>

ComponentStarts ==
  /\ op.pc = "starting" /\ op.todo # <<>>
  /\ up' = up \cup {Head(op.todo)}
  /\ Continue([op EXCEPT !.todo = Tail(@), !.done = Append(@, Head(op.todo))])
  /\ UNCHANGED <<flags, lists>>

\* Mutant: in the order they were started.
RollbackForward(o) == [o EXCEPT !.pc = "rollback", !.todo = o.done]
\* What a rollback stops: the components this start() started, last first.
RollbackOf(o) == [o EXCEPT !.pc = "rollback", !.todo = Reverse(o.done)]

ComponentFailsToStart ==
  /\ op.pc = "starting" /\ op.todo # <<>>
  /\ Head(op.todo) \in FailsStart
  /\ Continue(RollbackOf(op))
  /\ UNCHANGED <<flags, lists, up>>

AllStarted ==
  /\ op.pc = "starting" /\ op.todo = <<>>
  /\ started' = TRUE /\ stopped' = FALSE
  /\ pending' = <<>>
  /\ End("started")
  /\ UNCHANGED <<ordered, up>>

---------------------------------------------------------------------------
(* stop() *)

StopNothing ==
  /\ op.pc = "idle" /\ NothingToStop
  /\ End("stopped")
  /\ UNCHANGED <<flags, lists, up>>

Stop ==
  /\ op.pc = "idle" /\ ~NothingToStop
  /\ Continue(Phase("stopping", Reverse(ToStop)))
  /\ UNCHANGED <<flags, lists, up>>

\* stopStartedComponents goes on after a component that fails to stop.
ComponentStops ==
  /\ op.pc \in Stopping /\ op.todo # <<>>
  /\ up' = up \ {Head(op.todo)}
  /\ Continue([op EXCEPT !.todo = Tail(@)])
  /\ UNCHANGED <<flags, lists>>

ComponentFailsToStop ==
  /\ op.pc \in Stopping /\ op.todo # <<>>
  /\ Head(op.todo) \in FailsStop
  /\ Continue([op EXCEPT !.todo = Tail(@), !.failed = TRUE])
  /\ UNCHANGED <<flags, lists, up>>

\* Mutant: the components a rollback failed to stop are not remembered.
StillPendingNone(o) == <<>>
\* The try and the catch of start()'s rollback.
StillPending(o) == IF o.failed THEN o.done ELSE <<>>

RolledBack ==
  /\ op.pc = "rollback" /\ op.todo = <<>>
  /\ pending' = StillPending(op)
  /\ End("start-failed")
  /\ UNCHANGED <<flags, ordered, up>>

StopFails ==
  /\ op.pc \in {"stopping", "restopping"} /\ op.todo = <<>> /\ op.failed
  /\ End(IF op.pc = "stopping" THEN "stop-failed" ELSE "start-failed")
  /\ UNCHANGED <<flags, lists, up>>

AllStopped ==
  /\ op.pc \in {"stopping", "restopping"} /\ op.todo = <<>> /\ ~op.failed
  /\ pending' = <<>> /\ started' = FALSE /\ stopped' = TRUE
  /\ IF op.pc = "stopping" THEN End("stopped") ELSE Continue(Phase("validating", <<>>))
  /\ UNCHANGED <<ordered, up>>

---------------------------------------------------------------------------
ShellStart == StartNothing \/ StartAfterRollback \/ StartFresh
ShellStop == StopNothing \/ Stop
ShellStep ==
  \/ ValidationFails \/ Validated
  \/ ComponentStarts \/ ComponentFailsToStart \/ AllStarted
  \/ ComponentStops \/ ComponentFailsToStop
  \/ RolledBack \/ StopFails \/ AllStopped

ShellNext == ShellStart \/ ShellStop \/ ShellStep
ShellSpec == ShellInit /\ [][ShellNext]_shellVars

---------------------------------------------------------------------------
(* Properties *)

\* orderByDependency lists the registered components, and no others, when it
\* finds no cycle: what the proofs about the shell take from the walk.
OrderLists ==
  LET o == OrderByDependency(registered, dependencies)
  IN o.acyclic => o.seq \in Seq(Components) /\ SetOf(o.seq) = SetOf(registered)

\* It lists each of them once, after everything it depends on.
BottomUp(s) ==
  \A j \in DOMAIN s :
    /\ \A k \in DOMAIN s : s[j] = s[k] => j = k
    /\ \A d \in SetOf(dependencies[s[j]]) : \E k \in 1 .. j - 1 : s[k] = d
OrderSorts ==
  LET o == OrderByDependency(registered, dependencies)
  IN WellNamed(dependencies) /\ o.acyclic => BottomUp(o.seq)

\* The next stop() will stop everything that runs: no component is lost from
\* rollbackPendingComponents and orderedComponents by a start that fails, a
\* rollback that fails, or a stop() that fails and is asked for again.
NothingForgotten ==
  op.pc = "idle" => up = {} \/ (~NothingToStop /\ up \subseteq SetOf(ToStop))

\* A component comes up only when all it depends on runs, in the first start
\* and in a restart over what a failed rollback left running.
StartsAfterDependencies ==
  [][\A c \in up' \ up : SetOf(dependencies[c]) \subseteq up]_shellVars

\* A component goes down only when each component that depends on it is down
\* or has been asked, in vain, to stop before it; also during a rollback.
StopsAfterDependents ==
  [][\A c \in up \ up' : \A d \in SetOf(op.todo) \cap up :
       c \notin SetOf(dependencies[d])]_shellVars

\* A component starts after all it depends on and stops before any of it, also
\* in a rollback and in a stop that is retried.
OrderedByDependency == StartsAfterDependencies /\ StopsAfterDependents
=============================================================================
