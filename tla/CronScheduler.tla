---------------------------- MODULE CronScheduler ----------------------------
(***************************************************************************)
(* CronLifecycleService of packages/cron/src/service.ts on one node: the   *)
(* registry of scheduled tasks, their timers, the ticks that run them, and *)
(* bootstrap and shutdown.  A task state and a timer are objects: removing *)
(* a name and adding it again makes new ones while a tick of the old task  *)
(* may still run.  A call that throws changes nothing and is left out,     *)
(* bootstrap excepted.                                                     *)
(***************************************************************************)
EXTENDS Naturals, FiniteSets, TLAPS

CONSTANTS Names,       \* task names
          None,
          TaskIds,     \* bound: task states alive at once
          Timers,      \* bound: timers alive at once
          Decorated,   \* <<name, kind>> pairs discovered at bootstrap
          Adds,        \* <<name, kind>> pairs that may be added at run time
          Toggles,     \* names that may be removed, enabled and disabled
          FailsSchedule, \* may the scheduler reject a cron task at bootstrap?
          ChangeWhileRunning \* may a name be enabled or added during its tick?

Kinds == {"cron", "interval", "timeout"}

CronAssumption ==
  /\ None \notin TaskIds /\ None \notin Timers
  /\ Decorated \subseteq Names \X Kinds
  /\ Adds \subseteq Names \X Kinds
  /\ Toggles \subseteq Names
  /\ FailsSchedule \in BOOLEAN /\ ChangeWhileRunning \in BOOLEAN

VARIABLES
  life,      \* lifecycleState; `started` is life = "ready"
  registry,  \* tasks: the task state of each name
  task,      \* the task states
  live,      \* the timers that will still fire
  fires,     \* the name each timer calls handleTaskTick with, and whether once
  runs,      \* the ticks in progress: the task state, the name it was found
             \* by, whether a timeout fired it, whether executeTask returned
  owed       \* history: tasks asked to run that did not tick since

timerVars == <<live, fires>>
vars == <<life, registry, task, live, fires, runs, owed>>

Started == life = "ready"
NoTask == [kind |-> "cron", enabled |-> FALSE, running |-> FALSE, handle |-> None]

TypeOK ==
  /\ life \in {"created", "ready", "failed", "stopping", "stopped"}
  /\ registry \in [Names -> TaskIds \cup {None}]
  /\ task \in [TaskIds -> [kind : Kinds, enabled : BOOLEAN, running : BOOLEAN,
                           handle : Timers \cup {None}]]
  /\ live \subseteq Timers
  /\ fires \in [Timers -> [name : Names \cup {None}, oneShot : BOOLEAN]]
  /\ runs \subseteq [task : TaskIds, name : Names, oneShot : BOOLEAN, executed : BOOLEAN]
  /\ owed \subseteq TaskIds

Registered == {registry[n] : n \in Names} \ {None}
\* Objects nothing refers to any more may be made anew.
FreeTasks == {i \in TaskIds : i \notin Registered /\ \A r \in runs : r.task # i}
FreeTimers == {h \in Timers : h \notin live /\ \A i \in TaskIds : task[i].handle # h}

Init ==
  /\ life = "created"
  /\ registry = [n \in Names |-> None]
  /\ task = [i \in TaskIds |-> NoTask]
  /\ live = {} /\ fires = [h \in Timers |-> [name |-> None, oneShot |-> FALSE]]
  /\ runs = {} /\ owed = {}

Ticking(n) == \E r \in runs : r.name = n
MayChange(n) == ChangeWhileRunning \/ ~Ticking(n)

\* Mutant: the old handle is read after the new one is stored, and stopped.
RescheduledStopsNew(t, h) == IF t.handle = None THEN live \cup {h} ELSE live
\* The live timers after h replaced the handle of t.
Rescheduled(t, h) == (live \ {t.handle}) \cup {h}

\* createScheduledHandle for task state i of name n, kept in its handle.  Any
\* new object will do.
Schedule(i, n, t) ==
  /\ FreeTimers # {}
  /\ LET h == CHOOSE x \in FreeTimers : TRUE
     IN /\ task' = [task EXCEPT ![i] = [t EXCEPT !.handle = h]]
        /\ live' = Rescheduled(t, h)
        /\ fires' = [fires EXCEPT ![h] = [name |-> n, oneShot |-> t.kind = "timeout"]]

---------------------------------------------------------------------------
(* The registry *)

\* registerTask: a new task is enabled, and scheduled once started.
Add(n, kind) ==
  /\ <<n, kind>> \in Adds /\ registry[n] = None /\ MayChange(n)
  /\ FreeTasks # {}
  /\ LET i == CHOOSE x \in FreeTasks : TRUE
         t == [NoTask EXCEPT !.kind = kind, !.enabled = TRUE]
     IN /\ registry' = [registry EXCEPT ![n] = i]
        /\ IF Started
           THEN Schedule(i, n, t) /\ owed' = owed \cup {i}
           ELSE task' = [task EXCEPT ![i] = t] /\ UNCHANGED <<timerVars, owed>>
  /\ UNCHANGED <<life, runs>>

\* Mutant: the handle is dropped and its timer goes on.
UnscheduledTimersKept(S) == live
\* unscheduleTask: the timers left when the tasks of S are unscheduled.
UnscheduledTimers(S) == live \ {task[i].handle : i \in S}

Remove(n) ==
  /\ n \in Toggles /\ registry[n] # None
  /\ LET i == registry[n]
     IN /\ live' = UnscheduledTimers({i})
        /\ task' = [task EXCEPT ![i].handle = None]
        /\ owed' = owed \ {i}
  /\ registry' = [registry EXCEPT ![n] = None]
  /\ UNCHANGED <<life, fires, runs>>

Enable(n) ==
  /\ n \in Toggles /\ registry[n] # None /\ MayChange(n)
  /\ LET i == registry[n]
         t == [task[i] EXCEPT !.enabled = TRUE]
     IN /\ ~task[i].enabled
        /\ IF Started /\ t.handle = None
           THEN Schedule(i, n, t) /\ owed' = owed \cup {i}
           ELSE task' = [task EXCEPT ![i] = t] /\ UNCHANGED <<timerVars, owed>>
  /\ UNCHANGED <<life, registry, runs>>

Disable(n) ==
  /\ n \in Toggles /\ registry[n] # None
  /\ LET i == registry[n]
     IN /\ task[i].enabled \/ task[i].handle # None
        /\ live' = UnscheduledTimers({i})
        /\ task' = [task EXCEPT ![i].enabled = FALSE, ![i].handle = None]
        /\ owed' = owed \ {i}
  /\ UNCHANGED <<life, registry, fires, runs>>

\* updateCronExpression of an enabled task: schedule anew, then stop the old.
UpdateCronExpression(n) ==
  /\ n \in Toggles /\ registry[n] # None /\ Started
  /\ LET i == registry[n]
     IN /\ task[i].kind = "cron" /\ task[i].enabled
        /\ Schedule(i, n, task[i])
  /\ UNCHANGED <<life, registry, runs, owed>>

---------------------------------------------------------------------------
(* Ticks.  An interval's or a cron's timer that fires for a task that is
   gone, disabled or running changes nothing. *)

\* handleTaskTick's early return.
MayRun(i) == task[i].enabled /\ ~task[i].running

\* A timeout's timer fires once.
AfterFiring(h) == IF fires[h].oneShot THEN live \ {h} ELSE live

Tick(h) ==
  LET n == fires[h].name
      i == registry[n]
  IN /\ h \in live /\ i # None /\ MayRun(i)
     /\ task' = [task EXCEPT ![i].running = TRUE]
     /\ runs' = runs \cup {[task |-> i, name |-> n, oneShot |-> fires[h].oneShot,
                              executed |-> FALSE]}
     /\ live' = AfterFiring(h)
     /\ owed' = owed \ {i}
     /\ UNCHANGED <<life, registry, fires>>

\* completeTimeoutTask looks the task up by name; its timer is not stopped.
Completed(t) == IF t.kind = "timeout" THEN [t EXCEPT !.handle = None, !.enabled = FALSE] ELSE t

CompletedByName(n) ==
  IF registry[n] = None THEN task ELSE [task EXCEPT ![registry[n]] = Completed(@)]

\* A timeout's timer fires for a task that is gone, disabled or running.
TimeoutSkipped(h) ==
  LET n == fires[h].name
      i == registry[n]
  IN /\ h \in live
     /\ fires[h].oneShot /\ (i # None => ~MayRun(i))
     /\ live' = live \ {h}
     /\ task' = CompletedByName(n)
     /\ UNCHANGED <<life, registry, fires, runs, owed>>

\* executeTask returns; what remains is the lock's release.
Executes(r) ==
  /\ r \in runs /\ ~r.executed
  /\ task' = [task EXCEPT ![r.task] = Completed(@)]
  /\ runs' = (runs \ {r}) \cup {[r EXCEPT !.executed = TRUE]}
  /\ UNCHANGED <<life, registry, timerVars, owed>>

\* handleTaskTick ends: after executeTask, or because another node had the lock.
RunEnds(r) ==
  /\ r \in runs
  /\ LET idle == [task EXCEPT ![r.task].running = FALSE]
         i == registry[r.name]
     IN task' = IF r.oneShot /\ i # None THEN [idle EXCEPT ![i] = Completed(@)] ELSE idle
  /\ runs' = runs \ {r}
  /\ UNCHANGED <<life, registry, timerVars, owed>>

---------------------------------------------------------------------------
(* Bootstrap and shutdown *)

\* One-to-one choices of new objects for the members of S.
OneToOne(S, T) == {f \in [S -> T] : \A x, y \in S : f[x] = f[y] => x = y}
Clashes == \E d \in Decorated : registry[d[1]] # None

\* Mutant: tasks added before bootstrap are not scheduled.
ToScheduleDecorated(reg, t) == {n \in {d[1] : d \in Decorated} : t[reg[n]].enabled}
\* scheduleEnabledTasks
ToSchedule(reg, t) == {n \in Names : reg[n] # None /\ t[reg[n]].enabled}

Bootstrap ==
  /\ life = "created" /\ ~Clashes
  /\ OneToOne(Decorated, FreeTasks) # {}
  /\ LET new == CHOOSE f \in OneToOne(Decorated, FreeTasks) : TRUE
         reg == [n \in Names |-> IF \E d \in Decorated : d[1] = n
                                THEN new[CHOOSE d \in Decorated : d[1] = n] ELSE registry[n]]
         t == [i \in TaskIds |-> IF \E d \in Decorated : new[d] = i
                                THEN [NoTask EXCEPT !.enabled = TRUE,
                                        !.kind = (CHOOSE d \in Decorated : new[d] = i)[2]]
                                ELSE task[i]]
         on == ToSchedule(reg, t)
     IN /\ OneToOne(on, FreeTimers) # {}
        /\ LET timer == CHOOSE f \in OneToOne(on, FreeTimers) : TRUE
           IN /\ task' = [i \in TaskIds |-> IF \E n \in on : reg[n] = i
                                            THEN [t[i] EXCEPT !.handle = timer[CHOOSE n \in on : reg[n] = i]]
                                            ELSE t[i]]
              /\ live' = live \cup {timer[n] : n \in on}
              /\ fires' = [h \in Timers |-> IF \E n \in on : timer[n] = h
                    THEN LET name == CHOOSE n \in on : timer[n] = h
                         IN [name |-> name, oneShot |-> t[reg[name]].kind = "timeout"]
                    ELSE fires[h]]
        /\ registry' = reg
        /\ owed' = owed \cup {i \in TaskIds : \E n \in Names : reg[n] = i /\ t[i].enabled}
  /\ life' = "ready"
  /\ UNCHANGED runs

\* A decorated name is taken, or the scheduler rejects a cron task: what was
\* scheduled is stopped and the registry cleared.
BootstrapFails ==
  /\ life = "created"
  /\ Clashes \/ (FailsSchedule /\ \E d \in Decorated : d[2] = "cron")
  /\ life' = "failed"
  /\ live' = UnscheduledTimers(Registered)
  /\ registry' = [n \in Names |-> None]
  /\ owed' = {}
  /\ UNCHANGED <<task, fires, runs>>

\* onApplicationShutdown, onModuleDestroy: the first call.
Shutdown ==
  /\ life \in {"created", "ready", "failed"}
  /\ life' = "stopping"
  /\ live' = UnscheduledTimers(Registered)
  /\ task' = [i \in TaskIds |-> IF i \in Registered THEN [task[i] EXCEPT !.handle = None] ELSE task[i]]
  /\ owed' = {}
  /\ UNCHANGED <<registry, fires, runs>>

ShutdownDrained == life = "stopping" /\ runs = {} /\ life' = "stopped"
                   /\ UNCHANGED <<registry, task, timerVars, runs, owed>>

\* Mutant: drainActiveTasks is awaited without the timeout.
MayGiveUpNever == FALSE
\* waitForActiveTasks' timer may fire whatever the ticks do.
MayGiveUp == runs # {}
ShutdownTimesOut == life = "stopping" /\ MayGiveUp /\ life' = "stopped"
                    /\ UNCHANGED <<registry, task, timerVars, runs, owed>>

Next ==
  \/ Bootstrap \/ BootstrapFails
  \/ Shutdown \/ ShutdownDrained \/ ShutdownTimesOut
  \/ \E n \in Names : \/ \E kind \in Kinds : Add(n, kind)
                       \/ Remove(n) \/ Enable(n) \/ Disable(n) \/ UpdateCronExpression(n)
  \/ \E h \in Timers : Tick(h) \/ TimeoutSkipped(h)
  \/ \E r \in runs : Executes(r) \/ RunEnds(r)

\* A timer that is set fires; no tick has to end.
Fairness == WF_vars(ShutdownTimesOut) /\ WF_vars(ShutdownDrained)
Spec == Init /\ [][Next]_vars /\ Fairness

---------------------------------------------------------------------------
(* Properties *)

\* A task that was registered or enabled while the service runs, and that did
\* not tick since, is enabled and its timer is set (registerTask, enable,
\* updateCronExpression, scheduleEnabledTasks): no end of an earlier tick
\* takes the request back.  For a timeout that only holds when its name is not
\* enabled or added again during its tick (ChangeWhileRunning): executeTask
\* disables it whatever was asked meanwhile.
AskedIsScheduled ==
  \A i \in owed : Started => task[i].enabled /\ task[i].handle \in live

\* Every timer that is set can be stopped: it is the handle of the registered
\* task it fires for (createScheduledHandle, unscheduleTask,
\* completeTimeoutTask).
NoOrphanTimer ==
  \A h \in live : registry[fires[h].name] # None /\ task[registry[fires[h].name]].handle = h

\* Once shutdown has begun no tick begins (stopAllScheduledTasks), whatever is
\* added, enabled or removed meanwhile.
BeginsNoRun ==
  life \in {"stopping", "stopped"} => {r.task : r \in runs'} \subseteq {r.task : r \in runs}
NoRunAfterShutdown == [][BeginsNoRun]_vars

\* Shutdown ends though a tick never does (waitForActiveTasks).
ShutdownSettles == (life = "stopping") ~> (life = "stopped")

\* After shutdown no cron, interval or timeout is left (the test "cleans up
\* cron, interval, and timeout schedules during shutdown").
ShutdownStopsTimers == life = "stopped" => live = {}

---------------------------------------------------------------------------
(* Proofs.  A name is not enabled or added again during its tick.  The     *)
(* parts of the induction: what the registry, the handles, the timers and  *)
(* the ticks in progress know of each other.                               *)

NamesApart == \A m, n \in Names : registry[m] # None /\ registry[m] = registry[n] => m = n
HandlesApart ==
  \A i, j \in TaskIds : task[i].handle # None /\ task[i].handle = task[j].handle => i = j
KindsAgree ==
  \A h \in live : fires[h].name \in Names /\ (fires[h].oneShot <=> task[registry[fires[h].name]].kind = "timeout")

\* The task of a tick keeps its name to itself, the timer of a timeout that
\* fired is gone, and nobody asked for the task again.
TicksKnown ==
  \A r \in runs :
    /\ registry[r.name] \in {None, r.task} /\ \A n \in Names : registry[n] = r.task => n = r.name
    /\ task[r.task].kind = "timeout" => task[r.task].handle \notin live
    /\ r.task \notin owed
RunningTicks == \A i \in TaskIds : task[i].running => \E r \in runs : r.task = i
OnlyOnceReady == life # "ready" => live = {} /\ owed = {} /\ (life = "created" => runs = {})

SchedulerInv ==
  /\ TypeOK /\ NamesApart /\ HandlesApart /\ NoOrphanTimer /\ KindsAgree
  /\ TicksKnown /\ RunningTicks /\ OnlyOnceReady /\ AskedIsScheduled

TaskStates == [kind : Kinds, enabled : BOOLEAN, running : BOOLEAN, handle : Timers \cup {None}]

LEMMA NoTaskTyped == NoTask \in TaskStates
BY DEF NoTask, TaskStates, Kinds

\* A timer is set for task i of name n, whose state becomes t: a task that is
\* registered, or a new one.
LEMMA ScheduleKeeps ==
  ASSUME CronAssumption, SchedulerInv, Started, UNCHANGED <<life, runs>>,
         NEW i \in TaskIds, NEW n \in Names, NEW t \in TaskStates, Schedule(i, n, t), t.enabled,
         registry' = [registry EXCEPT ![n] = i],
         \/ registry[n] = i /\ t.handle = task[i].handle /\ t.kind = task[i].kind /\ t.running = task[i].running
         \/ registry[n] = None /\ i \in FreeTasks /\ t.handle = None /\ ~t.running,
         Ticking(n) => registry[n] = i /\ t.kind # "timeout" /\ owed' = owed,
         owed' \in {owed, owed \cup {i}}
  PROVE  SchedulerInv'
<1> USE DEF SchedulerInv
<1>1. PICK h \in FreeTimers : /\ task' = [task EXCEPT ![i] = [t EXCEPT !.handle = h]]
                              /\ live' = (live \ {t.handle}) \cup {h}
                              /\ fires' = [fires EXCEPT ![h] = [name |-> n, oneShot |-> t.kind = "timeout"]]
  BY DEF Schedule, Rescheduled
<1>2. h \in Timers /\ h # None /\ h \notin live /\ \A j \in TaskIds : task[j].handle # h
  BY <1>1 DEF FreeTimers, CronAssumption
<1>3. /\ task'[i].handle = h /\ task'[i].kind = t.kind /\ task'[i].enabled /\ task'[i].running = t.running
      /\ \A j \in TaskIds \ {i} : task'[j] = task[j]
  BY <1>1 DEF TypeOK, TaskStates
<1>4. /\ fires'[h].name = n /\ (fires'[h].oneShot <=> t.kind = "timeout")
      /\ \A g \in Timers \ {h} : fires'[g] = fires[g]
  BY <1>1, <1>2 DEF TypeOK
<1>5. registry'[n] = i /\ (\A m \in Names \ {n} : registry'[m] = registry[m] /\ registry[m] # i)
  BY DEF TypeOK, NamesApart, FreeTasks, Registered, CronAssumption
<1>6. \A g \in live : g # t.handle => g # h /\ g \in Timers /\ fires[g].name \in Names \ {n} /\ registry[fires[g].name] # i
  <2> SUFFICES ASSUME NEW g \in live, g # t.handle, fires[g].name = n PROVE FALSE
    BY <1>2, <1>5 DEF TypeOK, KindsAgree
  <2> QED
    BY DEF NoOrphanTimer
<1>7. TypeOK'
  <2>1. [t EXCEPT !.handle = h] \in TaskStates
    BY <1>2 DEF TaskStates
  <2>2. [name |-> n, oneShot |-> t.kind = "timeout"] \in [name : Names \cup {None}, oneShot : BOOLEAN]
    OBVIOUS
  <2> QED
    BY <1>1, <1>2, <2>1, <2>2 DEF TypeOK, TaskStates
<1>8. NamesApart'
  BY <1>5 DEF NamesApart
<1>9. HandlesApart'
  BY <1>2, <1>3 DEF HandlesApart
<1>10. NoOrphanTimer' /\ KindsAgree'
  <2>1. ASSUME NEW g \in live'
        PROVE  /\ registry'[fires'[g].name] # None /\ task'[registry'[fires'[g].name]].handle = g
               /\ fires'[g].name \in Names
               /\ fires'[g].oneShot <=> task'[registry'[fires'[g].name]].kind = "timeout"
    <3>1. CASE g = h
      BY <1>3, <1>4, <1>5, <3>1 DEF CronAssumption
    <3>2. CASE g # h
      <4>1. g \in live /\ g # t.handle
        BY <1>1, <2>1, <3>2
      <4>2. fires'[g] = fires[g] /\ registry'[fires[g].name] = registry[fires[g].name]
        BY <1>4, <1>5, <1>6, <4>1
      <4>3. registry[fires[g].name] \in TaskIds \ {i}
        BY <1>6, <4>1 DEF NoOrphanTimer, TypeOK
      <4> QED
        BY <1>3, <4>1, <4>2, <4>3 DEF NoOrphanTimer, KindsAgree
    <3> QED
      BY <3>1, <3>2
  <2> QED
    BY <2>1 DEF NoOrphanTimer, KindsAgree
<1>11. TicksKnown'
  <2> SUFFICES ASSUME NEW r \in runs
      PROVE  /\ registry'[r.name] \in {None, r.task} /\ \A m \in Names : registry'[m] = r.task => m = r.name
             /\ task'[r.task].kind = "timeout" => task'[r.task].handle \notin live'
             /\ r.task \notin owed'
    BY DEF TicksKnown
  <2>1. r.name \in Names /\ r.task \in TaskIds
    BY DEF TypeOK
  <2>2. CASE r.name = n
    <3>1. Ticking(n)
      BY <2>2 DEF Ticking
    <3>2. r.task = i /\ registry' = registry
      BY <2>1, <2>2, <3>1 DEF TicksKnown, TypeOK, CronAssumption
    <3> QED
      BY <1>3, <2>1, <2>2, <3>1, <3>2 DEF TicksKnown
  <2>3. CASE r.name # n
    <3>1. r.task # i
      BY <2>1, <2>3, <1>5 DEF TicksKnown, FreeTasks
    <3>2. task'[r.task] = task[r.task] /\ task[r.task].handle # h
      BY <1>2, <1>3, <2>1, <3>1
    <3> QED
      BY <1>1, <1>5, <2>1, <2>3, <3>1, <3>2 DEF TicksKnown
  <2> QED
    BY <2>2, <2>3
<1>12. RunningTicks'
  BY <1>3 DEF RunningTicks, FreeTasks
<1>13. OnlyOnceReady'
  BY DEF OnlyOnceReady, Started
<1>14. AskedIsScheduled'
  <2> SUFFICES ASSUME NEW j \in owed' PROVE task'[j].enabled /\ task'[j].handle \in live'
    BY DEF AskedIsScheduled
  <2>1. CASE j = i
    BY <1>1, <1>3, <2>1
  <2>2. CASE j # i
    <3>1. j \in owed /\ j \in TaskIds
      BY <2>2 DEF TypeOK
    <3>2. task[j].handle \in live /\ task[j].enabled /\ task[j].handle # None
      BY <3>1 DEF AskedIsScheduled, TypeOK, CronAssumption
    <3>3. task[j].handle # t.handle
      BY <2>2, <3>1, <3>2 DEF HandlesApart
    <3> QED
      BY <1>1, <1>3, <2>2, <3>1, <3>2, <3>3
  <2> QED
    BY <2>1, <2>2
<1> QED
  BY <1>7, <1>8, <1>9, <1>10, <1>11, <1>12, <1>13, <1>14

\* The timer of task i is stopped; its name may be given up.
LEMMA UnscheduleKeeps ==
  ASSUME CronAssumption, SchedulerInv, UNCHANGED <<life, fires, runs>>,
         NEW n \in Names, registry[n] # None, NEW t \in TaskStates,
         t.handle = None, t.kind = task[registry[n]].kind, t.running = task[registry[n]].running,
         live' = live \ {task[registry[n]].handle}, owed' = owed \ {registry[n]},
         task' = [task EXCEPT ![registry[n]] = t],
         registry' \in {registry, [registry EXCEPT ![n] = None]}
  PROVE  SchedulerInv'
<1> USE DEF SchedulerInv
<1> DEFINE i == registry[n]
<1>1. i \in TaskIds
  BY DEF TypeOK
<1>2. /\ task'[i].handle = None /\ task'[i].kind = task[i].kind /\ task'[i].running = task[i].running
      /\ \A j \in TaskIds \ {i} : task'[j] = task[j]
  BY <1>1 DEF TypeOK
<1>3. \A m \in Names : registry'[m] = registry[m] \/ (m = n /\ registry'[m] = None)
  BY DEF TypeOK
<1>4. \A g \in live' : /\ g \in live /\ g \in Timers /\ fires[g].name \in Names /\ registry[fires[g].name] \in TaskIds \ {i}
                       /\ registry'[fires[g].name] = registry[fires[g].name]
  <2> SUFFICES ASSUME NEW g \in live' PROVE registry[fires[g].name] # i
    BY <1>1, <1>3 DEF TypeOK, KindsAgree, NoOrphanTimer
  <2> QED
    BY DEF NoOrphanTimer
<1>5. TypeOK'
  BY <1>1 DEF TypeOK, TaskStates
<1> HIDE DEF i
<1>6. NamesApart'
  BY <1>3 DEF NamesApart
<1>7. HandlesApart'
  BY <1>2 DEF HandlesApart
<1>8. NoOrphanTimer' /\ KindsAgree'
  BY <1>2, <1>4 DEF NoOrphanTimer, KindsAgree
<1>9. TicksKnown'
  <2> SUFFICES ASSUME NEW r \in runs
      PROVE  /\ registry'[r.name] \in {None, r.task} /\ \A m \in Names : registry'[m] = r.task => m = r.name
             /\ task'[r.task].kind = "timeout" => task'[r.task].handle \notin live'
             /\ r.task \notin owed'
    BY DEF TicksKnown
  <2>1. r.name \in Names /\ r.task \in TaskIds /\ None \notin live /\ None \notin TaskIds
    BY DEF TypeOK, CronAssumption
  <2> QED
    BY <1>2, <1>3, <2>1 DEF TicksKnown
<1>10. RunningTicks' /\ OnlyOnceReady'
  BY <1>2 DEF RunningTicks, OnlyOnceReady
<1>11. AskedIsScheduled'
  <2> SUFFICES ASSUME NEW j \in owed', Started PROVE task'[j].enabled /\ task'[j].handle \in live'
    BY DEF AskedIsScheduled, Started
  <2>1. j \in owed /\ j \in TaskIds /\ j # i
    BY DEF TypeOK, i
  <2>2. task[j].handle \in live /\ task[j].enabled /\ task[j].handle # None
    BY <2>1 DEF AskedIsScheduled, TypeOK, CronAssumption
  <2> QED
    BY <1>1, <1>2, <2>1, <2>2 DEF HandlesApart, i
<1> QED
  BY <1>5, <1>6, <1>7, <1>8, <1>9, <1>10, <1>11

\* A task state is changed without its timer.
LEMMA SilentKeeps ==
  ASSUME CronAssumption, SchedulerInv, UNCHANGED <<life, timerVars, runs, owed>>,
         NEW i \in TaskIds, NEW n \in Names, NEW t \in TaskStates, t.enabled,
         task' = [task EXCEPT ![i] = t], registry' = [registry EXCEPT ![n] = i],
         \/ registry[n] = i /\ t.handle = task[i].handle /\ t.kind = task[i].kind /\ t.running = task[i].running
         \/ ~Started /\ registry[n] = None /\ i \in FreeTasks /\ ~Ticking(n) /\ t.handle = None /\ ~t.running
  PROVE  SchedulerInv'
<1> USE DEF SchedulerInv, timerVars
<1>1. task'[i] = t /\ \A j \in TaskIds \ {i} : task'[j] = task[j]
  BY DEF TypeOK
<1>2. TypeOK'
  BY DEF TypeOK, TaskStates
<1>3. CASE registry[n] = i /\ t.handle = task[i].handle /\ t.kind = task[i].kind /\ t.running = task[i].running
  <2>1. registry' = registry /\ \A j \in TaskIds : /\ task'[j].handle = task[j].handle /\ task'[j].kind = task[j].kind
                                                   /\ task'[j].running = task[j].running
                                                   /\ task[j].enabled => task'[j].enabled
    BY <1>1, <1>3 DEF TypeOK
  <2>2. NamesApart' /\ HandlesApart' /\ RunningTicks' /\ OnlyOnceReady'
    BY <2>1 DEF NamesApart, HandlesApart, RunningTicks, OnlyOnceReady
  <2>3. NoOrphanTimer' /\ KindsAgree'
    BY <2>1 DEF NoOrphanTimer, KindsAgree, TypeOK
  <2>4. TicksKnown'
    BY <2>1 DEF TicksKnown, TypeOK
  <2>5. AskedIsScheduled'
    BY <2>1 DEF AskedIsScheduled, TypeOK, Started
  <2> QED
    BY <1>2, <2>2, <2>3, <2>4, <2>5
<1>4. CASE ~Started /\ registry[n] = None /\ i \in FreeTasks /\ ~Ticking(n) /\ t.handle = None /\ ~t.running
  <2>1. live = {} /\ owed = {}
    BY <1>4 DEF OnlyOnceReady, Started
  <2>2. registry'[n] = i /\ \A m \in Names \ {n} : registry'[m] = registry[m] /\ registry[m] # i
    BY <1>4 DEF TypeOK, FreeTasks, Registered, CronAssumption
  <2>3. NamesApart'
    BY <2>2 DEF NamesApart
  <2>4. HandlesApart' /\ RunningTicks'
    BY <1>1, <1>4 DEF HandlesApart, RunningTicks
  <2>5. NoOrphanTimer' /\ KindsAgree' /\ AskedIsScheduled' /\ OnlyOnceReady'
    BY <2>1 DEF NoOrphanTimer, KindsAgree, AskedIsScheduled, OnlyOnceReady
  <2>6. TicksKnown'
    <3> SUFFICES ASSUME NEW r \in runs
        PROVE  registry'[r.name] \in {None, r.task} /\ \A m \in Names : registry'[m] = r.task => m = r.name
      BY <2>1 DEF TicksKnown
    <3>1. r.name \in Names \ {n} /\ r.task # i
      BY <1>4 DEF TypeOK, FreeTasks, Ticking
    <3> QED
      BY <2>2, <3>1 DEF TicksKnown
  <2> QED
    BY <1>2, <2>3, <2>4, <2>5, <2>6
<1> QED
  BY <1>3, <1>4

\* What a registration, a removal and their like do.
LEMMA RegistryKeeps ==
  ASSUME CronAssumption, ~ChangeWhileRunning, SchedulerInv, NEW n \in Names,
         (\E kind \in Kinds : Add(n, kind)) \/ Remove(n) \/ Enable(n) \/ Disable(n) \/ UpdateCronExpression(n)
  PROVE  SchedulerInv'
<1>1. \A i \in TaskIds : task[i] \in TaskStates
  BY DEF SchedulerInv, TypeOK, TaskStates
<1>2. registry[n] # None => registry[n] \in TaskIds /\ [registry EXCEPT ![n] = registry[n]] = registry
  BY DEF SchedulerInv, TypeOK
<1>3. ASSUME NEW kind \in Kinds, Add(n, kind) PROVE SchedulerInv'
  <2> DEFINE i == CHOOSE x \in FreeTasks : TRUE
             t == [NoTask EXCEPT !.kind = kind, !.enabled = TRUE]
  <2>1. i \in FreeTasks /\ i \in TaskIds
    BY <1>3 DEF Add, FreeTasks
  <2>2. t \in TaskStates /\ t.enabled /\ t.handle = None /\ ~t.running
    BY DEF NoTask, TaskStates, Kinds
  <2>3. registry[n] = None /\ ~Ticking(n) /\ registry' = [registry EXCEPT ![n] = i] /\ UNCHANGED <<life, runs>>
    BY <1>3 DEF Add, MayChange
  <2>4. \/ Started /\ Schedule(i, n, t) /\ owed' = owed \cup {i}
        \/ ~Started /\ task' = [task EXCEPT ![i] = t] /\ UNCHANGED <<timerVars, owed>>
    BY <1>3 DEF Add
  <2> HIDE DEF i, t
  <2>5. CASE Started /\ Schedule(i, n, t) /\ owed' = owed \cup {i}
    BY <2>1, <2>2, <2>3, <2>5, ScheduleKeeps
  <2>6. CASE ~Started /\ task' = [task EXCEPT ![i] = t] /\ UNCHANGED <<timerVars, owed>>
    BY <2>1, <2>2, <2>3, <2>6, SilentKeeps
  <2> QED
    BY <2>4, <2>5, <2>6
<1>4. CASE Remove(n)
  <2> DEFINE t == [task[registry[n]] EXCEPT !.handle = None]
  <2>1. registry[n] # None /\ registry[n] \in TaskIds
    BY <1>2, <1>4 DEF Remove
  <2>2. t \in TaskStates /\ t.handle = None /\ t.kind = task[registry[n]].kind /\ t.running = task[registry[n]].running
    BY <1>1, <2>1 DEF TaskStates
  <2>3. /\ UNCHANGED <<life, fires, runs>> /\ live' = live \ {task[registry[n]].handle}
        /\ owed' = owed \ {registry[n]} /\ task' = [task EXCEPT ![registry[n]] = t]
        /\ registry' = [registry EXCEPT ![n] = None]
    BY <1>4 DEF Remove, UnscheduledTimers
  <2> HIDE DEF t
  <2> QED
    BY <2>1, <2>2, <2>3, UnscheduleKeeps
<1>5. CASE Enable(n)
  <2> DEFINE i == registry[n]
             t == [task[i] EXCEPT !.enabled = TRUE]
  <2>1. i # None /\ i \in TaskIds
    BY <1>2, <1>5 DEF Enable
  <2>2. t \in TaskStates /\ t.enabled /\ t.handle = task[i].handle /\ t.kind = task[i].kind /\ t.running = task[i].running
    BY <1>1, <2>1 DEF TaskStates
  <2>3. ~Ticking(n) /\ registry' = [registry EXCEPT ![n] = i] /\ UNCHANGED <<life, runs>>
    BY <1>2, <1>5 DEF Enable, MayChange
  <2>4. \/ Started /\ Schedule(i, n, t) /\ owed' = owed \cup {i}
        \/ task' = [task EXCEPT ![i] = t] /\ UNCHANGED <<timerVars, owed>>
    BY <1>5 DEF Enable
  <2> HIDE DEF t
  <2>5. CASE Started /\ Schedule(i, n, t) /\ owed' = owed \cup {i}
    BY <2>1, <2>2, <2>3, <2>5, ScheduleKeeps
  <2>6. CASE task' = [task EXCEPT ![i] = t] /\ UNCHANGED <<timerVars, owed>>
    BY <2>1, <2>2, <2>3, <2>6, SilentKeeps
  <2> QED
    BY <2>4, <2>5, <2>6
<1>6. CASE Disable(n)
  <2> DEFINE t == [task[registry[n]] EXCEPT !.enabled = FALSE, !.handle = None]
  <2>1. registry[n] # None /\ registry[n] \in TaskIds
    BY <1>2, <1>6 DEF Disable
  <2>2. t \in TaskStates /\ t.handle = None /\ t.kind = task[registry[n]].kind /\ t.running = task[registry[n]].running
    BY <1>1, <2>1 DEF TaskStates
  <2>3. /\ UNCHANGED <<life, fires, runs>> /\ live' = live \ {task[registry[n]].handle}
        /\ owed' = owed \ {registry[n]} /\ registry' = registry
        /\ task' = [task EXCEPT ![registry[n]].enabled = FALSE, ![registry[n]].handle = None]
    BY <1>6 DEF Disable, UnscheduledTimers
  <2>4. task' = [task EXCEPT ![registry[n]] = t]
    BY <1>1, <2>1, <2>3 DEF SchedulerInv, TypeOK
  <2> HIDE DEF t
  <2> QED
    BY <2>1, <2>2, <2>3, <2>4, UnscheduleKeeps
<1>7. CASE UpdateCronExpression(n)
  <2> DEFINE i == registry[n]
  <2>1. /\ i \in TaskIds /\ Started /\ task[i].kind # "timeout" /\ task[i].enabled /\ Schedule(i, n, task[i])
        /\ registry' = [registry EXCEPT ![n] = i] /\ UNCHANGED <<life, runs, owed>>
    BY <1>2, <1>7 DEF UpdateCronExpression
  <2> QED
    BY <1>1, <2>1, ScheduleKeeps
<1> QED
  BY <1>3, <1>4, <1>5, <1>6, <1>7

\* A tick begins.
LEMMA TickKeeps ==
  ASSUME CronAssumption, SchedulerInv, NEW h \in Timers, Tick(h)
  PROVE  SchedulerInv'
<1> USE DEF SchedulerInv
<1> DEFINE n == fires[h].name
           i == registry[n]
           run == [task |-> i, name |-> n, oneShot |-> fires[h].oneShot, executed |-> FALSE]
<1>1. /\ h \in live /\ i # None /\ task[i].enabled /\ ~task[i].running
      /\ task' = [task EXCEPT ![i].running = TRUE] /\ runs' = runs \cup {run}
      /\ live' = IF fires[h].oneShot THEN live \ {h} ELSE live
      /\ owed' = owed \ {i} /\ UNCHANGED <<life, registry, fires>>
  BY DEF Tick, MayRun, AfterFiring
<1>2. n \in Names /\ i \in TaskIds /\ task[i].handle = h /\ (fires[h].oneShot <=> task[i].kind = "timeout")
  BY <1>1 DEF TypeOK, KindsAgree, NoOrphanTimer
<1>3. /\ \A j \in TaskIds : /\ task'[j].handle = task[j].handle /\ task'[j].kind = task[j].kind
                            /\ task'[j].enabled = task[j].enabled
                            /\ task'[j].running = (j = i \/ task[j].running)
      /\ task' \in [TaskIds -> TaskStates]
  BY ZenonT(60), <1>1, <1>2 DEF TypeOK, TaskStates
<1>4. run \in [task : TaskIds, name : Names, oneShot : BOOLEAN, executed : BOOLEAN] /\ run.task = i /\ run.name = n
  BY <1>1, <1>2 DEF TypeOK
<1>5. TypeOK'
  BY <1>1, <1>3, <1>4 DEF TypeOK, TaskStates
<1> HIDE DEF run, n
<1>6. NamesApart' /\ HandlesApart' /\ NoOrphanTimer' /\ KindsAgree' /\ OnlyOnceReady'
  <2>1. NamesApart' /\ HandlesApart'
    BY <1>1, <1>3 DEF NamesApart, HandlesApart
  <2>2. \A g \in live' : g \in live /\ registry[fires[g].name] \in TaskIds
    BY <1>1 DEF NoOrphanTimer, KindsAgree, TypeOK
  <2>3. NoOrphanTimer' /\ KindsAgree'
    BY <1>1, <1>3, <2>2 DEF NoOrphanTimer, KindsAgree
  <2>4. OnlyOnceReady'
    BY <1>1 DEF OnlyOnceReady
  <2> QED
    BY <2>1, <2>3, <2>4
<1>7. TicksKnown'
  <2> SUFFICES ASSUME NEW r \in runs'
      PROVE  /\ registry[r.name] \in {None, r.task} /\ \A m \in Names : registry[m] = r.task => m = r.name
             /\ task'[r.task].kind = "timeout" => task'[r.task].handle \notin live'
             /\ r.task \notin owed'
    BY <1>1 DEF TicksKnown
  <2>1. CASE r \in runs
    BY <1>1, <1>3, <2>1 DEF TicksKnown, TypeOK
  <2>2. CASE r = run
    BY <1>1, <1>2, <1>3, <1>4, <2>2 DEF NamesApart, n
  <2> QED
    BY <1>1, <2>1, <2>2
<1>8. RunningTicks'
  BY <1>1, <1>3, <1>4 DEF RunningTicks
<1>9. AskedIsScheduled'
  <2> SUFFICES ASSUME NEW j \in owed', Started PROVE task'[j].enabled /\ task'[j].handle \in live'
    BY <1>1 DEF AskedIsScheduled, Started
  <2>1. j \in owed /\ j \in TaskIds /\ j # i /\ task[j].enabled /\ task[j].handle \in live /\ task[j].handle # None
    BY <1>1 DEF AskedIsScheduled, TypeOK, CronAssumption
  <2>2. task[j].handle # h
    BY <1>2, <2>1 DEF HandlesApart
  <2> QED
    BY <1>1, <1>3, <2>1, <2>2
<1> QED
  BY <1>5, <1>6, <1>7, <1>8, <1>9

\* A timeout that may not run loses its timer, which fired.
LEMMA SkippedKeeps ==
  ASSUME CronAssumption, SchedulerInv, NEW h \in Timers, TimeoutSkipped(h)
  PROVE  SchedulerInv'
<1> USE DEF SchedulerInv
<1> DEFINE n == fires[h].name
           i == registry[n]
<1>1. /\ h \in live /\ fires[h].oneShot /\ (i # None => ~MayRun(i))
      /\ live' = live \ {h} /\ task' = CompletedByName(n) /\ UNCHANGED <<life, registry, fires, runs, owed>>
  BY DEF TimeoutSkipped
<1>2. n \in Names /\ i # None /\ i \in TaskIds /\ task[i].handle = h /\ task[i].kind = "timeout"
  BY <1>1 DEF TypeOK, KindsAgree, NoOrphanTimer
<1>3. /\ \A j \in TaskIds : /\ task'[j].handle = IF j = i THEN None ELSE task[j].handle
                            /\ task'[j].kind = task[j].kind /\ task'[j].running = task[j].running
                            /\ j # i => task'[j].enabled = task[j].enabled
      /\ task' \in [TaskIds -> TaskStates]
  <2> DEFINE done == [task[i] EXCEPT !.handle = None, !.enabled = FALSE]
  <2>1. task' = [task EXCEPT ![i] = done]
    BY <1>1, <1>2 DEF CompletedByName, Completed
  <2>2. done \in TaskStates /\ done.handle = None /\ done.kind = task[i].kind /\ done.running = task[i].running
    BY <1>2 DEF TypeOK, TaskStates
  <2> HIDE DEF done
  <2> QED
    BY <1>2, <2>1, <2>2 DEF TypeOK, TaskStates
<1>4. TypeOK'
  BY <1>1, <1>3 DEF TypeOK, TaskStates
<1>5. Started => i \notin owed
  BY <1>1, <1>2 DEF MayRun, RunningTicks, TicksKnown, AskedIsScheduled
<1>6. \A g \in live' : g \in live /\ fires[g].name \in Names /\ registry[fires[g].name] \in TaskIds \ {i}
  BY <1>1, <1>2 DEF NoOrphanTimer, KindsAgree, TypeOK
<1> HIDE DEF n, i
<1>7. NamesApart' /\ HandlesApart' /\ RunningTicks' /\ OnlyOnceReady'
  BY <1>1, <1>3 DEF NamesApart, HandlesApart, RunningTicks, OnlyOnceReady
<1>8. NoOrphanTimer' /\ KindsAgree'
  BY <1>1, <1>3, <1>6 DEF NoOrphanTimer, KindsAgree
<1>9. TicksKnown'
  <2> SUFFICES ASSUME NEW r \in runs, task'[r.task].kind = "timeout" PROVE task'[r.task].handle \notin live'
    BY <1>1 DEF TicksKnown
  <2>1. r.task \in TaskIds /\ None \notin live
    BY DEF TypeOK, CronAssumption
  <2> QED
    BY <1>1, <1>3, <2>1 DEF TicksKnown
<1>10. AskedIsScheduled'
  <2> SUFFICES ASSUME NEW j \in owed, Started PROVE task'[j].enabled /\ task'[j].handle \in live'
    BY <1>1 DEF AskedIsScheduled, Started
  <2>1. j \in TaskIds /\ j # i /\ task[j].enabled /\ task[j].handle \in live /\ task[j].handle # None
    BY <1>5 DEF AskedIsScheduled, TypeOK, CronAssumption
  <2>2. task[j].handle # h
    BY <1>2, <2>1 DEF HandlesApart
  <2> QED
    BY <1>1, <1>3, <2>1, <2>2
<1> QED
  BY <1>4, <1>7, <1>8, <1>9, <1>10

\* executeTask returns, or a tick ends: the state of its task becomes t.
LEMMA EndKeeps ==
  ASSUME CronAssumption, SchedulerInv, UNCHANGED <<life, registry, timerVars, owed>>,
         NEW r \in runs, NEW t \in TaskStates, task' = [task EXCEPT ![r.task] = t],
         t.kind = task[r.task].kind, t.running => task[r.task].running,
         t.handle = task[r.task].handle \/ (t.handle = None /\ t.kind = "timeout"),
         runs' \subseteq [task : TaskIds, name : Names, oneShot : BOOLEAN, executed : BOOLEAN],
         \A q \in runs' : \E p \in runs : p.task = q.task /\ p.name = q.name,
         \A q \in runs : q.task # r.task \/ t.running => \E p \in runs' : p.task = q.task
  PROVE  SchedulerInv'
<1> USE DEF SchedulerInv, timerVars
<1> DEFINE i == r.task
<1>1. /\ i \in TaskIds /\ i \notin owed /\ task'[i] = t /\ \A j \in TaskIds \ {i} : task'[j] = task[j]
      /\ task[i].kind = "timeout" => task[i].handle \notin live
  BY DEF TypeOK, TicksKnown
<1> HIDE DEF i
<1>2. TypeOK'
  BY DEF TypeOK, TaskStates
<1>3. NamesApart' /\ HandlesApart' /\ OnlyOnceReady'
  <2>1. HandlesApart'
    BY <1>1 DEF HandlesApart, i
  <2>2. OnlyOnceReady'
    BY DEF OnlyOnceReady
  <2> QED
    BY <2>1, <2>2 DEF NamesApart
<1>4. NoOrphanTimer' /\ KindsAgree'
  <2>1. \A g \in live : /\ registry[fires[g].name] \in TaskIds
                        /\ task'[registry[fires[g].name]].handle = task[registry[fires[g].name]].handle
                        /\ task'[registry[fires[g].name]].kind = task[registry[fires[g].name]].kind
    BY <1>1 DEF NoOrphanTimer, KindsAgree, TypeOK, i
  <2> QED
    BY <2>1 DEF NoOrphanTimer, KindsAgree
<1>5. TicksKnown'
  <2> SUFFICES ASSUME NEW q \in runs'
      PROVE  /\ registry[q.name] \in {None, q.task} /\ \A m \in Names : registry[m] = q.task => m = q.name
             /\ task'[q.task].kind = "timeout" => task'[q.task].handle \notin live
             /\ q.task \notin owed
    BY DEF TicksKnown
  <2>1. PICK p \in runs : p.task = q.task /\ p.name = q.name
    OBVIOUS
  <2>2. p.task \in TaskIds /\ None \notin live
    BY DEF TypeOK, CronAssumption
  <2> QED
    BY <1>1, <2>1, <2>2 DEF TicksKnown, i
<1>6. RunningTicks'
  <2> SUFFICES ASSUME NEW j \in TaskIds, task'[j].running PROVE \E q \in runs' : q.task = j
    BY DEF RunningTicks
  <2>1. task[j].running /\ (j # i \/ t.running)
    BY <1>1 DEF i
  <2>2. PICK q \in runs : q.task = j
    BY <2>1 DEF RunningTicks
  <2> QED
    BY <2>1, <2>2 DEF i
<1>7. AskedIsScheduled'
  BY <1>1 DEF AskedIsScheduled, Started, TypeOK
<1> QED
  BY <1>2, <1>3, <1>4, <1>5, <1>6, <1>7

LEMMA EndsKeep ==
  ASSUME CronAssumption, SchedulerInv, NEW r \in runs, Executes(r) \/ RunEnds(r)
  PROVE  SchedulerInv'
<1>1. r \in [task : TaskIds, name : Names, oneShot : BOOLEAN, executed : BOOLEAN] /\ task[r.task] \in TaskStates
  BY DEF SchedulerInv, TypeOK, TaskStates
<1>2. CASE Executes(r)
  <2> DEFINE t == Completed(task[r.task])
             done == [r EXCEPT !.executed = TRUE]
  <2>1. /\ t \in TaskStates /\ t.kind = task[r.task].kind /\ t.running = task[r.task].running
        /\ t.handle = task[r.task].handle \/ (t.handle = None /\ t.kind = "timeout")
    BY <1>1 DEF Completed, TaskStates
  <2>2. done \in [task : TaskIds, name : Names, oneShot : BOOLEAN, executed : BOOLEAN]
        /\ done.task = r.task /\ done.name = r.name
    BY <1>1
  <2>3. /\ task' = [task EXCEPT ![r.task] = t] /\ runs' = (runs \ {r}) \cup {done}
        /\ UNCHANGED <<life, registry, timerVars, owed>>
    BY <1>2 DEF Executes
  <2> HIDE DEF t, done
  <2>4. /\ runs' \subseteq [task : TaskIds, name : Names, oneShot : BOOLEAN, executed : BOOLEAN]
        /\ \A q \in runs' : \E p \in runs : p.task = q.task /\ p.name = q.name
        /\ \A q \in runs : \E p \in runs' : p.task = q.task
    BY <2>2, <2>3 DEF SchedulerInv, TypeOK
  <2> QED
    BY <2>1, <2>3, <2>4, EndKeeps
<1>3. CASE RunEnds(r)
  <2> DEFINE idle == [task EXCEPT ![r.task].running = FALSE]
             rest == [task[r.task] EXCEPT !.running = FALSE]
             t == IF r.oneShot /\ registry[r.name] # None THEN Completed(rest) ELSE rest
  <2>1. rest \in TaskStates /\ rest.kind = task[r.task].kind /\ rest.handle = task[r.task].handle /\ ~rest.running
    BY <1>1 DEF TaskStates
  <2>2. idle = [task EXCEPT ![r.task] = rest] /\ idle[r.task] = rest
    BY <1>1 DEF SchedulerInv, TypeOK
  <2> HIDE DEF rest, idle
  <2>3. /\ t \in TaskStates /\ t.kind = task[r.task].kind /\ ~t.running
        /\ t.handle = task[r.task].handle \/ (t.handle = None /\ t.kind = "timeout")
    BY <2>1 DEF Completed, TaskStates
  <2>4. registry[r.name] # None => registry[r.name] = r.task
    BY DEF SchedulerInv, TicksKnown
  <2>5. /\ task' = IF r.oneShot /\ registry[r.name] # None THEN [idle EXCEPT ![r.task] = Completed(@)] ELSE idle
        /\ runs' = runs \ {r} /\ UNCHANGED <<life, registry, timerVars, owed>>
    BY <1>3, <2>4 DEF RunEnds, idle
  <2>6. task' = [task EXCEPT ![r.task] = t]
    <3>1. [idle EXCEPT ![r.task] = Completed(@)] = [task EXCEPT ![r.task] = Completed(rest)]
      BY ZenonT(60), <2>2, <1>1 DEF SchedulerInv, TypeOK
    <3> QED
      BY <2>2, <2>5, <3>1
  <2> HIDE DEF t
  <2>7. runs' \subseteq [task : TaskIds, name : Names, oneShot : BOOLEAN, executed : BOOLEAN]
    BY <2>5 DEF SchedulerInv, TypeOK
  <2> QED
    BY <2>3, <2>5, <2>6, <2>7, EndKeeps
<1> QED
  BY <1>2, <1>3

\* The objects that bootstrap makes: task states of their own for what was
\* decorated, and timers of their own for what is enabled.
LEMMA BootstrapKeeps ==
  ASSUME CronAssumption, SchedulerInv, Bootstrap
  PROVE  SchedulerInv'
<1> USE DEF SchedulerInv
<1> DEFINE new == CHOOSE f \in OneToOne(Decorated, FreeTasks) : TRUE
           reg == [n \in Names |-> IF \E d \in Decorated : d[1] = n
                                   THEN new[CHOOSE d \in Decorated : d[1] = n] ELSE registry[n]]
           t == [i \in TaskIds |-> IF \E d \in Decorated : new[d] = i
                                   THEN [NoTask EXCEPT !.enabled = TRUE,
                                           !.kind = (CHOOSE d \in Decorated : new[d] = i)[2]]
                                   ELSE task[i]]
           on == ToSchedule(reg, t)
           timer == CHOOSE f \in OneToOne(on, FreeTimers) : TRUE
<1>1. new \in OneToOne(Decorated, FreeTasks) /\ timer \in OneToOne(on, FreeTimers) /\ life = "created"
  BY DEF Bootstrap
<1>2. /\ task' = [i \in TaskIds |-> IF \E n \in on : reg[n] = i
                                    THEN [t[i] EXCEPT !.handle = timer[CHOOSE n \in on : reg[n] = i]] ELSE t[i]]
      /\ live' = live \cup {timer[n] : n \in on}
      /\ fires' = [h \in Timers |-> IF \E n \in on : timer[n] = h
                    THEN [name |-> CHOOSE n \in on : timer[n] = h,
                          oneShot |-> t[reg[CHOOSE n \in on : timer[n] = h]].kind = "timeout"]
                    ELSE fires[h]]
      /\ registry' = reg
      /\ owed' = owed \cup {i \in TaskIds : \E n \in Names : reg[n] = i /\ t[i].enabled}
      /\ life' = "ready" /\ runs' = runs
  BY DEF Bootstrap
<1>3. live = {} /\ runs = {} /\ owed = {} /\ \A i \in TaskIds : ~task[i].running
  BY ZenonT(60), <1>1 DEF OnlyOnceReady, RunningTicks
<1>4. /\ \A d \in Decorated : new[d] \in FreeTasks /\ new[d] \in TaskIds /\ d[1] \in Names /\ d[2] \in Kinds
      /\ \A d, e \in Decorated : new[d] = new[e] => d = e
  BY <1>1 DEF OneToOne, FreeTasks, CronAssumption
<1>5. on \subseteq Names /\ \A n \in Names : n \in on <=> reg[n] # None /\ t[reg[n]].enabled
  BY DEF ToSchedule
<1>6. /\ \A n \in on : timer[n] \in Timers /\ timer[n] # None /\ \A i \in TaskIds : task[i].handle # timer[n]
      /\ \A m, n \in on : timer[m] = timer[n] => m = n
  <2> HIDE DEF on, timer
  <2>1. timer \in [on -> FreeTimers] /\ \A m, n \in on : timer[m] = timer[n] => m = n
    BY <1>1 DEF OneToOne
  <2> QED
    BY <2>1 DEF FreeTimers, CronAssumption
<1>7. \A n \in Names : reg[n] \in TaskIds \cup {None}
  BY <1>4 DEF TypeOK
<1>8. \A m, n \in Names : reg[m] # None /\ reg[m] = reg[n] => m = n
  <2> SUFFICES ASSUME NEW m \in Names, NEW n \in Names, reg[m] # None, reg[m] = reg[n] PROVE m = n
    OBVIOUS
  <2>1. \A k \in Names : \/ \E d \in Decorated : d[1] = k /\ reg[k] = new[d] /\ reg[k] \notin Registered
                         \/ reg[k] = registry[k] /\ (reg[k] # None => reg[k] \in Registered)
    BY <1>4 DEF FreeTasks, Registered
  <2> HIDE DEF reg
  <2> QED
    BY <1>4, <2>1 DEF NamesApart
<1>9. /\ t \in [TaskIds -> TaskStates]
      /\ \A i \in TaskIds : ~t[i].running /\ t[i].handle \in {None, task[i].handle}
  <2> SUFFICES ASSUME NEW i \in TaskIds
      PROVE  t[i] \in TaskStates /\ ~t[i].running /\ t[i].handle \in {None, task[i].handle}
    OBVIOUS
  <2>1. CASE \E d \in Decorated : new[d] = i
    <3> DEFINE kind == (CHOOSE d \in Decorated : new[d] = i)[2]
    <3>1. kind \in Kinds
      BY <1>4, <2>1
    <3>2. t[i] = [NoTask EXCEPT !.enabled = TRUE, !.kind = kind]
      BY <2>1
    <3> HIDE DEF kind, t
    <3> QED
      BY <3>1, <3>2 DEF NoTask, TaskStates
  <2>2. CASE ~\E d \in Decorated : new[d] = i
    BY <1>3, <2>2 DEF TypeOK, TaskStates
  <2> QED
    BY <2>1, <2>2
<1> HIDE DEF new, reg, t, on, timer
<1>10. \A n \in on : /\ reg[n] \in TaskIds /\ task'[reg[n]].handle = timer[n]
                     /\ task'[reg[n]].kind = t[reg[n]].kind /\ task'[reg[n]].enabled
                     /\ fires'[timer[n]].name = n /\ (fires'[timer[n]].oneShot <=> t[reg[n]].kind = "timeout")
  <2> SUFFICES ASSUME NEW n \in on
      PROVE  /\ reg[n] \in TaskIds /\ task'[reg[n]].handle = timer[n]
             /\ task'[reg[n]].kind = t[reg[n]].kind /\ task'[reg[n]].enabled
             /\ fires'[timer[n]].name = n /\ (fires'[timer[n]].oneShot <=> t[reg[n]].kind = "timeout")
    OBVIOUS
  <2>1. reg[n] \in TaskIds /\ t[reg[n]].enabled /\ t[reg[n]] \in TaskStates
    BY <1>5, <1>7, <1>9
  <2>2. (CHOOSE m \in on : reg[m] = reg[n]) = n /\ (CHOOSE m \in on : timer[m] = timer[n]) = n
    BY <1>5, <1>6, <1>8
  <2>3. task'[reg[n]] = [t[reg[n]] EXCEPT !.handle = timer[n]]
    BY <1>2, <2>1, <2>2
  <2>4. fires'[timer[n]] = [name |-> n, oneShot |-> t[reg[n]].kind = "timeout"]
    BY <1>2, <1>6, <2>2
  <2>5. fires'[timer[n]].name = n /\ (fires'[timer[n]].oneShot <=> t[reg[n]].kind = "timeout")
    <3>1. CASE t[reg[n]].kind = "timeout"
      <4>1. fires'[timer[n]] = [name |-> n, oneShot |-> TRUE]
        BY <2>4, <3>1
      <4> QED
        BY <3>1, <4>1
    <3>2. CASE t[reg[n]].kind # "timeout"
      <4>1. fires'[timer[n]] = [name |-> n, oneShot |-> FALSE]
        BY <2>4, <3>2
      <4> QED
        BY <3>2, <4>1
    <3> QED
      BY <3>1, <3>2
  <2>6. \A u \in TaskStates : \A x : /\ [u EXCEPT !.handle = x].handle = x /\ [u EXCEPT !.handle = x].kind = u.kind
                                      /\ [u EXCEPT !.handle = x].enabled = u.enabled
    BY DEF TaskStates
  <2> QED
    BY <2>1, <2>3, <2>5, <2>6
<1>11. \A i \in TaskIds : (\E n \in on : i = reg[n]) \/ task'[i] = t[i]
  BY <1>2
<1>12. \A i \in TaskIds : task'[i] \in TaskStates /\ ~task'[i].running
  <2> SUFFICES ASSUME NEW i \in TaskIds PROVE task'[i] \in TaskStates /\ ~task'[i].running
    OBVIOUS
  <2>1. CASE \E n \in on : i = reg[n]
    <3>1. PICK n \in on : task'[i] = [t[i] EXCEPT !.handle = timer[n]]
      BY <1>2, <2>1
    <3> QED
      BY <1>6, <1>9, <3>1 DEF TaskStates
  <2> QED
    BY <1>9, <1>11, <2>1
<1>13. TypeOK'
  <2>1. \A h \in Timers : fires'[h] \in [name : Names \cup {None}, oneShot : BOOLEAN]
    BY <1>2, <1>5 DEF TypeOK
  <2>2. live' \subseteq Timers /\ owed' \subseteq TaskIds /\ registry' \in [Names -> TaskIds \cup {None}]
    <3>1. registry' = [n \in Names |-> reg[n]]
      BY <1>2 DEF reg
    <3> QED
      BY <1>2, <1>3, <1>6, <1>7, <3>1
  <2> QED
    BY <1>2, <1>12, <2>1, <2>2 DEF TypeOK, TaskStates
<1>14. NamesApart'
  BY <1>2, <1>8 DEF NamesApart
<1>15. HandlesApart'
  <2> SUFFICES ASSUME NEW i \in TaskIds, NEW j \in TaskIds, task'[i].handle # None, task'[i].handle = task'[j].handle
      PROVE  i = j
    BY DEF HandlesApart
  <2>1. \A k \in TaskIds : \/ \E n \in on : k = reg[n] /\ task'[k].handle = timer[n]
                           \/ task'[k].handle \in {None, task[k].handle}
    BY <1>9, <1>10, <1>11
  <2> QED
    BY <1>6, <2>1 DEF HandlesApart
<1>16. NoOrphanTimer' /\ KindsAgree'
  <2>1. \A h \in live' : \E n \in on : h = timer[n]
    BY <1>2, <1>3
  <2>2. \A n \in on : n \in Names /\ reg[n] # None
    BY <1>5
  <2>3. \A n \in on : /\ fires'[timer[n]].name = n /\ registry'[n] = reg[n] /\ task'[registry'[n]].handle = timer[n]
                      /\ (fires'[timer[n]].oneShot <=> task'[registry'[n]].kind = "timeout")
    <3>1. registry' = reg
      BY <1>2
    <3> QED
      BY <1>10, <3>1, Zenon
  <2>4. NoOrphanTimer'
    BY <2>1, <2>2, <2>3 DEF NoOrphanTimer
  <2>5. KindsAgree'
    BY <2>1, <2>2, <2>3 DEF KindsAgree
  <2> QED
    BY <2>4, <2>5
<1>17. TicksKnown' /\ RunningTicks' /\ OnlyOnceReady'
  BY <1>2, <1>3, <1>12 DEF TicksKnown, RunningTicks, OnlyOnceReady
<1>18. AskedIsScheduled'
  <2> SUFFICES ASSUME NEW i \in owed' PROVE task'[i].enabled /\ task'[i].handle \in live'
    BY DEF AskedIsScheduled
  <2>1. PICK n \in Names : reg[n] = i /\ t[i].enabled /\ i \in TaskIds
    BY <1>2, <1>3
  <2>2. n \in on
    BY <1>5, <2>1 DEF CronAssumption
  <2>3. timer[n] \in live'
    BY <1>2, <2>2
  <2>4. task'[i].enabled /\ task'[i].handle = timer[n]
    BY <1>10, <2>1, <2>2
  <2> QED
    BY <2>3, <2>4
<1> QED
  BY <1>13, <1>14, <1>15, <1>16, <1>17, <1>18

LEMMA LifeKeeps ==
  ASSUME CronAssumption, SchedulerInv, BootstrapFails \/ Shutdown \/ ShutdownDrained \/ ShutdownTimesOut
  PROVE  SchedulerInv'
<1> USE DEF SchedulerInv
<1>1. CASE BootstrapFails
  <2>1. /\ live' = {} /\ registry' = [n \in Names |-> None] /\ owed' = {} /\ life' = "failed"
        /\ runs = {} /\ UNCHANGED <<task, fires, runs>>
    BY <1>1 DEF BootstrapFails, UnscheduledTimers, OnlyOnceReady
  <2> QED
    BY <2>1 DEF TypeOK, NamesApart, HandlesApart, NoOrphanTimer, KindsAgree, TicksKnown, RunningTicks,
                OnlyOnceReady, AskedIsScheduled
<1>2. CASE Shutdown
  <2>1. /\ life' = "stopping" /\ live' = live \ {task[i].handle : i \in Registered} /\ owed' = {}
        /\ task' = [i \in TaskIds |-> IF i \in Registered THEN [task[i] EXCEPT !.handle = None] ELSE task[i]]
        /\ UNCHANGED <<registry, fires, runs>>
    BY <1>2 DEF Shutdown, UnscheduledTimers
  <2>2. live' = {}
    <3>1. \A h \in live : \E i \in Registered : task[i].handle = h
      BY DEF NoOrphanTimer, KindsAgree, Registered
    <3> QED
      BY <2>1, <3>1
  <2>3. \A i \in TaskIds : /\ task'[i] \in TaskStates /\ task'[i].running = task[i].running
                           /\ task'[i].handle \in {None, task[i].handle}
    BY <2>1 DEF TypeOK, TaskStates
  <2>4. TypeOK'
    BY <2>1, <2>2, <2>3 DEF TypeOK, TaskStates
  <2>5. NamesApart' /\ HandlesApart' /\ RunningTicks' /\ OnlyOnceReady'
    BY <2>1, <2>2, <2>3 DEF NamesApart, HandlesApart, RunningTicks, OnlyOnceReady
  <2>6. NoOrphanTimer' /\ KindsAgree' /\ AskedIsScheduled' /\ TicksKnown'
    BY <2>1, <2>2 DEF NoOrphanTimer, KindsAgree, AskedIsScheduled, TicksKnown
  <2> QED
    BY <2>4, <2>5, <2>6
<1>3. CASE ShutdownDrained \/ ShutdownTimesOut
  <2>1. life = "stopping" /\ life' = "stopped" /\ UNCHANGED <<registry, task, live, fires, runs, owed>>
    BY <1>3 DEF ShutdownDrained, ShutdownTimesOut, timerVars
  <2>2. live = {} /\ owed = {}
    BY <2>1 DEF OnlyOnceReady
  <2> QED
    BY <2>1, <2>2 DEF TypeOK, NamesApart, HandlesApart, NoOrphanTimer, KindsAgree, TicksKnown, RunningTicks,
                OnlyOnceReady, AskedIsScheduled
<1> QED
  BY <1>1, <1>2, <1>3

LEMMA SchedulerInvariant ==
  ASSUME CronAssumption, ~ChangeWhileRunning
  PROVE  Spec => []SchedulerInv
<1>1. Init => SchedulerInv
  <2> SUFFICES ASSUME Init PROVE SchedulerInv
    OBVIOUS
  <2>1. TypeOK
    BY NoTaskTyped DEF Init, TypeOK, TaskStates
  <2>2. NoTask.handle = None /\ NoTask.running = FALSE
    BY DEF NoTask
  <2> QED
    BY <2>1, <2>2 DEF Init, SchedulerInv, NamesApart, HandlesApart, NoOrphanTimer, KindsAgree, TicksKnown,
                      RunningTicks, OnlyOnceReady, AskedIsScheduled
<1>2. SchedulerInv /\ [Next]_vars => SchedulerInv'
  <2>1. ASSUME SchedulerInv, UNCHANGED vars PROVE SchedulerInv'
    BY <2>1 DEF vars, timerVars, SchedulerInv, TypeOK, NamesApart, HandlesApart, NoOrphanTimer, KindsAgree, TicksKnown,
                RunningTicks, OnlyOnceReady, AskedIsScheduled, Started
  <2> QED
    BY <2>1, RegistryKeeps, TickKeeps, SkippedKeeps, EndsKeep, BootstrapKeeps, LifeKeeps DEF Next
<1> QED
  BY <1>1, <1>2, PTL DEF Spec

\* Of every set of names, task states and timers: a task that was asked to run
\* is scheduled until it ticks, every timer that is set can be stopped, and none
\* is left after shutdown, as long as no name is enabled or added during its tick.
THEOREM TimersFollowTasks ==
  ASSUME CronAssumption, ~ChangeWhileRunning
  PROVE  Spec => [](AskedIsScheduled /\ NoOrphanTimer /\ ShutdownStopsTimers)
<1>1. SchedulerInv => AskedIsScheduled /\ NoOrphanTimer /\ ShutdownStopsTimers
  BY DEF SchedulerInv, OnlyOnceReady, ShutdownStopsTimers
<1> QED
  BY <1>1, SchedulerInvariant, PTL

\* Once shutdown has begun no tick begins, under the same condition.
THEOREM NoTickAfterShutdown ==
  ASSUME CronAssumption, ~ChangeWhileRunning
  PROVE  Spec => NoRunAfterShutdown
<1>1. SchedulerInv /\ [Next]_vars => [BeginsNoRun]_vars
  <2> SUFFICES ASSUME SchedulerInv, Next, life \in {"stopping", "stopped"}
      PROVE  {r.task : r \in runs'} \subseteq {r.task : r \in runs}
    BY DEF BeginsNoRun
  <2>1. live = {}
    BY DEF SchedulerInv, OnlyOnceReady
  <2>2. CASE runs' \subseteq runs
    BY <2>2
  <2>3. ASSUME NEW r \in runs, Executes(r) PROVE {q.task : q \in runs'} \subseteq {q.task : q \in runs}
    <3>1. [r EXCEPT !.executed = TRUE].task = r.task
      BY DEF SchedulerInv, TypeOK
    <3> QED
      BY <2>3, <3>1 DEF Executes
  <2>4. ~Bootstrap /\ ~BootstrapFails
    BY DEF Bootstrap, BootstrapFails
  <2>5. runs' \subseteq runs \/ \E r \in runs : Executes(r)
    BY <2>1, <2>4 DEF Next, Shutdown, ShutdownDrained, ShutdownTimesOut, Add, Remove, Enable, Disable,
                      UpdateCronExpression, Tick, TimeoutSkipped, RunEnds
  <2> QED
    BY <2>2, <2>3, <2>5
<1> QED
  BY <1>1, SchedulerInvariant, PTL DEF Spec, NoRunAfterShutdown
=============================================================================
