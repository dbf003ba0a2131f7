-------------------------------- MODULE MCCron --------------------------------
(***************************************************************************)
(* The two halves of the cron package for model-checking: CronScheduler    *)
(* with two names, three task states and three timers, and CronLock with   *)
(* two nodes and a time to live of four units, renewed every two.  The     *)
(* first step chooses a scenario of one of them; the other stands still.   *)
(***************************************************************************)
EXTENDS CronLock

CONSTANTS Scenarios,  \* those a configuration runs
          Names, TaskIds, Timers, t1, t2, t3, h1, h2, h3, n1, n2

VARIABLES scenario,  \* the one that was chosen
          life, registry, task, live, fires, runs, owed  \* the scheduler's

taskVars == <<life, registry, task, live, fires, runs, owed>>
allVars == <<vars, taskVars, scenario>>

Schedules == [
  \* a decorated cron task and an interval added at run time, removed, added
  \* again, enabled, disabled and rescheduled also while they tick
  repeat  |-> [decorated |-> {<<"job", "cron">>},
               adds |-> {<<"poll", "interval">>, <<"job", "cron">>},
               toggles |-> {"job"}, failsSchedule |-> TRUE, changeWhileRunning |-> TRUE],
  \* timeouts, of names that nobody enables or adds while they tick
  timeout |-> [decorated |-> {<<"job", "timeout">>},
               adds |-> {<<"job", "timeout">>, <<"poll", "interval">>},
               toggles |-> {"job", "poll"}, failsSchedule |-> FALSE, changeWhileRunning |-> FALSE],
  \* a timeout added at run time whose name is used again while it ticks
  reuse   |-> [decorated |-> {}, adds |-> {<<"job", "timeout">>},
               toggles |-> {"job"}, failsSchedule |-> FALSE, changeWhileRunning |-> TRUE]]

Scheduler(s) == INSTANCE CronScheduler WITH
  Decorated <- Schedules[s].decorated, Adds <- Schedules[s].adds,
  Toggles <- Schedules[s].toggles, FailsSchedule <- Schedules[s].failsSchedule,
  ChangeWhileRunning <- Schedules[s].changeWhileRunning
\* For what is the same in every schedule: the properties and fairness.
Tasks == INSTANCE CronScheduler WITH
  Decorated <- {}, Adds <- {}, Toggles <- {}, FailsSchedule <- FALSE, ChangeWhileRunning <- TRUE

ASSUME \A s \in DOMAIN Schedules : Scheduler(s)!CronAssumption

\* The lock stands still in a scenario of the scheduler, and the other way round.
MCInit ==
  /\ scenario \in Scenarios /\ Init /\ Tasks!Init
  /\ weather = IF scenario \in Weathers THEN scenario ELSE "faults"
LockDoes(step) == scenario \in Weathers /\ step /\ UNCHANGED <<weather, taskVars, scenario>>
MCNext ==
  \/ /\ LockDoes(Next)
     /\ scenario = "faults" => up'[n2] = "started" /\ phase'[n1] # "dead"
  \/ \E s \in Scenarios \cap DOMAIN Schedules :
       scenario = s /\ Scheduler(s)!Next /\ UNCHANGED <<vars, scenario>>
MCFairness ==
  /\ Tasks!Fairness
  /\ WF_allVars(LockDoes(TimePasses))
  /\ \A n \in Nodes : WF_allVars(LockDoes(Acquired(n)))
MCSpec == MCInit /\ [][MCNext]_allVars /\ MCFairness

\* CronScheduler!AskedIsScheduled and CronScheduler!NoOrphanTimer: a task that was
\* asked for is enabled and its timer is set, whatever an earlier tick does at its
\* end, and each timer that is set is the handle of the task it fires for; but for
\* timeouts whose name is used again during their tick.
TimersMatchTasks == scenario # "reuse" => Tasks!AskedIsScheduled /\ Tasks!NoOrphanTimer

\* CronScheduler!NoRunAfterShutdown: no tick begins once shutdown has begun; but
\* by the timers that NoOrphanTimer excepts.
NoRunAfterShutdown == [][scenario # "reuse" => Tasks!BeginsNoRun]_allVars

\* CronScheduler!ShutdownSettles and CronLock!LeftoverExpires: shutdown ends
\* though a tick never does, and a key that nobody will release expires.
ShutdownsAndLeftoversEnd == Tasks!ShutdownSettles /\ LeftoverExpires

\* CronScheduler!ShutdownStopsTimers: no timer is set after shutdown.
ShutdownStopsTimers == Tasks!ShutdownStopsTimers
=============================================================================
