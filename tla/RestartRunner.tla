----------------------------- MODULE RestartRunner -----------------------------
(***************************************************************************)
(* The restart boundary of `fluo dev` (packages/cli/src/dev-runner/        *)
(* node-restart-runner.ts): watchers report files, a debounce collects the *)
(* reports, a gate compares the files' content with a baseline, and a real *)
(* change has the app child stopped and started anew, until a signal or    *)
(* the child's own end finishes the runner.  A child reads the files some  *)
(* time after it was spawned, and ends some time before its close event.   *)
(* The child's kill never fails; path filters and notices are left out.    *)
(***************************************************************************)
EXTENDS Naturals, Sequences

CONSTANTS Files,     \* those that are watched
          MaxEdits,  \* bound: how often one of them is saved
          None

VARIABLES
  disk,                    \* the content of each file
  baseline,                \* hashes, of the gate
  notices,                 \* files whose watch event is under way
  pendingRestartPaths,
  restartTimer,            \* is the debounce timer set?
  restarting, stopping,
  restartAfterClosePaths,
  cleanedUp,               \* watchers, timer and signal handlers are gone
  children,                \* every child so far; the last is the variable child
  exit,                    \* what the runner resolved with
  edits,
  hasty                    \* history: files set back to the baseline while their report waits

runnerVars == <<disk, baseline, notices, pendingRestartPaths, restartTimer, restarting,
                stopping, restartAfterClosePaths, cleanedUp, children, exit, edits, hasty>>
fileVars == <<disk, edits, hasty>>

\* failing: spawn failed, its error event comes next.  exited: the process has
\* ended, its close event is under way.
States == {"failing", "spawned", "running", "exited", "closed"}
\* The code null stands for the end by a signal.
Codes == {0, 2, None}
OrElse(code, default) == IF code = None THEN default ELSE code
Unread == [f \in Files |-> 0]
Spawned(state) == [state |-> state, code |-> None, loaded |-> Unread, killed |-> FALSE,
                   restarts |-> FALSE]
Gone == Spawned("closed")

current == Len(children)
child == children[current]
Alive(c) == c.state \in {"spawned", "running"}

RunnerInit ==
  /\ disk = [f \in Files |-> 1] /\ baseline = disk
  /\ notices = {} /\ pendingRestartPaths = {} /\ restartAfterClosePaths = {}
  /\ restartTimer = FALSE /\ restarting = FALSE /\ stopping = FALSE /\ cleanedUp = FALSE
  /\ children \in {<<Spawned(s)>> : s \in {"failing", "spawned"}}
  /\ exit = None /\ edits = 0 /\ hasty = {}

\* Nothing is watched: the runner has ended.
NoRunner ==
  /\ disk = Unread /\ baseline = disk
  /\ notices = {} /\ pendingRestartPaths = {} /\ restartAfterClosePaths = {} /\ hasty = {}
  /\ restartTimer = FALSE /\ restarting = FALSE /\ stopping = TRUE /\ cleanedUp = TRUE
  /\ children = <<Gone>> /\ exit = 0 /\ edits = 0

\* An error event comes before any timer, signal or watch event.
Calm == child.state # "failing"

\* Somebody saves a file: with new content, with the same, or with the former.
Edit(f) ==
  /\ Calm /\ exit = None /\ edits < MaxEdits
  /\ edits' = edits + 1
  /\ \E content \in (disk[f] - 1)..(disk[f] + 1) :
       /\ content > 0
       /\ disk' = [disk EXCEPT ![f] = content]
       /\ hasty' = IF content # disk[f] /\ content = baseline[f] /\ f \in notices \cup pendingRestartPaths
                     THEN hasty \cup {f} ELSE hasty
  /\ notices' = IF cleanedUp THEN notices ELSE notices \cup {f}
  /\ UNCHANGED <<baseline, pendingRestartPaths, restartTimer, restarting, stopping,
                 restartAfterClosePaths, cleanedUp, children, exit>>

\* scheduleRestart, called by a watcher: the debounce starts again.
Notice(f) ==
  /\ Calm /\ f \in notices
  /\ notices' = notices \ {f}
  /\ pendingRestartPaths' = pendingRestartPaths \cup {f}
  /\ restartTimer' = TRUE
  /\ UNCHANGED <<fileVars, baseline, restarting, stopping, restartAfterClosePaths,
                 cleanedUp, children, exit>>

HasMeaningfulChange(paths) == \E f \in paths : disk[f] # baseline[f]
CommitBaseline(paths) == baseline' = [f \in Files |-> IF f \in paths THEN disk[f] ELSE baseline[f]]

\* Mutant: what changes while a restart is under way is left to that restart.
CollectsFirst(paths) == IF restarting THEN restartAfterClosePaths ELSE paths
\* The paths whose content the restarted child will have seen.
Collects(paths) == restartAfterClosePaths \cup paths

\* stopChild: SIGTERM, and SIGKILL later, unless the process has ended.
StopChild(c) == [c EXCEPT !.killed = c.killed \/ Alive(c)]

\* The debounce is over.  A child always exists, so that the code for a runner
\* without one is not reached.
TimerFires ==
  /\ Calm /\ restartTimer
  /\ restartTimer' = FALSE /\ pendingRestartPaths' = {}
  /\ IF HasMeaningfulChange(pendingRestartPaths)
       THEN /\ restartAfterClosePaths' = Collects(pendingRestartPaths)
            /\ restarting' = TRUE
            /\ children' = IF ~restarting
                 THEN [children EXCEPT ![current] = [StopChild(child) EXCEPT !.restarts = TRUE]]
                 ELSE children
       ELSE UNCHANGED <<restartAfterClosePaths, restarting, children>>
  /\ UNCHANGED <<fileVars, baseline, notices, stopping, cleanedUp, exit>>

\* Node runs src/main.ts, which reads the files.
Loads ==
  /\ child.state = "spawned"
  /\ children' = [children EXCEPT ![current].state = "running", ![current].loaded = disk]
  /\ UNCHANGED <<fileVars, baseline, notices, pendingRestartPaths, restartTimer, restarting,
                 stopping, restartAfterClosePaths, cleanedUp, exit>>

\* The process of a child ends: of itself, with a code or a signal of others,
\* upon SIGTERM, or by the SIGKILL of the grace period.
Ends(i, codes) ==
  /\ Calm /\ Alive(children[i])
  /\ \E code \in codes :
       children' = [children EXCEPT ![i].state = "exited", ![i].code = code]
  /\ UNCHANGED <<fileVars, baseline, notices, pendingRestartPaths, restartTimer, restarting,
                 stopping, restartAfterClosePaths, cleanedUp, exit>>
ForceKilled(i) == children[i].killed /\ Ends(i, {None})

\* Mutant: the timer of a restart survives the runner.
CleanupKeepsTimer ==
  /\ cleanedUp' = TRUE /\ notices' = {}
  /\ UNCHANGED <<pendingRestartPaths, restartAfterClosePaths, restartTimer>>
\* cleanup(); an event of a closed watcher is not delivered.
Cleanup ==
  /\ cleanedUp' = TRUE /\ notices' = {}
  /\ pendingRestartPaths' = {} /\ restartAfterClosePaths' = {} /\ restartTimer' = FALSE

ResolveOnce(code) == exit' = IF exit = None THEN code ELSE exit

\* Mutant: a restart starts the next child though the runner was told to stop.
StartsAgainAlways == TRUE
StartsAgain == ~stopping

\* The error event of a child that could not be spawned.
SpawnFails ==
  /\ child.state = "failing"
  /\ children' = [children EXCEPT ![current] = Gone]
  /\ restarting' = FALSE
  /\ Cleanup /\ ResolveOnce(1)
  /\ UNCHANGED <<fileVars, baseline, stopping>>

\* The close event: the child's own listener, which leaves a restart to the
\* restart's listener, that one, and the listener of stop().
Closes(i) ==
  /\ Calm /\ children[i].state = "exited"
  /\ LET c == children[i] closed == [children EXCEPT ![i] = Gone]
     IN IF c.restarts /\ StartsAgain
          THEN /\ restarting' = FALSE
               /\ restartAfterClosePaths' = {}
               /\ CommitBaseline(restartAfterClosePaths)
               /\ \E state \in {"failing", "spawned"} : children' = Append(closed, Spawned(state))
               /\ UNCHANGED <<notices, pendingRestartPaths, restartTimer, cleanedUp, exit>>
          ELSE /\ restarting' = (restarting /\ ~c.restarts)
               /\ children' = closed
               /\ Cleanup
               /\ ResolveOnce(OrElse(c.code, IF stopping THEN 0 ELSE 1))
               /\ UNCHANGED baseline
  /\ UNCHANGED <<fileVars, stopping>>

\* stop(), upon SIGINT or SIGTERM.
Stop ==
  /\ Calm /\ ~cleanedUp
  /\ stopping' = TRUE
  /\ Cleanup
  /\ IF child.code # None
       THEN ResolveOnce(child.code) /\ UNCHANGED children
       ELSE /\ children' = [children EXCEPT ![current] = StopChild(child)]
            /\ UNCHANGED exit
  /\ UNCHANGED <<fileVars, baseline, restarting>>

Due ==
  \/ \E f \in Files : Notice(f)
  \/ TimerFires \/ Loads \/ SpawnFails
  \/ \E i \in DOMAIN children : ForceKilled(i) \/ Closes(i)
RunnerNext ==
  \/ Due
  \/ \E f \in Files : Edit(f)
  \/ \E i \in DOMAIN children : Ends(i, Codes)
  \/ Stop

RunnerTypeOK ==
  /\ disk \in [Files -> Nat] /\ baseline \in [Files -> Nat]
  /\ notices \cup pendingRestartPaths \cup restartAfterClosePaths \cup hasty \subseteq Files
  /\ {restartTimer, restarting, stopping, cleanedUp} \subseteq BOOLEAN
  /\ children \in Seq([state: States, code: Codes, loaded: [Files -> Nat],
                       killed: BOOLEAN, restarts: BOOLEAN])
  /\ exit \in {0, 1, 2, None} /\ edits \in 0..MaxEdits

\* At most one app child runs, and none once the runner has resolved, whatever
\* restarts, signals and ends of the child fall together.
OneChild ==
  /\ \A i, j \in DOMAIN children : Alive(children[i]) /\ Alive(children[j]) => i = j
  /\ exit # None => \A i \in DOMAIN children : ~Alive(children[i])

\* Once every save has been looked at, the child runs what the files hold, but
\* for a file that was set back to the baseline while its report waited: the
\* child may have read it in between, which the gate does not know.
RunsWhatIsSaved ==
  ~cleanedUp /\ notices = {} /\ ~restartTimer /\ ~restarting /\ child.state = "running"
    => \A f \in Files \ hasty : child.loaded[f] = disk[f]

\* Nothing is under way: no save to look at, no restart, no child being stopped.
Rested ==
  /\ notices = {} /\ ~restartTimer /\ ~restarting
  /\ child.state \in {"running", "closed"}
  /\ stopping => exit # None
===============================================================================
