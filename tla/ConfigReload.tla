----------------------------- MODULE ConfigReload -----------------------------
(***************************************************************************)
(* The reloader of packages/config/src/load.ts under one of the managers   *)
(* that keep a ConfigService in step with it: ConfigReloadManager          *)
(* (reload-module.ts) or ConfigModuleWatchManager (module.ts), which has   *)
(* no listeners and no reload(), and aligns the service when it starts.    *)
(* Reloading is synchronous: what can happen within is that a listener     *)
(* asks for another reload, subscribes others or takes them off, closes    *)
(* the manager or throws, and that another process writes the file between *)
(* two reads.  A configuration is the version of the file it was read      *)
(* from; the other sources do not change.  Nobody reloads a manager closed *)
(* by a listener before that notification is over.                         *)
(***************************************************************************)
EXTENDS Naturals

CONSTANTS Manager,    \* "reload" or "watch"
          Versions,   \* contents of the env file
          Initial,    \* the content at bootstrap
          Invalid,    \* those the schema rejects
          Listeners,  \* as many subscribe to the manager
          Watch,      \* options.watch
          Manual,     \* whether anybody calls reload() outside a notification
          Racing,     \* whether the file may change while a reload runs
          MaxAsks     \* bound: reloads that listeners ask for

ConfigAssumption ==
  /\ Initial \in Versions \ Invalid /\ "manual" \notin Versions /\ Listeners \in Nat /\ MaxAsks \in Nat
  /\ {Watch, Manual, Racing} \subseteq BOOLEAN /\ Manager \in {"reload", "watch"}
  /\ Manager = "watch" => Watch /\ ~Manual /\ Listeners = 0

VARIABLES
  file,     \* the content of the env file
  event,    \* a file event is on its way
  current,  \* state.current
  service,  \* the snapshot of the ConfigService
  hash,     \* state.watchedEnvFileHash
  step,     \* the reload under way: "idle", "resolve" or "notify"
  left,     \* listeners not notified yet
  saved,    \* what a failing listener restores: <<current, service>>
  seen,     \* the content the watcher hashed, or "manual"
  queued,   \* state.pendingReloadReason is set
  asks,     \* reloads that listeners asked for
  failed,   \* history: the last reload failed
  open,     \* the manager has a reloader
  booted,   \* onApplicationBootstrap was called
  adopted,  \* history: the service has had a snapshot of this reloader
  agreed    \* history: what the service was last given, up to close(), with no listener refusing

history == <<adopted, agreed>>
vars == <<file, event, current, service, hash, step, left, saved, seen, queued, asks, failed, open, booted, history>>

TypeOK ==
  /\ {file, current, service, hash, agreed} \subseteq Versions
  /\ saved \in Versions \X Versions /\ seen \in Versions \cup {"manual"}
  /\ step \in {"idle", "resolve", "notify"} /\ left \in 0..Listeners /\ asks \in 0..MaxAsks
  /\ {event, queued, failed, open, booted, adopted} \subseteq BOOLEAN

\* ConfigModule loads the service's snapshot; there is no reloader yet.
Init ==
  /\ file = Initial /\ event = FALSE
  /\ current = Initial /\ service = Initial /\ hash = Initial
  /\ step = "idle" /\ left = 0 /\ saved = <<Initial, Initial>> /\ seen = "manual"
  /\ queued = FALSE /\ asks = 0 /\ failed = FALSE
  /\ open = FALSE /\ booted = FALSE /\ adopted = FALSE /\ agreed = Initial

\* Another process writes the file.
Writes(v) ==
  /\ step = "idle" \/ Racing
  /\ v # file /\ file' = v
  /\ event' = (event \/ (Watch /\ open))
  /\ UNCHANGED <<current, service, hash, step, left, saved, seen, queued, asks, failed, open, booted, history>>

\* createConfigReloader reads the file, hashes it, and watches it: what is
\* written meanwhile makes no event.  One manager gives the service what the
\* reloader has read; the other leaves it what it has.
Creates ==
  /\ ~open /\ file \notin Invalid
  /\ open' = TRUE /\ current' = file /\ failed' = FALSE
  /\ \E hashed, last \in IF Racing THEN Versions ELSE {file} : hash' = hashed /\ file' = last
  /\ adopted' = (Manager = "watch")
  /\ IF Manager = "watch" THEN service' = file /\ agreed' = file ELSE UNCHANGED <<service, agreed>>

\* The reloader there is stays; one that cannot load the file is not there.
KeepsReloader == UNCHANGED <<file, current, service, hash, failed, open, history>>

\* onApplicationBootstrap.
Boots ==
  /\ Watch /\ ~booted /\ step = "idle" /\ booted' = TRUE
  /\ IF open \/ file \in Invalid THEN KeepsReloader ELSE Creates
  /\ UNCHANGED <<event, step, left, saved, seen, queued, asks>>

\* The watcher's callback: hashes the file and reloads when it changed.
FileEvent ==
  /\ event /\ open /\ step = "idle"
  /\ event' = FALSE
  /\ IF file = hash THEN UNCHANGED <<step, seen>> ELSE step' = "resolve" /\ seen' = file
  /\ UNCHANGED <<file, current, service, hash, left, saved, queued, asks, failed, open, booted, history>>

\* reload(), also of a manager that was closed: it makes another reloader.
Reload ==
  /\ Manual /\ step = "idle"
  /\ IF open THEN KeepsReloader ELSE Creates
  /\ step' = "resolve" /\ seen' = "manual"
  /\ UNCHANGED <<event, left, saved, queued, asks, booted>>

\* applyReload throws: what was queued is dropped.
Fails ==
  /\ failed' = TRUE /\ queued' = FALSE /\ step' = "idle"

\* applyReloadNow up to the listeners; the manager's forwarder comes first and
\* replaces the service's snapshot.
Adopts ==
  /\ saved' = <<current, service>>
  /\ current' = file /\ service' = file
  /\ step' = "notify" /\ left' \in 0..Listeners
  /\ UNCHANGED <<failed, queued>>

\* Mutant: the service takes what is read though the manager was closed.
ReadsForService ==
  /\ step' = "idle" /\ failed' = FALSE /\ service' = file
  /\ UNCHANGED <<current, left, saved, queued>>
\* A reload queued before close() finds no forwarder: it reads the file and
\* tells nobody.
ReadsInVain ==
  /\ step' = "idle" /\ failed' = FALSE
  /\ UNCHANGED <<current, service, left, saved, queued>>

Resolve ==
  /\ step = "resolve"
  /\ \/ file \in Invalid /\ Fails /\ UNCHANGED <<current, service, left, saved>>
     \/ file \notin Invalid /\ open /\ Adopts
     \/ file \notin Invalid /\ ~open /\ ReadsInVain
  /\ UNCHANGED <<file, event, hash, seen, asks, open, booted, history>>

\* A listener returns; it may have subscribed others or taken them off.
ListenerReturns ==
  /\ step = "notify" /\ left > 0 /\ left' \in 0..Listeners
  /\ UNCHANGED <<file, event, current, service, hash, step, saved, seen, queued, asks, failed, open, booted, history>>

\* A listener calls reload(): it is queued.
ListenerAsks ==
  /\ step = "notify" /\ left > 0 /\ open /\ asks < MaxAsks
  /\ queued' = TRUE /\ asks' = asks + 1
  /\ UNCHANGED <<file, event, current, service, hash, step, left, saved, seen, failed, open, booted, history>>

\* The manager restores the service's snapshot, the reloader its own.
Restores == current' = saved[1] /\ service' = saved[2]

\* Also a listener that has closed the manager.
ListenerThrows ==
  /\ step = "notify" /\ left > 0
  /\ Restores /\ Fails
  /\ agreed' = IF open THEN agreed ELSE saved[2]
  /\ UNCHANGED <<file, event, hash, left, saved, seen, asks, open, booted, adopted>>

\* The watcher commits what it hashed when all went well.
Committed == IF seen = "manual" THEN hash ELSE seen

\* All listeners returned: the loop of applyReload goes on or ends.
Notified ==
  /\ step = "notify" /\ left = 0
  /\ queued' = FALSE
  /\ IF queued THEN step' = "resolve" /\ UNCHANGED <<failed, hash>>
               ELSE step' = "idle" /\ failed' = FALSE /\ hash' = Committed
  /\ adopted' = TRUE /\ agreed' = IF open THEN service ELSE agreed
  /\ UNCHANGED <<file, event, current, service, left, saved, seen, asks, open, booted>>

\* close() and onModuleDestroy, also called by a listener, which is then the
\* last to be notified: the listeners and the forwarder are removed.
Close ==
  /\ open /\ (step = "idle" \/ (step = "notify" /\ left > 0))
  /\ open' = FALSE /\ event' = FALSE
  /\ IF step = "idle" THEN UNCHANGED <<left, agreed>> ELSE left' = 1 /\ agreed' = service
  /\ UNCHANGED <<file, current, service, hash, step, saved, seen, queued, asks, failed, booted, adopted>>

Next ==
  \/ \E v \in Versions : Writes(v)
  \/ Boots \/ FileEvent \/ Reload \/ Resolve \/ Notified \/ Close
  \/ ListenerReturns \/ ListenerAsks \/ ListenerThrows
Spec == Init /\ [][Next]_vars

---------------------------------------------------------------------------
(* Properties *)

\* Whatever listeners do, and though one closes the manager while a reload is
\* queued, the service holds between reloads what it was last given before
\* close() with no listener refusing ("restores the previous snapshot"); that is
\* the snapshot of a reloader that it has had one of, and the schema has accepted
\* both.
ServiceInStep ==
  step = "idle" =>
    /\ service = agreed
    /\ open /\ adopted => service = current
    /\ {service, current} \cap Invalid = {}

\* When the file is quiet and its events are handled, the snapshot is the
\* file's content, unless that could not be loaded (startReloaderWatcher).  A
\* reload that a caller or a listener asks for, or a file that changes while it
\* is read, replaces the snapshot and not the hash it is compared with; then
\* going back to that content is not noticed.
WatchConverges ==
  Watch /\ ~Manual /\ ~Racing /\ MaxAsks = 0 /\ open /\ step = "idle" /\ ~event =>
    current = file \/ (failed /\ file # hash)
=============================================================================
