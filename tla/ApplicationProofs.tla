-------------------------- MODULE ApplicationProofs --------------------------
(***************************************************************************)
(* Proofs about Application over its platform shell, for all services,     *)
(* microservices and components, and whatever may reject.                  *)
(*                                                                         *)
(* ControlInv says where the five long operations can be together; it      *)
(* makes the application and each microservice implement ServerLifecycle.  *)
(* KeptInv says what a start, a rollback and a stop of the shell still     *)
(* know of what runs, ServeInv and CloseInv what an application has while  *)
(* it serves and has left in each phase of its close(), and UnwindInv what *)
(* a bootstrap that failed has still to undo.  OrderInv, an invariant of   *)
(* the shell alone and however often it is restarted, says what the lists  *)
(* that start() and stop() go by are ordered by.                           *)
(***************************************************************************)
EXTENDS Application, TLAPS

---------------------------------------------------------------------------
(* Invariants *)

BootHooks == {"onModuleInit", "onApplicationBootstrap"} \X SetOf(Services)
EndHooks == ({"onModuleDestroy"} \X (SetOf(Services) \cup {"shell"}))
              \cup ({"onApplicationShutdown"} \X SetOf(Services))

\* The shape of what the application keeps; closing goes through microservices
\* first and then through hooks.
AppTyped ==
  /\ boot \in [pc : {"resolving", "initialising", "starting", "unwinding", "up", "failed"},
               todo : Seq(BootHooks)]
  /\ appState \in {"bootstrapped", "ready", "closed"}
  /\ listening \in {"none", "ready", "adapter"}
  /\ bound \in BOOLEAN /\ disposed \in BOOLEAN /\ closeCalled \in BOOLEAN
  /\ closing \in [pc : {"none", "listen", "children", "hooks", "adapter", "container"},
                  todo : Seq(Micros) \cup Seq(EndHooks), wait : BOOLEAN, errors : BOOLEAN]
  /\ closing.todo \in IF closing.pc = "children" THEN Seq(Micros) ELSE Seq(EndHooks)
  /\ connecting \subseteq Micros /\ connected \in Seq(Micros)
  /\ child \in [Micros -> [state : {"bootstrapped", "ready", "closed"},
                           listening : BOOLEAN, closing : BOOLEAN, up : BOOLEAN]]

\* Where bootstrap, listen() and close() can be together.
PhaseInv ==
  /\ boot.pc \in {"resolving", "initialising", "starting"} => closing = NoTeardown
  /\ boot.pc = "unwinding" => closing.pc \in {"hooks", "container"}
  /\ boot.pc = "failed" => closing.pc = "none"
  /\ boot.pc \in {"initialising", "starting", "up"} => instances = Append(Services, "shell")
  /\ closeCalled \/ appState # "bootstrapped" \/ listening # "none" => boot.pc = "up"
  /\ listening # "none" => appState = "bootstrapped" /\ closing.pc \in {"none", "listen"}
  /\ boot.pc = "up" /\ closing.pc # "none" => closeCalled /\ appState # "closed"
  /\ boot.pc = "up" /\ closing.pc = "container" /\ ~closing.errors => ~bound
  /\ closing.wait => closing.todo # <<>> /\ closing.pc \in {"children", "hooks"}
  /\ closing.wait /\ closing.pc = "hooks" => Head(closing.todo)[2] = "shell"

\* A microservice that is closed stays so: it neither listens nor runs.
ChildInv ==
  \A m \in Micros : child[m].state = "closed" =>
    ~child[m].up /\ ~child[m].listening /\ ~child[m].closing

\* The shell works while bootstrap waits for its start, the only one, or a
\* teardown waits for its stop.
ShellControl ==
  /\ op = [pc |-> op.pc, todo |-> op.todo, done |-> op.done, failed |-> op.failed]
  /\ op.pc \in {"idle", "validating", "starting", "rollback", "stopping"}
  /\ boot.pc \in {"resolving", "initialising"} =>
       /\ op.pc = "idle" /\ last = "none" /\ up = {}
       /\ ~started /\ ~stopped /\ pending = <<>>
  /\ op.pc \in {"validating", "starting", "rollback"} => boot.pc = "starting"
  /\ op.pc = "stopping" => closing.pc = "hooks" /\ closing.wait

ControlInv == AppTyped /\ PhaseInv /\ ChildInv /\ ShellControl

\* What runs is in reach of the operation in progress, and when there is none
\* of the next stop().
KeptInv ==
  /\ ShellTypeOK
  /\ op.pc \in {"validating", "starting", "rollback"} => ~started /\ ~stopped /\ pending = <<>>
  /\ op.pc = "validating" => up = {}
  /\ op.pc = "starting" =>
       /\ up = SetOf(op.done)
       /\ SetOf(op.done) \cup SetOf(op.todo) = SetOf(registered)
       /\ SetOf(ordered) = SetOf(registered)
  /\ op.pc = "rollback" => up \subseteq SetOf(op.done) /\ (~op.failed => up \subseteq SetOf(op.todo))
  /\ op.pc = "stopping" =>
       /\ ~NothingToStop /\ up \subseteq SetOf(ToStop)
       /\ ~op.failed => up \subseteq SetOf(op.todo)
  /\ NothingForgotten
  /\ op.pc = "idle" /\ last = "stopped" => up = {}
  /\ boot.pc = "starting" /\ op.pc = "idle" /\ last = "started" => up = SetOf(registered)

\* An application whose close() was not called yet.
ServeInv ==
  /\ boot.pc \in {"resolving", "initialising", "starting"} => ~disposed
  /\ boot.pc = "up" /\ ~closeCalled => ~disposed /\ op.pc = "idle" /\ up = SetOf(registered)
  /\ appState = "ready" /\ ~closeCalled => bound

ShellHook == <<"onModuleDestroy", "shell">>
Gone(m) == child[m].state = "closed"
ShellDown == op.pc = "idle" /\ up = {}

\* What a close() in which nothing failed so far has released, by its phase.
Released ==
  boot.pc = "up" /\ ~closing.errors =>
    /\ closing.pc = "children" =>
         \A m \in SetOf(connected) : Gone(m) \/ m \in SetOf(closing.todo)
    /\ closing.pc \in {"hooks", "adapter", "container"} => \A m \in SetOf(connected) : Gone(m)
    /\ closing.pc = "hooks" => ShellHook \in SetOf(closing.todo) \/ ShellDown
    /\ closing.pc \in {"adapter", "container"} => ShellDown

\* What a close() leaves, in progress and when it is over.
CloseInv ==
  /\ closeCalled => connecting = {}
  /\ Released
  /\ appState = "closed" =>
       /\ closeCalled /\ ~bound /\ disposed /\ ShellDown
       /\ \A m \in SetOf(connected) : Gone(m)

\* No hook of a shutdown rejects, and the shell's stop() is one of them.
NoShutdownHookRejects == FailsHook \cap EndHooks = {} /\ FailsStop = {}

Destroyed(i, hooks) ==
  <<"onModuleInit", i>> \in called => <<"onModuleDestroy", i>> \in called \cup hooks

UnwindInv ==
  /\ ~op.failed
  /\ boot.pc = "resolving" => called = {}
  /\ closing.pc = "hooks" /\ closing.wait /\ op.pc = "idle" => last = "stopped"
  /\ boot.pc = "unwinding" =>
       \A i \in SetOf(Services) :
         Destroyed(i, IF closing.pc = "hooks" THEN SetOf(closing.todo) ELSE {})
  /\ UnwindUndoesInit

---------------------------------------------------------------------------
(* Sequences *)

LEMMA ReverseKeeps ==
  ASSUME NEW S, NEW s \in Seq(S)
  PROVE  Reverse(s) \in Seq(S) /\ SetOf(Reverse(s)) = SetOf(s) /\ (s # <<>> => Reverse(s) # <<>>)
<1>1. Len(s) \in Nat /\ DOMAIN s = 1 .. Len(s) /\ \A j \in 1 .. Len(s) : s[j] \in S
  OBVIOUS
<1>2. Reverse(s) = [j \in 1 .. Len(s) |-> s[(Len(s) - j) + 1]]
  BY DEF Reverse
<1>3. \A j \in 1 .. Len(s) : (Len(s) - j) + 1 \in 1 .. Len(s)
  BY <1>1
<1>4. Reverse(s) \in Seq(S) /\ DOMAIN Reverse(s) = 1 .. Len(s)
  BY <1>1, <1>2, <1>3
<1>5. \A j \in 1 .. Len(s) : s[j] = Reverse(s)[(Len(s) - j) + 1]
  BY <1>1, <1>2, <1>3
<1>6. SetOf(Reverse(s)) \subseteq SetOf(s)
  BY <1>1, <1>2, <1>3, <1>4 DEF SetOf
<1>7. SetOf(s) \subseteq SetOf(Reverse(s))
  <2> SUFFICES ASSUME NEW j \in 1 .. Len(s) PROVE s[j] \in SetOf(Reverse(s))
    BY <1>1 DEF SetOf
  <2> QED
    BY <1>3, <1>4, <1>5 DEF SetOf
<1>8. s # <<>> => Reverse(s) # <<>>
  <2>1. s # <<>> => 1 \in DOMAIN s
    BY <1>1
  <2> QED
    BY <1>1, <1>4, <2>1
<1> QED
  BY <1>4, <1>6, <1>7, <1>8

LEMMA HeadAndTail ==
  ASSUME NEW S, NEW s \in Seq(S), s # <<>>
  PROVE  Head(s) \in S /\ Tail(s) \in Seq(S) /\ SetOf(s) = {Head(s)} \cup SetOf(Tail(s))
<1>1. /\ Len(s) \in Nat \ {0} /\ DOMAIN s = 1 .. Len(s)
      /\ Tail(s) \in Seq(S) /\ DOMAIN Tail(s) = 1 .. Len(s) - 1
      /\ \A j \in 1 .. Len(s) - 1 : Tail(s)[j] = s[j + 1]
      /\ Head(s) = s[1]
  OBVIOUS
<1>2. \A j \in 1 .. Len(s) : j = 1 \/ (j - 1 \in 1 .. Len(s) - 1 /\ s[j] = Tail(s)[j - 1])
  BY <1>1
<1>3. SetOf(s) \subseteq {Head(s)} \cup SetOf(Tail(s))
  <2> SUFFICES ASSUME NEW j \in 1 .. Len(s) PROVE s[j] \in {Head(s)} \cup SetOf(Tail(s))
    BY <1>1 DEF SetOf
  <2>1. CASE j = 1
    BY <1>1, <2>1
  <2>2. CASE j # 1
    <3>1. j - 1 \in DOMAIN Tail(s) /\ s[j] = Tail(s)[j - 1]
      BY <1>1, <1>2, <2>2
    <3> QED
      BY <3>1 DEF SetOf
  <2> QED
    BY <2>1, <2>2
<1>4. Head(s) \in SetOf(s)
  <2>1. 1 \in DOMAIN s /\ Head(s) = s[1]
    BY <1>1
  <2> QED
    BY <2>1 DEF SetOf
<1>5. SetOf(Tail(s)) \subseteq SetOf(s)
  <2> SUFFICES ASSUME NEW j \in 1 .. Len(s) - 1 PROVE Tail(s)[j] \in SetOf(s)
    BY <1>1 DEF SetOf
  <2>1. j + 1 \in DOMAIN s /\ Tail(s)[j] = s[j + 1]
    BY <1>1
  <2> QED
    BY <2>1 DEF SetOf
<1> QED
  BY <1>1, <1>3, <1>4, <1>5

LEMMA AppendAdds ==
  ASSUME NEW S, NEW s \in Seq(S), NEW e \in S
  PROVE  Append(s, e) \in Seq(S) /\ SetOf(Append(s, e)) = SetOf(s) \cup {e}
<1>1. /\ Append(s, e) \in Seq(S) /\ DOMAIN s = 1 .. Len(s) /\ Len(s) \in Nat
      /\ DOMAIN Append(s, e) = 1 .. Len(s) + 1
      /\ Append(s, e)[Len(s) + 1] = e
      /\ \A j \in 1 .. Len(s) : Append(s, e)[j] = s[j]
  OBVIOUS
<1>2. \A x : x \in SetOf(Append(s, e)) <=> x \in SetOf(s) \cup {e}
  BY <1>1 DEF SetOf
<1> QED
  BY <1>1, <1>2

LEMMA OfEmpty == SetOf(<<>>) = {} /\ \A S : <<>> \in Seq(S)
  BY DEF SetOf

LEMMA EachTyped ==
  ASSUME NEW S, NEW s \in Seq(S), NEW h
  PROVE  Each(h, s) \in Seq({h} \X S) /\ SetOf(Each(h, s)) = {h} \X SetOf(s)
<1>1. DOMAIN s = 1 .. Len(s) /\ Len(s) \in Nat
  OBVIOUS
<1>2. \A x : x \in SetOf(Each(h, s)) <=> x \in {h} \X SetOf(s)
  BY DEF Each, SetOf
<1> QED
  BY <1>1, <1>2 DEF Each

LEMMA Joined ==
  ASSUME NEW S, NEW s \in Seq(S), NEW t \in Seq(S)
  PROVE  s \o t \in Seq(S) /\ SetOf(s) \subseteq SetOf(s \o t)
<1>1. /\ s \o t \in Seq(S) /\ DOMAIN s = 1 .. Len(s) /\ Len(s) \in Nat /\ Len(t) \in Nat
      /\ DOMAIN (s \o t) = 1 .. Len(s) + Len(t)
      /\ \A j \in 1 .. Len(s) : (s \o t)[j] = s[j]
  OBVIOUS
<1> QED
  BY <1>1 DEF SetOf

\* The hooks of bootstrap, and those of a teardown: the shell's entry has one.
LEMMA BootHooksTyped ==
  ASSUME ApplicationAssumption
  PROVE  BootstrapHooks(Services) \in Seq(BootHooks)
<1>1. /\ Each("onModuleInit", Services) \in Seq({"onModuleInit"} \X SetOf(Services))
      /\ Each("onApplicationBootstrap", Services) \in Seq({"onApplicationBootstrap"} \X SetOf(Services))
  BY EachTyped DEF ApplicationAssumption
<1>2. /\ Each("onModuleInit", Services) \in Seq(BootHooks)
      /\ Each("onApplicationBootstrap", Services) \in Seq(BootHooks)
  BY <1>1 DEF BootHooks
<1> QED
  BY <1>2, Joined DEF BootstrapHooks

LEMMA EndHooksTyped ==
  ASSUME ApplicationAssumption,
         NEW s, s \in Seq(SetOf(Services)) \/ s = Append(Services, "shell")
  PROVE  /\ ShutdownHooks(s) \in Seq(EndHooks)
         /\ {"onModuleDestroy"} \X SetOf(s) \subseteq SetOf(ShutdownHooks(s))
<1> DEFINE Entries == SetOf(Services) \cup {"shell"}
<1>1. Services \in Seq(SetOf(Services)) /\ Services \in Seq(Entries) /\ "shell" \notin SetOf(Services)
  BY DEF ApplicationAssumption
<1>2. s \in Seq(Entries)
  <2>1. CASE s \in Seq(SetOf(Services))
    BY <2>1
  <2>2. CASE s = Append(Services, "shell")
    BY <1>1, <2>2
  <2> QED
    BY <2>1, <2>2
<1>3. WithoutShell(s) \in Seq(SetOf(Services))
  <2>1. CASE s = Append(Services, "shell")
    <3>1. /\ Len(s) = Len(Services) + 1 /\ s[Len(s)] = "shell" /\ Len(Services) \in Nat
          /\ \A j \in 1 .. Len(Services) : s[j] = Services[j]
      BY <1>1, <2>1
    <3>2. Front(s) = SubSeq(s, 1, Len(Services)) /\ s # <<>> /\ Last(s) = "shell"
      BY <1>2, <3>1 DEF Front, Last
    <3>3. SubSeq(s, 1, Len(Services)) = Services
      BY <1>1, <1>2, <3>1
    <3> QED
      BY <1>1, <3>2, <3>3 DEF WithoutShell
  <2>2. CASE s \in Seq(SetOf(Services))
    <3>1. s # <<>> => s[Len(s)] \in SetOf(Services)
      BY <2>2
    <3> QED
      BY <1>1, <2>2, <3>1 DEF WithoutShell, Last
  <2> QED
    BY <2>1, <2>2
<1>4. /\ Reverse(s) \in Seq(Entries) /\ SetOf(Reverse(s)) = SetOf(s)
      /\ Reverse(WithoutShell(s)) \in Seq(SetOf(Services))
  BY <1>2, <1>3, ReverseKeeps
<1>5. /\ Each("onModuleDestroy", Reverse(s)) \in Seq({"onModuleDestroy"} \X Entries)
      /\ SetOf(Each("onModuleDestroy", Reverse(s))) = {"onModuleDestroy"} \X SetOf(s)
      /\ Each("onApplicationShutdown", Reverse(WithoutShell(s)))
           \in Seq({"onApplicationShutdown"} \X SetOf(Services))
  <2> HIDE DEF Entries
  <2> QED
    BY <1>4, EachTyped
<1>6. /\ Each("onModuleDestroy", Reverse(s)) \in Seq(EndHooks)
      /\ Each("onApplicationShutdown", Reverse(WithoutShell(s))) \in Seq(EndHooks)
  BY <1>5 DEF EndHooks
<1> QED
  BY <1>5, <1>6, Joined DEF ShutdownHooks

LEMMA SublistsTyped ==
  ASSUME NEW s \in Seq(SetOf(Services)), NEW t \in Sublists(s)
  PROVE  t \in Seq(SetOf(s))
<1>1. PICK n \in 0 .. Len(s) : t \in [1 .. n -> SetOf(s)]
  BY DEF Sublists
<1> QED
  BY <1>1

---------------------------------------------------------------------------
(* Control *)

LEMMA PhaseIs ==
  /\ Idle \in [pc : {"idle"}, todo : {<<>>}, done : {<<>>}, failed : {FALSE}]
  /\ \A pc, todo : Phase(pc, todo) \in [pc : {pc}, todo : {todo}, done : {<<>>}, failed : {FALSE}]
<1>1. ASSUME NEW pc, NEW todo
      PROVE  Phase(pc, todo) \in [pc : {pc}, todo : {todo}, done : {<<>>}, failed : {FALSE}]
  BY DEF Phase, Idle
<1>2. Idle \in [pc : {"idle"}, todo : {<<>>}, done : {<<>>}, failed : {FALSE}]
  BY DEF Idle
<1> QED
  BY <1>1, <1>2

LEMMA ControlInit == Init => ControlInv
<1> SUFFICES ASSUME Init PROVE ControlInv
  OBVIOUS
<1> USE DEF Init, ShellInit
<1>1. AppTyped
  BY OfEmpty DEF AppTyped, NoTeardown, NewChild
<1>2. PhaseInv
  BY DEF PhaseInv, NoTeardown
<1>3. ChildInv
  BY DEF ChildInv, NewChild
<1>4. ShellControl
  BY DEF ShellControl, Idle
<1> QED
  BY <1>1, <1>2, <1>3, <1>4 DEF ControlInv

\* No teardown before bootstrap fails or is over.
LEMMA TeardownApart ==
  ASSUME ControlInv, closing.pc # "none"
  PROVE  boot.pc \in {"unwinding", "up"}
BY DEF ControlInv, PhaseInv, AppTyped, NoTeardown

\* A bootstrap that fails goes over to its teardown.
LEMMA UnwindControl ==
  ASSUME ApplicationAssumption, ControlInv, NEW s,
         s \in Seq(SetOf(Services)) \/ s = Append(Services, "shell"),
         Unwind(s), closing.pc = "none", boot.pc \in {"resolving", "initialising", "starting"},
         boot.pc = "starting" => op.pc = "idle",
         UNCHANGED <<shellVars, serveVars, disposed, closeCalled, microVars>>
  PROVE  ControlInv'
<1> DEFINE todo == ShutdownHooks(s)
<1>1. todo \in Seq(EndHooks)
  BY EndHooksTyped
<1>2. /\ boot' = [pc |-> "unwinding", todo |-> <<>>]
      /\ closing' = [pc |-> "hooks", todo |-> todo, wait |-> FALSE, errors |-> FALSE]
  BY DEF Unwind, NoTeardown
<1> HIDE DEF todo
<1> USE DEF ControlInv, shellVars, flags, lists, serveVars, microVars
<1>3. AppTyped'
  BY <1>1, <1>2, OfEmpty DEF AppTyped
<1>4. PhaseInv'
  BY <1>2 DEF PhaseInv
<1>5. ChildInv'
  BY DEF ChildInv
<1>6. ShellControl'
  BY <1>2 DEF ShellControl
<1> QED
  BY <1>3, <1>4, <1>5, <1>6

LEMMA BootControl ==
  ASSUME ApplicationAssumption, ControlInv, BootStep
  PROVE  ControlInv'
<1>1. ASSUME NEW resolved \in Sublists(Services), ResolveServices(resolved) PROVE ControlInv'
  <2>1. Services \in Seq(SetOf(Services)) /\ resolved \in Seq(SetOf(Services))
    BY SublistsTyped DEF ApplicationAssumption
  <2>2. CASE resolved = Services
    <3>1. /\ boot' = [pc |-> "initialising", todo |-> BootstrapHooks(Services)]
          /\ instances' = Append(Services, "shell")
          /\ UNCHANGED <<shellVars, called, marker, serveVars, disposed, closing, closeCalled, microVars>>
      BY <1>1, <2>2 DEF ResolveServices
    <3>2. BootstrapHooks(Services) \in Seq(BootHooks)
      BY BootHooksTyped
    <3> USE DEF ControlInv, shellVars, flags, lists, serveVars, microVars
    <3>3. boot.pc = "resolving"
      BY <1>1 DEF ResolveServices
    <3>4. AppTyped'
      BY <3>1, <3>2 DEF AppTyped
    <3>5. PhaseInv' /\ ChildInv' /\ ShellControl'
      BY <3>1, <3>3 DEF PhaseInv, ChildInv, ShellControl
    <3> QED
      BY <3>4, <3>5
  <2>3. CASE resolved # Services
    <3>1. /\ Unwind(resolved) /\ boot.pc = "resolving"
          /\ UNCHANGED <<shellVars, serveVars, disposed, closeCalled, microVars>>
      BY <1>1, <2>3 DEF ResolveServices
    <3>2. closing.pc = "none"
      BY <3>1 DEF ControlInv, PhaseInv, NoTeardown
    <3> QED
      BY <2>1, <3>1, <3>2, UnwindControl
  <2> QED
    BY <2>2, <2>3
<1>2. CASE InitHook
  <2>1. boot.pc = "initialising" /\ closing.pc = "none" /\ instances = Append(Services, "shell")
    BY <1>2 DEF InitHook, ControlInv, PhaseInv, NoTeardown
  <2>2. CASE Unwind(instances)
    BY <1>2, <2>1, <2>2, UnwindControl DEF InitHook
  <2>3. CASE boot' = [boot EXCEPT !.todo = Tail(@)] /\ UNCHANGED <<marker, closing>>
    <3>1. Tail(boot.todo) \in Seq(BootHooks)
      BY <1>2, HeadAndTail DEF InitHook, ControlInv, AppTyped
    <3> USE DEF ControlInv, shellVars, flags, lists, serveVars, microVars
    <3>2. AppTyped'
      BY ZenonT(60), <1>2, <2>3, <3>1 DEF InitHook, AppTyped
    <3>3. boot'.pc = boot.pc
      BY <2>3 DEF AppTyped
    <3>4. PhaseInv' /\ ChildInv' /\ ShellControl'
      BY <1>2, <2>3, <3>3 DEF InitHook, PhaseInv, ChildInv, ShellControl
    <3> QED
      BY <3>2, <3>4
  <2> QED
    BY <1>2, <2>2, <2>3 DEF InitHook
<1>3. CASE BootStartsShell
  <2>1. /\ boot.pc = "initialising" /\ boot' = [boot EXCEPT !.pc = "starting"]
        /\ ShellStart
        /\ UNCHANGED <<instances, called, marker, serveVars, disposed, closeVars, microVars>>
    BY <1>3 DEF BootStartsShell
  <2> USE DEF ControlInv, serveVars, closeVars, microVars
  <2>2. boot' \in [pc : {"starting"}, todo : Seq(BootHooks)]
    BY <2>1 DEF AppTyped
  <2>3. AppTyped'
    BY <2>1, <2>2 DEF AppTyped
  <2>4. PhaseInv' /\ ChildInv'
    BY <2>1, <2>2 DEF PhaseInv, ChildInv
  <2>5. op' \in {Idle, Phase("validating", <<>>)}
    <3>1. pending = <<>>
      BY <2>1 DEF ShellControl
    <3> QED
      BY <2>1, <3>1 DEF ShellStart, StartNothing, StartAfterRollback, StartFresh, End, Continue
  <2>6. ShellControl'
    <3>1. Phase("validating", <<>>) \in [pc : {"validating"}, todo : {<<>>}, done : {<<>>}, failed : {FALSE}]
      BY PhaseIs
    <3>2. op' \in [pc : {"idle", "validating"}, todo : {<<>>}, done : {<<>>}, failed : {FALSE}]
      BY <2>5, <3>1, PhaseIs
    <3> QED
      BY <2>2, <3>2 DEF ShellControl
  <2> QED
    BY <2>3, <2>4, <2>6
<1>4. CASE BootEnds
  <2>1. boot.pc = "starting" /\ op.pc = "idle" /\ closing.pc = "none"
        /\ instances = Append(Services, "shell")
    BY <1>4 DEF BootEnds, ControlInv, PhaseInv, NoTeardown
  <2>2. CASE Unwind(instances)
    BY <1>4, <2>1, <2>2, UnwindControl DEF BootEnds
  <2>3. CASE boot' = [boot EXCEPT !.pc = "up"] /\ marker' = "ready" /\ UNCHANGED closing
    <3> USE DEF ControlInv, shellVars, flags, lists, serveVars, microVars
    <3>1. boot' \in [pc : {"up"}, todo : Seq(BootHooks)]
      BY <2>3 DEF AppTyped
    <3>2. AppTyped'
      BY <1>4, <2>3, <3>1 DEF BootEnds, AppTyped
    <3>3. PhaseInv' /\ ChildInv' /\ ShellControl'
      BY <1>4, <2>1, <2>3, <3>1 DEF BootEnds, PhaseInv, ChildInv, ShellControl
    <3> QED
      BY <3>2, <3>3
  <2> QED
    BY <1>4, <2>2, <2>3 DEF BootEnds
<1> QED
  BY <1>1, <1>2, <1>3, <1>4 DEF BootStep

LEMMA ListenControl ==
  ASSUME ControlInv, Listen \/ ListenStep
  PROVE  ControlInv'
<1>1. UNCHANGED <<shellVars, bootVars, called, marker, disposed, closeVars, microVars>>
  BY DEF Listen, ListenStep, ListenReady, ListenEnds
<1>2. /\ appState' \in {"bootstrapped", "ready", "closed"} /\ bound' \in BOOLEAN
      /\ listening' \in {"none", "ready", "adapter"}
      /\ boot.pc = "up"
      /\ listening' # "none" => appState' = "bootstrapped" /\ closing.pc \in {"none", "listen"}
      /\ closing.pc # "none" => appState' # "closed"
      /\ closing.pc = "container" => UNCHANGED bound
  BY DEF Listen, ListenStep, ListenReady, ListenEnds, StateOnceBound, Refused, Closing,
         ControlInv, AppTyped, PhaseInv
<1> USE DEF ControlInv, shellVars, flags, lists, bootVars, closeVars, microVars
<1>3. AppTyped'
  BY <1>1, <1>2 DEF AppTyped
<1>4. PhaseInv' /\ ChildInv' /\ ShellControl'
  BY <1>1, <1>2 DEF PhaseInv, ChildInv, ShellControl
<1> QED
  BY <1>3, <1>4

\* A step of the microservices: connecting, their own listen() and close(), and
\* those that startAllMicroservices() asks for.
MicroStepOrAsk ==
  \/ MicroStep \/ StarterStep \/ StartAll
  \/ \E m \in Micros : Connect(m) \/ MicroListen(m) \/ MicroClose(m)

\* What such a step may do to a microservice.
ChildKeeps(m) ==
  \/ child'[m] = child[m]
  \/ /\ child[m].state = "bootstrapped" /\ ~child[m].closing
     /\ child'[m] = [child[m] EXCEPT !.listening = TRUE]
  \/ child[m].state # "closed" /\ child'[m] = [child[m] EXCEPT !.closing = TRUE]
  \/ \E outcome \in {"ready", "interrupted", "failed"} :
       /\ child[m].listening
       /\ outcome # "failed" => (outcome = "ready" <=> ~ChildRefused(m))
       /\ child'[m] = [child[m] EXCEPT !.listening = FALSE,
                                      !.up = @ \/ outcome # "failed",
                                      !.state = IF outcome = "ready" THEN "ready" ELSE @]
  \/ \E ok \in BOOLEAN :
       /\ child[m].closing /\ ~child[m].listening
       /\ child'[m] = [child[m] EXCEPT !.closing = FALSE,
                                      !.up = IF ok THEN FALSE ELSE @,
                                      !.state = IF ok THEN "closed" ELSE @]

Child == [state : {"bootstrapped", "ready", "closed"},
          listening : BOOLEAN, closing : BOOLEAN, up : BOOLEAN]
Children == [Micros -> Child]

LEMMA ChildUpdated ==
  ASSUME NEW c \in Child, NEW b \in BOOLEAN, NEW st \in {"bootstrapped", "ready", "closed"}
  PROVE  /\ [c EXCEPT !.listening = FALSE, !.up = b, !.state = st] \in Child
         /\ [c EXCEPT !.closing = FALSE, !.up = b, !.state = st] \in Child
<1>1. [c EXCEPT !.listening = FALSE, !.up = b, !.state = st] \in Child
  BY DEF Child
<1>2. [c EXCEPT !.closing = FALSE, !.up = b, !.state = st] \in Child
  BY DEF Child
<1> QED
  BY <1>1, <1>2

LEMMA ChildrenKeep ==
  ASSUME ControlInv, MicroStepOrAsk \/ CloseChild
  PROVE  child' \in Children /\ \A m \in Micros : ChildKeeps(m)
<1>1. child \in Children
  BY DEF ControlInv, AppTyped, Children, Child
<1>2. CASE UNCHANGED child
  BY <1>1, <1>2 DEF ChildKeeps
<1>3. ASSUME NEW k, child[k].state = "bootstrapped" \/ k \notin Micros, ~child[k].closing \/ k \notin Micros,
             child' = [child EXCEPT ![k].listening = TRUE]
      PROVE  child' \in Children /\ \A m \in Micros : ChildKeeps(m)
  BY <1>1, <1>3 DEF Children, Child, ChildKeeps
<1>4. ASSUME NEW k, child[k].state # "closed" \/ k \notin Micros,
             child' = [child EXCEPT ![k].closing = TRUE]
      PROVE  child' \in Children /\ \A m \in Micros : ChildKeeps(m)
  BY <1>1, <1>4 DEF Children, Child, ChildKeeps
<1>5. ASSUME NEW k \in Micros, MicroListenEnds(k)
      PROVE  child' \in Children /\ \A m \in Micros : ChildKeeps(m)
  <2>1. PICK outcome \in {"ready", "interrupted", "failed"} :
             /\ child[k].listening
             /\ outcome # "failed" => (outcome = "ready" <=> ~ChildRefused(k))
             /\ child' = [child EXCEPT ![k].listening = FALSE,
                                       ![k].up = @ \/ outcome # "failed",
                                       ![k].state = IF outcome = "ready" THEN "ready" ELSE @]
    BY <1>5 DEF MicroListenEnds
  <2>2. /\ child' = [m \in Micros |-> child'[m]]
        /\ \A m \in Micros \ {k} : child'[m] = child[m]
        /\ child'[k] = [child[k] EXCEPT !.listening = FALSE,
                                        !.up = @ \/ outcome # "failed",
                                        !.state = IF outcome = "ready" THEN "ready" ELSE @]
    BY <1>1, <2>1 DEF Children
  <2>3. child'[k] \in Child
    <3> DEFINE c == child[k]
               b == c.up \/ outcome # "failed"
               st == IF outcome = "ready" THEN "ready" ELSE c.state
    <3>1. c \in Child
      BY <1>1 DEF Children
    <3>2. b \in BOOLEAN /\ st \in {"bootstrapped", "ready", "closed"}
      BY <3>1 DEF Child
    <3>3. child'[k] = [c EXCEPT !.listening = FALSE, !.up = b, !.state = st]
      BY <2>2
    <3> HIDE DEF c, b, st
    <3>4. [c EXCEPT !.listening = FALSE, !.up = b, !.state = st] \in Child
      BY <3>1, <3>2, ChildUpdated
    <3> QED
      BY <3>3, <3>4, Zenon
  <2>4. child' \in Children
    BY <1>1, <2>2, <2>3 DEF Children
  <2> QED
    BY <2>1, <2>2, <2>4 DEF ChildKeeps
<1>6. ASSUME NEW k \in Micros, MicroCloseEnds(k)
      PROVE  child' \in Children /\ \A m \in Micros : ChildKeeps(m)
  <2>1. PICK ok \in BOOLEAN :
             /\ child[k].closing /\ ~child[k].listening
             /\ child' = [child EXCEPT ![k].closing = FALSE,
                                       ![k].up = IF ok THEN FALSE ELSE @,
                                       ![k].state = IF ok THEN "closed" ELSE @]
    BY <1>6 DEF MicroCloseEnds, MayRelease
  <2>2. /\ child' = [m \in Micros |-> child'[m]]
        /\ \A m \in Micros \ {k} : child'[m] = child[m]
        /\ child'[k] = [child[k] EXCEPT !.closing = FALSE,
                                        !.up = IF ok THEN FALSE ELSE @,
                                        !.state = IF ok THEN "closed" ELSE @]
    BY <1>1, <2>1 DEF Children
  <2>3. child'[k] \in Child
    <3> DEFINE c == child[k]
               b == IF ok THEN FALSE ELSE c.up
               st == IF ok THEN "closed" ELSE c.state
    <3>1. c \in Child
      BY <1>1 DEF Children
    <3>2. b \in BOOLEAN /\ st \in {"bootstrapped", "ready", "closed"}
      BY <3>1 DEF Child
    <3>3. child'[k] = [c EXCEPT !.closing = FALSE, !.up = b, !.state = st]
      BY <2>2
    <3> HIDE DEF c, b, st
    <3>4. [c EXCEPT !.closing = FALSE, !.up = b, !.state = st] \in Child
      BY <3>1, <3>2, ChildUpdated
    <3> QED
      BY <3>3, <3>4, Zenon
  <2>4. child' \in Children
    BY <1>1, <2>2, <2>3 DEF Children
  <2> QED
    BY <2>1, <2>2, <2>4 DEF ChildKeeps
<1>7. CASE StarterAsks
  BY <1>1, <1>2, <1>3, <1>7 DEF StarterAsks, ChildRefused, Children, Child
<1>8. CASE StarterRollsBack \/ CloseChild
  BY <1>2, <1>4, <1>8 DEF StarterRollsBack, CloseChild
<1>9. ASSUME NEW m \in Micros, MicroListen(m) \/ MicroClose(m)
      PROVE  child' \in Children /\ \A k \in Micros : ChildKeeps(k)
  BY <1>3, <1>4, <1>9 DEF MicroListen, MicroClose, ChildListens, ChildCloses, ChildRefused
<1>10. CASE StarterEnds \/ StartAll \/ \E m \in Micros : Connect(m) \/ Connected(m)
  BY <1>2, <1>10 DEF StarterEnds, StartAll, Connect, Connected
<1> QED
  BY <1>5, <1>6, <1>7, <1>8, <1>9, <1>10 DEF MicroStepOrAsk, MicroStep, StarterStep

LEMMA ClosedChildrenStay ==
  ASSUME ControlInv, MicroStepOrAsk \/ CloseChild
  PROVE  ChildInv'
<1>1. child \in Children /\ child' \in Children /\ \A m \in Micros : ChildKeeps(m)
  BY ChildrenKeep DEF ControlInv, AppTyped, Children, Child
<1> SUFFICES ASSUME NEW m \in Micros, child'[m].state = "closed"
             PROVE  ~child'[m].up /\ ~child'[m].listening /\ ~child'[m].closing
  BY DEF ChildInv
<1>2. ChildKeeps(m) /\ child[m] \in Child
  BY <1>1 DEF Children
<1>3. child[m].state = "closed" => ~child[m].up /\ ~child[m].listening /\ ~child[m].closing
  BY DEF ControlInv, ChildInv
<1> QED
  BY <1>2, <1>3 DEF ChildKeeps, Child

\* A teardown c in place of closing: the same, or no longer waiting for a child.
ChildAnswered(c) ==
  /\ c \in [pc : {closing.pc}, todo : Seq(Micros) \cup Seq(EndHooks),
           wait : BOOLEAN, errors : BOOLEAN]
  /\ c.todo \in IF c.pc = "children" THEN Seq(Micros) ELSE Seq(EndHooks)
  /\ closing.errors => c.errors
  /\ c = closing \/ (closing.pc = "children" /\ ~c.wait)

LEMMA ChildDoneTyped ==
  ASSUME ControlInv, NEW m, NEW ok \in BOOLEAN
  PROVE  ChildAnswered(ChildDone(m, ok))
<1> USE DEF ControlInv, AppTyped, ChildAnswered
<1>1. CASE closing.pc = "children" /\ closing.wait /\ Head(closing.todo) = m
  <2>1. closing.todo \in Seq(Micros) /\ closing.todo # <<>>
    BY <1>1 DEF PhaseInv
  <2>2. Tail(closing.todo) \in Seq(Micros)
    BY <2>1, HeadAndTail
  <2> DEFINE e == closing.errors \/ ~ok
             t == Tail(closing.todo)
  <2>3. ChildDone(m, ok) = [closing EXCEPT !.todo = t, !.wait = FALSE, !.errors = e]
    BY <1>1 DEF ChildDone
  <2>4. e \in BOOLEAN /\ (closing.errors => e)
    OBVIOUS
  <2> HIDE DEF e, t
  <2>5. LET c == [closing EXCEPT !.todo = t, !.wait = FALSE, !.errors = e]
        IN /\ c \in [pc : {"children"}, todo : {t}, wait : {FALSE}, errors : BOOLEAN]
           /\ c.errors = e
    BY <1>1, <2>4
  <2> QED
    BY <1>1, <2>2, <2>3, <2>4, <2>5 DEF t
<1>2. CASE ~(closing.pc = "children" /\ closing.wait /\ Head(closing.todo) = m)
  <2>1. ChildDone(m, ok) = closing
    BY <1>2 DEF ChildDone
  <2> QED
    BY <2>1
<1> QED
  BY <1>1, <1>2

\* The microservices leave the rest of the application alone.
LEMMA MicroStepsApart ==
  ASSUME MicroStepOrAsk
  PROVE  UNCHANGED <<shellVars, bootVars, called, marker, serveVars, disposed, closeCalled>>
BY DEF MicroStepOrAsk, MicroStep, StarterStep, Connect, Connected, MicroListen, MicroClose,
   MicroListenEnds, MicroCloseEnds, StartAll, StarterAsks, StarterRollsBack, StarterEnds, closeVars

LEMMA MicroControl ==
  ASSUME ControlInv, MicroStepOrAsk
  PROVE  ControlInv'
<1>1. UNCHANGED <<shellVars, bootVars, called, marker, serveVars, disposed, closeCalled>>
  BY MicroStepsApart
<1>2. child' \in Children /\ ChildInv'
  BY SMTT(30), ChildrenKeep, ClosedChildrenStay
<1>3. closing' = closing \/ \E m \in Micros, ok \in BOOLEAN : closing' = ChildDone(m, ok)
  BY ZenonT(60) DEF MicroStepOrAsk, MicroStep, StarterStep, Connect, Connected, MicroListen, MicroClose,
         MicroListenEnds, MicroCloseEnds, StartAll, StarterAsks, StarterRollsBack, StarterEnds, closeVars
<1>4. ChildAnswered(closing')
  <2>1. CASE closing' = closing
    BY <2>1 DEF ControlInv, AppTyped, ChildAnswered
  <2>2. ASSUME NEW m \in Micros, NEW ok \in BOOLEAN, closing' = ChildDone(m, ok)
        PROVE  ChildAnswered(closing')
    BY <2>2, ChildDoneTyped
  <2> QED
    BY <1>3, <2>1, <2>2
<1>5. connecting' \subseteq Micros /\ connected' \in Seq(Micros)
  <2>1. connecting \subseteq Micros /\ connected \in Seq(Micros)
    BY DEF ControlInv, AppTyped
  <2>2. ASSUME NEW m \in Micros, Connect(m) \/ Connected(m)
        PROVE  connecting' \subseteq Micros /\ connected' \in Seq(Micros)
    BY <2>1, <2>2, AppendAdds DEF Connect, Connected
  <2>3. ASSUME UNCHANGED <<connecting, connected>>
        PROVE  connecting' \subseteq Micros /\ connected' \in Seq(Micros)
    BY <2>1, <2>3
  <2> QED
    BY <2>2, <2>3
    DEF MicroStepOrAsk, MicroStep, StarterStep, MicroListen, MicroClose,
        MicroListenEnds, MicroCloseEnds, StartAll, StarterAsks, StarterRollsBack, StarterEnds
<1> USE DEF ControlInv, shellVars, flags, lists, bootVars, serveVars
<1>6. AppTyped'
  BY <1>1, <1>2, <1>4, <1>5 DEF AppTyped, Children, Child, ChildAnswered
<1>7. PhaseInv'
  <2>1. CASE closing' = closing
    BY <1>1, <2>1 DEF PhaseInv
  <2>2. CASE closing.pc = "children" /\ ~closing'.wait
    <3>1. closing'.pc = "children" /\ boot.pc \in {"unwinding", "up"}
      BY <1>4, <2>2, TeardownApart DEF ChildAnswered
    <3> QED
      BY <1>1, <2>2, <3>1 DEF PhaseInv
  <2> QED
    BY <1>4, <2>1, <2>2 DEF ChildAnswered
<1>8. ShellControl'
  BY <1>1, <1>4 DEF ShellControl, ChildAnswered
<1> QED
  BY <1>2, <1>6, <1>7, <1>8

\* A hook settles: the next one, or none after one that rejected.
LEMMA HookSettles ==
  ASSUME ControlInv, AtHook, closing' = HookDone(closing) \/ closing' = HookFailed(closing)
  PROVE  /\ closing' \in [pc : {"hooks"}, todo : Seq(EndHooks), wait : {FALSE}, errors : BOOLEAN]
         /\ closing.errors => closing'.errors
<1>1. /\ closing.pc = "hooks" /\ closing.todo \in Seq(EndHooks) /\ closing.todo # <<>>
      /\ closing \in [pc : {"hooks"}, todo : Seq(EndHooks), wait : BOOLEAN, errors : BOOLEAN]
  BY DEF AtHook, ControlInv, AppTyped
<1>2. Tail(closing.todo) \in Seq(EndHooks)
  BY <1>1, HeadAndTail
<1>3. CASE closing' = HookDone(closing)
  BY <1>1, <1>2, <1>3 DEF HookDone
<1>4. CASE closing' = HookFailed(closing)
  BY <1>1, <1>4, OfEmpty DEF HookFailed
<1> QED
  BY <1>3, <1>4

\* One step of a teardown; the marker and the called hooks apart, it changes
\* only what it releases.
LEMMA CloseControl ==
  ASSUME ApplicationAssumption, ControlInv, CloseStep \/ Close
  PROVE  ControlInv'
<1> USE DEF ControlInv
<1>1. CASE Close
  <2> USE DEF shellVars, flags, lists, bootVars, serveVars, microVars
  <2>1. /\ boot.pc = "up" /\ closing.pc = "none" /\ appState # "closed" /\ closeCalled'
        /\ UNCHANGED <<shellVars, bootVars, serveVars, disposed, microVars>>
    BY <1>1 DEF Close, Refused, Closing
  <2>2. closing' \in [pc : {"listen"}, todo : {<<>>}, wait : {FALSE}, errors : {FALSE}]
    BY <1>1 DEF Close, NoTeardown
  <2>3. AppTyped'
    <3>1. closeCalled' \in BOOLEAN /\ <<>> \in Seq(EndHooks)
      BY <1>1, OfEmpty DEF Close
    <3> QED
      BY <2>1, <2>2, <3>1 DEF AppTyped
  <2>4. PhaseInv' /\ ChildInv' /\ ShellControl'
    BY <2>1, <2>2 DEF PhaseInv, ChildInv, ShellControl
  <2> QED
    BY <2>3, <2>4
<1>2. CASE CloseAfterListen
  <2> USE DEF shellVars, flags, lists, bootVars, serveVars, microVars
  <2>1. Reverse(connected) \in Seq(Micros)
    BY ReverseKeeps DEF AppTyped
  <2>2. /\ closing.pc = "listen" /\ listening = "none" /\ ~closing.wait
        /\ UNCHANGED <<shellVars, bootVars, serveVars, disposed, closeCalled, microVars>>
    BY <1>2 DEF CloseAfterListen, ListenSettled, PhaseInv, AppTyped
  <2>3. closing' \in [pc : {"children"}, todo : Seq(Micros), wait : {FALSE}, errors : BOOLEAN]
    BY <1>2, <2>1, <2>2 DEF CloseAfterListen, AppTyped
  <2>4. AppTyped'
    BY <2>2, <2>3 DEF AppTyped
  <2>5. PhaseInv' /\ ChildInv' /\ ShellControl'
    BY <2>2, <2>3, TeardownApart DEF PhaseInv, ChildInv, ShellControl
  <2> QED
    BY <2>4, <2>5
<1>3. CASE CloseChild
  <2> USE DEF shellVars, flags, lists, bootVars, serveVars
  <2>1. /\ closing.pc = "children" /\ closing.todo # <<>> /\ ~closing.wait
        /\ UNCHANGED <<shellVars, bootVars, serveVars, disposed, closeCalled, connecting, connected>>
    BY <1>3 DEF CloseChild
  <2>2. closing.todo \in Seq(Micros) /\ Tail(closing.todo) \in Seq(Micros)
    BY <2>1, HeadAndTail DEF AppTyped
  <2>3. /\ closing' \in [pc : {"children"}, todo : Seq(Micros), wait : BOOLEAN, errors : {closing.errors}]
        /\ closing'.wait => closing'.todo # <<>>
    BY <1>3, <2>1, <2>2 DEF CloseChild, AppTyped
  <2>4. child' \in Children /\ ChildInv'
    BY <1>3, ChildrenKeep, ClosedChildrenStay
  <2>5. AppTyped'
    BY <2>1, <2>3, <2>4 DEF AppTyped, Children, Child
  <2>6. PhaseInv' /\ ShellControl'
    BY <2>1, <2>3, TeardownApart DEF PhaseInv, ShellControl
  <2> QED
    BY <2>4, <2>5, <2>6
<1>4. CASE CloseChildrenDone
  <2> USE DEF shellVars, flags, lists, bootVars, serveVars, microVars
  <2>1. /\ closing.pc = "children" /\ closing.todo = <<>> /\ ~closing.wait
        /\ UNCHANGED <<shellVars, bootVars, serveVars, disposed, closeCalled, microVars>>
    BY <1>4 DEF CloseChildrenDone, PhaseInv, AppTyped
  <2>2. boot.pc = "up" /\ instances = Append(Services, "shell")
    BY <2>1 DEF PhaseInv, AppTyped, NoTeardown
  <2>3. ShutdownHooks(instances) \in Seq(EndHooks)
    BY <2>2, EndHooksTyped
  <2>4. PICK ok \in BOOLEAN :
           closing' = [closing EXCEPT !.pc = "hooks", !.todo = ShutdownHooks(instances),
                                      !.errors = @ \/ ~ok]
    BY <1>4 DEF CloseChildrenDone
  <2>5. closing' \in [pc : {"hooks"}, todo : Seq(EndHooks), wait : {FALSE}, errors : BOOLEAN]
    <3> DEFINE e == closing.errors \/ ~ok
               hooks == ShutdownHooks(instances)
    <3>1. e \in BOOLEAN /\ hooks \in Seq(EndHooks)
      BY <2>3 DEF AppTyped
    <3>2. closing' = [closing EXCEPT !.pc = "hooks", !.todo = hooks, !.errors = e]
      BY <2>4
    <3> HIDE DEF e, hooks
    <3> QED
      BY <2>1, <3>1, <3>2 DEF AppTyped
  <2>6. AppTyped'
    BY <2>1, <2>5 DEF AppTyped
  <2>7. PhaseInv' /\ ChildInv' /\ ShellControl'
    BY <2>1, <2>2, <2>5 DEF PhaseInv, ChildInv, ShellControl
  <2> QED
    BY <2>6, <2>7
<1>5. CASE ShutdownHook \/ ShellStopped
  <2> USE DEF shellVars, flags, lists, bootVars, serveVars, microVars
  <2>1. /\ AtHook /\ closing.pc = "hooks"
        /\ closing' = HookDone(closing) \/ closing' = HookFailed(closing)
        /\ ShellStopped => op.pc = "idle"
        /\ ShutdownHook => ~AtShellHook
        /\ UNCHANGED <<shellVars, bootVars, serveVars, disposed, closeCalled, microVars>>
    BY <1>5 DEF ShutdownHook, ShellStopped, AtShellHook, AtHook
  <2>2. /\ closing' \in [pc : {"hooks"}, todo : Seq(EndHooks), wait : {FALSE}, errors : BOOLEAN]
        /\ closing.errors => closing'.errors
    BY <2>1, HookSettles
  <2>3. op.pc # "stopping"
    BY <1>5, <2>1 DEF ShellControl, PhaseInv, AtShellHook
  <2>4. AppTyped'
    BY <2>1, <2>2 DEF AppTyped
  <2>5. PhaseInv' /\ ChildInv' /\ ShellControl'
    BY <2>1, <2>2, <2>3, TeardownApart DEF PhaseInv, ChildInv, ShellControl
  <2> QED
    BY <2>4, <2>5
<1>6. CASE ShutdownStopsShell
  <2> USE DEF bootVars, serveVars, microVars
  <2>1. /\ closing.pc = "hooks" /\ closing.todo # <<>> /\ Head(closing.todo)[2] = "shell"
        /\ closing' = [closing EXCEPT !.wait = TRUE]
        /\ ShellStop
        /\ UNCHANGED <<bootVars, serveVars, disposed, closeCalled, microVars>>
    BY <1>6 DEF ShutdownStopsShell, AtShellHook, AtHook
  <2>2. /\ closing' \in [pc : {"hooks"}, todo : {closing.todo}, wait : {TRUE}, errors : {closing.errors}]
        /\ closing.todo \in Seq(EndHooks)
    BY <2>1 DEF AppTyped
  <2>3. AppTyped'
    BY <2>1, <2>2 DEF AppTyped
  <2>4. PhaseInv' /\ ChildInv'
    BY <2>1, <2>2 DEF PhaseInv, ChildInv, NoTeardown
  <2>5. boot.pc \notin {"resolving", "initialising", "starting"}
    BY <2>1 DEF PhaseInv, NoTeardown
  <2>6. op' \in [pc : {"idle", "stopping"}, todo : {op'.todo}, done : {<<>>}, failed : {FALSE}]
    <3>1. op' = Idle \/ \E t : op' = Phase("stopping", t)
      BY <2>1 DEF ShellStop, StopNothing, Stop, End, Continue
    <3>2. CASE op' = Idle
      BY <3>2, PhaseIs
    <3>3. ASSUME NEW t, op' = Phase("stopping", t)
          PROVE  op' \in [pc : {"stopping"}, todo : {t}, done : {<<>>}, failed : {FALSE}]
      BY <3>3, PhaseIs
    <3> QED
      BY <3>1, <3>2, <3>3
  <2>7. ShellControl'
    BY <2>1, <2>2, <2>5, <2>6 DEF ShellControl
  <2> QED
    BY <2>3, <2>4, <2>7
<1>7. CASE HooksDone \/ CloseAdapter
  <2> USE DEF shellVars, flags, lists, bootVars, serveVars, microVars
  <2>1. /\ closing.pc \in {"hooks", "adapter"} /\ ~closing.wait
        /\ UNCHANGED <<shellVars, bootVars, appState, listening, disposed, closeCalled, microVars>>
        /\ bound' \in BOOLEAN
    BY <1>7 DEF HooksDone, CloseAdapter, PhaseInv, AppTyped
  <2>2. closing.todo \in Seq(EndHooks)
    BY <2>1 DEF AppTyped
  <2>3. /\ closing' \in [pc : {"adapter", "container"}, todo : {closing.todo}, wait : {FALSE}, errors : BOOLEAN]
        /\ boot.pc = "unwinding" => closing'.pc = "container"
        /\ boot.pc = "up" /\ closing'.pc = "container" /\ ~closing'.errors => ~bound'
    BY <1>7, <2>1 DEF HooksDone, CloseAdapter, AppTyped
  <2>4. AppTyped'
    BY <2>1, <2>2, <2>3 DEF AppTyped
  <2>5. PhaseInv' /\ ChildInv' /\ ShellControl'
    BY <2>1, <2>3, TeardownApart DEF PhaseInv, ChildInv, ShellControl
  <2> QED
    BY <2>4, <2>5
<1>8. CASE DisposeContainer
  <2> USE DEF shellVars, flags, lists, microVars
  <2>1. /\ closing.pc = "container" /\ closing' = NoTeardown /\ disposed' = TRUE
        /\ UNCHANGED <<shellVars, instances, listening, bound, closeCalled, microVars>>
    BY <1>8 DEF DisposeContainer
  <2>2. /\ boot.pc \in {"unwinding", "up"}
        /\ boot.pc = "up" => listening = "none" /\ closeCalled
        /\ ~closing.wait
    BY <2>1 DEF PhaseInv, AppTyped, NoTeardown
  <2>3. \/ /\ boot.pc = "unwinding" /\ boot' = [boot EXCEPT !.pc = "failed"] /\ UNCHANGED appState
        \/ /\ boot.pc = "up" /\ UNCHANGED boot /\ appState' \in {appState, "closed"}
    BY <1>8, <2>2 DEF DisposeContainer, StateOnceDisposed
  <2>4. closing' \in [pc : {"none"}, todo : {<<>>}, wait : {FALSE}, errors : {FALSE}]
    BY <2>1 DEF NoTeardown
  <2>5. /\ boot' \in [pc : {"failed", "up"}, todo : Seq(BootHooks)]
        /\ boot.pc = "unwinding" => boot'.pc = "failed"
        /\ boot.pc = "up" => boot'.pc = "up"
    BY <2>3 DEF AppTyped
  <2>6. AppTyped'
    <3>1. <<>> \in Seq(EndHooks)
      BY OfEmpty
    <3> QED
      BY <2>1, <2>3, <2>4, <2>5, <3>1 DEF AppTyped
  <2>7. PhaseInv' /\ ChildInv'
    BY <2>1, <2>2, <2>3, <2>4, <2>5 DEF PhaseInv, ChildInv
  <2>8. ShellControl'
    BY <2>1, <2>2, <2>4, <2>5 DEF ShellControl
  <2> QED
    BY <2>6, <2>7, <2>8
<1> QED
  BY <1>1, <1>2, <1>3, <1>4, <1>5, <1>6, <1>7, <1>8 DEF CloseStep

\* The shell's own steps stay in the operation that was begun; the start after
\* a rollback is never needed, since an application starts its shell once.
LEMMA ShellKeepsControl ==
  ASSUME ControlInv, Shell
  PROVE  ControlInv'
<1>1. ShellStep /\ UNCHANGED appVars
  BY DEF Shell
<1> USE DEF ControlInv
<1>2. AppTyped' /\ PhaseInv' /\ ChildInv'
  BY <1>1 DEF AppTyped, PhaseInv, ChildInv, appVars
<1>3. op.pc # "idle" /\ boot.pc \notin {"resolving", "initialising"}
  BY <1>1 DEF ShellControl, ShellStep, ValidationFails, Validated, ComponentStarts, ComponentFailsToStart,
              AllStarted, ComponentStops, ComponentFailsToStop, RolledBack, StopFails, AllStopped, Stopping
<1> DEFINE GoesOn ==
      /\ op' = [pc |-> op'.pc, todo |-> op'.todo, done |-> op'.done, failed |-> op'.failed]
      /\ op'.pc \in {"idle", "validating", "starting", "rollback", "stopping"}
      /\ op'.pc \in {"validating", "starting", "rollback"} => op.pc \in {"validating", "starting", "rollback"}
      /\ op'.pc = "stopping" => op.pc = "stopping"
<1>4. GoesOn
  <2>1. CASE op' = Idle
    BY <2>1, PhaseIs
  <2>2. ASSUME op.pc = "validating", NEW t, op' = Phase("starting", t)
        PROVE  GoesOn
    <3>1. op' \in [pc : {"starting"}, todo : {t}, done : {<<>>}, failed : {FALSE}]
      BY <2>2, PhaseIs
    <3> QED
      BY <2>2, <3>1
  <2>3. ASSUME NEW t, op' = [op EXCEPT !.todo = Tail(@), !.done = t] \/ op' = [op EXCEPT !.todo = Tail(@)]
                      \/ op' = [op EXCEPT !.todo = Tail(@), !.failed = TRUE]
                      \/ (op.pc = "starting" /\ op' = [op EXCEPT !.pc = "rollback", !.todo = t])
        PROVE  GoesOn
    BY <2>3 DEF ShellControl
  <2> QED
    BY <1>1, <2>1, <2>2, <2>3
    DEF ShellControl, ShellStep, ValidationFails, Validated, ComponentStarts, ComponentFailsToStart,
        AllStarted, ComponentStops, ComponentFailsToStop, RolledBack, StopFails, AllStopped,
        End, Continue, RollbackOf
<1>5. ShellControl'
  BY <1>1, <1>3, <1>4 DEF ShellControl, appVars
<1> QED
  BY <1>2, <1>5

LEMMA ControlStep ==
  ASSUME ApplicationAssumption, ControlInv, [Next]_vars
  PROVE  ControlInv'
<1>1. CASE BootStep
  BY <1>1, BootControl
<1>2. CASE Listen \/ ListenStep
  BY <1>2, ListenControl
<1>3. CASE MicroStepOrAsk
  BY <1>3, MicroControl
<1>4. CASE CloseStep \/ Close
  BY <1>4, CloseControl
<1>5. CASE Shell
  BY <1>5, ShellKeepsControl
<1>6. CASE UNCHANGED vars
  BY <1>6 DEF vars, shellVars, flags, lists, appVars, ControlInv, AppTyped, PhaseInv, ChildInv, ShellControl
<1> QED
  BY <1>1, <1>2, <1>3, <1>4, <1>5, <1>6 DEF Next, User, MicroStepOrAsk

---------------------------------------------------------------------------
(* The application and its microservices are servers *)

LEMMA AppServerStep ==
  ASSUME ControlInv, [Next]_vars
  PROVE  [AppServer!Next]_(AppServer!vars)
<1> USE DEF AppServer!vars, Closing
<1>1. CASE BootStep
  <2>1. /\ boot.pc \in {"resolving", "initialising", "starting"} /\ closing.pc = "none"
        /\ UNCHANGED serveVars
    BY <1>1 DEF BootStep, ResolveServices, InitHook, BootStartsShell, BootEnds,
                ControlInv, PhaseInv, NoTeardown
  <2>2. UNCHANGED closing \/ boot' = [pc |-> "unwinding", todo |-> <<>>]
    BY <1>1, Zenon DEF BootStep, ResolveServices, InitHook, BootStartsShell, BootEnds, Unwind, closeVars
  <2>3. boot'.pc # "up" \/ closing'.pc = "none"
    BY <2>1, <2>2
  <2> QED
    BY <2>1, <2>3 DEF serveVars
<1>2. CASE Listen
  <2>1. AppServer!Listen
    BY <1>2 DEF Listen, AppServer!Listen, Refused, bootVars, closeVars
  <2> QED
    BY <2>1 DEF AppServer!Next
<1>3. CASE ListenReady
  <2>1. AppServer!ListenEnds \/ UNCHANGED AppServer!vars
    BY <1>3 DEF ListenReady, AppServer!ListenEnds, bootVars, closeVars
  <2> QED
    BY <2>1 DEF AppServer!Next
<1>4. CASE ListenEnds
  <2>1. appState = "bootstrapped" /\ boot.pc = "up"
    BY <1>4 DEF ListenEnds, ControlInv, PhaseInv
  <2>2. AppServer!ListenEnds
    BY <1>4, <2>1 DEF ListenEnds, AppServer!ListenEnds, StateOnceBound, Refused, bootVars, closeVars
  <2> QED
    BY <2>2 DEF AppServer!Next
<1>5. CASE MicroStepOrAsk
  <2>1. UNCHANGED <<bootVars, serveVars>>
    BY SMTT(30), <1>5, MicroStepsApart
  <2>2. closing' = closing \/ \E m \in Micros, ok \in BOOLEAN : closing' = ChildDone(m, ok)
    BY <1>5 DEF MicroStepOrAsk, MicroStep, StarterStep, Connect, Connected, MicroListen, MicroClose,
         MicroListenEnds, MicroCloseEnds, StartAll, StarterAsks, StarterRollsBack, StarterEnds, closeVars
  <2>3. closing'.pc = closing.pc
    BY <2>2, ChildDoneTyped DEF ChildAnswered
  <2> QED
    BY <2>1, <2>3 DEF bootVars, serveVars
<1>6. CASE Close
  <2>1. closing'.pc = "listen"
    BY <1>6 DEF Close, NoTeardown
  <2>2. AppServer!Close
    BY <1>6, <2>1 DEF Close, AppServer!Close, Refused, bootVars, serveVars
  <2> QED
    BY <2>2 DEF AppServer!Next
<1>7. CASE CloseAfterListen \/ CloseChild \/ CloseChildrenDone \/ ShutdownHook
             \/ ShutdownStopsShell \/ ShellStopped \/ HooksDone
  <2>1. UNCHANGED <<bootVars, serveVars>> /\ closing.pc # "none" /\ closing'.pc # "none"
    BY <1>7 DEF CloseAfterListen, CloseChild, CloseChildrenDone, ShutdownHook, ShutdownStopsShell,
         ShellStopped, HooksDone, HookDone, HookFailed, AtShellHook, AtHook, ControlInv, AppTyped
  <2> QED
    BY <2>1 DEF bootVars, serveVars
<1>8. CASE CloseAdapter
  <2>1. boot.pc = "up" /\ listening = "none"
    BY <1>8 DEF CloseAdapter, ControlInv, PhaseInv, AppTyped, NoTeardown
  <2>2. UNCHANGED <<bootVars, appState, listening>> /\ closing'.pc = "container"
    BY <1>8 DEF CloseAdapter, ControlInv, AppTyped
  <2>3. bound' = FALSE \/ UNCHANGED bound
    BY <1>8 DEF CloseAdapter
  <2>4. AppServer!Release \/ UNCHANGED AppServer!vars
    BY <1>8, <2>1, <2>2, <2>3 DEF CloseAdapter, AppServer!Release, bootVars
  <2> QED
    BY <2>4 DEF AppServer!Next
<1>9. CASE DisposeContainer
  <2>1. /\ closing.pc = "container" /\ closing'.pc = "none" /\ UNCHANGED <<listening, bound>>
        /\ bound \in BOOLEAN
    BY <1>9 DEF DisposeContainer, NoTeardown, ControlInv, AppTyped
  <2>2. CASE boot.pc = "unwinding"
    BY <1>9, <2>1, <2>2 DEF DisposeContainer
  <2>3. CASE boot.pc = "up"
    <3>1. listening = "none" /\ (~closing.errors => ~bound) /\ UNCHANGED boot
      BY <1>9, <2>1, <2>3 DEF DisposeContainer, ControlInv, PhaseInv
    <3>2. UNCHANGED appState \/ (appState' = "closed" /\ ~closing.errors)
      BY <1>9, <2>3 DEF DisposeContainer, StateOnceDisposed
    <3>3. AppServer!CloseFails \/ AppServer!Closed
      BY <2>1, <2>3, <3>1, <3>2 DEF AppServer!CloseFails, AppServer!Closed
    <3> QED
      BY <3>3 DEF AppServer!Next
  <2> QED
    BY <2>1, <2>2, <2>3 DEF ControlInv, PhaseInv, AppTyped, NoTeardown
<1>10. CASE Shell \/ UNCHANGED vars
  BY <1>10 DEF Shell, vars, appVars
<1> QED
  BY <1>1, <1>2, <1>3, <1>4, <1>5, <1>6, <1>7, <1>8, <1>9, <1>10
  DEF Next, User, MicroStepOrAsk, ListenStep, CloseStep

LEMMA OthersKeepChildren ==
  ASSUME [Next]_vars, ~(MicroStepOrAsk \/ CloseChild)
  PROVE  UNCHANGED child
BY DEF Next, User, MicroStepOrAsk, BootStep, ResolveServices, InitHook, BootStartsShell,
   BootEnds, Listen, ListenStep, ListenReady, ListenEnds, CloseStep, Close, CloseAfterListen,
   CloseChildrenDone, ShutdownHook, ShutdownStopsShell, ShellStopped, HooksDone, CloseAdapter,
   DisposeContainer, Shell, microVars, appVars, vars

LEMMA MicroServerStep ==
  ASSUME ControlInv, [Next]_vars, NEW m \in Micros
  PROVE  [MicroServer(m)!Next]_(MicroServer(m)!vars)
<1> USE DEF MicroServer!vars
<1>1. CASE MicroStepOrAsk \/ CloseChild
  <2>1. ChildKeeps(m) /\ child[m] \in Child
    BY <1>1, ChildrenKeep DEF ControlInv, AppTyped, Child
  <2>2. child[m].state = "closed" => ~child[m].up /\ ~child[m].listening /\ ~child[m].closing
    BY DEF ControlInv, ChildInv
  <2> USE DEF Child, MicroServer!Next
  <2>3. CASE child'[m] = child[m]
    BY <2>3
  <2>4. CASE /\ child[m].state = "bootstrapped" /\ ~child[m].closing
             /\ child'[m] = [child[m] EXCEPT !.listening = TRUE]
    BY <2>1, <2>4 DEF MicroServer!Listen
  <2>5. CASE child[m].state # "closed" /\ child'[m] = [child[m] EXCEPT !.closing = TRUE]
    BY <2>1, <2>5 DEF MicroServer!Close
  <2>6. ASSUME NEW outcome \in {"ready", "interrupted", "failed"},
               child[m].listening,
               outcome # "failed" => (outcome = "ready" <=> ~ChildRefused(m)),
               child'[m] = [child[m] EXCEPT !.listening = FALSE,
                                      !.up = @ \/ outcome # "failed",
                                      !.state = IF outcome = "ready" THEN "ready" ELSE @]
        PROVE  [MicroServer(m)!Next]_(MicroServer(m)!vars)
    BY <2>1, <2>2, <2>6 DEF MicroServer!ListenEnds, ChildRefused
  <2>7. ASSUME NEW ok \in BOOLEAN, child[m].closing, ~child[m].listening,
               child'[m] = [child[m] EXCEPT !.closing = FALSE,
                                      !.up = IF ok THEN FALSE ELSE @,
                                      !.state = IF ok THEN "closed" ELSE @]
        PROVE  [MicroServer(m)!Next]_(MicroServer(m)!vars)
    BY <2>1, <2>7 DEF MicroServer!CloseFails, MicroServer!Closed
  <2> QED
    BY <2>1, <2>3, <2>4, <2>5, <2>6, <2>7 DEF ChildKeeps
<1>2. CASE ~(MicroStepOrAsk \/ CloseChild)
  <2>1. UNCHANGED child
    BY <1>2, OthersKeepChildren
  <2> QED
    BY <2>1
<1> QED
  BY SMTT(30), <1>1, <1>2

\* The application and every microservice implement ServerLifecycle: listen()
\* and close() of bootstrap.ts never overlap in their effects, an overtaken
\* listen() does not make its server ready, and a closed one has nothing bound.
THEOREM ServersKept == Spec => ServersKeepPromise
<1>1. Init => /\ ControlInv /\ AppServer!Init
              /\ \A m \in Micros : MicroServer(m)!Init
  BY ControlInit DEF Init, AppServer!Init, MicroServer!Init, NoTeardown, NewChild, Closing
<1>2. ControlInv /\ [Next]_vars => ControlInv'
  BY ControlStep, ApplicationAssumption
<1>3. ControlInv /\ [Next]_vars => [AppServer!Next]_(AppServer!vars)
  BY AppServerStep
<1>4. ControlInv /\ [Next]_vars =>
        [\A m \in Micros : [MicroServer(m)!Next]_(MicroServer(m)!vars)]_vars
  BY MicroServerStep
<1> QED
  BY <1>1, <1>2, <1>3, <1>4, PTL DEF Spec, ServersKeepPromise, AppServer!Spec

---------------------------------------------------------------------------
(* What runs is in reach of a stop *)

LEMMA KeptInit == Init => KeptInv
<1> SUFFICES ASSUME Init PROVE KeptInv
  OBVIOUS
<1>1. ShellTypeOK
  BY OfEmpty DEF Init, ShellInit, ShellTypeOK, Idle, Phases, Outcomes
<1> QED
  BY <1>1 DEF Init, ShellInit, KeptInv, NothingForgotten, Idle

\* What stop() picks is a sequence of components.
LEMMA ToStopTyped == ShellTypeOK => ToStop \in Seq(Components)
BY ShellAssumption DEF ShellTypeOK, ToStop

\* The shell is started once, with nothing up.
LEMMA StartKeeps ==
  ASSUME ControlInv, KeptInv, BootStartsShell
  PROVE  KeptInv'
<1>1. /\ boot.pc = "initialising" /\ ShellStart
      /\ op.pc = "idle" /\ up = {} /\ ~started /\ ~stopped /\ pending = <<>>
  BY DEF BootStartsShell, ControlInv, ShellControl
<1>2. UNCHANGED <<flags, lists, up>>
  BY <1>1 DEF ShellStart, StartNothing, StartAfterRollback, StartFresh
<1> USE DEF flags, lists
<1>3. \/ op' = Idle /\ last' = "started" /\ registered = <<>>
      \/ op' = Phase("validating", <<>>) /\ last' = last
  BY <1>1 DEF ShellStart, StartNothing, StartAfterRollback, StartFresh, NothingToStart, NothingToStop,
              End, Continue
<1>4. op' \in [pc : {"idle", "validating"}, todo : {<<>>}, done : {<<>>}, failed : {FALSE}]
  <2>1. Phase("validating", <<>>) \in [pc : {"validating"}, todo : {<<>>}, done : {<<>>}, failed : {FALSE}]
    BY PhaseIs
  <2> QED
    BY <1>3, <2>1, PhaseIs
<1>5. ShellTypeOK'
  BY ZenonT(60), <1>2, <1>3, <1>4, OfEmpty DEF KeptInv, ShellTypeOK, Phases, Outcomes
<1>6. op'.pc = "idle" => last' = "started" /\ SetOf(registered) = {}
  <2>1. Phase("validating", <<>>).pc = "validating"
    BY PhaseIs
  <2> QED
    BY <1>3, <2>1, OfEmpty
<1> QED
  BY <1>1, <1>2, <1>4, <1>5, <1>6 DEF KeptInv, NothingForgotten

\* A stop() reaches all that runs, as NothingForgotten says.
LEMMA StopKeeps ==
  ASSUME ControlInv, KeptInv, ShutdownStopsShell
  PROVE  KeptInv'
<1>1. /\ ShellStop /\ op.pc = "idle" /\ UNCHANGED <<flags, lists, up, boot>>
      /\ boot.pc # "starting"
  BY DEF ShutdownStopsShell, ShellStop, StopNothing, Stop, bootVars, AtShellHook, AtHook,
         ControlInv, PhaseInv, NoTeardown
<1> USE DEF flags, lists
<1>2. up = {} \/ (~NothingToStop /\ up \subseteq SetOf(ToStop))
  BY <1>1 DEF KeptInv, NothingForgotten
<1>3. CASE StopNothing
  <2>1. op' = Idle /\ last' = "stopped" /\ NothingToStop
    BY <1>3 DEF StopNothing, End
  <2>2. op' \in [pc : {"idle"}, todo : {<<>>}, done : {<<>>}, failed : {FALSE}]
    BY <2>1, PhaseIs
  <2>3. ShellTypeOK'
    BY ZenonT(60), <1>1, <2>1, <2>2, OfEmpty DEF KeptInv, ShellTypeOK, Phases, Outcomes
  <2> QED
    BY <1>1, <1>2, <2>1, <2>2, <2>3 DEF KeptInv, NothingForgotten
<1>4. CASE Stop
  <2> DEFINE todo == Reverse(ToStop)
  <2>1. op' = Phase("stopping", todo) /\ last' = last /\ ~NothingToStop
    BY <1>4 DEF Stop, Continue
  <2>2. todo \in Seq(Components) /\ SetOf(todo) = SetOf(ToStop)
    BY ToStopTyped, ReverseKeeps DEF KeptInv
  <2> HIDE DEF todo
  <2>3. op' \in [pc : {"stopping"}, todo : {todo}, done : {<<>>}, failed : {FALSE}]
    BY <2>1, PhaseIs
  <2>4. ShellTypeOK'
    <3>1. <<>> \in Seq(Components)
      BY OfEmpty
    <3>2. op' \in [pc : Phases, todo : Seq(Components), done : Seq(Components), failed : BOOLEAN]
      BY <2>2, <2>3, <3>1 DEF Phases, Stopping
    <3> QED
      BY <1>1, <2>1, <3>2 DEF KeptInv, ShellTypeOK
  <2>5. NothingToStop' = NothingToStop /\ ToStop' = ToStop
    BY <1>1 DEF NothingToStop, ToStop
  <2>6. up' \subseteq SetOf(ToStop') /\ up' \subseteq SetOf(op'.todo)
    BY <1>1, <1>2, <2>2, <2>3, <2>5
  <2> QED
    BY <1>1, <2>1, <2>3, <2>4, <2>5, <2>6 DEF KeptInv, NothingForgotten
<1> QED
  BY <1>1, <1>3, <1>4 DEF ShellStop

\* A step of the shell: what was started is in the rollback, and what was not
\* stopped is in the rollback's or the stop()'s own list.
LEMMA ShellStepKeeps ==
  ASSUME OrderLists, ControlInv, KeptInv, Shell
  PROVE  KeptInv'
<1>1. ShellStep /\ UNCHANGED boot
  BY DEF Shell, appVars
<1> USE DEF KeptInv, flags, lists
<1>2. /\ op \in [pc : Phases, todo : Seq(Components), done : Seq(Components), failed : BOOLEAN]
      /\ up \subseteq Components /\ ordered \in Seq(Components) /\ pending \in Seq(Components)
      /\ ShellTypeOK
  BY DEF ShellTypeOK
<1>3. /\ op.pc \in {"validating", "starting", "rollback"} => boot.pc = "starting"
      /\ op.pc # "restopping"
  BY DEF ControlInv, ShellControl
<1>4. CASE ValidationFails
  <2>1. op' = Idle /\ last' = "start-failed" /\ up' = {} /\ UNCHANGED <<flags, lists, up>>
    BY <1>4 DEF ValidationFails, End
  <2>2. op' \in [pc : {"idle"}, todo : {<<>>}, done : {<<>>}, failed : {FALSE}]
    BY <2>1, PhaseIs
  <2>3. ShellTypeOK'
    <3>1. op' \in [pc : Phases, todo : Seq(Components), done : Seq(Components), failed : BOOLEAN]
      BY ZenonT(60), <2>2, OfEmpty DEF Phases
    <3> QED
      BY <1>2, <2>1, <3>1 DEF ShellTypeOK, Outcomes
  <2> QED
    BY <2>1, <2>2, <2>3 DEF NothingForgotten
<1>5. CASE Validated
  <2> DEFINE o == OrderByDependency(registered, dependencies)
             seq == o.seq
  <2>1. /\ op.pc = "validating" /\ up' = {} /\ ordered' = seq /\ op' = Phase("starting", seq)
        /\ UNCHANGED <<flags, pending, up, last>>
    BY <1>5 DEF Validated, Continue
  <2>2. seq \in Seq(Components) /\ SetOf(seq) = SetOf(registered)
    BY <1>5 DEF Validated, OrderLists
  <2> HIDE DEF o, seq
  <2>3. op' \in [pc : {"starting"}, todo : {seq}, done : {<<>>}, failed : {FALSE}]
    BY <2>1, PhaseIs
  <2>4. ShellTypeOK'
    <3>1. <<>> \in Seq(Components)
      BY OfEmpty
    <3>2. op' \in [pc : Phases, todo : Seq(Components), done : Seq(Components), failed : BOOLEAN]
      BY <2>2, <2>3, <3>1 DEF Phases
    <3> QED
      BY <2>1, <2>2, <3>2 DEF ShellTypeOK
  <2>5. SetOf(op'.done) = {} /\ SetOf(op'.todo) = SetOf(registered)
    BY <2>2, <2>3, OfEmpty
  <2> QED
    BY <2>1, <2>2, <2>3, <2>4, <2>5 DEF NothingForgotten
<1>6. CASE ComponentStarts
  <2> DEFINE c == Head(op.todo)
             rest == Tail(op.todo)
             done == Append(op.done, c)
  <2>1. /\ op.pc = "starting" /\ op.todo # <<>> /\ up' = up \cup {c}
        /\ op' = [op EXCEPT !.todo = rest, !.done = done]
        /\ UNCHANGED <<flags, lists, last>>
    BY <1>6 DEF ComponentStarts, Continue
  <2>2. c \in Components /\ rest \in Seq(Components) /\ SetOf(op.todo) = {c} \cup SetOf(rest)
    BY <1>2, <2>1, HeadAndTail
  <2>3. done \in Seq(Components) /\ SetOf(done) = SetOf(op.done) \cup {c}
    BY <1>2, <2>2, AppendAdds
  <2> HIDE DEF c, rest, done
  <2>4. op' \in [pc : {"starting"}, todo : {rest}, done : {done}, failed : BOOLEAN]
    BY <1>2, <2>1
  <2>5. ShellTypeOK'
    <3>1. op' \in [pc : Phases, todo : Seq(Components), done : Seq(Components), failed : BOOLEAN]
      BY <2>2, <2>3, <2>4 DEF Phases
    <3> QED
      BY <1>2, <2>1, <2>2, <3>1 DEF ShellTypeOK
  <2> QED
    BY <2>1, <2>2, <2>3, <2>4, <2>5 DEF NothingForgotten
<1>7. CASE ComponentFailsToStart
  <2> DEFINE back == Reverse(op.done)
  <2>1. /\ op.pc = "starting" /\ op' = [op EXCEPT !.pc = "rollback", !.todo = back]
        /\ UNCHANGED <<flags, lists, up, last>>
    BY <1>7 DEF ComponentFailsToStart, RollbackOf, Continue
  <2>2. back \in Seq(Components) /\ SetOf(back) = SetOf(op.done)
    BY <1>2, ReverseKeeps
  <2> HIDE DEF back
  <2>3. op' \in [pc : {"rollback"}, todo : {back}, done : {op.done}, failed : BOOLEAN]
    BY <1>2, <2>1
  <2>4. ShellTypeOK'
    <3>1. op' \in [pc : Phases, todo : Seq(Components), done : Seq(Components), failed : BOOLEAN]
      BY <1>2, <2>2, <2>3 DEF Phases, Stopping
    <3> QED
      BY <1>2, <2>1, <3>1 DEF ShellTypeOK
  <2> QED
    BY <2>1, <2>2, <2>3, <2>4 DEF NothingForgotten
<1>8. CASE AllStarted
  <2>1. /\ op.pc = "starting" /\ op.todo = <<>> /\ op' = Idle /\ last' = "started"
        /\ started' = TRUE /\ stopped' = FALSE /\ pending' = <<>>
        /\ UNCHANGED <<ordered, up>>
    BY <1>8 DEF AllStarted, End
  <2>2. up' = SetOf(registered) /\ SetOf(ToStop') = SetOf(registered)
    BY <2>1, OfEmpty DEF ToStop
  <2>3. op' \in [pc : {"idle"}, todo : {<<>>}, done : {<<>>}, failed : {FALSE}]
    BY <2>1, PhaseIs
  <2>4. ShellTypeOK'
    BY <1>2, <2>1, <2>3, OfEmpty DEF ShellTypeOK, Phases, Outcomes
  <2> QED
    BY <2>1, <2>2, <2>3, <2>4 DEF NothingForgotten, NothingToStop
<1>9. CASE ComponentStops \/ ComponentFailsToStop
  <2> DEFINE c == Head(op.todo)
             rest == Tail(op.todo)
  <2>1. /\ op.pc \in {"stopping", "rollback"} /\ op.todo # <<>>
        /\ UNCHANGED <<flags, lists, last>>
    BY <1>3, <1>9 DEF ComponentStops, ComponentFailsToStop, Continue, Stopping
  <2>2. rest \in Seq(Components) /\ SetOf(op.todo) = {c} \cup SetOf(rest)
    BY <1>2, <2>1, HeadAndTail
  <2>3. \/ up' = up \ {c} /\ op' = [op EXCEPT !.todo = rest]
        \/ up' = up /\ op' = [op EXCEPT !.todo = rest, !.failed = TRUE]
    BY <1>9 DEF ComponentStops, ComponentFailsToStop, Continue
  <2> HIDE DEF c, rest
  <2>4. /\ op' \in [pc : {op.pc}, todo : {rest}, done : {op.done}, failed : BOOLEAN]
        /\ ~op'.failed => ~op.failed /\ up' = up \ {c}
        /\ up' \subseteq up
    BY <1>2, <2>3
  <2>5. ShellTypeOK'
    <3>1. op' \in [pc : Phases, todo : Seq(Components), done : Seq(Components), failed : BOOLEAN]
      BY <1>2, <2>2, <2>4
    <3> QED
      BY <1>2, <2>1, <2>4, <3>1 DEF ShellTypeOK
  <2>6. NothingToStop' = NothingToStop /\ ToStop' = ToStop
    BY <2>1 DEF NothingToStop, ToStop
  <2> QED
    BY <2>1, <2>2, <2>4, <2>5, <2>6 DEF NothingForgotten
<1>10. CASE RolledBack
  <2>1. /\ op.pc = "rollback" /\ op.todo = <<>> /\ op' = Idle /\ last' = "start-failed"
        /\ pending' = StillPending(op)
        /\ UNCHANGED <<flags, ordered, up>>
    BY <1>10 DEF RolledBack, End
  <2>2. pending' \in Seq(Components) /\ up' \subseteq SetOf(pending')
    BY <1>2, <2>1, OfEmpty DEF StillPending
  <2>3. op' \in [pc : {"idle"}, todo : {<<>>}, done : {<<>>}, failed : {FALSE}]
    BY <2>1, PhaseIs
  <2>4. ShellTypeOK'
    BY <1>2, <2>1, <2>2, <2>3, OfEmpty DEF ShellTypeOK, Phases, Outcomes
  <2>5. NothingForgotten'
    BY <2>1, <2>2, OfEmpty DEF NothingForgotten, NothingToStop, ToStop
  <2> QED
    BY <2>1, <2>3, <2>4, <2>5
<1>11. CASE StopFails
  <2>1. /\ op.pc = "stopping" /\ op' = Idle /\ last' = "stop-failed"
        /\ UNCHANGED <<flags, lists, up>>
    BY <1>3, <1>11 DEF StopFails, End
  <2>2. op' \in [pc : {"idle"}, todo : {<<>>}, done : {<<>>}, failed : {FALSE}]
    BY <2>1, PhaseIs
  <2>3. ShellTypeOK'
    BY ZenonT(60), <1>2, <2>1, <2>2, OfEmpty DEF ShellTypeOK, Phases, Outcomes
  <2>4. NothingToStop' = NothingToStop /\ ToStop' = ToStop
    BY <2>1 DEF NothingToStop, ToStop
  <2> QED
    BY <2>1, <2>2, <2>3, <2>4 DEF NothingForgotten
<1>12. CASE AllStopped
  <2>1. /\ op.pc = "stopping" /\ op.todo = <<>> /\ ~op.failed /\ op' = Idle /\ last' = "stopped"
        /\ pending' = <<>> /\ started' = FALSE /\ stopped' = TRUE
        /\ UNCHANGED <<ordered, up>>
    BY <1>3, <1>12 DEF AllStopped, End
  <2>2. up' = {}
    BY <2>1, OfEmpty
  <2>3. op' \in [pc : {"idle"}, todo : {<<>>}, done : {<<>>}, failed : {FALSE}]
    BY <2>1, PhaseIs
  <2>4. ShellTypeOK'
    BY <1>2, <2>1, <2>3, OfEmpty DEF ShellTypeOK, Phases, Outcomes
  <2> QED
    BY <2>1, <2>2, <2>3, <2>4 DEF NothingForgotten
<1> QED
  BY <1>1, <1>4, <1>5, <1>6, <1>7, <1>8, <1>9, <1>10, <1>11, <1>12 DEF ShellStep

LEMMA KeptStep ==
  ASSUME OrderLists, ControlInv, KeptInv, [Next]_vars
  PROVE  KeptInv'
<1>1. CASE BootStartsShell \/ ShutdownStopsShell \/ Shell
  BY <1>1, StartKeeps, StopKeeps, ShellStepKeeps
<1>2. CASE ~(BootStartsShell \/ ShutdownStopsShell \/ Shell)
  <2>1. UNCHANGED shellVars
    BY <1>2 DEF Next, User, MicroStep, StarterStep, BootStep, ResolveServices, InitHook, BootEnds,
      Listen, ListenStep, ListenReady, ListenEnds, Connect, Connected, MicroListen, MicroClose,
      MicroListenEnds, MicroCloseEnds, StartAll, StarterAsks, StarterRollsBack, StarterEnds,
      CloseStep, Close, CloseAfterListen, CloseChild, CloseChildrenDone, ShutdownHook, ShellStopped,
      HooksDone, CloseAdapter, DisposeContainer, vars
  <2>2. boot'.pc = "starting" => boot.pc = "starting"
    <3>1. ASSUME NEW resolved, ResolveServices(resolved)
          PROVE  boot'.pc \in {"initialising", "unwinding"}
      BY <3>1 DEF ResolveServices, Unwind
    <3>2. CASE InitHook \/ BootEnds \/ DisposeContainer
      BY SMTT(30), <3>2 DEF InitHook, BootEnds, DisposeContainer, Unwind, ControlInv, AppTyped
    <3>3. CASE ~(BootStep \/ DisposeContainer)
      BY <1>2, <3>3 DEF Next, User, MicroStep, StarterStep,
        Listen, ListenStep, ListenReady, ListenEnds, Connect, Connected, MicroListen, MicroClose,
        MicroListenEnds, MicroCloseEnds, StartAll, StarterAsks, StarterRollsBack, StarterEnds,
        CloseStep, Close, CloseAfterListen, CloseChild, CloseChildrenDone, ShutdownHook, ShellStopped,
        HooksDone, CloseAdapter, vars, appVars, bootVars
    <3> QED
      BY <1>2, <3>1, <3>2, <3>3 DEF BootStep
  <2> QED
    BY <2>1, <2>2 DEF KeptInv, ShellTypeOK, NothingForgotten, NothingToStop, ToStop, shellVars, flags, lists
<1> QED
  BY <1>1, <1>2

\* NothingForgotten, for all components and whatever rejects: no start that
\* fails, rollback that fails or stop() asked for again loses a component.
THEOREM NothingIsForgotten ==
  ASSUME OrderLists
  PROVE  Spec => []NothingForgotten
<1>1. Init => ControlInv /\ KeptInv
  BY ControlInit, KeptInit
<1>2. ControlInv /\ KeptInv /\ [Next]_vars => (ControlInv /\ KeptInv)'
  BY ControlStep, KeptStep, ApplicationAssumption
<1>3. KeptInv => NothingForgotten
  BY DEF KeptInv
<1> QED
  BY <1>1, <1>2, <1>3, PTL DEF Spec

---------------------------------------------------------------------------
(* What serves, and what a close() leaves *)

\* Nothing is released before a close() or a failed bootstrap.
LEMMA ServeStep ==
  ASSUME ControlInv, KeptInv, ServeInv, [Next]_vars
  PROVE  ServeInv'
<1> USE DEF ServeInv
<1>1. CASE BootStep
  <2>1. /\ boot.pc \in {"resolving", "initialising", "starting"} /\ ~disposed /\ appState = "bootstrapped"
        /\ UNCHANGED <<disposed, closeCalled>> /\ UNCHANGED serveVars
    BY <1>1 DEF BootStep, ResolveServices, InitHook, BootStartsShell, BootEnds, closeVars,
                ControlInv, PhaseInv
  <2>2. boot'.pc = "up" => op.pc = "idle" /\ up = SetOf(registered) /\ UNCHANGED shellVars
    <3>1. ASSUME NEW resolved, ResolveServices(resolved)
          PROVE  boot'.pc # "up"
      BY <3>1 DEF ResolveServices, Unwind
    <3>2. CASE InitHook \/ BootStartsShell
      BY <3>2 DEF InitHook, BootStartsShell, Unwind, ControlInv, AppTyped
    <3>3. CASE BootEnds /\ boot'.pc = "up"
      <4>1. ~Unwind(instances)
        BY <3>3 DEF Unwind
      <4> QED
        BY <3>3, <4>1 DEF BootEnds, KeptInv
    <3> QED
      BY <1>1, <3>1, <3>2, <3>3 DEF BootStep
  <2> QED
    BY <2>1, <2>2 DEF shellVars, serveVars
<1>2. CASE Listen \/ ListenStep
  <2>1. UNCHANGED <<shellVars, bootVars, disposed, closeVars>>
    BY <1>2 DEF Listen, ListenStep, ListenReady, ListenEnds
  <2>2. appState' = "ready" => bound' \/ (appState = "ready" /\ UNCHANGED bound)
    BY <1>2 DEF Listen, ListenStep, ListenReady, ListenEnds
  <2> QED
    BY <2>1, <2>2 DEF shellVars, bootVars, closeVars
<1>3. CASE MicroStepOrAsk
  <2>1. UNCHANGED <<shellVars, bootVars, serveVars, disposed, closeCalled>>
    BY <1>3, MicroStepsApart
  <2> QED
    BY <2>1 DEF shellVars, bootVars, serveVars
<1>4. CASE CloseStep \/ Close
  <2>1. closeCalled' \/ boot.pc = "unwinding"
    <3>1. CASE Close
      BY <3>1 DEF Close
    <3>2. CASE CloseStep
      <4>1. closing.pc # "none" /\ closeCalled' = closeCalled
        BY <3>2 DEF CloseStep, CloseAfterListen, CloseChild, CloseChildrenDone, ShutdownHook,
          ShutdownStopsShell, ShellStopped, HooksDone, CloseAdapter, DisposeContainer, AtShellHook, AtHook
      <4> QED
        BY <4>1, TeardownApart DEF ControlInv, PhaseInv
    <3> QED
      BY <1>4, <3>1, <3>2
  <2>2. boot.pc = "unwinding" => appState' = appState /\ appState # "ready" /\ boot'.pc \in {"unwinding", "failed"}
    <3>1. boot.pc = "unwinding" => appState = "bootstrapped"
      BY DEF ControlInv, PhaseInv
    <3>2. CASE DisposeContainer
      BY <3>1, <3>2 DEF DisposeContainer, ControlInv, AppTyped
    <3>3. CASE ~DisposeContainer
      BY <1>4, <3>1, <3>3 DEF Close, CloseStep, CloseAfterListen, CloseChild, CloseChildrenDone,
        ShutdownHook, ShutdownStopsShell, ShellStopped, HooksDone, CloseAdapter, bootVars, serveVars
    <3> QED
      BY <3>2, <3>3
  <2>3. boot.pc = "up" \/ boot.pc = "unwinding"
    <3>1. CASE Close
      BY <3>1 DEF Close
    <3>2. CASE CloseStep
      <4>1. closing.pc # "none"
        BY <3>2 DEF CloseStep, CloseAfterListen, CloseChild, CloseChildrenDone, ShutdownHook,
          ShutdownStopsShell, ShellStopped, HooksDone, CloseAdapter, DisposeContainer, AtShellHook, AtHook
      <4> QED
        BY <4>1, TeardownApart
    <3> QED
      BY <1>4, <3>1, <3>2
  <2>4. boot.pc = "up" => boot'.pc = "up"
    BY <1>4 DEF Close, CloseStep, CloseAfterListen, CloseChild, CloseChildrenDone, DisposeContainer,
      ShutdownHook, ShutdownStopsShell, ShellStopped, HooksDone, CloseAdapter, bootVars
  <2> QED
    BY <2>1, <2>2, <2>3, <2>4
<1>5. CASE Shell
  <2>1. op.pc # "idle" /\ UNCHANGED appVars
    BY <1>5 DEF Shell, ShellStep, ValidationFails, Validated, ComponentStarts, ComponentFailsToStart,
                AllStarted, ComponentStops, ComponentFailsToStop, RolledBack, StopFails, AllStopped, Stopping
  <2> QED
    BY <2>1 DEF appVars
<1>6. CASE UNCHANGED vars
  BY <1>6 DEF vars, shellVars, appVars
<1> QED
  BY <1>1, <1>2, <1>3, <1>4, <1>5, <1>6 DEF Next, User, MicroStepOrAsk

\* ReadyServes, for every application: whatever the order of bootstrap,
\* listen() and close(), one that says ready is bound over what it started.
THEOREM ReadyMeansServing ==
  ASSUME OrderLists
  PROVE  Spec => []ReadyServes
<1>1. Init => ControlInv /\ KeptInv /\ ServeInv
  BY ControlInit, KeptInit DEF Init, ShellInit, ServeInv
<1>2. ControlInv /\ KeptInv /\ ServeInv /\ [Next]_vars => (ControlInv /\ KeptInv /\ ServeInv)'
  BY ControlStep, KeptStep, ServeStep, ApplicationAssumption
<1>3. ControlInv /\ ServeInv => ReadyServes
  BY DEF ControlInv, PhaseInv, ServeInv, ReadyServes
<1> QED
  BY <1>1, <1>2, <1>3, PTL DEF Spec

LEMMA GoneStays ==
  ASSUME ControlInv, [Next]_vars, NEW m \in Micros, Gone(m)
  PROVE  Gone(m)'
<1>1. CASE MicroStepOrAsk \/ CloseChild
  <2>1. ChildKeeps(m) /\ child[m] \in Child
    BY <1>1, ChildrenKeep DEF ControlInv, AppTyped, Child
  <2>2. child[m].state = "closed" /\ ~child[m].up /\ ~child[m].listening /\ ~child[m].closing
    BY DEF ControlInv, ChildInv, Gone
  <2> QED
    BY <2>1, <2>2 DEF ChildKeeps, Gone
<1>2. CASE ~(MicroStepOrAsk \/ CloseChild)
  BY <1>2, OthersKeepChildren DEF Gone
<1> QED
  BY <1>1, <1>2

\* Only the shell's entry in a list of shutdown hooks is the shell's.
LEMMA ShellHookIs ==
  ASSUME ApplicationAssumption, NEW h \in EndHooks
  PROVE  h[2] = "shell" <=> h = ShellHook
BY DEF ApplicationAssumption, EndHooks, ShellHook

\* A microservice that answers the teardown is gone, or an error is recorded.
LEMMA ChildAnswers ==
  ASSUME ~ConnectLate, ControlInv, CloseInv, closeCalled, [Next]_vars, NEW m \in Micros,
         MicroCloseEnds(m), boot.pc = "up", ~closing'.errors
  PROVE  /\ closing'.pc = closing.pc /\ ~closing.errors /\ connected' = connected
         /\ closing.pc # "children" => closing' = closing
         /\ closing.pc = "children" =>
              \A k \in SetOf(connected) : Gone(k)' \/ k \in SetOf(closing'.todo)
<1>1. PICK ok \in BOOLEAN :
        /\ child' = [child EXCEPT ![m].closing = FALSE,
                                  ![m].up = IF ok THEN FALSE ELSE @,
                                  ![m].state = IF ok THEN "closed" ELSE @]
        /\ closing' = ChildDone(m, ok)
  BY DEF MicroCloseEnds
<1>2. /\ ChildAnswered(closing') /\ ~closing.errors /\ closing'.pc = closing.pc
      /\ connected' = connected
  BY <1>1, ChildDoneTyped DEF ChildAnswered, MicroCloseEnds
<1>3. closing.pc # "children" => closing' = closing
  BY <1>1 DEF ChildDone
<1>4. ASSUME closing.pc = "children", NEW k \in SetOf(connected)
      PROVE  Gone(k)' \/ k \in SetOf(closing'.todo)
  <2>1. k \in Micros
    BY <1>4 DEF ControlInv, AppTyped, SetOf
  <2>2. Gone(k) \/ k \in SetOf(closing.todo)
    BY <1>2, <1>4 DEF CloseInv, Released
  <2>3. CASE closing.wait /\ Head(closing.todo) = m
    <3>1. closing.todo \in Seq(Micros) /\ closing.todo # <<>>
      BY <1>4, <2>3 DEF ControlInv, AppTyped, PhaseInv
    <3>2. SetOf(closing.todo) = {m} \cup SetOf(Tail(closing.todo))
      BY <2>3, <3>1, HeadAndTail
    <3>3. closing' = [closing EXCEPT !.todo = Tail(@), !.wait = FALSE, !.errors = @ \/ ~ok]
      BY <1>1, <1>4, <2>3 DEF ChildDone
    <3>4. ok /\ closing'.todo = Tail(closing.todo)
      BY <3>3 DEF ControlInv, AppTyped
    <3>5. child'[m].state = "closed"
      BY <1>1, <3>4 DEF ControlInv, AppTyped
    <3> QED
      BY <2>1, <2>2, <3>2, <3>4, <3>5, GoneStays DEF Gone
  <2>4. CASE ~(closing.wait /\ Head(closing.todo) = m)
    <3>1. closing' = closing
      BY <1>1, <2>4 DEF ChildDone
    <3> QED
      BY <2>1, <2>2, <3>1, GoneStays
  <2> QED
    BY <2>3, <2>4
<1> QED
  BY <1>2, <1>3, <1>4

\* A step of a close() that is not its last: what the phase it ends released.
LEMMA TeardownReleases ==
  ASSUME ApplicationAssumption, ControlInv, KeptInv, CloseInv, [Next]_vars,
         CloseStep, ~DisposeContainer
  PROVE  Released'
<1>1. /\ UNCHANGED <<boot, connected>>
      /\ ~ShutdownStopsShell => UNCHANGED shellVars
  BY DEF CloseStep, CloseAfterListen, CloseChild, CloseChildrenDone, ShutdownHook, ShutdownStopsShell,
         ShellStopped, HooksDone, CloseAdapter, bootVars, microVars
<1> SUFFICES ASSUME boot.pc = "up", ~closing'.errors PROVE Released'
  BY <1>1 DEF Released
<1>2. closing \in [pc : {"none", "listen", "children", "hooks", "adapter", "container"},
                   todo : Seq(Micros) \cup Seq(EndHooks), wait : BOOLEAN, errors : BOOLEAN]
  BY DEF ControlInv, AppTyped
<1>3. \A m \in SetOf(connected) : m \in Micros /\ (Gone(m) => Gone(m)')
  BY GoneStays DEF ControlInv, AppTyped, SetOf
<1> USE DEF Released
<1>4. CASE CloseAfterListen
  <2>1. SetOf(Reverse(connected)) = SetOf(connected)
    BY ReverseKeeps DEF ControlInv, AppTyped
  <2>2. closing' = [closing EXCEPT !.pc = "children", !.todo = Reverse(connected)]
    BY <1>4 DEF CloseAfterListen
  <2>3. closing'.pc = "children" /\ closing'.todo = Reverse(connected)
    BY <1>2, <2>2
  <2> QED
    BY <1>1, <2>1, <2>3
<1>5. CASE CloseChild
  <2> DEFINE m == Head(closing.todo)
  <2>1. closing.pc = "children" /\ closing.todo \in Seq(Micros) /\ closing.todo # <<>>
    BY <1>5 DEF CloseChild, ControlInv, AppTyped
  <2>2. SetOf(closing.todo) = {m} \cup SetOf(Tail(closing.todo))
    BY <2>1, HeadAndTail
  <2>3. \/ Gone(m) /\ closing' = [closing EXCEPT !.todo = Tail(@)]
        \/ closing' = [closing EXCEPT !.wait = TRUE]
    BY <1>5 DEF CloseChild, Gone
  <2>4. /\ closing'.pc = "children" /\ ~closing.errors
        /\ SetOf(closing.todo) \subseteq SetOf(closing'.todo) \cup (IF Gone(m) THEN {m} ELSE {})
    BY <1>2, <2>1, <2>2, <2>3
  <2>5. \A k \in SetOf(connected) : Gone(k) \/ k \in SetOf(closing.todo)
    BY <2>1, <2>4 DEF CloseInv
  <2> HIDE DEF m
  <2>6. \A k \in SetOf(connected) : Gone(k)' \/ k \in SetOf(closing'.todo)
    BY <1>3, <2>4, <2>5
  <2> QED
    BY <1>1, <2>4, <2>6
<1>6. CASE CloseChildrenDone
  <2>1. closing.pc = "children" /\ closing.todo = <<>>
    BY <1>6 DEF CloseChildrenDone
  <2>2. PICK ok \in BOOLEAN :
           closing' = [closing EXCEPT !.pc = "hooks", !.todo = ShutdownHooks(instances),
                                      !.errors = @ \/ ~ok]
    BY <1>6 DEF CloseChildrenDone
  <2>3. ~closing.errors /\ closing'.pc = "hooks" /\ closing'.todo = ShutdownHooks(instances)
    BY <1>2, <2>2
  <2>4. ShellHook \in SetOf(ShutdownHooks(instances))
    <3>1. instances = Append(Services, "shell")
      BY DEF ControlInv, PhaseInv
    <3>2. "shell" \in SetOf(instances)
      <4> DEFINE Entries == SetOf(Services) \cup {"shell"}
      <4>1. Services \in Seq(Entries) /\ "shell" \in Entries
        BY DEF ApplicationAssumption
      <4> HIDE DEF Entries
      <4> QED
        BY <3>1, <4>1, AppendAdds
    <3> QED
      BY <3>1, <3>2, EndHooksTyped DEF ShellHook
  <2>5. \A m \in SetOf(connected) : Gone(m)
    BY <2>1, <2>3, OfEmpty DEF CloseInv
  <2> QED
    BY <1>1, <1>3, <2>3, <2>4, <2>5
<1>7. CASE ShutdownHook \/ ShellStopped
  <2>1. /\ AtHook /\ closing.pc = "hooks" /\ UNCHANGED shellVars
        /\ closing' = HookDone(closing) \/ closing' = HookFailed(closing)
    BY <1>1, <1>7 DEF ShutdownHook, ShellStopped, AtShellHook, AtHook, ShutdownStopsShell
  <2>2. closing'.pc = "hooks" /\ ~closing.errors
    BY <2>1, HookSettles
  <2>3. closing'.todo = Tail(closing.todo) /\ closing' = HookDone(closing)
    BY <1>2, <2>1 DEF HookDone, HookFailed
  <2>4. closing.todo \in Seq(EndHooks) /\ closing.todo # <<>>
    BY <2>1 DEF AtHook, ControlInv, AppTyped
  <2>5. SetOf(closing.todo) = {Head(closing.todo)} \cup SetOf(Tail(closing.todo))
    BY <2>4, HeadAndTail
  <2>6. ShellHook \in SetOf(closing'.todo) \/ ShellDown'
    <3>1. ShellHook \in SetOf(closing.todo) \/ ShellDown
      BY <2>1, <2>2 DEF CloseInv
    <3>2. ShellDown => ShellDown'
      BY <2>1 DEF ShellDown, shellVars
    <3>3. CASE ShutdownHook
      <4>1. Head(closing.todo) # ShellHook
        BY <2>1, <3>3 DEF ShutdownHook, AtShellHook, ShellHook
      <4> QED
        BY <2>3, <2>5, <3>1, <3>2, <4>1
    <3>4. CASE ShellStopped
      <4>1. last = "stopped" /\ op.pc = "idle"
        BY <1>2, <2>3, <3>4 DEF ShellStopped, HookDone, HookFailed
      <4> QED
        BY <2>1, <4>1 DEF KeptInv, ShellDown, shellVars
    <3> QED
      BY <1>7, <3>3, <3>4
  <2>7. \A m \in SetOf(connected) : Gone(m)
    BY <2>1, <2>2 DEF CloseInv
  <2> QED
    BY <1>1, <1>3, <2>2, <2>6, <2>7
<1>8. CASE ShutdownStopsShell
  <2>1. /\ closing.pc = "hooks" /\ closing.todo # <<>> /\ Head(closing.todo)[2] = "shell"
        /\ closing' = [closing EXCEPT !.wait = TRUE]
    BY <1>8 DEF ShutdownStopsShell, AtShellHook, AtHook
  <2>2. closing'.pc = "hooks" /\ closing'.todo = closing.todo /\ ~closing.errors
    BY <1>2, <2>1
  <2>3. closing.todo \in Seq(EndHooks)
    BY <2>1 DEF ControlInv, AppTyped
  <2>4. Head(closing.todo) \in EndHooks /\ Head(closing.todo) \in SetOf(closing.todo)
    BY <2>1, <2>3, HeadAndTail
  <2>5. ShellHook \in SetOf(closing'.todo)
    BY <2>1, <2>2, <2>4, ShellHookIs
  <2>6. \A m \in SetOf(connected) : Gone(m)
    BY <2>1, <2>2 DEF CloseInv
  <2> QED
    BY <1>1, <1>3, <2>2, <2>5, <2>6
<1>9. CASE HooksDone \/ CloseAdapter
  <2>1. /\ closing.pc \in {"hooks", "adapter"} /\ ~closing.errors /\ closing'.pc \in {"adapter", "container"}
        /\ closing.pc = "hooks" => closing.todo = <<>>
        /\ UNCHANGED shellVars
    BY <1>1, <1>2, <1>9 DEF HooksDone, CloseAdapter, ShutdownStopsShell
  <2>2. ShellDown /\ \A m \in SetOf(connected) : Gone(m)
    BY <2>1, OfEmpty DEF CloseInv
  <2>3. ShellDown'
    BY <2>1, <2>2 DEF ShellDown, shellVars
  <2> QED
    BY <1>1, <1>3, <2>1, <2>2, <2>3
<1> QED
  BY <1>4, <1>5, <1>6, <1>7, <1>8, <1>9 DEF CloseStep

LEMMA CloseInvStep ==
  ASSUME ApplicationAssumption, ~ConnectLate, ControlInv, KeptInv, CloseInv, [Next]_vars
  PROVE  CloseInv'
<1>1. \A m \in SetOf(connected) : m \in Micros /\ (Gone(m) => Gone(m)')
  BY GoneStays DEF ControlInv, AppTyped, SetOf
<1>2. /\ closeCalled \/ appState # "bootstrapped" => boot.pc = "up"
      /\ boot.pc = "up" /\ closing.pc # "none" => closeCalled /\ appState # "closed"
      /\ boot.pc \in {"resolving", "initialising", "starting"} => closing.pc = "none"
  BY DEF ControlInv, PhaseInv, NoTeardown
<1> USE DEF CloseInv
<1>3. CASE BootStep
  <2>1. /\ ~closeCalled' /\ appState' = "bootstrapped"
    BY <1>2, <1>3 DEF BootStep, ResolveServices, InitHook, BootStartsShell, BootEnds,
                      closeVars, serveVars, ControlInv, AppTyped
  <2>2. boot'.pc # "up" \/ closing'.pc = "none"
    <3>1. UNCHANGED closing \/ boot' = [pc |-> "unwinding", todo |-> <<>>]
      BY <1>3, Zenon DEF BootStep, ResolveServices, InitHook, BootStartsShell, BootEnds, Unwind, closeVars
    <3>2. closing.pc = "none"
      BY <1>2, <1>3 DEF BootStep, ResolveServices, InitHook, BootStartsShell, BootEnds
    <3> QED
      BY <3>1, <3>2
  <2> QED
    BY <2>1, <2>2 DEF Released
<1>4. CASE Listen \/ ListenStep
  <2>1. UNCHANGED <<shellVars, bootVars, disposed, closeVars, microVars>>
    BY <1>4 DEF Listen, ListenStep, ListenReady, ListenEnds
  <2>2. appState = "bootstrapped" /\ appState' # "closed"
    BY <1>4 DEF Listen, ListenStep, ListenReady, ListenEnds, StateOnceBound, ControlInv, PhaseInv
  <2> QED
    BY <2>1, <2>2 DEF Released, Gone, ShellDown, shellVars, bootVars, closeVars, microVars
<1>5. CASE MicroStepOrAsk
  <2>1. UNCHANGED <<op, up, boot, appState, bound, disposed, closeCalled>>
    BY <1>5, MicroStepsApart DEF shellVars, bootVars, serveVars
  <2>2. closing'.pc = closing.pc
    <3>1. closing' = closing \/ \E m \in Micros, ok \in BOOLEAN : closing' = ChildDone(m, ok)
      BY ZenonT(60), <1>5 DEF MicroStepOrAsk, MicroStep, StarterStep, Connect, Connected, MicroListen, MicroClose,
         MicroListenEnds, MicroCloseEnds, StartAll, StarterAsks, StarterRollsBack, StarterEnds, closeVars
    <3> QED
      BY SMTT(30), <3>1, ChildDoneTyped DEF ChildAnswered
  <2>3. CASE ~closeCalled
    BY <1>2, <2>1, <2>2, <2>3 DEF Released
  <2>4. CASE closeCalled
    <3>1. UNCHANGED <<connecting, connected>>
      BY <1>5, <2>4 DEF MicroStepOrAsk, MicroStep, StarterStep, Connect, Connected, MicroListen,
         MicroClose, MicroListenEnds, MicroCloseEnds, StartAll, StarterAsks, StarterRollsBack, StarterEnds
    <3>2. Released'
      <4>1. ASSUME NEW m \in Micros, MicroCloseEnds(m), boot.pc = "up", ~closing'.errors
            PROVE  Released'
        <5>1. /\ ~closing.errors
              /\ closing.pc # "children" => closing' = closing
              /\ closing.pc = "children" =>
                   \A k \in SetOf(connected) : Gone(k)' \/ k \in SetOf(closing'.todo)
          BY <2>4, <4>1, ChildAnswers
        <5> QED
          BY <1>1, <2>1, <2>2, <3>1, <4>1, <5>1 DEF Released, ShellDown
      <4>2. CASE UNCHANGED closing
        BY SMTT(30), <1>1, <2>1, <3>1, <4>2 DEF Released, ShellDown
      <4>3. UNCHANGED closing \/ \E m \in Micros : MicroCloseEnds(m)
        BY <1>5 DEF MicroStepOrAsk, MicroStep, StarterStep, Connect, Connected, MicroListen,
           MicroClose, MicroListenEnds, StartAll, StarterAsks, StarterRollsBack, StarterEnds, closeVars
      <4>4. boot.pc = "up"
        BY <1>2, <2>4
      <4> QED
        BY <2>1, <4>1, <4>2, <4>3, <4>4 DEF Released
    <3> QED
      BY <1>1, <2>1, <2>4, <3>1, <3>2 DEF ShellDown
  <2> QED
    BY <2>3, <2>4 DEF ControlInv, AppTyped
<1>6. CASE Close
  <2>1. /\ connecting = {} /\ UNCHANGED <<microVars, appState>> /\ appState # "closed"
    BY <1>6 DEF Close, Refused, serveVars
  <2>2. closing'.pc = "listen"
    BY <1>6 DEF Close, NoTeardown
  <2> QED
    BY <2>1, <2>2 DEF Released, microVars
<1>7. CASE CloseStep /\ ~DisposeContainer
  <2>1. UNCHANGED <<appState, closeCalled, connecting>> /\ closing.pc # "none"
    BY <1>7 DEF CloseStep, CloseAfterListen, CloseChild, CloseChildrenDone, ShutdownHook,
      ShutdownStopsShell, ShellStopped, HooksDone, CloseAdapter, AtShellHook, AtHook, serveVars, microVars
  <2>2. appState # "closed"
    BY <1>2, <2>1
  <2> QED
    BY <1>7, <2>1, <2>2, TeardownReleases
<1>8. CASE DisposeContainer
  <2>1. /\ closing.pc = "container" /\ closing'.pc = "none" /\ disposed' = TRUE
        /\ UNCHANGED <<shellVars, bound, closeCalled, microVars>>
    BY <1>8 DEF DisposeContainer, NoTeardown
  <2>2. appState' = "closed" => appState = "closed" \/ (boot.pc = "up" /\ ~closing.errors)
    <3>1. boot.pc = "unwinding" => appState' = appState
      BY <1>8 DEF DisposeContainer
    <3>2. boot.pc # "unwinding" => appState' = appState \/ ~closing.errors
      BY <1>8 DEF DisposeContainer, StateOnceDisposed
    <3> QED
      BY <2>1, <3>1, <3>2, TeardownApart
  <2>3. appState # "closed"
    BY <1>2, <2>1
  <2>4. boot.pc = "up" /\ ~closing.errors =>
          closeCalled /\ ~bound /\ ShellDown /\ \A m \in SetOf(connected) : Gone(m)
    BY <1>2, <2>1 DEF Released, ControlInv, PhaseInv
  <2> QED
    BY <1>1, <2>1, <2>2, <2>3, <2>4 DEF Released, ShellDown, Gone, shellVars, microVars
<1>9. CASE Shell
  <2>1. op.pc # "idle" /\ UNCHANGED appVars
    BY <1>9 DEF Shell, ShellStep, ValidationFails, Validated, ComponentStarts, ComponentFailsToStart,
                AllStarted, ComponentStops, ComponentFailsToStop, RolledBack, StopFails, AllStopped, Stopping
  <2> QED
    BY <2>1 DEF appVars, Released, ShellDown, Gone
<1>10. CASE UNCHANGED vars
  BY <1>10 DEF vars, shellVars, appVars, Released, ShellDown, Gone
<1> QED
  BY <1>3, <1>4, <1>5, <1>6, <1>7, <1>8, <1>9, <1>10 DEF Next, User, MicroStepOrAsk

\* ClosedReleases, for every application in which no connectMicroservice() ends
\* after close() began: a close() that says it succeeded left nothing behind.
THEOREM ClosedMeansReleased ==
  ASSUME OrderLists, ~ConnectLate
  PROVE  Spec => []ClosedReleases
<1>1. Init => ControlInv /\ KeptInv /\ CloseInv
  BY ControlInit, KeptInit DEF Init, CloseInv, Released, NoTeardown
<1>2. ControlInv /\ KeptInv /\ CloseInv /\ [Next]_vars => (ControlInv /\ KeptInv /\ CloseInv)'
  BY ControlStep, KeptStep, CloseInvStep, ApplicationAssumption
<1>3. ControlInv /\ CloseInv => ClosedReleases
  BY DEF ControlInv, AppTyped, ChildInv, CloseInv, ClosedReleases, ShellDown, Gone, SetOf
<1> QED
  BY <1>1, <1>2, <1>3, PTL DEF Spec

\* StateMatchesResources, for every application in which no connectMicroservice()
\* ends after close() began.
THEOREM StateIsTrue ==
  ASSUME OrderLists, ~ConnectLate
  PROVE  Spec => []StateMatchesResources
<1>1. Spec => []ClosedReleases /\ []ReadyServes
  BY ClosedMeansReleased, ReadyMeansServing
<1>2. ClosedReleases /\ ReadyServes => StateMatchesResources
  BY DEF StateMatchesResources
<1> QED
  BY <1>1, <1>2, PTL

---------------------------------------------------------------------------
(* What a failed bootstrap undoes *)

\* What the teardown has still to call, or has called.
Undone == \A i \in SetOf(Services) :
            Destroyed(i, IF closing.pc = "hooks" THEN SetOf(closing.todo) ELSE {})

\* The teardown of a bootstrap begins with the hooks of all that was created.
LEMMA UnwindBegins ==
  ASSUME ApplicationAssumption, NEW s, s = Append(Services, "shell"), Unwind(s)
  PROVE  Undone'
<1>1. closing'.pc = "hooks" /\ closing'.todo = ShutdownHooks(s)
  BY DEF Unwind, NoTeardown
<1> DEFINE Entries == SetOf(Services) \cup {"shell"}
<1>2. Services \in Seq(Entries) /\ "shell" \in Entries
  BY DEF ApplicationAssumption
<1> HIDE DEF Entries
<1>3. SetOf(Services) \subseteq SetOf(s)
  BY <1>2, AppendAdds
<1>4. \A i \in SetOf(Services) : <<"onModuleDestroy", i>> \in SetOf(ShutdownHooks(s))
  BY <1>3, EndHooksTyped
<1> QED
  BY <1>1, <1>4 DEF Undone, Destroyed

\* Every hook of the teardown is called in turn, since none rejects.
LEMMA TeardownUndoes ==
  ASSUME ApplicationAssumption, NoShutdownHookRejects, ControlInv, UnwindInv, Undone,
         ShutdownHook \/ ShellStopped \/ ShutdownStopsShell \/ HooksDone
  PROVE  Undone'
<1>1. closing \in [pc : {"hooks"}, todo : Seq(EndHooks), wait : BOOLEAN, errors : BOOLEAN]
  BY DEF ShutdownHook, ShellStopped, ShutdownStopsShell, HooksDone, AtShellHook, AtHook, ControlInv, AppTyped
<1>2. CASE ShutdownHook \/ ShellStopped
  <2> DEFINE h == Head(closing.todo)
  <2>1. AtHook /\ closing.todo # <<>>
    BY <1>2 DEF ShutdownHook, ShellStopped, AtShellHook, AtHook
  <2>2. h \in EndHooks /\ SetOf(closing.todo) = {h} \cup SetOf(Tail(closing.todo))
    BY <1>1, <2>1, HeadAndTail
  <2>3. closing' = HookDone(closing)
    <3>1. CASE ShutdownHook
      BY <2>2, <3>1 DEF ShutdownHook, NoShutdownHookRejects
    <3>2. CASE ShellStopped
      BY <1>1, <3>2 DEF ShellStopped, UnwindInv
    <3> QED
      BY <1>2, <3>1, <3>2
  <2>4. closing'.pc = "hooks" /\ closing'.todo = Tail(closing.todo)
    BY <1>1, <2>3 DEF HookDone
  <2>5. called' = called \cup {h} \/ (h = ShellHook /\ called' = called)
    <3>1. CASE ShutdownHook
      BY <3>1 DEF ShutdownHook
    <3>2. CASE ShellStopped
      BY <2>2, <3>2, ShellHookIs DEF ShellStopped, AtShellHook
    <3> QED
      BY <1>2, <3>1, <3>2
  <2>6. \A i \in SetOf(Services) : h # <<"onModuleInit", i>>
    BY <2>2 DEF EndHooks
  <2>7. \A i \in SetOf(Services) : ShellHook # <<"onModuleDestroy", i>>
    BY DEF ApplicationAssumption, ShellHook
  <2> HIDE DEF h
  <2> QED
    BY <1>1, <2>2, <2>4, <2>5, <2>6, <2>7 DEF Undone, Destroyed
<1>3. CASE ShutdownStopsShell
  <2>1. closing'.pc = "hooks" /\ closing'.todo = closing.todo /\ called' = called
    BY <1>1, <1>3 DEF ShutdownStopsShell
  <2> QED
    BY <1>1, <2>1 DEF Undone, Destroyed
<1>4. CASE HooksDone
  <2>1. closing.todo = <<>> /\ closing'.pc # "hooks" /\ called' = called
    BY <1>1, <1>4 DEF HooksDone
  <2> QED
    BY <1>1, <2>1, OfEmpty DEF Undone, Destroyed
<1> QED
  BY <1>2, <1>3, <1>4

\* A shell none of whose components rejects its stop() stops.
LEMMA ShellStops ==
  ASSUME NoShutdownHookRejects, ControlInv, UnwindInv, Shell
  PROVE  UnwindInv'
<1>1. ShellStep /\ UNCHANGED appVars
  BY DEF Shell
<1>2. /\ op.pc \in {"validating", "starting", "rollback"} => boot.pc = "starting"
      /\ boot.pc = "starting" => closing.pc = "none"
      /\ op.pc # "restopping" /\ op.pc # "idle"
  BY <1>1 DEF ControlInv, ShellControl, PhaseInv, NoTeardown, ShellStep, ValidationFails, Validated,
       ComponentStarts, ComponentFailsToStart, AllStarted, ComponentStops, ComponentFailsToStop,
       RolledBack, StopFails, AllStopped, Stopping
<1>3. ~ComponentFailsToStop /\ ~StopFails
  BY SMTT(30) DEF ComponentFailsToStop, StopFails, NoShutdownHookRejects, UnwindInv
<1>4. ~op'.failed
  <2>1. CASE op' = Idle
    BY <2>1, PhaseIs
  <2>2. ASSUME NEW t, op' = Phase("starting", t)
        PROVE  ~op'.failed
    <3>1. op' \in [pc : {"starting"}, todo : {t}, done : {<<>>}, failed : {FALSE}]
      BY <2>2, PhaseIs
    <3> QED
      BY <3>1
  <2>3. ASSUME NEW t, op' = [op EXCEPT !.todo = Tail(@), !.done = t] \/ op' = [op EXCEPT !.todo = Tail(@)]
                      \/ op' = [op EXCEPT !.pc = "rollback", !.todo = t]
        PROVE  ~op'.failed
    BY <2>3 DEF ControlInv, ShellControl, UnwindInv
  <2> QED
    BY <1>1, <1>2, <1>3, <2>1, <2>2, <2>3
    DEF ShellStep, ValidationFails, Validated, ComponentStarts, ComponentFailsToStart,
        AllStarted, ComponentStops, RolledBack, AllStopped, End, Continue, RollbackOf
<1>5. closing.pc = "hooks" /\ op'.pc = "idle" => last' = "stopped"
  <2>1. ASSUME closing.pc = "hooks" PROVE ComponentStops \/ AllStopped
    BY <1>1, <1>2, <1>3, <2>1 DEF ShellStep, ValidationFails, Validated,
       ComponentStarts, ComponentFailsToStart, AllStarted, RolledBack
  <2>2. CASE ComponentStops
    <3>1. op'.pc = op.pc
      BY <2>2 DEF ComponentStops, Continue, ControlInv, ShellControl
    <3> QED
      BY <1>2, <3>1
  <2>3. CASE AllStopped
    BY <1>2, <2>3 DEF AllStopped, End
  <2> QED
    BY <2>1, <2>2, <2>3
<1> QED
  BY <1>1, <1>4, <1>5 DEF UnwindInv, UnwindUndoesInit, Destroyed, appVars

LEMMA UnwindStep ==
  ASSUME ApplicationAssumption, NoShutdownHookRejects, ControlInv, UnwindInv, [Next]_vars
  PROVE  UnwindInv'
<1>1. /\ boot.pc \in {"resolving", "initialising", "starting"} => closing = NoTeardown
      /\ boot.pc = "unwinding" => closing.pc \in {"hooks", "container"}
      /\ boot.pc = "failed" => closing.pc = "none"
      /\ closing.pc # "none" => boot.pc \in {"unwinding", "up"}
  BY TeardownApart DEF ControlInv, PhaseInv
<1>2. UnwindInv => (boot.pc = "unwinding" => Undone)
  BY DEF UnwindInv, Undone
<1>3. CASE BootStep /\ ~BootStartsShell
  <2>1. /\ UNCHANGED shellVars /\ closing = NoTeardown
        /\ boot.pc \in {"resolving", "initialising", "starting"}
        /\ boot.pc # "resolving" => instances = Append(Services, "shell")
    BY <1>1, <1>3 DEF BootStep, ResolveServices, InitHook, BootEnds, ControlInv, PhaseInv
  <2>2. \/ boot'.pc \in {"initialising", "starting", "up"} /\ UNCHANGED closing
        \/ /\ boot'.pc = "unwinding" /\ ~closing'.wait
           /\ \/ boot.pc = "resolving" /\ UNCHANGED called
              \/ Unwind(instances)
    <3>1. ASSUME NEW s, Unwind(s)
          PROVE  boot'.pc = "unwinding" /\ ~closing'.wait
      BY <3>1 DEF Unwind, NoTeardown
    <3>2. ASSUME NEW resolved, ResolveServices(resolved), ~Unwind(resolved)
          PROVE  boot'.pc = "initialising" /\ UNCHANGED closing
      BY <3>2 DEF ResolveServices
    <3>3. ASSUME InitHook \/ BootEnds, ~Unwind(instances)
          PROVE  boot'.pc \in {"initialising", "up"} /\ UNCHANGED closing
      BY <3>3 DEF InitHook, BootEnds, ControlInv, AppTyped
    <3>4. ASSUME NEW resolved, ResolveServices(resolved)
          PROVE  boot.pc = "resolving" /\ UNCHANGED called
      BY <3>4 DEF ResolveServices
    <3> QED
      BY <1>3, <3>1, <3>2, <3>3, <3>4 DEF BootStep
  <2>3. boot'.pc = "unwinding" => Undone'
    <3>1. CASE boot.pc = "resolving" /\ UNCHANGED called
      BY <3>1 DEF UnwindInv, Undone, Destroyed
    <3>2. CASE Unwind(instances)
      <4>1. CASE boot.pc = "resolving"
        <5>1. called' = called
          BY <1>3, <4>1 DEF BootStep, ResolveServices, InitHook, BootEnds
        <5> QED
          BY <4>1, <5>1 DEF UnwindInv, Undone, Destroyed
      <4>2. CASE boot.pc # "resolving"
        BY <2>1, <3>2, <4>2, UnwindBegins
      <4> QED
        BY <4>1, <4>2
    <3> QED
      BY <2>2, <3>1, <3>2
  <2>4. ~op'.failed /\ op' = op
    BY <2>1 DEF UnwindInv, shellVars
  <2>5. closing'.pc = "hooks" => ~closing'.wait
    BY <2>1, <2>2 DEF NoTeardown
  <2>6. boot'.pc \notin {"resolving", "failed"}
    BY <2>2
  <2> QED
    BY <2>3, <2>4, <2>5, <2>6 DEF UnwindInv, UnwindUndoesInit, Undone
<1>4. CASE BootStartsShell
  <2>1. /\ boot.pc = "initialising" /\ boot'.pc = "starting" /\ closing.pc = "none"
        /\ UNCHANGED <<called, closing>> /\ ShellStart /\ pending = <<>>
    BY <1>1, <1>4 DEF BootStartsShell, NoTeardown, closeVars, ControlInv, ShellControl, AppTyped
  <2>2. op' = Idle \/ op' = Phase("validating", <<>>)
    BY <2>1 DEF ShellStart, StartNothing, StartAfterRollback, StartFresh, End, Continue
  <2>3. ~op'.failed
    <3>1. Phase("validating", <<>>) \in [pc : {"validating"}, todo : {<<>>}, done : {<<>>}, failed : {FALSE}]
      BY PhaseIs
    <3> QED
      BY <2>2, <3>1, PhaseIs
  <2> QED
    BY <2>1, <2>3 DEF UnwindInv, UnwindUndoesInit, Destroyed
<1>5. CASE Shell
  BY <1>5, ShellStops
<1>6. CASE ShutdownHook \/ ShellStopped \/ ShutdownStopsShell \/ HooksDone
  <2>1. closing.pc = "hooks" /\ boot' = boot /\ boot.pc \in {"unwinding", "up"}
    BY <1>1, <1>6 DEF ShutdownHook, ShellStopped, ShutdownStopsShell, HooksDone, AtShellHook, AtHook, bootVars
  <2>2. boot.pc = "unwinding" => Undone'
    BY <1>2, <1>6, TeardownUndoes
  <2>3. /\ ~op'.failed
        /\ closing'.pc = "hooks" /\ closing'.wait /\ op'.pc = "idle" => last' = "stopped"
    <3>1. CASE ShutdownStopsShell
      <4>1. (op' = Idle /\ last' = "stopped") \/ \E t : op' = Phase("stopping", t)
        BY <3>1 DEF ShutdownStopsShell, ShellStop, StopNothing, Stop, End, Continue
      <4>2. ASSUME NEW t, op' = Phase("stopping", t)
            PROVE  op' \in [pc : {"stopping"}, todo : {t}, done : {<<>>}, failed : {FALSE}]
        BY <4>2, PhaseIs
      <4> QED
        BY <4>1, <4>2, PhaseIs
    <3>2. CASE ShutdownHook \/ ShellStopped
      <4>1. /\ AtHook /\ UNCHANGED shellVars
            /\ closing' = HookDone(closing) \/ closing' = HookFailed(closing)
        BY <3>2 DEF ShutdownHook, ShellStopped, AtShellHook
      <4> QED
        BY <4>1, HookSettles DEF UnwindInv, shellVars
    <3>3. CASE HooksDone
      <4>1. UNCHANGED shellVars /\ closing'.pc # "hooks"
        BY <3>3 DEF HooksDone, ControlInv, AppTyped
      <4> QED
        BY <4>1 DEF UnwindInv, shellVars
    <3> QED
      BY <1>6, <3>1, <3>2, <3>3
  <2> QED
    BY <2>1, <2>2, <2>3 DEF UnwindInv, UnwindUndoesInit, Undone
<1>7. CASE DisposeContainer
  <2>1. /\ closing.pc = "container" /\ closing'.pc = "none" /\ UNCHANGED <<shellVars, called>>
        /\ boot.pc \in {"unwinding", "up"}
    BY <1>1, <1>7 DEF DisposeContainer, NoTeardown
  <2>2. boot'.pc \notin {"resolving", "unwinding"} /\ (boot'.pc = "failed" => boot.pc = "unwinding")
    BY <1>7, <2>1 DEF DisposeContainer, ControlInv, AppTyped
  <2>3. boot.pc = "unwinding" => Undone
    BY <1>2
  <2> QED
    BY <2>1, <2>2, <2>3 DEF UnwindInv, UnwindUndoesInit, Undone, Destroyed, shellVars
<1>8. CASE Close \/ CloseAfterListen \/ CloseChild \/ CloseChildrenDone \/ CloseAdapter
  <2>1. boot.pc = "up" /\ UNCHANGED <<shellVars, boot, called>>
    BY <1>1, <1>8 DEF Close, CloseAfterListen, CloseChild, CloseChildrenDone, CloseAdapter, bootVars
  <2>2. ~closing'.wait \/ closing'.pc # "hooks"
    <3>1. CASE CloseChildrenDone
      <4>1. ~closing.wait
        BY <3>1 DEF CloseChildrenDone, ControlInv, PhaseInv, AppTyped
      <4>2. PICK ok \in BOOLEAN :
               closing' = [closing EXCEPT !.pc = "hooks", !.todo = ShutdownHooks(instances),
                                          !.errors = @ \/ ~ok]
        BY <3>1 DEF CloseChildrenDone
      <4> QED
        BY <4>1, <4>2 DEF ControlInv, AppTyped
    <3>2. CASE Close
      BY <3>2 DEF Close, NoTeardown
    <3>3. CASE CloseAfterListen \/ CloseChild \/ CloseAdapter
      <4>1. closing \in [pc : {"none", "listen", "children", "hooks", "adapter", "container"},
                         todo : Seq(Micros) \cup Seq(EndHooks), wait : BOOLEAN, errors : BOOLEAN]
        BY DEF ControlInv, AppTyped
      <4>2. CASE CloseAfterListen
        BY <4>1, <4>2 DEF CloseAfterListen
      <4>3. CASE CloseChild
        BY <4>1, <4>3 DEF CloseChild
      <4>4. CASE CloseAdapter
        BY <4>1, <4>4 DEF CloseAdapter
      <4> QED
        BY <3>3, <4>2, <4>3, <4>4
    <3> QED
      BY <1>8, <3>1, <3>2, <3>3
  <2> QED
    BY <2>1, <2>2 DEF UnwindInv, UnwindUndoesInit, shellVars
<1>9. CASE Listen \/ ListenStep
  <2>1. UNCHANGED <<shellVars, bootVars, called, closeVars>>
    BY <1>9 DEF Listen, ListenStep, ListenReady, ListenEnds
  <2> QED
    BY <2>1 DEF UnwindInv, UnwindUndoesInit, Destroyed, shellVars, bootVars, closeVars
<1>10. CASE MicroStepOrAsk
  <2>1. UNCHANGED <<shellVars, bootVars, called>>
    BY SMTT(30), <1>10, MicroStepsApart
  <2>2. closing' = closing \/ \E m \in Micros, ok \in BOOLEAN : closing' = ChildDone(m, ok)
    BY <1>10 DEF MicroStepOrAsk, MicroStep, StarterStep, Connect, Connected, MicroListen, MicroClose,
       MicroListenEnds, MicroCloseEnds, StartAll, StarterAsks, StarterRollsBack, StarterEnds, closeVars
  <2>3. closing' = closing \/ (closing.pc = "children" /\ closing'.pc = "children")
    BY <2>2, ChildDoneTyped DEF ChildAnswered
  <2> QED
    BY <1>1, <2>1, <2>3 DEF UnwindInv, UnwindUndoesInit, Destroyed, shellVars, bootVars
<1>11. CASE UNCHANGED vars
  BY <1>11 DEF vars, shellVars, appVars, UnwindInv, UnwindUndoesInit, Destroyed
<1> QED
  BY <1>3, <1>4, <1>5, <1>6, <1>7, <1>8, <1>9, <1>10, <1>11 DEF Next, User, MicroStepOrAsk, CloseStep

\* UnwindUndoesInit, for all services and components: a bootstrap that fails
\* destroys what it initialised, in whatever step it fails.
THEOREM FailedBootUndone ==
  ASSUME NoShutdownHookRejects
  PROVE  Spec => []UnwindUndoesInit
<1>1. Init => ControlInv /\ UnwindInv
  BY ControlInit DEF Init, ShellInit, Idle, NoTeardown, UnwindInv, UnwindUndoesInit
<1>2. ControlInv /\ UnwindInv /\ [Next]_vars => (ControlInv /\ UnwindInv)'
  BY ControlStep, UnwindStep, ApplicationAssumption
<1>3. UnwindInv => UnwindUndoesInit
  BY DEF UnwindInv
<1> QED
  BY <1>1, <1>2, <1>3, PTL DEF Spec

---------------------------------------------------------------------------
(* Types *)

\* What AppTypeOK asks for beyond AppTyped and the shell's types.
RestTyped ==
  /\ SetOf(instances) \subseteq SetOf(Services) \cup {"shell"}
  /\ called \subseteq Hooks \X SetOf(Services)
  /\ marker \in {"starting", "ready"}
  /\ "pc" \in DOMAIN starter /\ starter.pc \in {"none", "starting", "rolling"}

LEMMA StarterTyped ==
  ASSUME RestTyped, MicroStepOrAsk
  PROVE  RestTyped'
<1>1. UNCHANGED <<instances, called, marker>>
  BY MicroStepsApart DEF bootVars
<1> DEFINE Good(s) == "pc" \in DOMAIN s /\ s.pc \in {"none", "starting", "rolling"}
<1>2. Good(starter) /\ Good(NoStarter)
  BY DEF RestTyped, NoStarter
<1>3. ASSUME NEW s, Good(s)
      PROVE  /\ \A w : Good([s EXCEPT !.wait = w])
             /\ \A t : Good([s EXCEPT !.todo = t])
             /\ \A d : Good([s EXCEPT !.done = d])
             /\ \A t, w : Good([s EXCEPT !.todo = t, !.wait = w])
  BY <1>3
<1>4. Good(NextMicro(starter)) /\ Good(Rollback(starter))
  BY <1>2, <1>3 DEF NextMicro, Rollback
<1>5. Good(Started(starter))
  BY <1>3, <1>4 DEF Started
<1>6. /\ Good([starter EXCEPT !.wait = TRUE])
      /\ \A m : Good([starter EXCEPT !.todo = Append(@, m)])
  BY <1>2 DEF RestTyped
<1>7. \A t : Good([NoStarter EXCEPT !.pc = "starting", !.todo = t])
  BY DEF NoStarter
<1> HIDE DEF Good
<1>8. Good(starter')
  <2>1. CASE \E m \in Micros : Connect(m) \/ MicroListen(m) \/ MicroClose(m)
    BY <1>2, <2>1 DEF Connect, MicroListen, MicroClose
  <2>2. CASE \E m \in Micros : Connected(m)
    BY <1>2, <1>6, <2>2 DEF Connected
  <2>3. CASE \E m \in Micros : MicroListenEnds(m) \/ MicroCloseEnds(m)
    BY <1>2, <1>4, <1>5, <2>3 DEF MicroListenEnds, MicroCloseEnds
  <2>4. CASE StartAll \/ StarterEnds
    BY <1>2, <1>7, <2>4 DEF StartAll, StarterEnds
  <2>5. CASE StarterAsks \/ StarterRollsBack
    BY <1>2, <1>4, <1>5, <1>6, <2>5 DEF StarterAsks, StarterRollsBack
  <2> QED
    BY <2>1, <2>2, <2>3, <2>4, <2>5 DEF MicroStepOrAsk, MicroStep, StarterStep
<1> QED
  BY <1>1, <1>8 DEF RestTyped, Good

LEMMA RestStep ==
  ASSUME ApplicationAssumption, ControlInv, RestTyped, [Next]_vars
  PROVE  RestTyped'
<1> USE DEF RestTyped
<1>1. ASSUME NEW resolved \in Sublists(Services), ResolveServices(resolved) PROVE RestTyped'
  <2>1. SetOf(instances') \subseteq SetOf(Services) \cup {"shell"}
    <3> DEFINE Entries == SetOf(Services) \cup {"shell"}
    <3>1. resolved \in Seq(SetOf(Services))
      BY SublistsTyped DEF ApplicationAssumption
    <3>2. resolved \in Seq(Entries) /\ "shell" \in Entries /\ SetOf(resolved) \subseteq Entries
      BY <3>1 DEF SetOf
    <3>3. instances' = Append(resolved, "shell") \/ instances' = resolved
      BY <1>1 DEF ResolveServices
    <3> HIDE DEF Entries
    <3>4. resolved \in Seq(Entries) => SetOf(Append(resolved, "shell")) = SetOf(resolved) \cup {"shell"}
      BY <3>2, AppendAdds
    <3>5. SetOf(Append(resolved, "shell")) \subseteq Entries
      BY <3>2, <3>4
    <3>6. SetOf(instances') \in {SetOf(resolved), SetOf(Append(resolved, "shell"))}
      BY <3>3
    <3>7. SetOf(instances') \subseteq Entries
      BY <3>2, <3>5, <3>6
    <3> QED
      BY <3>7 DEF Entries
  <2>2. UNCHANGED <<called, starter>> /\ marker' \in {"starting", "ready"}
    BY <1>1 DEF ResolveServices, Unwind, microVars
  <2> QED
    BY <2>1, <2>2
<1>2. CASE InitHook
  <2>1. Head(boot.todo) \in BootHooks
    BY <1>2, HeadAndTail DEF InitHook, ControlInv, AppTyped
  <2>2. called' \subseteq Hooks \X SetOf(Services)
    BY <1>2, <2>1 DEF InitHook, BootHooks, Hooks
  <2> QED
    BY <1>2, <2>2 DEF InitHook, Unwind, microVars
<1>3. CASE BootStartsShell \/ BootEnds
  BY <1>3 DEF BootStartsShell, BootEnds, Unwind, microVars
<1>4. CASE MicroStepOrAsk
  BY <1>4, StarterTyped
<1>5. CASE ShutdownHook
  <2>1. Head(closing.todo) \in EndHooks /\ Head(closing.todo)[2] # "shell"
    BY <1>5, HeadAndTail DEF ShutdownHook, AtShellHook, AtHook, ControlInv, AppTyped
  <2>2. called' \subseteq Hooks \X SetOf(Services)
    BY <1>5, <2>1 DEF ShutdownHook, EndHooks, Hooks
  <2> QED
    BY <1>5, <2>2 DEF ShutdownHook, bootVars, microVars
<1>6. CASE \/ Listen \/ ListenStep \/ Close \/ Shell \/ UNCHANGED vars
           \/ CloseAfterListen \/ CloseChild \/ CloseChildrenDone \/ ShutdownStopsShell \/ ShellStopped
           \/ HooksDone \/ CloseAdapter \/ DisposeContainer
  BY <1>6 DEF Listen, ListenStep, ListenReady, ListenEnds, Close, Shell, CloseAfterListen, CloseChild,
     CloseChildrenDone, MarkerReset, ShutdownStopsShell, ShellStopped, HooksDone, CloseAdapter,
     DisposeContainer, bootVars, microVars, appVars, vars
<1> QED
  BY <1>1, <1>2, <1>3, <1>4, <1>5, <1>6
  DEF Next, User, MicroStepOrAsk, BootStep, CloseStep

\* Whatever rejects, and in every order of bootstrapApplication, listen(),
\* close() and the microservices' own, what FluoApplication, its connected
\* microservices and the shell under them keep stays of its types.
THEOREM AppTypeCorrect ==
  ASSUME OrderLists
  PROVE  Spec => []AppTypeOK
<1>1. Init => ControlInv /\ KeptInv /\ RestTyped
  BY ControlInit, KeptInit, OfEmpty DEF Init, RestTyped, NoStarter
<1>2. ControlInv /\ KeptInv /\ RestTyped /\ [Next]_vars => (ControlInv /\ KeptInv /\ RestTyped)'
  BY ControlStep, KeptStep, RestStep, ApplicationAssumption
<1>3. ControlInv /\ KeptInv /\ RestTyped => AppTypeOK
  <2> SUFFICES ASSUME ControlInv, KeptInv, RestTyped PROVE AppTypeOK
    OBVIOUS
  <2>1. SetOf(connected) \subseteq Micros
    BY DEF ControlInv, AppTyped, SetOf
  <2>2. /\ boot.pc \in {"resolving", "initialising", "starting", "unwinding", "up", "failed"}
        /\ closing.pc \in {"none", "listen", "children", "hooks", "adapter", "container"}
        /\ closing.wait \in BOOLEAN /\ closing.errors \in BOOLEAN
    BY DEF ControlInv, AppTyped
  <2> QED
    BY <2>1, <2>2 DEF ControlInv, AppTyped, KeptInv, RestTyped, AppTypeOK
<1> QED
  BY <1>1, <1>2, <1>3, PTL DEF Spec

---------------------------------------------------------------------------
(* What starts and stops in which order *)

\* A list to stop from its head on: nothing later depends on what comes before it.
TopDown(s) ==
  \A j, k \in DOMAIN s : j <= k => s[j] \notin SetOf(dependencies[s[k]])

\* The lists that start() and stop() go by.
OrderInv ==
  /\ ShellTypeOK
  /\ BottomUp(ordered) /\ BottomUp(pending)
  /\ started => ordered # <<>>
  /\ op.pc \in {"restopping", "validating"} => registered # <<>>
  /\ op.pc = "starting" =>
       ordered # <<>> /\ ordered = op.done \o op.todo /\ SetOf(op.done) \subseteq up
  /\ op.pc \in {"starting", "rollback"} => BottomUp(op.done)
  /\ op.pc \in Stopping => TopDown(op.todo)

LEMMA ReversedOrder ==
  ASSUME NEW s \in Seq(Components), BottomUp(s)
  PROVE  TopDown(Reverse(s))
<1>1. Len(s) \in Nat /\ DOMAIN s = 1 .. Len(s) /\ \A j \in 1 .. Len(s) : s[j] \in Components
  OBVIOUS
<1>2. Reverse(s) = [j \in 1 .. Len(s) |-> s[(Len(s) - j) + 1]]
  BY DEF Reverse
<1> SUFFICES ASSUME NEW j \in 1 .. Len(s), NEW k \in 1 .. Len(s), j <= k
             PROVE  Reverse(s)[j] \notin SetOf(dependencies[Reverse(s)[k]])
  BY <1>1, <1>2 DEF TopDown
<1> DEFINE m == (Len(s) - j) + 1
           n == (Len(s) - k) + 1
<1>3. m \in 1 .. Len(s) /\ n \in 1 .. Len(s) /\ n <= m
  BY <1>1
<1>4. Reverse(s)[j] = s[m] /\ Reverse(s)[k] = s[n]
  BY <1>2
<1> HIDE DEF m, n
<1>5. ASSUME s[m] \in SetOf(dependencies[s[n]]) PROVE FALSE
  <2>1. PICK i \in 1 .. n - 1 : s[i] = s[m]
    BY <1>1, <1>3, <1>5 DEF BottomUp
  <2>2. i \in 1 .. Len(s) /\ i # m
    BY <1>1, <1>3, <2>1
  <2> QED
    BY <1>1, <1>3, <2>1, <2>2 DEF BottomUp
<1> QED
  BY <1>4, <1>5

LEMMA TailOrder ==
  ASSUME NEW s \in Seq(Components), s # <<>>, TopDown(s)
  PROVE  /\ TopDown(Tail(s))
         /\ \A c \in SetOf(s) : Head(s) \notin SetOf(dependencies[c])
<1>1. /\ Len(s) \in Nat \ {0} /\ DOMAIN s = 1 .. Len(s)
      /\ DOMAIN Tail(s) = 1 .. Len(s) - 1
      /\ \A j \in 1 .. Len(s) - 1 : Tail(s)[j] = s[j + 1]
      /\ Head(s) = s[1]
  OBVIOUS
<1>2. TopDown(Tail(s))
  <2> SUFFICES ASSUME NEW j \in 1 .. Len(s) - 1, NEW k \in 1 .. Len(s) - 1, j <= k
               PROVE  Tail(s)[j] \notin SetOf(dependencies[Tail(s)[k]])
    BY <1>1 DEF TopDown
  <2>1. j + 1 \in 1 .. Len(s) /\ k + 1 \in 1 .. Len(s) /\ j + 1 <= k + 1
    BY <1>1
  <2>2. s[j + 1] \notin SetOf(dependencies[s[k + 1]])
    BY <1>1, <2>1 DEF TopDown
  <2> QED
    BY <1>1, <2>2
<1>3. ASSUME NEW k \in 1 .. Len(s) PROVE Head(s) \notin SetOf(dependencies[s[k]])
  BY <1>1 DEF TopDown
<1> QED
  BY <1>1, <1>2, <1>3 DEF SetOf

\* The next component to start, in a list of which some were started.
LEMMA StartOrder ==
  ASSUME NEW s \in Seq(Components), NEW done \in Seq(Components), NEW todo \in Seq(Components),
         s = done \o todo, BottomUp(s), todo # <<>>
  PROVE  /\ SetOf(dependencies[Head(todo)]) \subseteq SetOf(done)
         /\ s = Append(done, Head(todo)) \o Tail(todo)
<1>1. /\ Len(done) \in Nat /\ Len(todo) \in Nat \ {0} /\ DOMAIN done = 1 .. Len(done)
      /\ DOMAIN s = 1 .. Len(done) + Len(todo)
      /\ \A j \in 1 .. Len(done) : s[j] = done[j]
      /\ s[Len(done) + 1] = Head(todo)
  OBVIOUS
<1>2. s = Append(done, Head(todo)) \o Tail(todo)
  OBVIOUS
<1>3. ASSUME NEW d \in SetOf(dependencies[Head(todo)]) PROVE d \in SetOf(done)
  <2>1. Len(done) + 1 \in DOMAIN s
    BY <1>1
  <2>2. \E k \in 1 .. (Len(done) + 1) - 1 : s[k] = d
    BY ZenonT(60), <1>1, <1>3, <2>1 DEF BottomUp
  <2>3. PICK k \in 1 .. Len(done) : s[k] = d
    BY <1>1, <2>2
  <2> QED
    BY <1>1, <2>3 DEF SetOf
<1> QED
  BY <1>2, <1>3

LEMMA PrefixOrder ==
  ASSUME NEW done \in Seq(Components), NEW todo \in Seq(Components), BottomUp(done \o todo)
  PROVE  BottomUp(done)
<1> DEFINE s == done \o todo
<1>1. /\ Len(done) \in Nat /\ Len(todo) \in Nat /\ DOMAIN done = 1 .. Len(done)
      /\ DOMAIN s = 1 .. Len(done) + Len(todo)
      /\ \A j \in 1 .. Len(done) : s[j] = done[j]
  OBVIOUS
<1>2. BottomUp(s)
  OBVIOUS
<1> HIDE DEF s
<1>3. \A j \in DOMAIN done : j \in DOMAIN s
  BY <1>1
<1>4. ASSUME NEW j \in DOMAIN done, NEW k \in DOMAIN done, done[j] = done[k] PROVE j = k
  BY <1>1, <1>2, <1>3, <1>4 DEF BottomUp
<1>5. ASSUME NEW j \in DOMAIN done, NEW d \in SetOf(dependencies[done[j]])
      PROVE  \E k \in 1 .. j - 1 : done[k] = d
  <2>1. PICK k \in 1 .. j - 1 : s[k] = d
    BY <1>1, <1>2, <1>3, <1>5 DEF BottomUp
  <2>2. k \in 1 .. Len(done)
    BY <1>1, <2>1
  <2> QED
    BY <1>1, <2>1, <2>2
<1> QED
  BY <1>4, <1>5 DEF BottomUp

LEMMA OrderInit == ShellInit => OrderInv
<1> SUFFICES ASSUME ShellInit PROVE OrderInv
  OBVIOUS
<1>1. ShellTypeOK
  BY OfEmpty DEF ShellInit, ShellTypeOK, Idle, Phases, Outcomes
<1>2. BottomUp(<<>>)
  BY DEF BottomUp
<1> QED
  BY <1>1, <1>2 DEF ShellInit, OrderInv, Idle, Stopping

\* What a step of the shell is, to the lists.
LEMMA OrderStep ==
  ASSUME OrderLists, OrderSorts, OrderInv, [ShellNext]_shellVars
  PROVE  OrderInv'
<1> USE DEF flags, lists
<1>1. /\ op \in [pc : Phases, todo : Seq(Components), done : Seq(Components), failed : BOOLEAN]
      /\ up \subseteq Components /\ ordered \in Seq(Components) /\ pending \in Seq(Components)
      /\ ShellTypeOK /\ <<>> \in Seq(Components) /\ registered \in Seq(Components)
  BY OfEmpty, ShellAssumption DEF OrderInv, ShellTypeOK
<1>2. BottomUp(<<>>) /\ BottomUp(ordered) /\ BottomUp(pending)
  <2>1. BottomUp(<<>>)
    BY DEF BottomUp
  <2> QED
    BY <2>1 DEF OrderInv
\* What is asked to stop is in order.
<1>3. ASSUME ~NothingToStop
      PROVE  Reverse(ToStop) \in Seq(Components) /\ TopDown(Reverse(ToStop))
  <2>1. ToStop \in {pending, ordered}
    BY <1>3 DEF NothingToStop, ToStop, OrderInv
  <2> QED
    BY <1>1, <1>2, <2>1, ReversedOrder, ReverseKeeps
<1>4. CASE UNCHANGED shellVars
  BY <1>4 DEF shellVars, OrderInv, ShellTypeOK, BottomUp, TopDown
<1>5. CASE UNCHANGED <<flags, lists, up>> /\ op' = Idle /\ last' \in Outcomes
  <2>1. op' \in [pc : {"idle"}, todo : {<<>>}, done : {<<>>}, failed : {FALSE}]
    BY <1>5, PhaseIs
  <2>2. ShellTypeOK'
    BY <1>1, <1>5, <2>1 DEF ShellTypeOK, Phases
  <2> QED
    BY <1>5, <2>1, <2>2 DEF OrderInv, BottomUp, Stopping
<1>6. ASSUME NEW pc \in {"validating", "stopping", "restopping"}, NEW todo \in Seq(Components),
             op' = Phase(pc, todo), UNCHANGED <<flags, lists, up, last>>,
             pc # "stopping" => registered # <<>>, pc # "validating" => TopDown(todo)
      PROVE  OrderInv'
  <2>1. op' \in [pc : {pc}, todo : {todo}, done : {<<>>}, failed : {FALSE}]
    BY <1>6, PhaseIs
  <2>2. ShellTypeOK'
    <3>1. op' \in [pc : Phases, todo : Seq(Components), done : Seq(Components), failed : BOOLEAN]
      BY <1>1, <2>1 DEF Phases, Stopping
    <3> QED
      BY <1>1, <1>6, <3>1 DEF ShellTypeOK
  <2> QED
    BY <1>6, <2>1, <2>2 DEF OrderInv, BottomUp, TopDown, Stopping
<1>7. CASE ShellStart
  <2>1. CASE StartNothing
    BY <1>5, <2>1 DEF StartNothing, End, Outcomes
  <2>2. CASE StartAfterRollback
    BY <1>3, <1>6, <2>2 DEF StartAfterRollback, Continue, NothingToStart
  <2>3. CASE StartFresh
    BY <1>1, <1>6, <2>3 DEF StartFresh, Continue, NothingToStart
  <2> QED
    BY <1>7, <2>1, <2>2, <2>3 DEF ShellStart
<1>8. CASE ShellStop
  <2>1. CASE StopNothing
    BY <1>5, <2>1 DEF StopNothing, End, Outcomes
  <2>2. CASE Stop
    BY <1>3, <1>6, <2>2 DEF Stop, Continue
  <2> QED
    BY <1>8, <2>1, <2>2 DEF ShellStop
<1>9. CASE ValidationFails
  BY <1>5, <1>9 DEF ValidationFails, End, Outcomes
<1>10. CASE Validated
  <2> DEFINE o == OrderByDependency(registered, dependencies)
             seq == o.seq
  <2>1. /\ op.pc = "validating" /\ ordered' = seq /\ op' = Phase("starting", seq)
        /\ UNCHANGED <<flags, pending, up, last>>
    BY <1>10 DEF Validated, Continue
  <2>2. seq \in Seq(Components) /\ SetOf(seq) = SetOf(registered)
    BY <1>10 DEF Validated, OrderLists
  <2>3. BottomUp(seq)
    BY <1>10 DEF Validated, OrderSorts
  <2> HIDE DEF o, seq
  <2>4. op' \in [pc : {"starting"}, todo : {seq}, done : {<<>>}, failed : {FALSE}]
    BY <2>1, PhaseIs
  <2>5. ShellTypeOK'
    <3>1. op' \in [pc : Phases, todo : Seq(Components), done : Seq(Components), failed : BOOLEAN]
      BY <1>1, <2>2, <2>4 DEF Phases
    <3> QED
      BY <1>1, <2>1, <2>2, <3>1 DEF ShellTypeOK
  <2>6. registered # <<>>
    BY <2>1 DEF OrderInv
  <2>7. seq # <<>>
    <3>1. 1 \in DOMAIN registered
      BY <1>1, <2>6
    <3> QED
      BY <2>2, <3>1, OfEmpty DEF SetOf
  <2>8. seq = <<>> \o seq
    BY <2>2
  <2> QED
    BY <1>2, <2>1, <2>3, <2>4, <2>5, <2>6, <2>7, <2>8, OfEmpty DEF OrderInv, Stopping
<1>11. CASE ComponentStarts
  <2> DEFINE c == Head(op.todo)
             rest == Tail(op.todo)
             done == Append(op.done, c)
  <2>1. /\ op.pc = "starting" /\ op.todo # <<>> /\ up' = up \cup {c}
        /\ op' = [op EXCEPT !.todo = rest, !.done = done]
        /\ UNCHANGED <<flags, lists, last>>
    BY <1>11 DEF ComponentStarts, Continue
  <2>2. c \in Components /\ rest \in Seq(Components)
    BY <1>1, <2>1, HeadAndTail
  <2>3. done \in Seq(Components) /\ SetOf(done) = SetOf(op.done) \cup {c}
    BY <1>1, <2>2, AppendAdds
  <2>4. ordered = done \o rest
    BY ZenonT(60), <1>1, <1>2, <2>1, StartOrder DEF OrderInv
  <2>5. BottomUp(done)
    <3>1. BottomUp(done \o rest)
      BY <1>2, <2>4
    <3> HIDE DEF c, rest, done
    <3> QED
      BY <2>2, <2>3, <3>1, PrefixOrder
  <2> HIDE DEF c, rest, done
  <2>6. op' \in [pc : {"starting"}, todo : {rest}, done : {done}, failed : BOOLEAN]
    BY <1>1, <2>1
  <2>7. ShellTypeOK'
    <3>1. op' \in [pc : Phases, todo : Seq(Components), done : Seq(Components), failed : BOOLEAN]
      BY <2>2, <2>3, <2>6 DEF Phases
    <3> QED
      BY <1>1, <2>1, <2>2, <3>1 DEF ShellTypeOK
  <2> QED
    BY <2>1, <2>3, <2>4, <2>5, <2>6, <2>7 DEF OrderInv, Stopping
<1>12. CASE ComponentFailsToStart
  <2> DEFINE back == Reverse(op.done)
  <2>1. /\ op.pc = "starting" /\ op' = [op EXCEPT !.pc = "rollback", !.todo = back]
        /\ UNCHANGED <<flags, lists, up, last>>
    BY <1>12 DEF ComponentFailsToStart, RollbackOf, Continue
  <2>2. back \in Seq(Components) /\ TopDown(back)
    BY <1>1, <2>1, ReverseKeeps, ReversedOrder DEF OrderInv
  <2> HIDE DEF back
  <2>3. op' \in [pc : {"rollback"}, todo : {back}, done : {op.done}, failed : BOOLEAN]
    BY <1>1, <2>1
  <2>4. ShellTypeOK'
    <3>1. op' \in [pc : Phases, todo : Seq(Components), done : Seq(Components), failed : BOOLEAN]
      BY <1>1, <2>2, <2>3 DEF Phases, Stopping
    <3> QED
      BY <1>1, <2>1, <3>1 DEF ShellTypeOK
  <2> QED
    BY <2>1, <2>2, <2>3, <2>4 DEF OrderInv, BottomUp, TopDown, Stopping
<1>13. CASE AllStarted
  <2>1. /\ op.pc = "starting" /\ op.todo = <<>> /\ op' = Idle /\ last' = "started"
        /\ started' = TRUE /\ stopped' = FALSE /\ pending' = <<>>
        /\ UNCHANGED <<ordered, up>>
    BY <1>13 DEF AllStarted, End
  <2>2. op' \in [pc : {"idle"}, todo : {<<>>}, done : {<<>>}, failed : {FALSE}]
    BY <2>1, PhaseIs
  <2>3. ShellTypeOK'
    BY <1>1, <2>1, <2>2 DEF ShellTypeOK, Phases, Outcomes
  <2>4. ordered # <<>>
    BY <2>1 DEF OrderInv
  <2> QED
    BY <1>2, <2>1, <2>2, <2>3, <2>4 DEF OrderInv, Stopping
<1>14. CASE ComponentStops \/ ComponentFailsToStop
  <2> DEFINE rest == Tail(op.todo)
  <2>1. /\ op.pc \in Stopping /\ op.todo # <<>> /\ up' \subseteq up
        /\ UNCHANGED <<flags, lists, last>>
    BY <1>14 DEF ComponentStops, ComponentFailsToStop, Continue
  <2>2. rest \in Seq(Components)
    BY <1>1, <2>1, HeadAndTail
  <2>3. \/ op' = [op EXCEPT !.todo = rest]
        \/ op' = [op EXCEPT !.todo = rest, !.failed = TRUE]
    BY <1>14 DEF ComponentStops, ComponentFailsToStop, Continue
  <2>4. TopDown(rest)
    BY <1>1, <2>1, TailOrder DEF OrderInv
  <2> HIDE DEF rest
  <2>5. op' \in [pc : {op.pc}, todo : {rest}, done : {op.done}, failed : BOOLEAN]
    BY <1>1, <2>3
  <2>6. ShellTypeOK'
    <3>1. op' \in [pc : Phases, todo : Seq(Components), done : Seq(Components), failed : BOOLEAN]
      BY <1>1, <2>2, <2>5
    <3> QED
      BY <1>1, <2>1, <3>1 DEF ShellTypeOK
  <2> QED
    BY <2>1, <2>4, <2>5, <2>6 DEF OrderInv, Stopping
<1>15. CASE RolledBack
  <2>1. /\ op.pc = "rollback" /\ op' = Idle /\ last' = "start-failed"
        /\ pending' = StillPending(op)
        /\ UNCHANGED <<flags, ordered, up>>
    BY <1>15 DEF RolledBack, End
  <2>2. pending' \in Seq(Components) /\ BottomUp(pending')
    BY <1>1, <1>2, <2>1 DEF StillPending, OrderInv
  <2>3. op' \in [pc : {"idle"}, todo : {<<>>}, done : {<<>>}, failed : {FALSE}]
    BY <2>1, PhaseIs
  <2>4. ShellTypeOK'
    BY <1>1, <2>1, <2>2, <2>3 DEF ShellTypeOK, Phases, Outcomes
  <2> QED
    BY <2>1, <2>2, <2>3, <2>4 DEF OrderInv, BottomUp, Stopping
<1>16. CASE StopFails
  BY <1>5, <1>16 DEF StopFails, End, Outcomes
<1>17. CASE AllStopped
  <2>1. /\ op.pc \in {"stopping", "restopping"} /\ pending' = <<>> /\ started' = FALSE /\ stopped' = TRUE
        /\ UNCHANGED <<ordered, up>>
        /\ \/ op' = Idle /\ last' = "stopped"
           \/ op.pc = "restopping" /\ op' = Phase("validating", <<>>) /\ last' = last
    BY <1>17 DEF AllStopped, End, Continue
  <2>2. op' \in [pc : {"idle", "validating"}, todo : {<<>>}, done : {<<>>}, failed : {FALSE}]
    <3>1. Phase("validating", <<>>) \in [pc : {"validating"}, todo : {<<>>}, done : {<<>>}, failed : {FALSE}]
      BY PhaseIs
    <3> QED
      BY <2>1, <3>1, PhaseIs
  <2>3. ShellTypeOK'
    BY <1>1, <2>1, <2>2 DEF ShellTypeOK, Phases, Outcomes
  <2>4. op'.pc = "validating" => registered # <<>>
    BY <2>1, PhaseIs DEF OrderInv
  <2> QED
    BY <1>2, <2>1, <2>2, <2>3, <2>4 DEF OrderInv, BottomUp, Stopping
<1> QED
  BY <1>4, <1>7, <1>8, <1>9, <1>10, <1>11, <1>12, <1>13, <1>14, <1>15, <1>16, <1>17
  DEF ShellNext, ShellStep

LEMMA UpOrder ==
  ASSUME OrderInv, [ShellNext]_shellVars
  PROVE  [\A c \in up' \ up : SetOf(dependencies[c]) \subseteq up]_shellVars
<1>1. CASE UNCHANGED up
  BY <1>1
<1>2. CASE ComponentStarts
  <2>1. op.pc = "starting" /\ op.todo # <<>> /\ up' = up \cup {Head(op.todo)}
    BY <1>2 DEF ComponentStarts
  <2>2. /\ ordered \in Seq(Components) /\ op.done \in Seq(Components) /\ op.todo \in Seq(Components)
        /\ ordered = op.done \o op.todo /\ BottomUp(ordered) /\ SetOf(op.done) \subseteq up
    BY <2>1 DEF OrderInv, ShellTypeOK
  <2>3. SetOf(dependencies[Head(op.todo)]) \subseteq SetOf(op.done)
    BY <2>1, <2>2, StartOrder
  <2> QED
    BY <2>1, <2>2, <2>3
<1>3. CASE ComponentStops
  BY <1>3 DEF ComponentStops
<1> QED
  BY <1>1, <1>2, <1>3 DEF ShellNext, ShellStart, StartNothing, StartAfterRollback, StartFresh,
    ShellStop, StopNothing, Stop, ShellStep, ValidationFails, Validated, ComponentFailsToStart,
    AllStarted, ComponentFailsToStop, RolledBack, StopFails, AllStopped, shellVars

LEMMA DownOrder ==
  ASSUME OrderInv, [ShellNext]_shellVars
  PROVE  [\A c \in up \ up' : \A d \in SetOf(op.todo) \cap up :
            c \notin SetOf(dependencies[d])]_shellVars
<1>1. CASE up \subseteq up'
  BY <1>1
<1>2. CASE ComponentStops
  <2>1. op.pc \in Stopping /\ op.todo # <<>> /\ up' = up \ {Head(op.todo)}
    BY <1>2 DEF ComponentStops
  <2>2. op.todo \in Seq(Components) /\ TopDown(op.todo)
    BY <2>1 DEF OrderInv, ShellTypeOK
  <2>3. \A d \in SetOf(op.todo) : Head(op.todo) \notin SetOf(dependencies[d])
    BY <2>1, <2>2, TailOrder
  <2> QED
    BY <2>1, <2>3
<1>3. CASE ComponentStarts
  BY <1>1, <1>3 DEF ComponentStarts
<1> QED
  BY <1>1, <1>2, <1>3 DEF ShellNext, ShellStart, StartNothing, StartAfterRollback, StartFresh,
    ShellStop, StopNothing, Stop, ShellStep, ValidationFails, Validated, ComponentFailsToStart,
    AllStarted, ComponentFailsToStop, RolledBack, StopFails, AllStopped, shellVars

\* Components start after what they depend on and stop before it, for every list
\* of components and dependencies and whatever rejects, in a shell that may be
\* started again, also over what a failed rollback left running.
THEOREM ShellKeepsOrder ==
  ASSUME OrderLists, OrderSorts
  PROVE  ShellSpec => OrderedByDependency
<1>1. ShellInit => OrderInv
  BY OrderInit
<1>2. OrderInv /\ [ShellNext]_shellVars => OrderInv'
  BY OrderStep
<1>3. OrderInv /\ [ShellNext]_shellVars =>
        [\A c \in up' \ up : SetOf(dependencies[c]) \subseteq up]_shellVars
  BY UpOrder
<1>4. OrderInv /\ [ShellNext]_shellVars =>
        [\A c \in up \ up' : \A d \in SetOf(op.todo) \cap up :
           c \notin SetOf(dependencies[d])]_shellVars
  BY DownOrder
<1> QED
  BY <1>1, <1>2, <1>3, <1>4, PTL
  DEF ShellSpec, OrderedByDependency, StartsAfterDependencies, StopsAfterDependents

\* An application uses its shell as the shell is meant to be used: whatever its
\* bootstrap, close() and their retries do, the shell's part of it is a behaviour
\* of the shell.
THEOREM ShellInside == Spec => ShellSpec
<1>1. Init => ShellInit
  BY DEF Init
<1>2. [Next]_vars => [ShellNext]_shellVars
  <2>1. CASE BootStartsShell \/ ShutdownStopsShell \/ Shell
    BY SMTT(30), <2>1 DEF BootStartsShell, ShutdownStopsShell, Shell, ShellNext
  <2>2. CASE ~(BootStartsShell \/ ShutdownStopsShell \/ Shell)
    BY <2>2 DEF Next, User, MicroStep, StarterStep, BootStep, ResolveServices, InitHook, BootEnds,
      Listen, ListenStep, ListenReady, ListenEnds, Connect, Connected, MicroListen, MicroClose,
      MicroListenEnds, MicroCloseEnds, StartAll, StarterAsks, StarterRollsBack, StarterEnds,
      CloseStep, Close, CloseAfterListen, CloseChild, CloseChildrenDone, ShutdownHook, ShellStopped,
      HooksDone, CloseAdapter, DisposeContainer, vars
  <2> QED
    BY <2>1, <2>2
<1> QED
  BY <1>1, <1>2, PTL DEF Spec, ShellSpec

\* The same inside an application, whose bootstrap starts the shell and whose
\* close(), as often as it is retried, stops it.
THEOREM ComponentsInOrder ==
  ASSUME OrderLists, OrderSorts
  PROVE  Spec => OrderedByDependency
BY ShellInside, ShellKeepsOrder, PTL
=============================================================================
