----------------------------- MODULE MCContainer -----------------------------
(***************************************************************************)
(* Provider graphs for model-checking Container.  A provider is named by a *)
(* string; its row says what it provides, its scope, what it injects and   *)
(* what it is an alias of.  Each scenario is one small program over them:  *)
(* what is registered, overridden, asked for and disposed, and what fails. *)
(* The first step chooses one and it stays.                                *)
(***************************************************************************)
EXTENDS Container

CONSTANT Scenarios  \* those a configuration runs

VARIABLE scenario   \* the one that was chosen

allVars == <<vars, scenario>>

Row(tok, sc, deps) == [tok |-> tok, scope |-> sc, inject |-> deps, alias |-> None]
AliasRow(tok, target) ==
  [tok |-> tok, scope |-> "singleton", inject |-> <<>>, alias |-> target]

Table == [
  \* a service over two dependencies, a leaf each
  svc   |-> Row("A", "singleton", <<"X", "Y">>),
  x1    |-> Row("X", "singleton", <<>>),
  x2    |-> Row("X", "singleton", <<>>),
  y1    |-> Row("Y", "singleton", <<>>),
  yx    |-> Row("Y", "singleton", <<"X">>),
  \* a request-scoped handler, a transient on its way, a singleton leaf
  req   |-> Row("B", "request", <<"L", "A">>),
  reqx  |-> Row("B", "request", <<"X">>),
  trans |-> Row("L", "transient", <<"X">>),
  one   |-> Row("A", "singleton", <<"X">>),
  xreq  |-> Row("X", "request", <<>>),
  \* cycles: two-node behind an asynchronous leaf, and through an alias
  cycA  |-> Row("A", "singleton", <<"X", "B">>),
  cycB  |-> Row("B", "singleton", <<"Y", "A">>),
  cycL  |-> Row("B", "singleton", <<"Y", "L">>),
  aliasA |-> AliasRow("L", "A")]

MCProviders == DOMAIN Table
MCTokens == {Table[p].tok : p \in Providers}
MCProvide == [p \in Providers |-> Table[p].tok]
MCScope == [p \in Providers |-> Table[p].scope]
MCInject == [p \in Providers |-> Table[p].inject]
MCUseExisting == [p \in Providers |-> Table[p].alias]

NoPairs == {}
On(k, ps) == {k} \X ps
Quiet(initial, asks) ==
  [initial |-> initial, scopes |-> {}, registers |-> {}, overrides |-> {},
   asks |-> asks, disposes |-> {}, throws |-> {}, destroyThrows |-> {}]

Program == [
  \* three calls meet on a service whose dependencies may fail or come late
  share |-> [Quiet({"svc", "yx"},
                   {<<"c1", "root", "A">>, <<"c2", "root", "A">>, <<"c3", "root", "Y">>})
             EXCEPT !.registers = On("root", {"x1"}), !.throws = {"x1", "yx"}],
  \* a leaf is overridden while calls share it and its consumer
  replace |-> [Quiet({"x1", "yx"}, {"c1", "c2"} \X {"root"} \X {"X", "Y"})
               EXCEPT !.overrides = On("root", {"x2"})],
  \* the leaf that was overridden fails, and evicts its successor
  usurp |-> [Quiet({"x1"}, Calls \X {"root"} \X {"X"})
             EXCEPT !.overrides = On("root", {"x2"}), !.throws = {"x1"}],
  \* a request-scoped handler over a transient and a singleton that share a
  \* leaf, which is overridden meanwhile
  override |-> [Quiet({"req", "trans", "one", "x1"},
                      {<<"c1", "kid", "B">>, <<"c2", "root", "A">>})
                EXCEPT !.scopes = {"kid"}, !.overrides = On("root", {"x2"})],
  \* the override turns the leaf request-scoped under a singleton
  scopes |-> [Quiet({"reqx", "one", "x1"},
                    {<<"c1", "kid", "B">>, <<"c1", "kid", "A">>, <<"c2", "other", "X">>})
              EXCEPT !.scopes = {"kid", "other"},
                     !.overrides = {<<"root", "xreq">>, <<"kid", "x1">>}],
  \* the root and a request scope are disposed, with creations in flight
  dispose |-> [Quiet({"svc", "reqx", "x1", "y1"},
                     {<<"c1", "root", "A">>, <<"c1", "root", "B">>, <<"c2", "kid", "B">>})
               EXCEPT !.scopes = {"kid"}, !.disposes = {"root", "kid"},
                      !.throws = {"y1"}, !.destroyThrows = {"x1"}],
  \* the root is overridden, disposed, and disposed again when that failed
  teardown |-> [Quiet({"svc", "x1", "y1"},
                      {<<"c1", "root", "A">>, <<"c2", "root", "X">>})
                EXCEPT !.overrides = On("root", {"x2"}), !.disposes = {"root"},
                       !.throws = {"y1"}, !.destroyThrows = {"x1"}],
  \* a cycle through an alias, whose leaves other calls share
  alias |-> [Quiet({"cycA", "cycL", "aliasA", "x1", "y1"},
                   {<<"c1", "root", "A">>, <<"c1", "root", "B">>, <<"c1", "root", "L">>,
                    <<"c2", "root", "X">>, <<"c2", "root", "Y">>, <<"c3", "root", "X">>})
             EXCEPT !.throws = {"x1"}],
  \* two calls enter a cycle of two services, each with a leaf before
  cycle |-> Quiet({"cycA", "cycB", "x1", "y1"}, {<<"c1", "root", "A">>, <<"c2", "root", "B">>})]

In(s) == INSTANCE Container WITH
  Initial <- Program[s].initial, Registers <- Program[s].registers,
  Overrides <- Program[s].overrides, Asks <- Program[s].asks,
  Disposes <- Program[s].disposes, Throws <- Program[s].throws,
  DestroyThrows <- Program[s].destroyThrows

MCInit == \E s \in Scenarios : scenario = s /\ In(s)!Init
MCNext ==
  \E s \in Scenarios :
    /\ scenario = s /\ UNCHANGED scenario
    /\ In(s)!Next
    /\ \A k \in Children \ Program[s].scopes : phase'[k] = "absent"

\* The scenarios whose calls and disposals are followed to their end.
Followed == {"share", "alias", "dispose", "cycle"}
Does(step) == scenario \in Followed /\ step /\ UNCHANGED scenario
\* The event loop runs whatever is ready; calls, factories and destroy hooks are
\* finitely many, so it is enough that it never rests while something is.
MCFairness ==
  WF_allVars(Does(\/ \E c \in Calls : CallStep(c)
                  \/ \E i \in Ids : FactorySettles(i)
                  \/ \E k \in Containers, i \in Ids : StaleDisposal(k, i)
                  \/ \E k \in Containers : DisposalStep(k)
                  \/ ChildrenDisposed))
MCSpec == MCInit /\ [][MCNext]_allVars /\ MCFairness

\* Container!ResolveSettles and Container!DisposeSettles, in these scenarios:
\* resolve() settles, with an instance or an error, and so does dispose(),
\* though it waits for scopes, stale disposals and creations in flight.
CallsAndDisposalsSettle ==
  /\ \A c \in Calls : (scenario \in Followed /\ call[c].mode # "idle") ~> (call[c].mode = "done")
  /\ \A k \in Containers : (scenario \in Followed /\ Disposed(k)) ~> (phase[k] \in SettledPhase)

\* Container!NoFailureCached and Container!CircularIsReal: a failed creation does
\* not stay in a cache, and a cycle is reported only where there is one.
FailuresAreSound == NoFailureCached /\ CircularIsReal

\* SharesCreations, in the scenarios that share: a box action under a guard,
\* because each of its steps is costly to evaluate.
Sharing == {"share", "replace"}
SharesCreationsWhenAsked ==
  /\ Shared!Init
  /\ [][(scenario \in Sharing) => (Shared!Next \/ UNCHANGED Shared!vars)]_allVars
=============================================================================
