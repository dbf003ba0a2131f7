--------------------------- MODULE DependencyOrder ---------------------------
(***************************************************************************)
(* orderByDependency of packages/runtime/src/platform-shell.ts: the order  *)
(* in which platform components are started, a depth-first post-order over *)
(* the declared dependencies, and what start() refuses before it.  The     *)
(* module checks the algorithm on every dependency graph over Components.  *)
(***************************************************************************)
EXTENDS Naturals, FiniteSets, SequencesExt

CONSTANTS Components,   \* component ids a dependency may name
          Unregistered  \* ids that a dependency may name but nobody registers

ASSUME ComponentsAssumption ==
  /\ IsFiniteSet(Components)
  /\ Unregistered \cap Components = {}

(* A registration lists every component once; deps[c] is c's dependency    *)
(* list.  The walk carries the components ordered so far; "visited" is     *)
(* membership in it, and path is "visiting".                               *)

Cyclic == [acyclic |-> FALSE, seq |-> <<>>]
Ordered(s) == [acyclic |-> TRUE, seq |-> s]

\* visit(): nothing for a visited id, a throw for one on the path, and else
\* the dependencies in their order, then the component.
Visits(deps) ==
  LET visit[c \in Components, path \in SUBSET Components, s \in Seq(Components)] ==
        IF Contains(s, c) THEN Ordered(s)
        ELSE IF c \in path THEN Cyclic
        ELSE LET below == FoldLeft(
                   LAMBDA acc, d : IF acc.acyclic
                                   THEN visit[d, path \cup {c}, acc.seq] ELSE acc,
                   Ordered(s), deps[c])
             IN IF below.acyclic THEN Ordered(Append(below.seq, c)) ELSE Cyclic
  IN visit

\* orderByDependency(): visit the registrations in their order.
OrderByDependency(registered, deps) ==
  LET visit == Visits(deps)
  IN FoldLeft(LAMBDA acc, c : IF acc.acyclic THEN visit[c, {}, acc.seq] ELSE acc,
              Ordered(<<>>), registered)

\* validateIdentityAndDependencies(): a dependency on an unknown id or on
\* oneself is refused.
WellNamed(deps) ==
  \A c \in Components : \A j \in DOMAIN deps[c] : deps[c][j] \in Components \ {c}
=============================================================================
