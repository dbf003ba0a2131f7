--------------------------- MODULE DependencyGraphs ---------------------------
(***************************************************************************)
(* start() over every registration of Components: any order of registering *)
(* them, and for each any dependency list of at most MaxDependencies       *)
(* distinct ids, unknown ones and the component itself included.  start()  *)
(* validates the names and then orders.                                    *)
(***************************************************************************)
EXTENDS DependencyOrder

CONSTANT MaxDependencies

VARIABLES graph,   \* what is registered, in which order, with which dependencies
          verdict  \* what start() made of it, and the order it follows

vars == <<graph, verdict>>

Verdict(status, order) == [status |-> status, ordered |-> order]
Unordered == [registered |-> <<>>, deps |-> <<>>]

Lists ==
  LET ids == Components \cup Unregistered
  IN {s \in UNION {[1..n -> ids] : n \in 0..MaxDependencies} : IsInjective(s)}

Init ==
  /\ graph \in [registered : SetToSeqs(Components), deps : [Components -> Lists]]
  /\ verdict = Verdict("pending", <<>>)

Refuse ==
  /\ verdict.status = "pending" /\ ~WellNamed(graph.deps)
  /\ verdict' = Verdict("refused", <<>>)
  /\ UNCHANGED graph

Order ==
  /\ verdict.status = "pending" /\ WellNamed(graph.deps)
  /\ LET o == OrderByDependency(graph.registered, graph.deps)
     IN verdict' = Verdict(IF o.acyclic THEN "ordered" ELSE "cycle", o.seq)
  /\ UNCHANGED graph

Next == Refuse \/ Order

\* The dependency relation, and what it reaches in one or more steps.
DependsOn ==
  {e \in Components \X Components : Contains(graph.deps[e[1]], e[2])}
Step(r) == r \cup {<<x, z>> \in Components \X Components :
                     \E y \in Components : <<x, y>> \in r /\ <<y, z>> \in r}
Reaches == LET close[n \in Nat] == IF n = 0 THEN DependsOn ELSE Step(close[n - 1])
           IN close[Cardinality(Components)]

\* The order start() and, reversed, stop() follow lists every component once
\* and each one after everything it depends on, whatever the order of
\* registration; and orderByDependency throws exactly when some component
\* depends on itself through others, from whichever component the walk starts.
OrdersExactlyAcyclic ==
  LET order == verdict.ordered
  IN /\ verdict.status = "ordered" =>
          /\ IsInjective(order) /\ ToSet(order) = Components
          /\ \A i, j \in DOMAIN order : <<order[i], order[j]>> \in Reaches => j < i
     /\ verdict.status \in {"ordered", "cycle"} =>
          (verdict.status = "cycle" <=> \E c \in Components : <<c, c>> \in Reaches)
=============================================================================
