----------------------------- MODULE ModuleGraph -----------------------------
(***************************************************************************)
(* compileModuleGraph() of packages/runtime/src/module-graph.ts: the       *)
(* modules that a root reaches, in the order of their imports, and which   *)
(* tokens each may inject.  An optional token is looked up as any other.   *)
(* With moduleGraphCache a result is kept for the versions of the          *)
(* metadata it was made from.                                              *)
(***************************************************************************)
EXTENDS Naturals, FiniteSets, Sequences, SequencesExt

CONSTANTS
  Modules, Root,
  Runtime,     \* tokens of the bootstrap options
  Definitions, \* the metadata that modules may have
  Redefined    \* what a module may be defined as later; bound: once

GraphAssumption == Root \in Modules /\ IsFiniteSet(Modules)

VARIABLES
  definitions, \* [global, imports, provides, needs, exports] of each module
  version,     \* of the metadata
  kept,        \* moduleGraphCompileCache: [version, graph]
  compiled     \* what the last call returned; None before, Refused when it threw

graphVars == <<definitions, version, kept, compiled>>

None == [order |-> <<>>, accessible |-> <<>>, exported |-> <<>>]
Refused == [None EXCEPT !.order = <<"refused">>]
Init == definitions \in Definitions /\ version = 0 /\ kept = {} /\ compiled = None

Order == INSTANCE DependencyOrder WITH Components <- Modules, Unregistered <- {}

\* compileModule() from the root: a module comes after those it imports.
compileModule == Order!Visits([m \in Modules |-> definitions[m].imports])[Root, {}, <<>>]

Imports(m) == ToSet(definitions[m].imports)
GlobalExports(order) == UNION {definitions[m].exports : m \in {n \in ToSet(order) : definitions[n].global}}

\* Mutant: what an import can see is visible through it.
seesThroughImports(graph, m) == UNION {graph.accessible[n] : n \in Imports(m)}
importedExported(graph, m) == UNION {graph.exported[n] : n \in Imports(m)}
\* validateCompiledModules(), of the next module: what it needs is accessible, and
\* what it exports is its own or comes from an import.
Validates(graph, m) ==
  LET imported == importedExported(graph, m)
      own == definitions[m].provides
      accessible == Runtime \cup own \cup imported \cup GlobalExports(compileModule.seq)
  IN  IF graph = Refused \/ ~ (definitions[m].needs \subseteq accessible
                               /\ definitions[m].exports \subseteq own \cup imported)
        THEN Refused
        ELSE [graph EXCEPT !.accessible[m] = accessible, !.exported[m] = definitions[m].exports]
Compiled ==
  IF ~ compileModule.acyclic THEN Refused
  ELSE FoldLeft(Validates,
         [order |-> compileModule.seq, accessible |-> [m \in Modules |-> {}], exported |-> [m \in Modules |-> {}]],
         compileModule.seq)

\* createModuleGraphCacheKey(): the root and the options do not change here.
CacheKey == version
compileModuleGraph ==
  LET hits == {k \in kept : k.key = CacheKey} IN
  /\ \/ hits # {} /\ compiled' = (CHOOSE k \in hits : TRUE).graph /\ UNCHANGED kept
     \/ /\ hits = {} /\ compiled' = Compiled
        /\ kept' = IF Compiled = Refused THEN kept ELSE kept \cup {[key |-> CacheKey, graph |-> Compiled]}
  /\ UNCHANGED <<definitions, version>>

\* The caller changes what it was given, which is a copy; a module's metadata is
\* written again.
Mutates == compiled' = None /\ UNCHANGED <<definitions, version, kept>>
Redefines ==
  /\ version = 0 /\ version' = 1
  /\ \E m \in Modules, d \in Redefined : definitions' = [definitions EXCEPT ![m] = d]
  /\ compiled' = None /\ UNCHANGED kept

Next == compileModuleGraph \/ Mutates \/ Redefines
Spec == Init /\ [][Next]_graphVars

---------------------------------------------------------------------------
TypeOK ==
  /\ version \in 0 .. 1 /\ \A k \in kept : k.key <= version /\ k.graph # Refused
  /\ ToSet(compiled.order) \subseteq Modules \cup {"refused"}

\* The reference: what the root reaches, whether a rank goes down along every
\* import, and where an exported token is from.
Reached ==
  LET step(s) == s \cup UNION {Imports(m) : m \in s}
      after[n \in 0 .. Cardinality(Modules)] == IF n = 0 THEN {Root} ELSE step(after[n - 1])
  IN  after[Cardinality(Modules)]
Acyclic == \E rank \in [Reached -> 1 .. Cardinality(Modules)] :
             \A m \in Reached : \A n \in Imports(m) : rank[n] < rank[m]
Offers(m, t) == t \in definitions[m].exports
Sound(m, t) ==
  \E source \in Modules : \E path \in SUBSET Modules :
    /\ {m, source} \subseteq path /\ t \in definitions[source].provides
    /\ \A n \in path : Offers(n, t)
    /\ \A n \in path \ {source} : Imports(n) \cap path # {}
Visible(m, t) ==
  \/ t \in Runtime \cup definitions[m].provides
  \/ \E n \in Imports(m) : Offers(n, t)
  \/ \E n \in Reached : definitions[n].global /\ Offers(n, t)

\* A graph is compiled when its imports have no cycle, every module sees what its
\* providers and controllers need, and every export has a provider behind it; the
\* order puts imports first; and a result that was kept is the one that would be
\* made now (compileModuleGraph(), createModuleGraphCacheKey()).
CompilesExactlyVisible ==
  compiled # None =>
    /\ compiled # Refused <=>
         /\ Acyclic
         /\ \A m \in Reached : /\ \A t \in definitions[m].needs : Visible(m, t)
                               /\ \A t \in definitions[m].exports : Sound(m, t)
    /\ compiled # Refused =>
         /\ ToSet(compiled.order) = Reached /\ Len(compiled.order) = Cardinality(Reached)
         /\ \A i \in DOMAIN compiled.order :
              Imports(compiled.order[i]) \subseteq {compiled.order[j] : j \in 1 .. i - 1}
         /\ \A m \in Reached : compiled.exported[m] = definitions[m].exports
=============================================================================
