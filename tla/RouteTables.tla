------------------------------ MODULE RouteTables ------------------------------
(***************************************************************************)
(* Two matchers over one table of routes.  The dispatcher's own            *)
(* (createHandlerMapping of packages/http) looks at paths without          *)
(* parameters first, at methods before ALL, and prefers a route of the     *)
(* version that is asked for.  The adapters of Express, Fastify and Bun    *)
(* register what they take for safe with the router of the host and hand   *)
(* its choice to the dispatcher, which then does not match again unless    *)
(* a middleware has changed the method or the path since.                  *)
(*                                                                         *)
(* The variables go through every small table.                             *)
(***************************************************************************)
EXTENDS SequencesExt

CONSTANTS
  Methods,   \* explicit ones; "ALL" is none of them
  Words,     \* literal segments
  Names,     \* parameters
  Versions,  \* of non-URI versioning; with URI versions the paths differ
  MaxRoutes  \* for paths of 1, 2, ... segments

Unversioned == "none"
RoutesAssumption ==
  /\ "ALL" \notin Methods /\ Words \cap Names = {} /\ Unversioned \notin Versions
  /\ \A n \in DOMAIN MaxRoutes : MaxRoutes[n] \in Nat \ {0}
Adapters == {"express", "fastify", "bun"}

VARIABLES table, mapping   \* what was declared, and "pending", "mapped" or "conflict"
routeVars == <<table, mapping>>

Descriptors(n) == [method : Methods \cup {"ALL"}, path : [1..n -> Words \cup Names],
                   version : Versions \cup {Unversioned}]
Tables == UNION {SeqOf(Descriptors(n), MaxRoutes[n]) \ {<<>>} : n \in DOMAIN MaxRoutes}
Length == Len(table[1].path)
\* A request, and whether its path has slashes to normalise.
Incoming == [method : Methods \cup {"OPTIONS"}, path : [1..Length -> Words \cup {"other"}],
             version : Versions \cup {Unversioned, "unknown"}, slashes : BOOLEAN]

Init == table \in Tables /\ mapping = "pending"

\* A method, path and version that is declared twice is refused.
Conflict == \E i, j \in DOMAIN table : i # j /\ table[i] = table[j]
Map == mapping = "pending" /\ mapping' = (IF Conflict THEN "conflict" ELSE "mapped") /\ UNCHANGED table
Next == Map

---------------------------------------------------------------------------
(* The dispatcher's matching.  A route is its place in the table, 0 none.  *)

Static(path) == \A k \in DOMAIN path : path[k] \in Words
Fits(route, path) == \A k \in DOMAIN path : route.path[k] \in Names \cup {path[k]}
First(S) == IF S = {} THEN 0 ELSE CHOOSE i \in S : \A j \in S : i <= j

\* The first candidate of the version, or else the first without one.
Versioned(candidates, version) ==
  LET ofVersion == {k \in DOMAIN candidates : table[candidates[k]].version = version}
      without == {k \in DOMAIN candidates : table[candidates[k]].version = Unversioned}
      k == IF ofVersion # {} THEN First(ofVersion) ELSE First(without)
  IN IF k = 0 THEN 0 ELSE candidates[k]
\* In the order of declaration, those of the method before those of ALL.
Candidates(q, static) ==
  LET those(method) == SelectSeq([i \in DOMAIN table |-> i],
        LAMBDA i : table[i].method = method /\ Static(table[i].path) = static /\ Fits(table[i], q.path))
  IN those(q.method) \o those("ALL")
findStaticMatch(q) == Versioned(Candidates(q, TRUE), q.version)
match(q) ==
  LET direct == findStaticMatch(q)
  IN IF direct # 0 THEN direct ELSE Versioned(Candidates(q, FALSE), q.version)

---------------------------------------------------------------------------
(* What the adapters register                                              *)

Shape(path) == [k \in DOMAIN path |-> IF path[k] \in Names THEN ":" ELSE path[k]]
SameKey(r, s) == r.method = s.method /\ r.path = s.path
SameShape(r, s) == r.method = s.method /\ Shape(r.path) = Shape(s.path)
Rows == {table[i] : i \in DOMAIN table}

\* Keys with a version, or declared more than once.
NotSensitive(r) == FALSE
VersionSensitive(r) ==
  \E i, j \in DOMAIN table :
    SameKey(table[i], r) /\ SameKey(table[j], r) /\ (i # j \/ table[i].version # Unversioned)
\* Candidates are unversioned routes of an explicit method.
Candidate(r) == r.method # "ALL" /\ r.version = Unversioned /\ ~VersionSensitive(r)
ExpressNative(r) == Candidate(r) /\ \A s \in Rows : Candidate(s) /\ SameShape(s, r) => s.path = r.path
FastifyNative(r) == Candidate(r) /\ \A s \in Rows : Candidate(s) /\ SameShape(s, r) => s.path = r.path
\* Bun leaves out what has the shape of an ALL route, and compares the names of
\* the parameters with versioned routes too.
UnsafeShape(r) ==
  \E s \in Rows : /\ Shape(s.path) = Shape(r.path)
                  /\ s.method = "ALL" \/ (s.method = r.method /\ s.path # r.path)
BunNative(r) == Candidate(r) /\ ~UnsafeShape(r)

\* The routers.  Express tries the paths in the order in which they were first
\* registered, and within one the method; the others prefer a word to a
\* parameter, from the first segment on, among the routes of the method.
Matched(native, q) ==
  {i \in DOMAIN table : table[i].method = q.method /\ Fits(table[i], q.path) /\ table[i] \in native}
FirstOfPath(i) == First({j \in DOMAIN table : ExpressNative(table[j]) /\ table[j].path = table[i].path})
ExpressRouter(q) ==
  LET matched == Matched({r \in Rows : ExpressNative(r)}, q)
  IN First({i \in matched : \A j \in matched : FirstOfPath(i) <= FirstOfPath(j)})
MoreSpecific(r, s) ==
  \E k \in DOMAIN r.path : /\ r.path[k] \in Words /\ s.path[k] \in Names
                           /\ \A l \in 1..(k - 1) : (r.path[l] \in Words) = (s.path[l] \in Words)
MostSpecific(S) ==
  IF S = {} THEN 0 ELSE CHOOSE i \in S : \A j \in S \ {i} : MoreSpecific(table[i], table[j])
FastifyRouter(q) == MostSpecific(Matched({r \in Rows : FastifyNative(r)}, q))
BunRouter(q) == MostSpecific(Matched({r \in Rows : BunNative(r)}, q))

\* The route an adapter hands over, but for paths whose slashes it does not
\* normalise as the dispatcher does.
Handoff(adapter, q) ==
  CASE q.slashes -> 0
    [] adapter = "express" /\ ~q.slashes -> ExpressRouter(q)
    [] adapter = "fastify" /\ ~q.slashes -> FastifyRouter(q)
    [] adapter = "bun" /\ ~q.slashes -> BunRouter(q)

\* The request is p when the middlewares have run: a handoff for another method
\* or path is stale.
Fresh(q, p) == q.method = p.method /\ q.path = p.path
readHandoff(adapter, q, p) == IF Fresh(q, p) THEN Handoff(adapter, q) ELSE 0
Handler(adapter, q, p) ==
  LET handoff == readHandoff(adapter, q, p) IN IF handoff # 0 THEN handoff ELSE match(p)

---------------------------------------------------------------------------

\* No path of the table hides another: two that fit one request have one shape,
\* and a versioned route shares it with routes of its method and path only.
Orderly ==
  \A r, s \in Rows :
    (\A k \in 1..Length : r.path[k] = s.path[k] \/ r.path[k] \in Names \/ s.path[k] \in Names)
      => /\ Shape(r.path) = Shape(s.path)
         /\ r.version # Unversioned => SameKey(r, s)

\* The host's router does not change which handler answers (createExpressNativeRoutes,
\* createFastifyNativeRoutes, createBunNativeRoutes), whatever the methods, versions
\* and names, when a middleware rewrites the request too; for tables in which no
\* path hides another.  match() does not see the slashes.
NativeKeepsMatch ==
  mapping = "mapped" /\ Orderly =>
    \A p \in {r \in Incoming : ~r.slashes} :
      LET matched == match(p)
      IN \A adapter \in Adapters, q \in Incoming : Handler(adapter, q, p) = matched
================================================================================
