------------------------------ MODULE DepGraph ------------------------------
(***************************************************************************)
(* web/src/lib/depGraph.ts and the filter of Dependencies.tsx: which       *)
(* application draws an edge to which source.                              *)
(*                                                                         *)
(* Lists are sets: their order is layout.  An application's `source` is    *)
(* the sequence of the parts of its string: <<>>, <<name>> or              *)
(* <<kind, name>>.  A search text is the set of the words it is part of.   *)
(***************************************************************************)
EXTENDS Sequences, Naturals

CONSTANT NoKind     \* the kind of a reference that names none

parseSourceRef(s) ==
  CASE Len(s) = 1 -> [kind |-> NoKind, name |-> s[1]]
    [] Len(s) = 2 -> [kind |-> s[1], name |-> s[2]]

\* byNsName and byNsKindName.
Candidates(a, cSources) ==
  {s \in cSources : s.ns = a.ns /\ s.name = parseSourceRef(a.source).name}

OfItsKind(a, cSources) ==
  {s \in Candidates(a, cSources) : s.kind = parseSourceRef(a.source).kind}

\* The source an application resolves to, as a set of at most one: the one of
\* the kind it names or, failing that, the only one of the name.
Resolved(a, cSources) ==
  IF \/ OfItsKind(a, cSources) # {}
     \/ ~ \E s \in cSources : Candidates(a, cSources) = {s}
  THEN OfItsKind(a, cSources)
  ELSE Candidates(a, cSources)

edgeTone(s, a) ==
  CASE "failing" \in {s.status, a.status} -> "err"
    [] "failing" \notin {s.status, a.status}
         /\ "degraded" \in {s.status, a.status} -> "warn"
    [] {"failing", "degraded"} \cap {s.status, a.status} = {} ->
         IF a.suspended THEN "muted" ELSE "ok"

\* The graph of one cluster from what it lists.
ClusterGraph(cApps, cSources) ==
  LET refs    == {a \in cApps : a.source # <<>>}
      matched == {a \in refs : Resolved(a, cSources) # {}}
      used    == UNION {Resolved(a, cSources) : a \in matched}
  IN  [sources       |-> used,
       apps          |-> matched,
       edges         |-> UNION {{[sourceId |-> s.id, appId |-> a.id, tone |-> edgeTone(s, a)] :
                                   s \in Resolved(a, cSources)} : a \in matched},
       orphanApps    |-> refs \ matched,
       unusedSources |-> cSources \ used]

\* A cluster that lists neither kind has no graph.
buildClusterGraphs(apps, sources) ==
  [c \in {x.cluster : x \in apps \cup sources} |->
     ClusterGraph({a \in apps : a.cluster = c}, {s \in sources : s.cluster = c})]

-----------------------------------------------------------------------------
(* filterGraph *)

wantStatus(x, statusFilter) ==
  \/ statusFilter = "all"
  \/ /\ ~x.suspended
     /\ \/ x.status = "failing"
        \/ statusFilter = "degraded" /\ x.status = "degraded"

wantSearch(fields, search) == fields \cap search # {}

\* Mutant: a source that matched stays in its column without its edges.
survivingSrcAll(g, surviving) == g.sources

survivingSrc(g, surviving) ==
  {s \in g.sources : \E e \in surviving : e.sourceId = s.id}

filterGraph(g, statusFilter, search) ==
  LET Wanted(x) == wantStatus(x, statusFilter)
      surviving ==
        {e \in g.edges :
           \E s \in g.sources, a \in g.apps :
             /\ e.sourceId = s.id /\ e.appId = a.id
             /\ Wanted(s) /\ Wanted(a)
             /\ wantSearch({s.name, s.ns, a.name, a.ns}, search)}
  IN  [sources       |-> survivingSrc(g, surviving),
       apps          |-> {a \in g.apps : \E e \in surviving : e.appId = a.id},
       edges         |-> surviving,
       orphanApps    |-> {a \in g.orphanApps :
                            Wanted(a) /\ wantSearch({a.name, a.ns} \cup
                                           {a.source[i] : i \in DOMAIN a.source}, search)},
       unusedSources |-> {s \in g.unusedSources :
                            Wanted(s) /\ wantSearch({s.name, s.ns}, search)}]
=============================================================================
