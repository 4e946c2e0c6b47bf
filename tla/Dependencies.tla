---------------------------- MODULE Dependencies ----------------------------
(***************************************************************************)
(* The Dependencies page: web/src/pages/Dependencies.tsx over the graphs   *)
(* of DepGraph.  The two lists it joins are polled separately, so that it  *)
(* shows one against an older answer of the other; filters and the card    *)
(* under the pointer outlive the answers they were chosen from.            *)
(***************************************************************************)
EXTENDS DepGraph

CONSTANTS
  AllApps,      \* applications a server may list
  AllSources,   \* sources it may list
  Searches,     \* texts a user may type, the empty one included
  NoHover       \* no card is hovered or focused

\* A source is identified by its cluster, namespace, kind and name.
ASSUME DependenciesAssumption ==
  \A x, y \in AllSources :
    x.cluster = y.cluster /\ x.ns = y.ns /\ x.kind = y.kind /\ x.name = y.name => x.id = y.id

VARIABLES
  apps, sources,                        \* the two lists, as last answered
  allGraphs, graphs,                    \* the page's two memoised values
  statusFilter, search, clusterFilter,  \* the page's state
  hover                                 \* hover[c]: state of the block of cluster c

depVars == <<apps, sources, allGraphs, graphs, statusFilter, search, clusterFilter, hover>>

Clusters == {x.cluster : x \in AllApps \cup AllSources}

\* The blocks to render: those with anything left to show.
Filtered(all, status, text, cluster) ==
  LET left == [c \in {c \in DOMAIN all : cluster \in {"all", c}} |->
                 filterGraph(all[c], status, text)]
      Empty(g) == g.edges = {} /\ g.orphanApps = {} /\ g.unusedSources = {}
  IN  [c \in {c \in DOMAIN left : ~Empty(left[c])} |-> left[c]]

DepInit ==
  /\ apps = {} /\ sources = {}
  /\ allGraphs = <<>> /\ graphs = <<>>
  /\ statusFilter = "all" /\ clusterFilter = "all"
  /\ search \in {text \in Searches : \A other \in Searches : other \subseteq text}
  /\ hover = [c \in Clusters |-> NoHover]

\* The page renders after its state changed; a block that is not rendered loses
\* its own.
Render ==
  /\ graphs' = Filtered(allGraphs', statusFilter', search', clusterFilter')
  /\ hover' = [c \in Clusters |-> IF c \in DOMAIN graphs' THEN hover[c] ELSE NoHover]

\* A list with at most one object added, one removed or one changed: an answer
\* that differs in more is several of these with nothing rendered between.
Answers(list, all) ==
  {l \in ({list \ {x} : x \in list} \cup {(list \ {x}) \cup {y} : x \in list, y \in all}
            \cup {list \cup {y} : y \in all}) :
     \A x, y \in l : x.id = y.id => x = y}

AppsAnswer ==
  /\ apps' \in Answers(apps, AllApps)
  /\ allGraphs' = buildClusterGraphs(apps', sources)
  /\ UNCHANGED <<sources, statusFilter, search, clusterFilter>>
  /\ Render

\* Mutant: the memoised graphs do not depend on the sources.
SourcesAnswerStale ==
  /\ sources' \in Answers(sources, AllSources)
  /\ UNCHANGED <<apps, allGraphs, statusFilter, search, clusterFilter>>
  /\ Render

SourcesAnswer ==
  /\ sources' \in Answers(sources, AllSources)
  /\ allGraphs' = buildClusterGraphs(apps, sources')
  /\ UNCHANGED <<apps, statusFilter, search, clusterFilter>>
  /\ Render

SetStatusFilter ==
  /\ statusFilter' \in {"all", "failing", "degraded"}
  /\ UNCHANGED <<apps, sources, allGraphs, search, clusterFilter>>
  /\ Render

SetSearch ==
  /\ search' \in Searches
  /\ UNCHANGED <<apps, sources, allGraphs, statusFilter, clusterFilter>>
  /\ Render

\* The buttons are there when there are several clusters to choose from.
SetClusterFilter ==
  /\ \E c, d \in DOMAIN allGraphs : c # d
  /\ clusterFilter' \in DOMAIN allGraphs \cup {"all"}
  /\ UNCHANGED <<apps, sources, allGraphs, statusFilter, search>>
  /\ Render

\* The cards of a block whose place is known: measured after every layout.
measure(g) ==
  {[kind |-> "source", id |-> s.id] : s \in g.sources}
    \cup {[kind |-> "app", id |-> a.id] : a \in g.apps}

\* The pointer or the focus comes to a card of block c.
Hover(c, g) ==
  /\ \E card \in measure(g) : hover' = [hover EXCEPT ![c] = card]
  /\ UNCHANGED <<apps, sources, allGraphs, graphs, statusFilter, search, clusterFilter>>

\* It leaves a card of the block; a card that is gone is never left.
Leave(c) ==
  /\ hover[c] # NoHover
  /\ hover' = [hover EXCEPT ![c] = NoHover]
  /\ UNCHANGED <<apps, sources, allGraphs, graphs, statusFilter, search, clusterFilter>>

\* Whether a card is faded in a block that shows g while h is hovered.
dimmed(g, h, kind, id) ==
  /\ h # NoHover
  /\ h # [kind |-> kind, id |-> id]
  /\ IF h.kind = "source"
     THEN ~ \E e \in g.edges :
              e.sourceId = h.id /\ id = (IF kind = "app" THEN e.appId ELSE e.sourceId)
     ELSE ~ \E e \in g.edges :
              e.appId = h.id /\ id = (IF kind = "source" THEN e.sourceId ELSE e.appId)

\* Mutant: an application that is hovered fades its own edge.
isAdjacentToSource(h, e) == h = NoHover \/ (h.kind = "source" /\ e.sourceId = h.id)

\* Whether edgeStyle draws an edge at full strength.
isAdjacent(h, e) ==
  \/ h = NoHover
  \/ h.kind = "source" /\ e.sourceId = h.id
  \/ h.kind = "app" /\ e.appId = h.id

\* The edges that get a path.
Drawn(g) ==
  {e \in g.edges : /\ [kind |-> "source", id |-> e.sourceId] \in measure(g)
                   /\ [kind |-> "app", id |-> e.appId] \in measure(g)}

DepNext ==
  \/ AppsAnswer \/ SourcesAnswer
  \/ SetStatusFilter \/ SetSearch \/ SetClusterFilter
  \/ \E c \in DOMAIN graphs : Hover(c, graphs[c])
  \/ \E c \in Clusters : Leave(c)

DepSpec == DepInit /\ [][DepNext]_depVars

-----------------------------------------------------------------------------
\* Whatever the two polls answered last, each application with a source
\* reference is in exactly one of `apps` and `orphanApps` of its cluster, each
\* source in exactly one of `sources` and `unusedSources`; the edges give every
\* matched application exactly one source, in its own cluster and namespace,
\* and every used source an application.
EveryNodeOnce ==
  /\ DOMAIN allGraphs = {x.cluster : x \in apps \cup sources}
  /\ \A c \in DOMAIN allGraphs :
       LET g == allGraphs[c] IN
       /\ g.apps \cap g.orphanApps = {} /\ g.sources \cap g.unusedSources = {}
       /\ g.apps \cup g.orphanApps = {a \in apps : a.cluster = c /\ a.source # <<>>}
       /\ g.sources \cup g.unusedSources = {s \in sources : s.cluster = c}
       /\ \A a \in g.apps :
            \E s \in g.sources : /\ s.ns = a.ns
                                 /\ {e.sourceId : e \in {e \in g.edges : e.appId = a.id}} = {s.id}
       /\ \A s \in g.sources : \E e \in g.edges : e.sourceId = s.id

\* What is left after filtering has no loose end: every edge of a block can be
\* drawn between two of its cards, and a card in a column has an edge ("so the
\* columns don't show disconnected nodes").
ShownIsConnected ==
  \A c \in DOMAIN graphs :
    LET g == graphs[c] IN
    /\ Drawn(g) = g.edges
    /\ {s.id : s \in g.sources} = {e.sourceId : e \in g.edges}
    /\ {a.id : a \in g.apps} = {e.appId : e \in g.edges}

\* The two places that decide what a hovered card highlights agree, also when
\* the hovered card was filtered or polled away: an edge is drawn at full
\* strength exactly if neither of its cards is faded.
HighlightAgrees ==
  \A c \in DOMAIN graphs :
    LET g == graphs[c] IN
    \A e \in g.edges :
      isAdjacent(hover[c], e) <=> /\ ~dimmed(g, hover[c], "source", e.sourceId)
                                  /\ ~dimmed(g, hover[c], "app", e.appId)
=============================================================================
