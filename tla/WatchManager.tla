---------------------------- MODULE WatchManager ----------------------------
(***************************************************************************)
(* internal/watch/manager.go and watcher.go over the CRD registry: the     *)
(* manager keeps one ClusterWatcher per registered cluster, tied to the    *)
(* client the registry holds; a ClusterWatcher runs one goroutine per Flux *)
(* kind that opens a watch stream and publishes what it carries.           *)
(*                                                                         *)
(* A registry entry is represented by its client, the only part the        *)
(* manager looks at; a client names the ClusterWatcher started with it.    *)
(* Hub.Publish is one step: it never blocks (Hub, CallsReturn).            *)
(* The clusters are external: a new stream first reports every existing    *)
(* object, then changes; a stream may end at any time, an attempt to open  *)
(* one may fail, and fails with "no match" while the kind's CRD is missing *)
(***************************************************************************)
EXTENDS CRDRegistry

CONSTANTS
  Kinds,
  NoClient   \* no watcher runs for a name

ASSUME NoClientAssumption == NoClient \notin Entry /\ NoClient = NoEntry

VARIABLES
  mpc,        \* where the manager's loop is
  snap,       \* rest of the list sync is working through
  seen,       \* names sync has met
  running,    \* m.running: name -> client of its watcher
  owner,      \* owner[c]: the cluster c was built for
  cancelled,  \* clients whose watcher's context was cancelled
  gpc,        \* gpc[c, k]: where the goroutine of c's watcher for k is
  pending,    \* streams with an undelivered event
  ctxDone,    \* the server's context is cancelled
  installed,  \* pairs <<n, k>>: k's CRD is installed on n
  exists,     \* pairs <<n, k>>: cluster n has an object of kind k
  unannounced \* pairs <<n, k>> changed since their last Publish

mgrVars == <<mpc, snap, seen, running, cancelled>>
netVars == <<installed, exists, unannounced>>
watchVars == <<regVars, owner, mgrVars, gpc, pending, ctxDone, netVars>>

Goroutines == Entry \X Kinds
Pairs == Names \X Kinds

Cancelled(c) == c \in cancelled \/ ctxDone
Subject(g) == <<owner[g[1]], g[2]>>

WatchInit ==
  /\ RegInit
  /\ mpc = "sync" /\ snap = <<>> /\ seen = {}
  /\ running = [n \in Names |-> NoClient]
  /\ owner \in [Entry -> Names] /\ cancelled = {}
  /\ gpc = [g \in Goroutines |-> "none"] /\ pending = {}
  /\ ctxDone = FALSE
  /\ installed \in SUBSET Pairs /\ exists = {} /\ unannounced = {}

----------------------------------------------------------------------------
(* The Cluster controller.  A client id is used again once nothing refers  *)
(* to it any more: every Set brings a client the manager has never seen.   *)
InUse(c) ==
  \/ \E n \in Names : entries[n] = c \/ running[n] = c
  \/ \E i \in DOMAIN snap : snap[i].client = c
  \/ \E k \in Kinds : gpc[<<c, k>>] \notin {"none", "skipped"}

Connect(n, c) ==
  /\ ~InUse(c)
  /\ Set(n, c)
  /\ owner' = [owner EXCEPT ![c] = n]
  /\ cancelled' = cancelled \ {c}
  /\ gpc' = [g \in Goroutines |-> IF g[1] = c THEN "none" ELSE gpc[g]]
  /\ UNCHANGED <<mpc, snap, seen, running, pending, ctxDone, netVars>>

Forget(n) ==
  /\ n \in Registered
  /\ Delete(n)
  /\ UNCHANGED <<owner, mgrVars, gpc, pending, ctxDone, netVars>>

----------------------------------------------------------------------------
(* Manager.Run and sync *)
SyncList ==
  /\ mpc = "sync"
  /\ snap' = [i \in DOMAIN List |-> [name |-> List[i], client |-> entries[List[i]]]]
  /\ seen' = {}
  /\ mpc' = "apply"
  /\ UNCHANGED <<regVars, owner, running, cancelled, gpc, pending, ctxDone, netVars>>

(* Mutant: the old watcher is replaced in the map but not cancelled. *)
SyncEntryKeepsOld ==
  /\ mpc = "apply" /\ snap # <<>>
  /\ seen' = seen \union {Head(snap).name}
  /\ snap' = Tail(snap)
  /\ running' = [running EXCEPT ![Head(snap).name] = Head(snap).client]
  /\ gpc' = [g \in Goroutines |-> IF g[1] = Head(snap).client /\ running[Head(snap).name] # g[1]
                                  THEN "check" ELSE gpc[g]]
  /\ UNCHANGED <<regVars, owner, mpc, cancelled, pending, ctxDone, netVars>>

(* Mutant: a running watcher is kept whatever the entry's client. *)
SyncEntryIgnoresClient ==
  LET n == Head(snap).name
      c == Head(snap).client
  IN
  /\ mpc = "apply" /\ snap # <<>>
  /\ seen' = seen \union {n}
  /\ snap' = Tail(snap)
  /\ IF running[n] # NoClient
     THEN UNCHANGED <<running, cancelled, gpc>>
     ELSE /\ running' = [running EXCEPT ![n] = c]
          /\ gpc' = [g \in Goroutines |-> IF g[1] = c THEN "check" ELSE gpc[g]]
          /\ UNCHANGED cancelled
  /\ UNCHANGED <<regVars, owner, mpc, pending, ctxDone, netVars>>

(* Mutant: the kinds the old watcher skipped are not tried again. *)
SyncEntryInheritsSkips ==
  LET n == Head(snap).name
      c == Head(snap).client
      Skipped(k) == running[n] # NoClient /\ gpc[<<running[n], k>>] = "skipped"
  IN
  /\ mpc = "apply" /\ snap # <<>>
  /\ seen' = seen \union {n}
  /\ snap' = Tail(snap)
  /\ IF running[n] = c
     THEN UNCHANGED <<running, cancelled, gpc>>
     ELSE /\ running' = [running EXCEPT ![n] = c]
          /\ cancelled' = cancelled \union ({running[n]} \ {NoClient})
          /\ gpc' = [g \in Goroutines |-> IF g[1] # c THEN gpc[g]
                                          ELSE IF Skipped(g[2]) THEN "skipped" ELSE "check"]
  /\ UNCHANGED <<regVars, owner, mpc, pending, ctxDone, netVars>>

SyncEntry ==
  LET n == Head(snap).name
      c == Head(snap).client
  IN
  /\ mpc = "apply" /\ snap # <<>>
  /\ seen' = seen \union {n}
  /\ snap' = Tail(snap)
  /\ IF running[n] = c
     THEN UNCHANGED <<running, cancelled, gpc>>
     ELSE /\ running' = [running EXCEPT ![n] = c]
          /\ cancelled' = cancelled \union ({running[n]} \ {NoClient})
          /\ gpc' = [g \in Goroutines |-> IF g[1] = c THEN "check" ELSE gpc[g]]
  /\ UNCHANGED <<regVars, owner, mpc, pending, ctxDone, netVars>>

(* Mutant: watchers of clusters that left the registry are not stopped. *)
SyncSweepNothing ==
  /\ mpc = "apply" /\ snap = <<>>
  /\ mpc' = "wait"
  /\ UNCHANGED <<regVars, owner, snap, seen, running, cancelled, gpc, pending, ctxDone, netVars>>

(* Mutant: a swept watcher is cancelled but stays in m.running. *)
SyncSweepKeepsKey ==
  /\ mpc = "apply" /\ snap = <<>>
  /\ cancelled' = cancelled \union ({running[n] : n \in Names \ seen} \ {NoClient})
  /\ mpc' = "wait"
  /\ UNCHANGED <<regVars, owner, snap, seen, running, gpc, pending, ctxDone, netVars>>

SyncSweep ==
  /\ mpc = "apply" /\ snap = <<>>
  /\ running' = [n \in Names |-> IF n \in seen THEN running[n] ELSE NoClient]
  /\ cancelled' = cancelled \union ({running[n] : n \in Names \ seen} \ {NoClient})
  /\ mpc' = "wait"
  /\ UNCHANGED <<regVars, owner, snap, seen, gpc, pending, ctxDone, netVars>>

Tick ==
  /\ mpc = "wait"
  /\ mpc' = "sync"
  /\ UNCHANGED <<regVars, owner, snap, seen, running, cancelled, gpc, pending, ctxDone, netVars>>

ShutdownAll ==
  /\ mpc = "wait" /\ ctxDone
  /\ cancelled' = cancelled \union ({running[n] : n \in Names} \ {NoClient})
  /\ running' = [n \in Names |-> NoClient]
  /\ mpc' = "stopped"
  /\ UNCHANGED <<regVars, owner, snap, seen, gpc, pending, ctxDone, netVars>>

Shutdown ==
  /\ ~ctxDone
  /\ ctxDone' = TRUE
  /\ UNCHANGED <<regVars, owner, mgrVars, gpc, pending, netVars>>

----------------------------------------------------------------------------
(* watchKind and consume, for goroutine g = <<client, kind>> *)
Goto(g, from, to) == gpc[g] = from /\ gpc' = [gpc EXCEPT ![g] = to]

Elsewhere == UNCHANGED <<regVars, owner, mgrVars, ctxDone, netVars>>

WatchStarts(g) ==
  /\ ~Cancelled(g[1])
  /\ Goto(g, "check", "stream")
  /\ Subject(g) \in installed
  /\ pending' = IF Subject(g) \in exists THEN pending \union {g} ELSE pending
  /\ Elsewhere

(* isNoKindError: the goroutine returns for good. *)
WatchSkipped(g) ==
  /\ ~Cancelled(g[1])
  /\ Goto(g, "check", "skipped")
  /\ Subject(g) \notin installed
  /\ UNCHANGED pending /\ Elsewhere

WatchFails(g) ==
  /\ ~Cancelled(g[1])
  /\ Goto(g, "check", "backoff")
  /\ UNCHANGED pending /\ Elsewhere

BackoffEnds(g) ==
  /\ Goto(g, "backoff", "check")
  /\ UNCHANGED pending /\ Elsewhere

(* Mutant: consume does not look at the context. *)
ReturnsBetweenStreams(g) ==
  /\ Cancelled(g[1])
  /\ gpc[g] \in {"check", "backoff"}
  /\ gpc' = [gpc EXCEPT ![g] = "none"]
  /\ pending' = pending \ {g}
  /\ Elsewhere

(* ctx.Err() at the head of the loop, or ctx.Done() in either select. *)
GoroutineReturns(g) ==
  /\ Cancelled(g[1])
  /\ gpc[g] \in {"check", "backoff", "stream"}
  /\ gpc' = [gpc EXCEPT ![g] = "none"]
  /\ pending' = pending \ {g}
  /\ Elsewhere

(* An event is taken off the stream and published. *)
Consume(g) ==
  /\ gpc[g] = "stream" /\ g \in pending
  /\ pending' = pending \ {g}
  /\ unannounced' = unannounced \ {Subject(g)}
  /\ UNCHANGED <<regVars, owner, mgrVars, gpc, ctxDone, installed, exists>>

(* Mutant: the goroutine returns when its stream ends. *)
StreamEndsForGood(g) ==
  /\ Goto(g, "stream", "none")
  /\ pending' = pending \ {g}
  /\ Elsewhere

(* The result channel is closed, or carries an Error event: straight back  *)
(* to the head of watchKind's loop.                                        *)
StreamEnds(g) ==
  /\ Goto(g, "stream", "check")
  /\ pending' = pending \ {g}
  /\ Elsewhere

----------------------------------------------------------------------------
(* The clusters: an object is created, updated or deleted, or a CRD        *)
(* installed.                                                              *)
ObjectChanges(x) ==
  /\ x \in installed
  /\ exists' = exists \union {x}
  /\ unannounced' = unannounced \union {x}
  /\ pending' = pending \union {g \in Goroutines : gpc[g] = "stream" /\ Subject(g) = x}
  /\ UNCHANGED <<regVars, owner, mgrVars, gpc, ctxDone, installed>>

(* Only the streams that are open report a deletion: the list a later one  *)
(* begins with does not have the object any more.                          *)
ObjectDeleted(x) ==
  /\ x \in exists
  /\ exists' = exists \ {x}
  /\ unannounced' = unannounced \union {x}
  /\ pending' = pending \union {g \in Goroutines : gpc[g] = "stream" /\ Subject(g) = x}
  /\ UNCHANGED <<regVars, owner, mgrVars, gpc, ctxDone, installed>>

InstallCRD(x) ==
  /\ x \notin installed
  /\ installed' = installed \union {x}
  /\ UNCHANGED <<regVars, owner, mgrVars, gpc, pending, ctxDone, exists, unannounced>>

----------------------------------------------------------------------------
SyncStep == SyncList \/ SyncEntry \/ SyncSweep

GoroutineStep(g) ==
  \/ WatchStarts(g) \/ WatchSkipped(g) \/ WatchFails(g) \/ BackoffEnds(g)
  \/ GoroutineReturns(g) \/ Consume(g) \/ StreamEnds(g)

ManagerNext ==
  \/ \E n \in Names, c \in Entry : Connect(n, c)
  \/ \E n \in Names : Forget(n)
  \/ SyncStep \/ Tick \/ ShutdownAll \/ Shutdown
  \/ \E g \in Goroutines : GoroutineStep(g)
  \/ \E x \in Pairs : ObjectChanges(x) \/ ObjectDeleted(x) \/ InstallCRD(x)

(* Goroutines are scheduled and a select does not overlook a ready case    *)
(* for ever; opening a stream of a kind of a cluster, and keeping it open  *)
(* until its next event, do not fail for ever.                             *)
ManagerFairness ==
  /\ WF_watchVars(SyncStep) /\ WF_watchVars(Tick) /\ SF_watchVars(ShutdownAll)
  /\ \A g \in Goroutines : /\ WF_watchVars(BackoffEnds(g))
                           /\ WF_watchVars(WatchSkipped(g))
                           /\ WF_watchVars(GoroutineReturns(g))
  /\ \A x \in Pairs :
       /\ SF_watchVars(\E g \in Goroutines : Subject(g) = x /\ WatchStarts(g))
       /\ SF_watchVars(\E g \in Goroutines : Subject(g) = x /\ Consume(g))

ManagerSpec == WatchInit /\ [][ManagerNext]_watchVars

FairManagerSpec == ManagerSpec /\ ManagerFairness

----------------------------------------------------------------------------
ManagerTypeOK ==
  /\ RegTypeOK
  /\ mpc \in {"sync", "apply", "wait", "stopped"}
  /\ snap \in Seq([name : Names, client : Entry])
  /\ seen \in SUBSET Names
  /\ running \in [Names -> Entry \union {NoClient}]
  /\ owner \in [Entry -> Names] /\ cancelled \in SUBSET Entry
  /\ gpc \in [Goroutines -> {"none", "check", "backoff", "stream", "skipped"}]
  /\ pending \in SUBSET Goroutines
  /\ ctxDone \in BOOLEAN
  /\ installed \in SUBSET Pairs /\ exists \in SUBSET Pairs /\ unannounced \in SUBSET Pairs

Alive(c) == \E k \in Kinds : gpc[<<c, k>>] \in {"check", "backoff", "stream"}

(* At most one ClusterWatcher per cluster has a live context, and it is    *)
(* the one in m.running: replacing a client never leaves two streams of a  *)
(* cluster feeding the hub for good, nor one nobody can cancel             *)
(* (manager.go:14-19).                                                     *)
NoStrayWatcher ==
  \A c \in Entry : Alive(c) /\ ~Cancelled(c) => running[owner[c]] = c

(* The manager's bookkeeping and the watchers agree in the other direction *)
(* too: what it believes to be running has not been cancelled by it, and   *)
(* no watcher serves two clusters.                                         *)
RunningIsLive ==
  \A n \in Names : running[n] # NoClient => owner[running[n]] = n /\ running[n] \notin cancelled

(* A cluster that leaves the registry for good ends up with no goroutine:  *)
(* no connection to it is kept and no event of it published any more.      *)
Quiet(n) == \A c \in Entry : owner[c] = n => ~Alive(c)

ForgottenGoesQuiet == \A n \in Names : <>[](n \notin Registered) => <>[]Quiet(n)

(* A client the registry holds on to ends up being the one that is         *)
(* watched: no stream survives on a stale connection.                      *)
WatchesCurrentClient ==
  \A n \in Names, c \in Entry :
    <>[](entries[n] = c /\ ~ctxDone) => <>[](running[n] = c /\ \A d \in Entry \ {c} : owner[d] = n => ~Alive(d))

(* A change of a watched kind is announced to the hub, across stream ends, *)
(* failed attempts and back-off, as long as the cluster keeps its client   *)
(* and the kind's CRD was there from the start of the watcher; unless the  *)
(* object is deleted meanwhile: a deletion between two streams reaches     *)
(* browsers through polling alone.                                         *)
ChangesAnnounced ==
  \A g \in Goroutines :
    <>[](running[owner[g[1]]] = g[1] /\ gpc[g] # "skipped" /\ ~Cancelled(g[1]))
      => []<>(Subject(g) \notin unannounced \intersect exists)

(* A kind whose CRD is installed after its goroutine gave up               *)
(* (watcher.go:71-76) is announced as well once the controller brings a    *)
(* new client, as it does every clientCacheMaxAge.                         *)
LateCRDAnnounced ==
  \A n \in Names, k \in Kinds :
    /\ []<><<\E c \in Entry : Connect(n, c)>>_watchVars
    /\ <>[](n \in Registered /\ <<n, k>> \in installed /\ ~ctxDone)
    => []<>(<<n, k>> \notin unannounced \intersect exists)

(* When the server stops, every watcher goroutine ends. *)
ShutdownStopsWatchers ==
  ctxDone ~> [](running = [n \in Names |-> NoClient] /\ \A c \in Entry : ~Alive(c))
=============================================================================
