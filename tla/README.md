# Verification of yafu

yafu is a dashboard for FluxCD: one Go server that connects to many Kubernetes
clusters, lists and changes Flux objects there on behalf of users, and pushes
change notifications to a React UI. This directory holds TLA+ models of its
stateful parts, TLC runs that check them on small instances, and TLAPS proofs
that extend the most important results to every instance.

## The system

| Part | Code | State it keeps | Operations |
|---|---|---|---|
| Event hub | `internal/watch/hub.go` | set of subscribers, one buffered channel each | Subscribe, unsubscribe, Publish |
| SSE handler | `internal/api/stream.go` | one goroutine and one subscription per browser | serve |
| Watch manager | `internal/watch/manager.go` | running watchers by cluster name | sync every 15 s, shutdownAll |
| Cluster watcher | `internal/watch/watcher.go` | one goroutine and one watch stream per Flux kind | watchKind, consume |
| CRD registry | `internal/cluster/registry_crd.go`, `registry.go` | map and order slice of entries; status snapshot per entry | List, Get, Set, Delete, SetStatus |
| Cluster controller | `internal/controllers/cluster_controller.go` | none of its own: CRs, registry, queue | Reconcile |
| Prober | `internal/cluster/prober.go` | none | Probe |
| File registry | `internal/cluster/registry_file.go` | entries fixed at start-up, statuses | NewFileRegistry, Start |
| Mutations, audit | `internal/api/*mutations.go`, `rollback.go`, `internal/audit` | none: the objects in the clusters, the audit log | reconcile, suspend, resume, rollback |
| RBAC policy | `internal/auth/policy.go` | immutable rules | Authorize |
| Sessions | `internal/auth/oidc.go`, `middleware.go` | cookies in the browser, cookie secret | login, callback, logout, verify |
| List handlers | `internal/api/{applications,sources,alerts,events,images,clusters}.go` | none; one goroutine per cluster and request | list |
| Log stream | `internal/api/logs.go` | scanner goroutine, line channel | logs, logsStream |
| Tree, drift | `internal/api/{tree,diff}.go` | none; bounded fan-out | tree, diff |
| Rendering | `internal/render`, `internal/api/render.go` | temporary directories | render, DiffResources |
| History, manifests | `internal/api/{history,manifest,helm_release_storage}.go` | none | decode and format |
| Query cache | `web/src/lib/{queries,stream,api}.ts`, `main.tsx` | answers by query key, debounce timers, EventSource, mutations in flight | poll, invalidate, mutate, handleUnauthorized |
| Dependency graph | `web/src/lib/depGraph.ts`, `pages/Dependencies.tsx` | filters, hovered card, memoised graphs | buildClusterGraphs, filterGraph, isAdjacent |
| List pages | `web/src/pages/{Apps,Sources,Images,Alerts,Mobile}.tsx` | filters, ticked rows, one mutation observer per verb | press a button, bulk reconcile, select |
| Frame | `web/src/App.tsx`, `components/{Sidebar,Topbar}.tsx`, `pages/Fleet.tsx` | preferences in `localStorage`, chosen cluster, palette, open drawer | navigate, choose, open, close |
| Drawer | `web/src/pages/AppDetail.tsx` | tab, focus to give back, live log, revision picked, selection of the rendered diff | setTab, setPod, append, onRollback, setSelectedIdx |
| Server, start-up | `internal/server`, `cmd/yafu/main.go` | handler chain, process context | New, Run |

**How they interact.** The controller (in-cluster mode) or the file registry
(development) fills the registry. The watch manager reads the registry on a tick
and keeps one cluster watcher per entry, tied to the entry's client. Cluster
watchers publish every event of their streams to the hub; each SSE handler owns
one subscription, filters it by the user's rights and writes frames to the
browser. There each event invalidates the query keys of its kind, 300 ms after the
last such event; every list a component shows is also polled. Pages are functions of
the cached answers and of what the user has chosen from earlier ones; their buttons
run mutations that invalidate the same cache when they are answered. Handlers read the registry and the
entry's status and call the target cluster through the entry's client. The server
is one process: registry, watchers, hub and subscriptions are lost in a restart, the
Cluster CRs and the target clusters are not; a reload of the page loses everything
but the preferences.

**What is hard.** A send racing a close in the hub; lock preference between
endless publishers and a leaving subscriber; a controller that acts on a lagging
cache and whose writes conflict; re-created objects with equal generations;
credentials that rotate behind a cached client; watchers that outlive the entry
they were started for; wake-ups and watch streams lost at the wrong moment; the
read-modify-write of mutations; a late answer that overwrites a newer one; choices,
selections and cursors that outlive the answer they were made from; one observer
shared by all rows of a table; an effect that runs again at every render; two logins
sharing a cookie; timers that are postponed for ever. `PROJECT.json` lists each of these hazards at its line.

**What makes each part correct.** Hub: no panic, no blocked publisher, every
unsubscribe returns. SSE handler: ordered, filtered, no unexplained loss, no
leak, and to a browser an event is announced at one moment. Registry: map and slice agree, order is stable. Controller: what it reports
is what it serves, it converges after any disturbance and never falls asleep.
Manager and watchers: at most one live watcher per cluster, on the current
client; every change of an object that stays announced; nothing left over. Mutations: one audit record
that tells the truth, no lost update. Sessions: a callback completes only the
login that started it. List handlers: every permitted cluster answers once, with
data or an error, before the deadline. Query cache: after a successful mutation its
list never rests on an older answer, and what is shown catches up with the server.
Dependency graph: complete, connected under every filter, highlighted consistently.
Pages: a disabled button has a call in flight, ticks survive polls and failures.
Frame and drawer: choice and cursor point at what is there, the focus goes back, the live log holds what was picked.

## Modules

| Module | Models | Built on |
|---|---|---|
| `Hub` | `hub.go` | |
| `StreamHandler` | `stream.go`, the handler chain of `server.go`, the publishing side of `watcher.go` | extends `Hub`, conjoining its actions; implements `Feed` |
| `Feed` | what `/api/v1/stream` promises to a browser | |
| `CRDRegistry` | `registry_crd.go`, `Entry.SetStatus` | |
| `ClusterReconciler` | `cluster_controller.go`, with API server, informer, queue, Secrets and clusters as environment | extends `CRDRegistry` |
| `WatchManager` | `manager.go`, `watcher.go`, with the clusters as environment | extends `CRDRegistry` |
| `Mutations` | `mutations.go`, `rollback.go`, and through them `source_mutations.go`, `image_mutations.go`, `alert_mutations.go`; Flux, operators and API server as environment | implements `AtomicMutations` |
| `AtomicMutations` | what the mutation endpoints promise about an object | |
| `QueryCache` | `queries.ts`, `stream.ts`, `api.ts`, `main.tsx`, with TanStack Query, EventSource and server as environment | |
| `DepGraph` | `depGraph.ts` and `filterGraph` of `Dependencies.tsx`: operators only | |
| `Dependencies` | the page of `Dependencies.tsx` over two polled lists | extends `DepGraph` |
| `Pages` | `Apps.tsx`, `Sources.tsx`, `Images.tsx`, `Alerts.tsx`, `Mobile.tsx` over mutation observers | |
| `Shell` | `App.tsx`, `Sidebar.tsx`, `Topbar.tsx`, `Fleet.tsx`, the preferences panel, and the drawer's effect | |
| `AppDetail` | the tabs and the Logs tab of `AppDetail.tsx` | |
| `Console` | frame and drawer together | extends `Shell` and `AppDetail`, conjoining their actions |
| `MCStream`, `MCReconciler`, `MCCache`, `MCDependencies`, `MCPages`, `MCConsole` | instances for TLC | |
| `StreamProofs` (hub and handlers), `RegistryProofs`, `ReconcilerProofs`, `WatchProofs`, `MutationsProofs`, `QueryCacheProofs`, `PagesProofs` (pages and dependency graph), `ConsoleProofs` | theorems | |

### Hub

`subs`, `ch`, `closed` are `Hub.subs`, the subscribers' channels and which of them
are closed. `spc`, `upc`, `ppc` say where each call of Subscribe, unsubscribe and
Publish is. A section under `mu.Lock` is one step; the loop of Publish under
`mu.RLock` takes one step per subscriber, because two publishers run it at the
same time; `close(s.ch)`, after the unlock, is its own step. `CanLock` and
`CanRLock` are `sync.RWMutex`: a waiting writer holds off new readers. A send on,
or a second close of, a closed channel adds the goroutine to `panics`.

### StreamHandler

`hpc` is where a browser's handler is, `out` what it has written. The handler's
calls are the hub's actions: `Subscribe` conjoins `SubscribeCall`, `Unregister`
conjoins `UnsubDelete`, and so on. Events are numbered per watcher so that order and loss can
be stated. `Chain` is the list of wrappers around the ResponseWriter: the run
`stream` uses none, as the unit tests do, and `stream_chain` the production one.

`Feed` is the promise, without locks, iterations and channels: a watcher's event is
announced in one step to every browser connected at that moment; each of them then gets
it or loses it to a full queue before the watcher can announce again; a browser leaves in
one step, between announcements, and gets nothing any more. In the code an announcement
is an iteration that takes a step per subscriber, next to those of other watchers, and
leaving takes a lock, a `delete`, an unlock and a `close`. `ImplementsFeed` maps them:
`Announced` counts a Publish from the moment it has the read lock, `Connection` takes a
browser for gone with the `delete`, what is still to be visited is pending.

### ClusterReconciler

`api` is the CR in the API server, `cache` what the controller sees. `queue` is a set
of names, because the work queue keeps each name once; `timer` holds delayed requeues. A Reconcile is split where other
actors can interfere: read and decide (`ReconcileStart`), connect and register
(`Connect`, `ConnectFails`), probe (`Probe`), write the status (`WriteStatus`,
which fails when the object changed and may fail anyway). A connection is what
`spec.connection` selects; `secret[c]` is the credential version stored for it,
0 if unusable, `valid[c]` the one its cluster accepts; `Unstable` bounds the
connections to which that, or the network, may happen. `restarts` clears all
memory.

### WatchManager

A registry entry is represented by its client, the identity `sync` compares. The
loop over the list is one step per entry, so the registry changes under it.
`gpc[<<c, k>>]` is where the goroutine for kind `k` of the watcher on client `c`
is. Client identities are reused once nothing refers to them, so that a cluster's
client can be replaced for ever in a finite model. `unannounced` holds the kinds
changed since their last Publish, `exists` those with an object. A deletion
(`ObjectDeleted`) is known to the streams open at that moment only: the list that a later
one starts with no longer has the object, which is why the announcement properties speak of
objects that are still there.

### Mutations

`obj` is the Flux object in its cluster, cut down to the fields requests are about;
`req[r]` what request `r` asks for, `rpc[r]` where its goroutine is. `Get` reads the
object and makes the change in memory (`base`, `wanted`); `Patch` applies
`Merged`, which is `client.MergeFrom`: fields that did not change are not sent. All
exits but the two of `RejectBody` go through `Finish`, the deferred audit record.
After `Patch` the handler either answers (`Answer`) or reports an error for a change
that was made (`AnswerLost`). The five handler files differ in the Go types they
decode into, so one object stands for every kind; a `version` of `Unpinned` is what
a rollback does not support. `FluxStarts` and `FluxEnds` are a Flux controller that
works on a `requestedAt` it has not handled and reports the value it saw first.

`AtomicMutations` is the promise: one step between a request's arrival and its answer
changes the object, and only as the request says. `Progress` maps a handler to it: a
request that finds its change already made takes effect when it reads, any other
when it is patched. A rollback promises less, as the module says: if the version was
already the one asked for when the object was read, it is not sent.

### QueryCache

An answer is abstracted to a version: `truth[k]` is what the server would answer to key
`k` now, `q[k].data` what the browser shows. A fetch is asked, answered and delivered in
three steps, so that a change, a poll or an invalidation falls between any two of them;
an invalidation cancels the fetch in flight and asks again, and a fetch that fails is
tried again `Retry` times. `INVALIDATIONS` is the table of `stream.ts` with all its
kinds, `Hooks` the list of mutation hooks with what each invalidates, and
`PartialMatch` is how TanStack Query matches a prefix. `owed[k]` remembers how new the
answer of `k` must be since a mutation of an object it shows succeeded. A 401 leaves for
the login page; `Load` is its return, with an empty cache.

### DepGraph and Dependencies

`buildClusterGraphs` joins two lists into nodes and edges per cluster, `filterGraph`
keeps what a status and a search ask for. `Dependencies` holds the page's two memoised
values, recomputed by `Render` in every step, the filters, and per cluster the hovered
card with the edges measured for it. `AppsAnswer` and `SourcesAnswer` are separate: an
application may name a source only one list knows. Where an edge is drawn is layout.

### Pages

A call has a state of its own and one observer that follows it until another call takes
the observer over: `Behind` says which call a button's busy mark shows, the row's own
(Mobile's cards) or the table's last (the others). The five `RowOf...` operators and
`IncidentCard` give the buttons of each page; `onReconcileSelected` is the bulk button of
Apps, whose success clears the selection, and `reconcileAll` the one of Sources.

### Shell, AppDetail and Console

`Shell` has the preferences, the clusters known, the rows shown, the open application,
the palette (how many items it lists, and its cursor) and the keyboard focus.
`DrawerEffect` is the drawer's effect, which runs again at each render of App.
`AppDetail` has the tab and the Logs tab: what was picked, the last answer, the URL
streamed, where the lines of the buffer came from. `Console` is both: a step of the
frame says by `DrawerStep` whether the drawer's state is kept, gone, new, or kept for
another application. A render and the effects it starts are one step, so the one commit
in which a choice not in the list any more, or a cursor behind a list that has shrunk, is
rendered before the effect mends it (`App.tsx:95`, `Topbar.tsx:213`) is not in the model.

## Runs

| Run | Bounds | Shows |
|---|---|---|
| `hub` | 2 publishers (endless), 2 subscribers, 2 call sites, buffer 1, 1 payload | no panic, silence after removal, every Publish and unsubscribe returns |
| `stream` | 1 watcher with 3 events, 2 browsers with different rights, buffer 2 | order and filtering, no unexplained loss, delivery, no leak, implements `Feed` |
| `stream_chain` | 1 browser, production chain | **violated**: no browser is ever served |
| `reconciler_safety` | 1 name with 2 incarnations and 2 generations, 2 connections, 1 restart | reported specs are served, no lost wake-up, registry consistent |
| `reconciler_live` | 1 name with 2 generations, 2 connections, one of them with 2 credential versions and a failing network, 1 restart | convergence, endless probing, forgetting |
| `watch` | 1 cluster, 2 client identities, 1 kind | single live watcher, current client, announcement of changes and late CRDs, nothing left over |
| `mutations` | 2 requests of any kind, 1 object, 2 versions, 1 write by an operator | truthful audit records, reconcile requests served, implements `AtomicMutations` |
| `rollback_force` | 1 request | **violated**: the two annotations of a rollback differ |
| `cache` | 1 list over 2 objects of different kinds, 1 mutation in flight, 2 changes, 1 retry | read your writes, freshness |
| `dependencies` | 6 applications and 5 sources in 2 clusters, 3 searches, all filters | graph complete, connected, consistently highlighted |
| `pages` | 2 rows, 2 calls, the five pages | busy marks are true, selection survives |
| `console` | 2 applications, 2 clusters, 2 pods with 2 containers, palettes of at most 2 items | valid choice and cursor, focus given back, no foreign lines |

**Why the bounds are enough.** Hub: the races are between one sender, one closer
and one bystander; two of each actor give every pair, and a buffer of one is full
after one event. Stream: three events overflow a buffer of two, and one browser
may read the cluster and one may not. Two publishers that send into one channel are
out of TLC's reach here; they are in `hub` and in the proofs of `OrderedFeed`,
`NoSilentLoss` and `ImplementsFeed`. Controller: names share only the worker and the order slice, which is
proved for every number of names; two generations and two incarnations give an
edit and a re-creation, two connections make them distinguishable. The liveness run has
the edit, and a deletion; re-creation is in the safety run only. Manager: each
cluster and kind has its own goroutine and its own key; two client identities, with
reuse, give an endless sequence of replacements. Mutations: handlers share nothing
but the object; two requests and one other writer give every order of two reads, two
patches and a foreign write, and the proofs cover the other sizes. Cache: keys share
only the mutations and the timers; two changes give an answer that is stale, and one
that is stale again while the next is in flight; the proof of `ReadYourWrites` covers
any keys and any number of calls. Dependencies: the objects are chosen so that a
reference without a kind, one with the wrong kind, a missing source, two kinds under one
name and a cluster that has only one of the two lists all occur. Pages and console: two
of each thing is enough to take one for the other, and a list of two can shrink under
its second; symmetry is used where the elements are interchangeable, with safety
properties only.

**Fairness.** Goroutines inside a call keep being scheduled (weak fairness); a Go
select picks among ready cases at random, so a case that stays ready is taken
(weak), and one that is ready again and again is not overlooked for ever (strong,
`ShutdownAll`). controller-runtime's informer, timers and worker run (weak); reading
a CR does not fail for ever (strong on the two outcomes of a successful read).
Opening a stream and keeping it until its next event does not fail for ever, per
cluster and kind (strong). A mutation handler that has entered goes on (weak; its
10 s budget ends a call that does not return), and a Flux controller works on what it
has not handled (weak); no request is obliged to arrive. In the browser polling goes on
(weak), and a server asked again and again answers and is heard once in a while
(strong), which also says that the fetches of a key are not all cancelled by the next
invalidation for ever; nothing is assumed of the event stream, whose events may all be
lost. `pages`, `dependencies` and `console` check safety only. No browser, operator,
publisher or cluster is obliged to do anything. A property about delivery states the calm it needs in its premise.

**Deadlock** is checked in `hub`, `dependencies`, `pages` and `console`. Elsewhere the bounds on events, edits, rotations
and restarts, or the server's shutdown, let the system really stop.

## Proofs

Assumptions: `BufSizeAssumption` (a positive capacity), `NoEntryAssumption`
(absence is not an entry), `NoClientAssumption` (no watcher is no entry),
`MaxEditsAssumption` (a bound is a number), `EntryAssumption` and `RecAssumption`
(what an entry records; at least one connection; bounds are numbers), `CacheAssumption`
(every kind of an object has its row in `INVALIDATIONS`; bounds are numbers),
`DependenciesAssumption` (cluster, namespace, kind and name identify a source),
`ShellAssumption` (the rows are none of the other elements; lists hold clusters),
`StreamAssumption` (a watcher's events are numbered; a handler has one call site of
unsubscribe, its `defer`) and `PagesAssumption` (the table is none of its rows, no call
is no call's record). TLC evaluates all of them.

* **Hub.** `NoPanic` is not inductive. `HubInv` adds: a closed channel is in no map
  and no iteration; one body per once; a subscriber whose close is due is already out
  of the map and of every iteration (because the write lock waited for the readers);
  iterations hold the read lock and visit registered subscribers. From it follow
  `HubTypeOK`, `NoPanic`, `ClosedIsUnreachable` and the action property
  `SilentAfterDelete`, for any number of goroutines and any capacity. `NobodyStuck`
  is the absence of a deadlock, stated by the guards of the steps instead of ENABLED:
  while any goroutine is in a call of the hub, one of them can take its next step. It
  needs `OnceInv`: a once that is running has its runner, so that who waits for it waits
  for somebody, and the runner waits only for readers, who never wait inside their loop.
* **SSE handler.** The lemma `StreamStepHub` says that every step of the composition is a
  step of the hub or none, so that the hub's invariants hold with the handlers in place.
  `OrderedFeed` and `NoSilentLoss` are parts of `StreamInv`
  with what keeps them. `OrderInv`: what was written, followed by what the channel holds,
  has each watcher's events in order, and all of them are older than the one that the
  watcher has still to offer; a publisher sends its last event only, and each subscriber
  is visited once per Publish. `LossInv`: an owed event that is not accounted for is the
  one being published, to somebody still to be visited. `StreamLifetime` follows the
  handler and its one unsubscribe call: in its loop a handler never finds its channel
  closed, which is why the branch of `stream.go:60` is no action of the model, and
  a handler that returned or was refused is in no map. `StreamImplementsFeed` needs in
  addition `FreshInv`: the channel of a browser that has not subscribed is empty. The
  read lock gives the rest: while a Publish iterates nobody joins or leaves
  the map, so that whom it visits is exactly who was connected when it took the lock, and
  who leaves has nothing pending. TLC checked `StreamInv` with
  two watchers of two events, two browsers and a buffer of one before it was proved.
* **Registry.** Lemmas say what cutting one element out of a sequence keeps; from
  them `OrderMatchesEntries` is inductive, and the relative order of the clusters
  that stay is stable (`OrderIsStable`). `List = order` whenever the two agree, by
  induction over the loop: `Listed` is a recursive function, and the least index at
  which it would differ from a prefix of the slice cannot exist.
* **Controller.** The registry lemmas are reused for every action that writes it.
  `AlwaysScheduled` needs types and that a running Reconcile's name is in its hands.
  `ObservedSpecIsServed` needs `ObsInv`: the entry in hand agrees with the copy of
  the CR being reconciled, every copy of a first incarnation (in the cache, in the
  Reconcile) with the generation of another has its connection, and a status only
  ever claims a generation the entry was built from.
* **Watch manager.** `NoStrayWatcher` and `RunningIsLive` need to know why `sync`,
  which works on a list taken earlier, never cancels the watcher of the client the
  registry holds: `SnapInv` says that a watcher that still is the registry's at its
  turn is in the list with that client, `ClientsInv` that a client belongs to one
  cluster wherever it is held. From them, for any number of clusters, clients and
  kinds, each cluster has at most one live watcher, the one in `m.running`.
  `ChangeKept` needs that a change not announced yet is queued in every stream open for
  it (`QueuedInv`) and that a watcher not cancelled has all its goroutines (`RunningInv`): a change not
  announced yet, of an object that is still there, is queued in its stream, or the next
  stream starts with it, unless the goroutine has given up on the kind (`watcher.go:71`).
* **Mutations.** `AuditTruth` and the refinement need `Course`: the record and the fate
  of a request agree with where its handler is, and between reading and patching
  (`Wants`) the handler's copy differs from what it read in the fields of its verb
  only, and not at all exactly for the requests that found their change made.
  `MutationsAtomic` then maps `Get` and `Patch` to the abstract effect on the object
  as it is at that moment, whatever was written in between, and every other step to
  an abstract step or a stutter.
* **Query cache.** `CacheInvariant` says of every fetch in flight after which version it
  was asked and at which it was answered, and that a shown query which owes the user a
  version has it, or is invalidated, or has a fetch in flight that was asked after the
  mutation. `ReadYourWrites` is its last part.
* **Dependency graph.** `DepInvariant` says that both memoised graphs are those of the
  last answers under the chosen filters. The three properties are then lemmas about
  `buildClusterGraphs`, `filterGraph`, `dimmed` and `isAdjacent` for two arbitrary
  lists: every object has exactly one place, a surviving edge has both its ends, a card
  is dimmed exactly when no highlighted edge ends in it.
* **Pages.** `PagesInv` says why a disabled button is enough: a pending observer's call is
  in flight with the observer's rows (`Waits`), and on the on-call page each call made
  there is followed by the observer of its own card (`CardFollows`), so that a card whose
  button can be pressed has no call in flight (`OneCallPerCard`). On the other pages the
  observer is the table's and the second part does not hold. `SelectionSurvives` goes
  action by action from the types.
* **Console.** One small invariant per property: the choice is kept by the effect on
  the ids (`ClusterInv`), the cursor by the clamp, the lines by what a pick clears
  (`StreamInv`: what is streamed agrees with what is picked); for `FocusReturns`,
  `FocusInv` says that while the opener exists it is what the effect remembers,
  however often clean-up and effect have run.

Model-checked only: liveness, which is out of the prover's reach. Those are `CallsReturn`,
`EventuallyForwarded`, `NoSubscriberLeak`, `Converges`, `ProbedForEver`, `DeletedForgotten`,
`ForgottenGoesQuiet`, `WatchesCurrentClient`, `ChangesAnnounced`, `LateCRDAnnounced`,
`ShutdownStopsWatchers`, `RequestsServed` and `EventuallyFresh`. For four of them
the proofs have the safety half: `NobodyStuck`, `NoSilentLoss`, `AlwaysScheduled` and
`ChangeKept` say that what the property waits for is never lost. `ImplementsAtomic` and
`ImplementsFeed` are proved as the safety formulas they are: neither states fairness.

## Disagreements between code and comments

Two are checked by runs that end in a counterexample:

* `stream_chain`: the status recorder hides `http.Flusher`, so streams answer 500 in
  production (`middleware.go:90`, `stream.go:28`);
* `rollback_force`: a rollback's force token never equals its request token, so no
  release is forced (`rollback.go:79`).

The models contain these too, without a run of their own, unless the entry says otherwise.
In the server:

* a re-created Cluster has generation 1 again and keeps the former's connection for up
  to five minutes (`cluster_controller.go:65,72`); `ObservedSpecIsServed` speaks of first
  incarnations for that reason;
* the controller's own status write is an event in its queue and starts the next round
  (`cluster_controller.go:46,50`); during a rebuild readers see a healthy cluster as
  unreachable (`:107`);
* a closed watch stream is reopened without a back-off (`watcher.go:43,86`), and a deletion
  that falls between two streams is announced by neither (`watcher.go:98`);
* a rollback refused for its body leaves no audit record (`rollback.go:39`), while
  `docs/threat-model.md:80` says "Mutations always emit one audit record";
* `rollback.go:22` expects `{ "revision": "<chart-version>" }` and writes it into
  `spec.chart.spec.version` as it is (`:77`); the rows of the History tab carry, and the
  drawer sends, the label `history.go:92` makes of version and release number
  ("58.3.0 · v3", `history_test.go:53`). The models take a revision for a version, so this
  one is not in them.

In the query cache:

* `stream.ts:16` says that the invalidations reach the details; the prefixes it lists for
  them match no key of `queries.ts`;
* `queries.ts:343` says "fail fast", but the calls are awaited by `allSettled`, and when one
  fails nothing is invalidated, not even for those that succeeded;
* a mutation that succeeds while its list is unmounted with a fetch in flight leaves
  the older answer in the cache until the next poll; `ReadYourWrites` is about lists
  shown since;
* each invalidation cancels the fetch in flight: events closer together than the
  server's latency cancel every fetch, the polls' included, and nothing fresh is shown until they
  pause; `EventuallyFresh` assumes that they do.

In the pages:

* a source reference with a kind falls back to the only source of its name, of any kind
  (`depGraph.ts:84`), though the page says it joins on the kind too (`Dependencies.tsx:78`);
* `Dependencies.tsx:193` says both endpoints of an edge survive both filters; a search keeps
  an edge when either end matches;
* while the sources load or fail every application is an orphan; one without a
  reference is in no list; the cluster filter stays when its cluster is gone;
* rows of a table share one observer per verb: a second call takes the busy mark and
  the error of the first; "Reconcile all" of Sources shows the last call's error only;
* a bulk success clears ticks made since the call and ticks of hidden rows
  (`Apps.tsx:81,93`).

In the frame and the drawer:

* Escape in the palette also closes the drawer; the drawer's effect runs at each
  render of App and moves the focus to its close button, also from the palette's input
  (`AppDetail.tsx:46`);
* the drawer shows the row as it was when it was opened and has no key: another
  application opened over it keeps the tab, the pod, the lines and the revision picked
  for the former one, and a rollback goes to that revision (`AppDetail.tsx:1468`);
* lines of another pod are mixed in when the server, not the user, chooses another one;
  a reconnected stream repeats lines;
* Down in an empty palette puts the cursor before the first item: Enter then does
  nothing until it is moved (`Topbar.tsx:299`);
* the selection of the rendered diff is a place in the list: a poll may put another
  resource there, and past the end the pane shows the first and the rail marks none
  (`AppDetail.tsx:696`; the rendered diff is not modelled).

## Not modelled

* **Logins and sessions** (`oidc.go`, `middleware.go`): the server keeps no session; the
  state is in signed cookies and at the identity provider. What the browser does when a
  session ends is in `QueryCache`.
* **List handlers, tree, drift, log scanner**: bounded fan-outs of one request that keep
  nothing; the versions of `QueryCache` and the lines of `AppDetail` stand for what they
  answer. The race between the last buffered lines and the scanner's error
  (`logs.go:387`) is listed as a hazard and not covered.
* **Rendering, history, manifests, policy rules**: stateless text processing and
  third-party engines (kustomize, Helm), left to unit tests.
* **File registry**: development mode; only status snapshots change, as in `CRDRegistry`.
* **Other pages, components and tabs**: Activity, the identity, build and fleet panels of
  Settings, and the Overview, Tree, Drift, Events and YAML tabs render one
  query's answer; so does History, which also issues the rollback of the revision picked
  (its call is `useRollbackApp` of `QueryCache`, its choice is not modelled); so do the two
  modes of the rendered diff, with a filter and a selection in its rail; the filter
  chips of Sources, Images and Alerts only hide rows. The
  notification bell and the sparklines are not modelled.
* **Shutdown of the HTTP server** beyond the end of the process context, flag parsing,
  metrics, tracing, the wording of messages, layout, and the length of any time
  interval.
* **Proofs** of liveness.
