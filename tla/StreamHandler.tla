--------------------------- MODULE StreamHandler ---------------------------
(***************************************************************************)
(* internal/api/stream.go: the SSE handler behind /api/v1/stream, one      *)
(* goroutine per connected browser, composed with the hub.  A subscriber s *)
(* of the hub is the request it belongs to; its only unsubscribe call site *)
(* is the handler's deferred call.  Watchers publish numbered events, so   *)
(* that order and loss can be stated.                                      *)
(*                                                                         *)
(* Heartbeats only write a comment frame and are left out.  The handler's  *)
(* return on a closed channel is left out as well: nobody but the handler  *)
(* closes the channel, and it has left its loop by then.                   *)
(***************************************************************************)
EXTENDS Hub

CONSTANTS
  ClusterOf,   \* ClusterOf[p]: the cluster watcher p reports on
  Allowed,     \* Allowed[s]: clusters policy.Authorize(id, "get", _) grants s
  MaxEvents,   \* bound: calls of Publish per watcher
  Deferred,    \* the one call site of unsub: the handler's defer
  Chain        \* the wrappers around the handler's http.ResponseWriter

ASSUME StreamAssumption ==
  /\ MaxEvents \in Nat \ {0}
  /\ Events = Publishers \X (1 .. MaxEvents)
  /\ Callers = {Deferred}

VARIABLES
  hpc,      \* hpc[s]: where s's handler is
  gone,     \* requests whose context is cancelled (the client left)
  out,      \* out[s]: invalidate frames written to s, in order
  sent,     \* sent[p]: number of Publish calls p has made
  owed,     \* history: events published after s's Subscribe had returned
  dropped   \* history: events dropped because s's buffer was full

handlerVars == <<hpc, gone, out>>
history == <<owed, dropped>>
streamVars == <<hubVars, handlerVars, sent, history>>

(***************************************************************************)
(* Which layers of the handler chain hand on http.Flusher: statusRecorder  *)
(* embeds the ResponseWriter interface and has no Flush method; otelhttp   *)
(* offers the interfaces of the writer it wraps; net/http's own writer and *)
(* the unit tests' recorder can flush.                                     *)
(***************************************************************************)
PassesFlush == [statusRecorder |-> FALSE, otelhttp |-> TRUE]

Flushes == \A i \in DOMAIN Chain : PassesFlush[Chain[i]]

ProductionChain == <<"statusRecorder", "otelhttp">>

StreamInit ==
  /\ HubInit
  /\ pev = [p \in Publishers |-> <<p, 1>>]
  /\ hpc = [s \in Subscribers |-> "connecting"]
  /\ gone = {}
  /\ out = [s \in Subscribers |-> <<>>]
  /\ sent = [p \in Publishers |-> 0]
  /\ owed = [s \in Subscribers |-> {}]
  /\ dropped = [s \in Subscribers |-> {}]

(***************************************************************************)
(* serve                                                                   *)
(***************************************************************************)
(* "streaming unsupported", or the headers and the hello frame, flushed. *)
Greet(s) ==
  /\ hpc[s] = "connecting"
  /\ hpc' = [hpc EXCEPT ![s] = IF Flushes THEN "greeted" ELSE "refused"]
  /\ UNCHANGED <<hubVars, gone, out, sent, history>>

Subscribe(s) ==
  /\ hpc[s] = "greeted"
  /\ SubscribeCall(s)
  /\ hpc' = [hpc EXCEPT ![s] = "subscribing"]
  /\ UNCHANGED <<gone, out, sent, history>>

EnterLoop(s) ==
  /\ hpc[s] = "subscribing"
  /\ SubscribeAdd(s)
  /\ hpc' = [hpc EXCEPT ![s] = "loop"]
  /\ UNCHANGED <<gone, out, sent, history>>

Authorize(s, e) == ClusterOf[e[1]] \in Allowed[s]

(* Mutant: invalidations are not filtered by RBAC. *)
ForwardUnfiltered(s) ==
  /\ hpc[s] = "loop"
  /\ Receive(s)
  /\ out' = [out EXCEPT ![s] = Append(@, Head(ch[s]))]
  /\ UNCHANGED <<hpc, gone, sent, history>>

Forward(s) ==
  /\ hpc[s] = "loop"
  /\ Receive(s)
  /\ out' = [out EXCEPT ![s] = IF Authorize(s, Head(ch[s])) THEN Append(@, Head(ch[s])) ELSE @]
  /\ UNCHANGED <<hpc, gone, sent, history>>

(* Mutant: no "defer unsub()". *)
LeaveSubscribed(s) ==
  /\ hpc[s] = "loop"
  /\ s \in gone
  /\ hpc' = [hpc EXCEPT ![s] = "returned"]
  /\ UNCHANGED <<hubVars, gone, out, sent, history>>

(* The select picks r.Context().Done(); the deferred unsub starts. *)
Leave(s) ==
  /\ hpc[s] = "loop"
  /\ s \in gone
  /\ UnsubCall(s, Deferred)
  /\ hpc' = [hpc EXCEPT ![s] = "leaving"]
  /\ UNCHANGED <<gone, out, sent, history>>

Unregister(s) ==
  /\ hpc[s] = "leaving"
  /\ UnsubDelete(s, Deferred)
  /\ UNCHANGED <<handlerVars, sent, history>>

Return(s) ==
  /\ hpc[s] = "leaving"
  /\ UnsubClose(s, Deferred)
  /\ hpc' = [hpc EXCEPT ![s] = "returned"]
  /\ UNCHANGED <<gone, out, sent, history>>

(* The browser navigates away, or its connection breaks. *)
Disconnect(s) ==
  /\ s \notin gone
  /\ hpc[s] \notin {"refused", "returned"}
  /\ gone' = gone \union {s}
  /\ UNCHANGED <<hubVars, hpc, out, sent, history>>

(***************************************************************************)
(* The watchers' side: ClusterWatcher.consume calls Hub.Publish.           *)
(***************************************************************************)
WatchEvent(p) ==
  LET e == <<p, sent[p] + 1>> IN
  /\ sent[p] < MaxEvents
  /\ PublishCall(p, e)
  /\ sent' = [sent EXCEPT ![p] = @ + 1]
  /\ owed' = [s \in Subscribers |-> IF hpc[s] = "loop" THEN owed[s] \union {e} ELSE owed[s]]
  /\ UNCHANGED <<handlerVars, dropped>>

Offer(p, s) ==
  /\ PublishSend(p, s)
  /\ dropped' = [dropped EXCEPT ![s] = IF Fits(s) THEN @ ELSE @ \union {pev[p]}]
  /\ UNCHANGED <<handlerVars, sent, owed>>

WatcherStep(p) ==
  \/ (PublishRLock(p) \/ PublishReturn(p)) /\ UNCHANGED <<handlerVars, sent, history>>
  \/ \E s \in Subscribers : Offer(p, s)

HandlerStep(s) ==
  \/ Greet(s) \/ Subscribe(s) \/ EnterLoop(s)
  \/ Unregister(s) \/ Return(s)

StreamNext ==
  \/ \E s \in Subscribers : HandlerStep(s) \/ Forward(s) \/ Leave(s) \/ Disconnect(s)
  \/ \E p \in Publishers : WatchEvent(p) \/ WatcherStep(p)

(* Goroutines keep being scheduled, and the select of the loop does not    *)
(* overlook a ready case for ever (Go picks among ready cases at random).  *)
(* Browsers and clusters are not obliged to do anything.                   *)
StreamFairness ==
  /\ \A s \in Subscribers : /\ WF_streamVars(HandlerStep(s))
                            /\ WF_streamVars(Forward(s))
                            /\ WF_streamVars(Leave(s))
  /\ \A p \in Publishers : WF_streamVars(WatcherStep(p))

StreamSpec == StreamInit /\ [][StreamNext]_streamVars /\ StreamFairness

----------------------------------------------------------------------------
Written(s) == {out[s][i] : i \in DOMAIN out[s]}
Buffered(s) == {ch[s][i] : i \in DOMAIN ch[s]}
Completed(e) == sent[e[1]] > e[2] \/ (sent[e[1]] = e[2] /\ ppc[e[1]] = "idle")

(* What a browser is sent, followed by what waits in its channel, holds    *)
(* each watcher's events in the order that watcher published them and none *)
(* twice, and nothing sent belongs to a cluster the user may not read      *)
(* (stream.go:63-70), with any number of watchers interleaving in Publish. *)
OrderedFeed ==
  \A s \in Subscribers :
    /\ \A e \in Written(s) : Authorize(s, e)
    /\ LET feed == out[s] \o ch[s] IN
       \A i, j \in DOMAIN feed : i < j /\ feed[i][1] = feed[j][1] => feed[i][2] < feed[j][2]

(* No event is lost without cause: once Publish has returned, an event     *)
(* published after s's Subscribe returned has been written, waits in the   *)
(* channel, was dropped by a full buffer, was filtered by RBAC, or s is    *)
(* leaving (hub.go:62-65).                                                 *)
Accounted(s, e) ==
  \/ e \in Written(s) \union Buffered(s) \union dropped[s]
  \/ ~Authorize(s, e)
  \/ hpc[s] \notin {"subscribing", "loop"}

NoSilentLoss ==
  \A s \in Subscribers, e \in Events : e \in owed[s] /\ Completed(e) => Accounted(s, e)

(* An event a browser is owed reaches it unless it was dropped or the      *)
(* browser leaves: nothing sits in a channel for ever.                     *)
EventuallyForwarded ==
  \A s \in Subscribers, e \in Events :
    (e \in owed[s] /\ Authorize(s, e)) ~> (e \in Written(s) \union dropped[s] \/ s \in gone)

(* A browser that leaves is forgotten: its subscription is removed, its    *)
(* channel closed and its goroutine gone, whatever the watchers do.        *)
NoSubscriberLeak ==
  \A s \in Subscribers :
    s \in gone ~> [](hpc[s] \in {"returned", "refused"} /\ s \notin subs)

(* A browser is connected while it is in the map.  Publish announces where *)
(* it takes the read lock and the snapshot of the map.                     *)
Connection(s) == IF s \in subs THEN "open" ELSE IF spc[s] = "open" THEN "left" ELSE "new"

Announced(p) == IF ppc[p] = "rlock" THEN sent[p] - 1 ELSE sent[p]

MayRead == {u \in Subscribers \X Publishers : ClusterOf[u[2]] \in Allowed[u[1]]}

Feed == INSTANCE Feed WITH
  Watchers <- Publishers,
  Browsers <- Subscribers,
  Capacity <- BufSize,
  conn <- [s \in Subscribers |-> Connection(s)],
  announced <- [p \in Publishers |-> Announced(p)],
  pending <- [s \in Subscribers |-> {p \in Publishers : s \in todo[p]}],
  queue <- [s \in Subscribers |-> IF s \in subs THEN ch[s] ELSE <<>>],
  shown <- out

(* The composition keeps the promise of Feed: seen from a browser, Publish *)
(* is an announcement that every registered browser gets once, or loses at *)
(* a full buffer; its handler's unsubscribe falls between two of them; and *)
(* the lock, the iteration in any order, the once and the closed channel   *)
(* are nothing it could notice (hub.go:62-76, stream.go:39-78).            *)
ImplementsFeed == Feed!FeedSpec

(* A browser that connects is served the stream (stream.go:13-16: "serves  *)
(* the long-lived SSE connection at /api/v1/stream").                      *)
StreamOpens ==
  \A s \in Subscribers : hpc[s] = "connecting" ~> (hpc[s] = "loop" \/ s \in gone)
=============================================================================
