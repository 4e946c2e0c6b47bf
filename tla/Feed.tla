-------------------------------- MODULE Feed --------------------------------
(***************************************************************************)
(* What /api/v1/stream promises to a browser, without locks, iterations,   *)
(* channels that are closed and functions that unsubscribe.  A watcher     *)
(* announces its events one after the other; an announcement is for the    *)
(* browsers connected at that moment, and each of them gets it into its    *)
(* queue, or loses it because the queue is full, before the watcher can    *)
(* announce again.  A browser is shown its queue in order, without what it *)
(* may not read, and leaves between announcements: afterwards nothing is   *)
(* kept for it.  Two browsers may see the events of two watchers in        *)
(* different orders.                                                       *)
(***************************************************************************)
EXTENDS Naturals, Sequences

CONSTANTS
  Watchers, Browsers,
  Capacity,   \* of a browser's queue
  MayRead     \* <<s, p>>: the user of browser s may read the cluster of p

VARIABLES
  conn,       \* conn[s]: "new", "open" or "left"
  announced,  \* announced[p]: number of events p has announced
  pending,    \* pending[s]: watchers whose last event s has neither got nor lost
  queue,      \* queue[s]: what waits to be shown
  shown       \* shown[s]: what s was shown

feedVars == <<conn, announced, pending, queue, shown>>

FeedInit ==
  /\ conn = [s \in Browsers |-> "new"]
  /\ announced = [p \in Watchers |-> 0]
  /\ pending = [s \in Browsers |-> {}]
  /\ queue = [s \in Browsers |-> <<>>]
  /\ shown = [s \in Browsers |-> <<>>]

Connect(s) ==
  /\ conn[s] = "new"
  /\ conn' = [conn EXCEPT ![s] = "open"]
  /\ UNCHANGED <<announced, pending, queue, shown>>

Announce(p) ==
  /\ \A s \in Browsers : p \notin pending[s]
  /\ announced' = [announced EXCEPT ![p] = @ + 1]
  /\ pending' = [s \in Browsers |->
                   IF conn[s] = "open" THEN pending[s] \union {p} ELSE pending[s]]
  /\ UNCHANGED <<conn, queue, shown>>

Accept(s, p) ==
  /\ p \in pending[s]
  /\ Len(queue[s]) < Capacity
  /\ queue' = [queue EXCEPT ![s] = Append(@, <<p, announced[p]>>)]
  /\ pending' = [pending EXCEPT ![s] = @ \ {p}]
  /\ UNCHANGED <<conn, announced, shown>>

Lose(s, p) ==
  /\ p \in pending[s]
  /\ Len(queue[s]) = Capacity
  /\ pending' = [pending EXCEPT ![s] = @ \ {p}]
  /\ UNCHANGED <<conn, announced, queue, shown>>

Show(s) ==
  /\ queue[s] # <<>>
  /\ queue' = [queue EXCEPT ![s] = Tail(@)]
  /\ shown' = [shown EXCEPT ![s] = IF <<s, Head(queue[s])[1]>> \in MayRead
                                   THEN Append(@, Head(queue[s])) ELSE @]
  /\ UNCHANGED <<conn, announced, pending>>

Leave(s) ==
  /\ conn[s] = "open"
  /\ pending[s] = {}
  /\ conn' = [conn EXCEPT ![s] = "left"]
  /\ queue' = [queue EXCEPT ![s] = <<>>]
  /\ UNCHANGED <<announced, pending, shown>>

FeedNext ==
  \/ \E s \in Browsers : Connect(s) \/ Show(s) \/ Leave(s)
  \/ \E p \in Watchers : Announce(p)
  \/ \E s \in Browsers, p \in Watchers : Accept(s, p) \/ Lose(s, p)

FeedSpec == FeedInit /\ [][FeedNext]_feedVars
=============================================================================
