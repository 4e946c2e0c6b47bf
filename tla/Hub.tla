-------------------------------- MODULE Hub --------------------------------
(***************************************************************************)
(* internal/watch/hub.go: the in-process event hub.  Watcher goroutines    *)
(* (Publishers) call Publish; every SSE handler owns one subscription      *)
(* (Subscribers) and may call its unsubscribe function from several places *)
(* (Callers).                                                              *)
(*                                                                         *)
(* Grain: a critical section under mu.Lock holds one map operation and is  *)
(* one step; a critical section under mu.RLock is the loop of Publish and  *)
(* takes one step per subscriber, so two publishers interleave inside it.  *)
(* close(s.ch) happens after mu.Unlock and is a step of its own: that is   *)
(* the window in which a send on a closed channel could panic.             *)
(***************************************************************************)
EXTENDS Naturals, Sequences

CONSTANTS
  Publishers,   \* goroutines that call Publish (one per cluster and kind)
  Subscribers,  \* subscriber objects, one per call of Subscribe
  Callers,      \* call sites of one subscription's unsubscribe function
  Events,       \* event payloads
  BufSize       \* capacity of a subscriber's channel (64 in the code)

ASSUME BufSizeAssumption == BufSize \in Nat \ {0}

VARIABLES
  subs,      \* h.subs
  ch,        \* ch[s]: the buffered events of s.ch
  closed,    \* subscribers whose channel has been closed
  spc,       \* spc[s]: where the call of Subscribe that creates s is
  once,      \* once[s]: the sync.Once guarding s's unsubscribe
  upc,       \* upc[<<s, c>>]: where call c of s's unsubscribe function is
  ppc,       \* ppc[p]: where p's call of Publish is
  pev,       \* pev[p]: the event of that call
  todo,      \* todo[p]: subscribers its range loop has still to visit
  panics     \* goroutines that panicked on a closed channel

hubVars == <<subs, ch, closed, spc, once, upc, ppc, pev, todo, panics>>

Calls == Subscribers \X Callers

(***************************************************************************)
(* sync.RWMutex.  Lock waits for the readers inside; RLock waits for every *)
(* writer that has called Lock (a pending writer holds off new readers).   *)
(***************************************************************************)
CanLock == \A p \in Publishers : ppc[p] # "send"

(* Mutant: a reader-preferring lock. *)
CanRLockReaderFirst == TRUE

CanRLock == /\ \A s \in Subscribers : spc[s] # "lock"
            /\ \A u \in Calls : upc[u] # "lock"

HubInit ==
  /\ subs = {}
  /\ ch = [s \in Subscribers |-> <<>>]
  /\ closed = {}
  /\ spc = [s \in Subscribers |-> "new"]
  /\ once = [s \in Subscribers |-> "fresh"]
  /\ upc = [u \in Calls |-> "ready"]
  /\ ppc = [p \in Publishers |-> "idle"]
  /\ pev \in [Publishers -> Events]
  /\ todo = [p \in Publishers |-> {}]
  /\ panics = {}

(***************************************************************************)
(* Subscribe: make the channel, wait for mu.Lock, then register.           *)
(***************************************************************************)
SubscribeCall(s) ==
  /\ spc[s] = "new"
  /\ spc' = [spc EXCEPT ![s] = "lock"]
  /\ UNCHANGED <<subs, ch, closed, once, upc, ppc, pev, todo, panics>>

SubscribeAdd(s) ==
  /\ spc[s] = "lock"
  /\ CanLock
  /\ subs' = subs \union {s}
  /\ spc' = [spc EXCEPT ![s] = "open"]
  /\ UNCHANGED <<ch, closed, once, upc, ppc, pev, todo, panics>>

(***************************************************************************)
(* The unsubscribe closure.  The first caller runs the body; a caller that *)
(* finds the body running waits in once.Do (not enabled here), and one     *)
(* that finds it done returns.                                             *)
(***************************************************************************)
UnsubCall(s, c) ==
  /\ spc[s] = "open"
  /\ upc[<<s, c>>] = "ready"
  /\ \/ /\ once[s] = "fresh"
        /\ once' = [once EXCEPT ![s] = "running"]
        /\ upc' = [upc EXCEPT ![<<s, c>>] = "lock"]
     \/ /\ once[s] # "fresh"
        /\ upc' = [upc EXCEPT ![<<s, c>>] = "once"]
        /\ UNCHANGED once
  /\ UNCHANGED <<subs, ch, closed, spc, ppc, pev, todo, panics>>

(* Mutant: the map entry is deleted without taking mu. *)
UnsubDeleteUnlocked(s, c) ==
  /\ upc[<<s, c>>] = "lock"
  /\ subs' = subs \ {s}
  /\ upc' = [upc EXCEPT ![<<s, c>>] = "close"]
  /\ UNCHANGED <<ch, closed, spc, once, ppc, pev, todo, panics>>

UnsubDelete(s, c) ==
  /\ upc[<<s, c>>] = "lock"
  /\ CanLock
  /\ subs' = subs \ {s}
  /\ upc' = [upc EXCEPT ![<<s, c>>] = "close"]
  /\ UNCHANGED <<ch, closed, spc, once, ppc, pev, todo, panics>>

UnsubClose(s, c) ==
  /\ upc[<<s, c>>] = "close"
  /\ closed' = closed \union {s}
  /\ panics' = IF s \in closed THEN panics \union {<<s, c>>} ELSE panics
  /\ once' = [once EXCEPT ![s] = "done"]
  /\ upc' = [upc EXCEPT ![<<s, c>>] = "returned"]
  /\ UNCHANGED <<subs, ch, spc, ppc, pev, todo>>

UnsubOnceDone(s, c) ==
  /\ upc[<<s, c>>] = "once"
  /\ once[s] = "done"
  /\ upc' = [upc EXCEPT ![<<s, c>>] = "returned"]
  /\ UNCHANGED <<subs, ch, closed, spc, once, ppc, pev, todo, panics>>

(***************************************************************************)
(* Publish: RLock, offer the event to every registered subscriber in map   *)
(* order (any order), RUnlock on return.  A full buffer drops the event.   *)
(***************************************************************************)
PublishCall(p, e) ==
  /\ ppc[p] = "idle"
  /\ ppc' = [ppc EXCEPT ![p] = "rlock"]
  /\ pev' = [pev EXCEPT ![p] = e]
  /\ UNCHANGED <<subs, ch, closed, spc, once, upc, todo, panics>>

PublishRLock(p) ==
  /\ ppc[p] = "rlock"
  /\ CanRLock
  /\ ppc' = [ppc EXCEPT ![p] = "send"]
  /\ todo' = [todo EXCEPT ![p] = subs]
  /\ UNCHANGED <<subs, ch, closed, spc, once, upc, pev, panics>>

(* Mutant: off by one at the limit of the buffer. *)
FitsOffByOne(s) == Len(ch[s]) =< BufSize

Fits(s) == Len(ch[s]) < BufSize

(* Mutant: the first full buffer ends the loop. *)
PublishSendGivesUp(p, s) ==
  /\ ppc[p] = "send"
  /\ s \in todo[p]
  /\ todo' = [todo EXCEPT ![p] = IF Fits(s) THEN @ \ {s} ELSE {}]
  /\ panics' = IF s \in closed THEN panics \union {p} ELSE panics
  /\ ch' = [ch EXCEPT ![s] = IF Fits(s) THEN Append(@, pev[p]) ELSE @]
  /\ UNCHANGED <<subs, closed, spc, once, upc, ppc, pev>>

PublishSend(p, s) ==
  /\ ppc[p] = "send"
  /\ s \in todo[p]
  /\ todo' = [todo EXCEPT ![p] = @ \ {s}]
  /\ panics' = IF s \in closed THEN panics \union {p} ELSE panics
  /\ \/ /\ Fits(s) /\ s \notin closed
        /\ ch' = [ch EXCEPT ![s] = Append(@, pev[p])]
     \/ /\ ~Fits(s) \/ s \in closed
        /\ UNCHANGED ch
  /\ UNCHANGED <<subs, closed, spc, once, upc, ppc, pev>>

PublishReturn(p) ==
  /\ ppc[p] = "send"
  /\ todo[p] = {}
  /\ ppc' = [ppc EXCEPT ![p] = "idle"]
  /\ UNCHANGED <<subs, ch, closed, spc, once, upc, pev, todo, panics>>

(* The owner of the subscription receives from its channel. *)
Receive(s) ==
  /\ spc[s] = "open"
  /\ ch[s] # <<>>
  /\ ch' = [ch EXCEPT ![s] = Tail(@)]
  /\ UNCHANGED <<subs, closed, spc, once, upc, ppc, pev, todo, panics>>

----------------------------------------------------------------------------
(* The steps a goroutine takes once it is inside a call of the hub. *)
SubscribeStep(s) == SubscribeAdd(s)

UnsubStep(s, c) == UnsubDelete(s, c) \/ UnsubClose(s, c) \/ UnsubOnceDone(s, c)

PublishStep(p) ==
  \/ PublishRLock(p)
  \/ \E s \in Subscribers : PublishSend(p, s)
  \/ PublishReturn(p)

HubNext ==
  \/ \E s \in Subscribers : SubscribeCall(s) \/ SubscribeStep(s) \/ Receive(s)
  \/ \E s \in Subscribers, c \in Callers : UnsubCall(s, c) \/ UnsubStep(s, c)
  \/ \E p \in Publishers : (\E e \in Events : PublishCall(p, e)) \/ PublishStep(p)

(* A goroutine inside the hub keeps being scheduled; nobody is obliged to  *)
(* call the hub, nor to read from a channel.                               *)
HubFairness ==
  /\ \A s \in Subscribers : WF_hubVars(SubscribeStep(s))
  /\ \A s \in Subscribers, c \in Callers : WF_hubVars(UnsubStep(s, c))
  /\ \A p \in Publishers : WF_hubVars(PublishStep(p))

HubSpec == HubInit /\ [][HubNext]_hubVars

FairHubSpec == HubSpec /\ HubFairness

----------------------------------------------------------------------------
HubTypeOK ==
  /\ subs \in SUBSET Subscribers
  /\ ch \in [Subscribers -> Seq(Events)]
  /\ \A s \in Subscribers : Len(ch[s]) =< BufSize
  /\ closed \in SUBSET Subscribers
  /\ spc \in [Subscribers -> {"new", "lock", "open"}]
  /\ once \in [Subscribers -> {"fresh", "running", "done"}]
  /\ upc \in [Calls -> {"ready", "lock", "close", "once", "returned"}]
  /\ ppc \in [Publishers -> {"idle", "rlock", "send"}]
  /\ pev \in [Publishers -> Events]
  /\ todo \in [Publishers -> SUBSET Subscribers]
  /\ panics \in SUBSET (Publishers \union Calls)

(* No goroutine ever sends on, or closes, a closed channel: Publish racing *)
(* unsubscribe, and unsubscribe called twice, never crash the server       *)
(* (hub.go: delete under mu.Lock before close, close once).                *)
NoPanic == panics = {}

(* Whoever closed its channel is out of the map and in nobody's iteration: *)
(* what the comment "callers should defer it" relies on.  With             *)
(* OnePerOnce it is the inductive reason for NoPanic.                      *)
ClosedIsUnreachable ==
  \A s \in closed : s \notin subs /\ \A p \in Publishers : s \notin todo[p]

(* At most one call of an unsubscribe function is inside its once body,    *)
(* and only while the once is running (sync.Once as hub.go:50-58 uses it). *)
OnePerOnce ==
  /\ \A s \in Subscribers, c, d \in Callers :
        upc[<<s, c>>] \in {"lock", "close"} /\ upc[<<s, d>>] \in {"lock", "close"} => c = d
  /\ \A s \in Subscribers, c \in Callers :
        upc[<<s, c>>] \in {"lock", "close"} => once[s] = "running"
  /\ \A s \in closed : once[s] = "done"

(* A call site whose close is due has already been removed from the map    *)
(* and from every iteration in progress.                                   *)
DeletedBeforeClose ==
  \A s \in Subscribers, c \in Callers : upc[<<s, c>>] = "close" =>
     s \notin subs /\ \A p \in Publishers : s \notin todo[p]

(* Iterations only visit registered or unregistering subscribers, and only *)
(* while the read lock is held.                                            *)
IterationsUnderLock ==
  \A p \in Publishers : /\ todo[p] \subseteq subs
                        /\ ppc[p] # "send" => todo[p] = {}

(* Subscription happens before everything else about s. *)
OpenFirst ==
  \A s \in Subscribers :
    spc[s] # "open" => /\ s \notin subs
                       /\ once[s] = "fresh"
                       /\ \A c \in Callers : upc[<<s, c>>] = "ready"

(* The inductive invariant. *)
HubInv ==
  /\ HubTypeOK
  /\ NoPanic
  /\ ClosedIsUnreachable
  /\ OnePerOnce
  /\ DeletedBeforeClose
  /\ IterationsUnderLock
  /\ OpenFirst

(* After the unsubscribe body has removed s, its channel never grows: a    *)
(* late Publish can not write to a subscriber that has left.               *)
SilentAfterDelete ==
  [][\A s \in Subscribers :
       (once[s] # "fresh" /\ s \notin subs) => Len(ch'[s]) =< Len(ch[s])]_hubVars

(* Every call of Publish returns, whatever the subscribers do: one that    *)
(* never reads costs it events, never time (hub.go:25-27 "have events      *)
(* dropped rather than blocking publishers").  And every call of           *)
(* unsubscribe returns even while watchers publish without end: the SSE    *)
(* handler's deferred call can not be starved of mu.                       *)
CallsReturn ==
  /\ \A p \in Publishers : ppc[p] # "idle" ~> ppc[p] = "idle"
  /\ \A u \in Calls : upc[u] # "ready" ~> upc[u] = "returned"
=============================================================================
