------------------------- MODULE ClusterReconciler -------------------------
(***************************************************************************)
(* internal/controllers/cluster_controller.go: the controller that turns   *)
(* Cluster resources (CRs) into registry entries, probes them and reports  *)
(* into the CR's status.  The API server, the informer cache the           *)
(* controller reads through, its work queue and the target clusters are    *)
(* external and modelled as the controller meets them: the cache lags, the *)
(* queue coalesces, the controller runs one Reconcile at a time, a status  *)
(* update of an outdated object conflicts, and the process may restart.    *)
(*                                                                         *)
(* A connection (Conns) is what spec.connection selects: a kubeconfig      *)
(* Secret or the home cluster.  secret[c] is the credential version stored *)
(* there, 0 when it can not be read or parsed; valid[c] is the version the *)
(* cluster behind it accepts.                                              *)
(***************************************************************************)
EXTENDS CRDRegistry

CONSTANTS
  Conns,
  MaxUid,       \* bound: incarnations of one CR name
  MaxGen,       \* bound: spec edits of one incarnation
  MaxRot,       \* bound: credential versions of one connection
  Unstable,     \* bound: connections whose credential or network may fail
  MaxRestarts,  \* bound: restarts of the server
  Stamps        \* values of LastProbeTime, which has a resolution of a second

VARIABLES
  api,       \* api[n]: the CR in the API server
  cache,     \* cache[n]: the CR in the controller's informer cache
  secret, valid, up,
  queue,     \* names in the work queue, which coalesces
  timer,     \* names due for a delayed requeue (RequeueAfter or back-off)
  rpc,       \* where the running Reconcile is
  rname,     \* its request
  rcr,       \* its copy of the CR
  rcond,     \* the condition it is about to write
  restarts

env == <<secret, valid, up>>
work == <<rname, rcr, rcond>>
recVars == <<regVars, api, cache, env, queue, timer, rpc, work, restarts>>

(* What the status conditions tell apart here; what a reachable cluster's  *)
(* probe says about Flux and the counts it reports are left out.           *)
Conditions == {"none", "CredentialsError", "Unreachable", "Connected"}

NoStatus == [gen |-> 0, cond |-> "none", stamp |-> 0]

Absent(uid) == [live |-> FALSE, uid |-> uid, gen |-> 0,
                conn |-> CHOOSE c \in Conns : TRUE, status |-> NoStatus]

EntryRecord ==
  [gen : 1..MaxGen, uid : 1..MaxUid, conn : Conns, cred : 1..MaxRot, old : BOOLEAN, cond : Conditions]

ASSUME EntryAssumption == Entry = EntryRecord

ASSUME RecAssumption ==
  /\ Conns # {} /\ Unstable \subseteq Conns
  /\ MaxUid \in Nat /\ MaxGen \in Nat \ {0} /\ MaxRot \in Nat \ {0} /\ MaxRestarts \in Nat

RecInit ==
  /\ RegInit
  /\ api = [n \in Names |-> Absent(0)]
  /\ cache = api
  /\ secret = [c \in Conns |-> 1] /\ valid = [c \in Conns |-> 1] /\ up = [c \in Conns |-> TRUE]
  /\ queue = {}
  /\ timer = {}
  /\ rpc = "idle"
  /\ rname \in Names /\ rcr = Absent(0) /\ rcond = "none"
  /\ restarts = 0

(* The locals of a Reconcile end with it. *)
EndOfCall ==
  /\ rpc' = "idle"
  /\ rcr' = Absent(0) /\ rcond' = "none"
  /\ UNCHANGED rname

----------------------------------------------------------------------------
(* Operators and clusters. *)
Operator == UNCHANGED <<regVars, cache, queue, timer, rpc, work, restarts>>

CreateCR(n, c) ==
  /\ ~api[n].live /\ api[n].uid < MaxUid
  /\ api' = [api EXCEPT ![n] = [live |-> TRUE, uid |-> api[n].uid + 1, gen |-> 1,
                                conn |-> c, status |-> NoStatus]]
  /\ UNCHANGED env /\ Operator

EditCR(n, c) ==
  /\ api[n].live /\ api[n].gen < MaxGen /\ c # api[n].conn
  /\ api' = [api EXCEPT ![n].gen = @ + 1, ![n].conn = c]
  /\ UNCHANGED env /\ Operator

DeleteCR(n) ==
  /\ api[n].live
  /\ api' = [api EXCEPT ![n] = Absent(@.uid)]
  /\ UNCHANGED env /\ Operator

(* The cluster's accepted credential changes; the Secret follows, or is    *)
(* unreadable for a while; the network comes and goes.                     *)
Rotate(c) ==
  /\ c \in Unstable /\ valid[c] < MaxRot
  /\ valid' = [valid EXCEPT ![c] = @ + 1]
  /\ UNCHANGED <<api, secret, up>> /\ Operator

WriteSecret(c) ==
  /\ secret[c] # valid[c]
  /\ secret' = [secret EXCEPT ![c] = valid[c]]
  /\ UNCHANGED <<api, valid, up>> /\ Operator

LoseSecret(c) ==
  /\ c \in Unstable /\ secret[c] # 0
  /\ secret' = [secret EXCEPT ![c] = 0]
  /\ UNCHANGED <<api, valid, up>> /\ Operator

ToggleNetwork(c) ==
  /\ c \in Unstable
  /\ up' = [up EXCEPT ![c] = ~@]
  /\ UNCHANGED <<api, secret, valid>> /\ Operator

----------------------------------------------------------------------------
(* controller-runtime: informer, queue, timers. *)
Enqueue(n) == queue' = queue \union {n}

(* A watch event reaches the cache and, with no predicate on the watch     *)
(* (SetupWithManager), the queue: the controller's own status write too.   *)
Inform(n) ==
  /\ cache[n] # api[n]
  /\ cache' = [cache EXCEPT ![n] = api[n]]
  /\ Enqueue(n)
  /\ UNCHANGED <<regVars, api, env, timer, rpc, work, restarts>>

TimerFires(n) ==
  /\ n \in timer
  /\ timer' = timer \ {n}
  /\ Enqueue(n)
  /\ UNCHANGED <<regVars, api, cache, env, rpc, work, restarts>>

----------------------------------------------------------------------------
(* Reconcile *)
Dequeue(n) ==
  /\ rpc = "idle"
  /\ n \in queue
  /\ queue' = queue \ {n}

(* Mutants: one of the two reasons to rebuild is forgotten. *)
NeedRebuildByAge(n, cr) == IF n \in Registered THEN entries[n].old ELSE TRUE

NeedRebuildByGeneration(n, cr) ==
  IF n \in Registered THEN entries[n].gen # cr.gen ELSE TRUE

NeedRebuild(n, cr) ==
  IF n \in Registered THEN entries[n].gen # cr.gen \/ entries[n].old ELSE TRUE

(* Mutant: the registry is not told. *)
ReconcileGoneSilently(n) ==
  /\ Dequeue(n)
  /\ ~cache[n].live
  /\ UNCHANGED <<regVars, api, cache, env, timer, rpc, work, restarts>>

(* The CR is gone: forget the cluster. *)
ReconcileGone(n) ==
  /\ Dequeue(n)
  /\ ~cache[n].live
  /\ Delete(n)
  /\ UNCHANGED <<api, cache, env, timer, rpc, work, restarts>>

ReconcileStart(n) ==
  /\ Dequeue(n)
  /\ cache[n].live
  /\ rname' = n /\ rcr' = cache[n] /\ rcond' = "none"
  /\ rpc' = IF NeedRebuild(n, cache[n]) THEN "connect" ELSE "probe"
  /\ UNCHANGED <<regVars, api, cache, env, timer, restarts>>

(* r.Get fails for another reason: back-off. *)
ReconcileGetFails(n) ==
  /\ Dequeue(n)
  /\ timer' = timer \union {n}
  /\ UNCHANGED <<regVars, api, cache, env, rpc, work, restarts>>

(* resolveConnection and NewClients: the new entry is registered before    *)
(* its first probe, with the zero status.                                  *)
NewEntry(cr) ==
  [gen |-> cr.gen, uid |-> cr.uid, conn |-> cr.conn, cred |-> secret[cr.conn],
   old |-> FALSE, cond |-> "none"]

(* Mutant: the error of resolveConnection is not looked at. *)
ConnectUnchecked ==
  /\ rpc = "connect"
  /\ Set(rname, NewEntry(rcr))
  /\ rpc' = "probe"
  /\ UNCHANGED <<api, cache, env, queue, timer, work, restarts>>

Connect ==
  /\ rpc = "connect"
  /\ secret[rcr.conn] # 0
  /\ Set(rname, NewEntry(rcr))
  /\ rpc' = "probe"
  /\ UNCHANGED <<api, cache, env, queue, timer, work, restarts>>

(* CredentialsError or ClientBuildError: the entry is dropped. *)
ConnectFails ==
  /\ rpc = "connect"
  /\ secret[rcr.conn] = 0
  /\ Delete(rname)
  /\ rcond' = "CredentialsError"
  /\ rpc' = "status"
  /\ UNCHANGED <<api, cache, env, queue, timer, rname, rcr, restarts>>

(* cluster.Probe reaches the cluster with the entry's client, or not. *)
Reached(e) == up[e.conn] /\ e.cred = valid[e.conn]

Probe ==
  /\ rpc = "probe"
  /\ rcond' = IF Reached(entries[rname]) THEN "Connected" ELSE "Unreachable"
  /\ SetStatus(rname, [entries[rname] EXCEPT !.cond = rcond'])
  /\ rpc' = "status"
  /\ UNCHANGED <<api, cache, env, queue, timer, rname, rcr, restarts>>

(* The status the reconciler writes: the credential path leaves            *)
(* ObservedGeneration and LastProbeTime alone; two probes within a second  *)
(* write the same LastProbeTime.                                           *)
NewStatuses ==
  IF rcond = "CredentialsError" THEN {[rcr.status EXCEPT !.cond = rcond]}
  ELSE {[gen |-> rcr.gen, cond |-> rcond, stamp |-> t] : t \in Stamps}

(* Mutant: a failed status update is not reported, so nobody backs off. *)
WriteStatusSwallowsError ==
  /\ rpc = "status"
  /\ \/ /\ api[rname] = rcr
        /\ \E st \in NewStatuses : api' = [api EXCEPT ![rname].status = st]
        /\ timer' = timer \union {rname}
     \/ UNCHANGED <<api, timer>>
  /\ EndOfCall
  /\ UNCHANGED <<regVars, cache, env, queue, restarts>>

(* requeueAfter: Status().Update succeeds only on the object that was      *)
(* read; it requeues after ProbeEvery, a failure with back-off.            *)
WriteStatus ==
  /\ rpc = "status"
  /\ \/ /\ api[rname] = rcr
        /\ \E st \in NewStatuses : api' = [api EXCEPT ![rname].status = st]
     \/ UNCHANGED api
  /\ timer' = timer \union {rname}
  /\ EndOfCall
  /\ UNCHANGED <<regVars, cache, env, queue, restarts>>

(* An entry outlives clientCacheMaxAge. *)
Age(n) ==
  /\ n \in Registered /\ ~entries[n].old
  /\ SetStatus(n, [entries[n] EXCEPT !.old = TRUE])
  /\ UNCHANGED <<api, cache, env, queue, timer, rpc, work, restarts>>

(* The server restarts: registry, cache, queue and timers are in memory. *)
Restart ==
  /\ restarts < MaxRestarts
  /\ restarts' = restarts + 1
  /\ entries' = [n \in Names |-> NoEntry] /\ order' = <<>>
  /\ cache' = [n \in Names |-> Absent(api[n].uid)]
  /\ queue' = {}
  /\ timer' = {}
  /\ EndOfCall
  /\ UNCHANGED <<api, env>>

----------------------------------------------------------------------------
ReconcileStep == Connect \/ ConnectFails \/ Probe \/ WriteStatus

RecNext ==
  \/ \E n \in Names, c \in Conns : CreateCR(n, c) \/ EditCR(n, c)
  \/ \E n \in Names : DeleteCR(n) \/ Inform(n) \/ TimerFires(n) \/ Age(n)
  \/ \E c \in Conns : Rotate(c) \/ WriteSecret(c) \/ LoseSecret(c) \/ ToggleNetwork(c)
  \/ \E n \in Names : ReconcileGone(n) \/ ReconcileStart(n) \/ ReconcileGetFails(n)
  \/ ReconcileStep
  \/ Restart

(* The informer, the timers and the worker run; entries grow old; reading  *)
(* a CR does not fail for ever.  Operators and clusters owe nothing.       *)
RecFairness ==
  /\ WF_recVars(ReconcileStep)
  /\ \A n \in Names : /\ WF_recVars(Inform(n))
                      /\ WF_recVars(TimerFires(n))
                      /\ WF_recVars(Age(n))
                      /\ SF_recVars(ReconcileGone(n))
                      /\ SF_recVars(ReconcileStart(n))

RecSpec == RecInit /\ [][RecNext]_recVars

FairRecSpec == RecSpec /\ RecFairness

----------------------------------------------------------------------------
StatusSet == [gen : 0..MaxGen, cond : Conditions, stamp : {0} \union Stamps]

CR == [live : BOOLEAN, uid : 0..MaxUid, gen : 0..MaxGen, conn : Conns, status : StatusSet]

RecTypeOK ==
  /\ RegTypeOK
  /\ api \in [Names -> CR] /\ cache \in [Names -> CR]
  /\ secret \in [Conns -> 0..MaxRot] /\ valid \in [Conns -> 1..MaxRot] /\ up \in [Conns -> BOOLEAN]
  /\ queue \in SUBSET Names
  /\ timer \in SUBSET Names
  /\ rpc \in {"idle", "connect", "probe", "status"}
  /\ rname \in Names /\ rcr \in CR /\ rcond \in Conditions
  /\ restarts \in 0..MaxRestarts

(* A registered cluster whose CR still exists has been connected the way   *)
(* the CR says as soon as the CR's status claims its generation was        *)
(* observed: no lag of the cache, conflict, retry or restart can make the  *)
(* controller report a spec it has not acted on.  First incarnations only: *)
(* a re-created CR is generation 1 again, and the entry of its predecessor *)
(* passes for it until it is old (cluster_controller.go:72).               *)
ObservedIsServed(n) ==
  (api[n].live /\ api[n].status.gen = api[n].gen /\ n \in Registered)
     => entries[n].conn = api[n].conn

ObservedSpecIsServed == \A n \in Names : api[n].uid = 1 => ObservedIsServed(n)

(* Every CR the cache knows and every registered cluster has a wake-up     *)
(* pending: it is queued, on a timer, or being reconciled.  Probing never  *)
(* stops for a cluster, and an entry whose CR is gone is never forgotten   *)
(* by a lost wake-up.                                                      *)
Scheduled(n) == n \in queue \/ n \in timer \/ (rpc # "idle" /\ rname = n)

AlwaysScheduled ==
  \A n \in Names : cache[n].live \/ n \in Registered => Scheduled(n)

(* What an outside observer needs for a cluster to be served. *)
Calm(n) == /\ api[n].live
           /\ secret[api[n].conn] = valid[api[n].conn]
           /\ up[api[n].conn]

Current(n) == /\ n \in Registered
              /\ entries[n].conn = api[n].conn
              /\ entries[n].cred = valid[api[n].conn]

(* Once spec, credentials and network stay put, the registry comes to hold *)
(* the right connection with the right credential and keeps it: edits that *)
(* select another connection, rotation (clientCacheMaxAge,                 *)
(* cluster_controller.go:22-27) and restarts all end there.                *)
Converges == \A n \in Names : <>[]Calm(n) => <>[]Current(n)

(* ... and it is probed with success again and again. *)
ProbedForEver ==
  \A n \in Names : <>[]Calm(n) => []<>(Current(n) /\ entries[n].cond = "Connected")

(* A deleted Cluster ends up out of the registry for good. *)
DeletedForgotten == \A n \in Names : <>[](~api[n].live) => <>[](n \notin Registered)
=============================================================================
