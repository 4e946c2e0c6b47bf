-------------------------- MODULE ReconcilerProofs --------------------------
(***************************************************************************)
(* Proofs about ClusterReconciler, for any number of clusters, connections *)
(* and restarts: the registry stays consistent under the controller, and   *)
(* no cluster is ever left without a wake-up.                              *)
(***************************************************************************)
EXTENDS ClusterReconciler, RegistryProofs

(* A CR that exists has been given a generation by the API server. *)
HasGen(cr) == cr.live => cr.gen # 0 /\ cr.uid # 0

LiveHasGen ==
  /\ \A n \in Names : HasGen(api[n]) /\ HasGen(cache[n])
  /\ rpc # "idle" => HasGen(rcr) /\ rcr.live

(* The inductive invariant. *)
RecInv == RecTypeOK /\ LiveHasGen /\ OrderMatchesEntries /\ AlwaysScheduled

(* Everything but the registry and the wake-ups. *)
TypeRest ==
  /\ api \in [Names -> CR] /\ cache \in [Names -> CR]
  /\ secret \in [Conns -> 0..MaxRot] /\ valid \in [Conns -> 1..MaxRot] /\ up \in [Conns -> BOOLEAN]
  /\ queue \in SUBSET Names
  /\ timer \in SUBSET Names
  /\ rpc \in {"idle", "connect", "probe", "status"}
  /\ rname \in Names /\ rcr \in CR /\ rcond \in Conditions
  /\ restarts \in 0..MaxRestarts

LEMMA TypeSplit == RecTypeOK <=> RegTypeOK /\ TypeRest
  BY DEF RecTypeOK, TypeRest

(* The CR an absent object stands for. *)
LEMMA AbsentType ==
  ASSUME NEW uid \in 0..MaxUid
  PROVE  Absent(uid) \in CR /\ ~Absent(uid).live /\ HasGen(Absent(uid))
<1>1. (CHOOSE c \in Conns : TRUE) \in Conns
  BY RecAssumption
<1>2. NoStatus \in StatusSet
  BY RecAssumption DEF NoStatus, StatusSet, Conditions
<1> QED BY <1>1, <1>2, RecAssumption DEF Absent, CR, HasGen

LEMMA RecInitInv == RecInit => RecInv
<1> SUFFICES ASSUME RecInit PROVE RecInv
  OBVIOUS
<1>1. Absent(0) \in CR /\ ~Absent(0).live /\ HasGen(Absent(0))
  BY AbsentType, RecAssumption
<1>2. RegInv /\ Registered = {}
  BY RegInitInv DEF RecInit, RegInit, Registered
<1>3. TypeRest
  BY <1>1, RecAssumption DEF RecInit, TypeRest, Conditions
<1>4. LiveHasGen
  BY <1>1 DEF RecInit, LiveHasGen
<1>5. AlwaysScheduled
  BY <1>1, <1>2 DEF RecInit, AlwaysScheduled
<1> QED BY <1>2, <1>3, <1>4, <1>5, TypeSplit DEF RecInv, RegInv

----------------------------------------------------------------------------
(* Operators and clusters change neither the registry nor the wake-ups.    *)
LEMMA OperatorInv ==
  ASSUME RecInv, Operator,
         api' \in [Names -> CR], \A n \in Names : HasGen(api'[n]),
         secret' \in [Conns -> 0..MaxRot], valid' \in [Conns -> 1..MaxRot], up' \in [Conns -> BOOLEAN]
  PROVE  RecInv'
<1> USE DEF Operator, regVars, work
<1>1. RegTypeOK' /\ TypeRest'
  BY TypeSplit DEF RecInv, TypeRest, RegTypeOK
<1>2. LiveHasGen'
  BY DEF RecInv, LiveHasGen
<1>3. OrderMatchesEntries'
  BY DEF RecInv, OrderMatchesEntries, Registered
<1>4. AlwaysScheduled'
  BY DEF RecInv, AlwaysScheduled, Scheduled, Registered
<1>5. RecTypeOK'
  BY <1>1 DEF RecTypeOK, TypeRest, RegTypeOK
<1> QED BY <1>2, <1>3, <1>4, <1>5 DEF RecInv

LEMMA RecInvParts ==
  /\ RecInv => RegInv /\ TypeRest /\ LiveHasGen /\ AlwaysScheduled
  /\ RegInv /\ TypeRest /\ LiveHasGen /\ AlwaysScheduled => RecInv
  BY TypeSplit DEF RecInv, RegInv

(* What operators do to a CR leaves a CR. *)
LEMMA CreateCRInv ==
  ASSUME RecInv, NEW n \in Names, NEW c \in Conns, CreateCR(n, c)
  PROVE  RecInv'
<1>t. TypeRest /\ LiveHasGen
  BY RecInvParts
<1> DEFINE cr == [live |-> TRUE, uid |-> api[n].uid + 1, gen |-> 1, conn |-> c, status |-> NoStatus]
<1>1. api[n] \in CR /\ api[n].uid \in 0..MaxUid
  BY <1>t DEF TypeRest, CR
<1>2. cr.uid \in 1..MaxUid
  BY <1>1, RecAssumption DEF CreateCR
<1>3. NoStatus \in StatusSet
  BY RecAssumption DEF NoStatus, StatusSet, Conditions
<1>4. cr \in CR /\ HasGen(cr)
  BY <1>2, <1>3, RecAssumption DEF CR, HasGen
<1>5. api' = [api EXCEPT ![n] = cr]
  BY DEF CreateCR
<1> HIDE DEF cr
<1>6. api' \in [Names -> CR] /\ \A m \in Names : HasGen(api'[m])
  BY <1>t, <1>4, <1>5 DEF TypeRest, LiveHasGen
<1>7. Operator /\ UNCHANGED env
  BY DEF CreateCR
<1> QED BY <1>t, <1>6, <1>7, OperatorInv DEF env, TypeRest

LEMMA EditCRInv ==
  ASSUME RecInv, NEW n \in Names, NEW c \in Conns, EditCR(n, c)
  PROVE  RecInv'
<1>t. TypeRest /\ LiveHasGen
  BY RecInvParts
<1> DEFINE g == api[n].gen + 1
<1> DEFINE cr == [[api[n] EXCEPT !.gen = g] EXCEPT !.conn = c]
<1>1. api[n] \in CR /\ api[n].gen \in 0..MaxGen /\ HasGen(api[n]) /\ api[n].live
  BY <1>t DEF TypeRest, CR, LiveHasGen, EditCR
<1>2. g \in 1..MaxGen /\ g \in 0..MaxGen /\ g # 0
  BY <1>1, RecAssumption DEF EditCR
<1> HIDE DEF g
<1>3. cr \in CR /\ cr.live = api[n].live /\ cr.uid = api[n].uid /\ cr.gen = g
  BY <1>1, <1>2 DEF CR
<1>7. HasGen(cr)
  BY <1>1, <1>2, <1>3 DEF HasGen
<1>4. api' = [api EXCEPT ![n] = cr]
  BY <1>t, <1>1 DEF EditCR, TypeRest, CR, g
<1> HIDE DEF cr
<1>5. api' \in [Names -> CR] /\ \A m \in Names : HasGen(api'[m])
  BY <1>t, <1>3, <1>7, <1>4 DEF TypeRest, LiveHasGen
<1>6. Operator /\ UNCHANGED env
  BY DEF EditCR
<1> QED BY <1>t, <1>5, <1>6, OperatorInv DEF env, TypeRest

LEMMA DeleteCRInv ==
  ASSUME RecInv, NEW n \in Names, DeleteCR(n)
  PROVE  RecInv'
<1>t. TypeRest /\ LiveHasGen
  BY RecInvParts
<1>1. api[n].uid \in 0..MaxUid
  BY <1>t DEF TypeRest, CR
<1>2. Absent(api[n].uid) \in CR /\ HasGen(Absent(api[n].uid))
  BY <1>1, AbsentType
<1>3. api' \in [Names -> CR] /\ \A m \in Names : HasGen(api'[m])
  BY <1>t, <1>2 DEF DeleteCR, TypeRest, LiveHasGen
<1>4. Operator /\ UNCHANGED env
  BY DEF DeleteCR
<1> QED BY <1>t, <1>3, <1>4, OperatorInv DEF env, TypeRest

LEMMA ConnInv ==
  ASSUME RecInv, NEW c \in Conns,
         Rotate(c) \/ WriteSecret(c) \/ LoseSecret(c) \/ ToggleNetwork(c)
  PROVE  RecInv'
<1>t. TypeRest /\ LiveHasGen
  BY RecInvParts
<1>1. valid[c] \in 1..MaxRot /\ secret[c] \in 0..MaxRot
  BY <1>t DEF TypeRest
<1>2. Operator /\ UNCHANGED api
  BY DEF Rotate, WriteSecret, LoseSecret, ToggleNetwork
<1>3. valid' \in [Conns -> 1..MaxRot]
  <2>1. CASE Rotate(c)
    <3>1. valid[c] + 1 \in 1..MaxRot
      BY <1>1, <2>1, RecAssumption DEF Rotate
    <3> QED BY <1>t, <2>1, <3>1 DEF Rotate, TypeRest
  <2>2. CASE WriteSecret(c) \/ LoseSecret(c) \/ ToggleNetwork(c)
    BY <1>t, <2>2 DEF WriteSecret, LoseSecret, ToggleNetwork, TypeRest
  <2> QED BY <2>1, <2>2
<1>4. secret' \in [Conns -> 0..MaxRot]
  <2>1. valid[c] \in 0..MaxRot /\ 0 \in 0..MaxRot
    BY <1>1, RecAssumption
  <2> QED BY <1>t, <2>1 DEF Rotate, WriteSecret, LoseSecret, ToggleNetwork, TypeRest
<1>5. up' \in [Conns -> BOOLEAN]
  BY <1>t DEF Rotate, WriteSecret, LoseSecret, ToggleNetwork, TypeRest
<1>6. api' \in [Names -> CR] /\ \A n \in Names : HasGen(api'[n])
  BY <1>t, <1>2 DEF TypeRest, LiveHasGen
<1> QED BY <1>2, <1>3, <1>4, <1>5, <1>6, OperatorInv

----------------------------------------------------------------------------
(* The informer and the timers: each wake-up they take is put in the queue. *)
LEMMA EnqueueType ==
  ASSUME TypeRest, NEW n \in Names, Enqueue(n)
  PROVE  /\ queue' \in SUBSET Names
         /\ n \in queue'
         /\ queue \subseteq queue'
  BY DEF TypeRest, Enqueue

LEMMA InformInv ==
  ASSUME RecInv, NEW n \in Names, Inform(n)
  PROVE  RecInv'
<1>t. RegInv /\ TypeRest /\ LiveHasGen /\ AlwaysScheduled
  BY RecInvParts
<1>1. Enqueue(n)
  BY DEF Inform
<1>2. /\ queue' \in SUBSET Names
      /\ n \in queue'
      /\ queue \subseteq queue'
  BY <1>t, <1>1, EnqueueType
<1>3. cache' = [cache EXCEPT ![n] = api[n]] /\ UNCHANGED <<regVars, api, env, timer, rpc, work, restarts>>
  BY DEF Inform
<1>4. RegInv'
  BY <1>t, <1>3 DEF regVars, RegInv, RegTypeOK, OrderMatchesEntries, Registered
<1>5. TypeRest'
  BY <1>t, <1>2, <1>3 DEF TypeRest, env, work
<1>6. LiveHasGen'
  BY <1>t, <1>3 DEF LiveHasGen, TypeRest, work
<1>7. AlwaysScheduled'
  BY <1>t, <1>2, <1>3 DEF AlwaysScheduled, Scheduled, TypeRest, work, regVars, Registered
<1> QED BY <1>4, <1>5, <1>6, <1>7, RecInvParts, PTL

LEMMA TimerFiresInv ==
  ASSUME RecInv, NEW n \in Names, TimerFires(n)
  PROVE  RecInv'
<1>t. RegInv /\ TypeRest /\ LiveHasGen /\ AlwaysScheduled
  BY RecInvParts
<1>1. /\ queue' \in SUBSET Names
      /\ n \in queue'
      /\ queue \subseteq queue'
  BY <1>t, EnqueueType DEF TimerFires
<1>2. timer' = timer \ {n} /\ UNCHANGED <<regVars, api, cache, env, rpc, work, restarts>>
  BY DEF TimerFires
<1>3. RegInv'
  BY <1>t, <1>2 DEF regVars, RegInv, RegTypeOK, OrderMatchesEntries, Registered
<1>4. TypeRest'
  BY <1>t, <1>1, <1>2 DEF TypeRest, env, work
<1>5. LiveHasGen'
  BY <1>t, <1>2 DEF LiveHasGen, work
<1>6. AlwaysScheduled'
  BY <1>t, <1>1, <1>2 DEF AlwaysScheduled, Scheduled, TypeRest, work, regVars, Registered
<1> QED BY <1>3, <1>4, <1>5, <1>6, RecInvParts, PTL

----------------------------------------------------------------------------
(* Reconcile takes a request off the queue only to drop the cluster, or to *)
(* hold it itself, or to put it on a timer.                                *)
LEMMA ReconcileGoneInv ==
  ASSUME RecInv, NEW n \in Names, ReconcileGone(n)
  PROVE  RecInv'
<1>t. RegInv /\ TypeRest /\ LiveHasGen /\ AlwaysScheduled
  BY RecInvParts
<1>1. RegInv'
  BY <1>t, DeleteInv DEF ReconcileGone
<1>2. Registered' = Registered \ {n}
  BY <1>t DEF ReconcileGone, Delete, RegInv, RegTypeOK, Registered
<1>3. /\ queue' = queue \ {n} /\ ~cache[n].live /\ rpc = "idle"
      /\ UNCHANGED <<api, cache, env, timer, rpc, work, restarts>>
  BY DEF ReconcileGone, Dequeue
<1>4. TypeRest'
  BY <1>t, <1>3 DEF TypeRest, env, work
<1>5. LiveHasGen'
  BY <1>t, <1>3 DEF LiveHasGen, work
<1>6. AlwaysScheduled'
  BY <1>t, <1>2, <1>3 DEF AlwaysScheduled, Scheduled, TypeRest, work
<1> QED BY <1>1, <1>4, <1>5, <1>6, RecInvParts, PTL

LEMMA ReconcileStartInv ==
  ASSUME RecInv, NEW n \in Names, ReconcileStart(n)
  PROVE  RecInv'
<1>t. RegInv /\ TypeRest /\ LiveHasGen /\ AlwaysScheduled
  BY RecInvParts
<1>1. /\ queue' = queue \ {n} /\ cache[n].live /\ rpc = "idle"
      /\ rname' = n /\ rcr' = cache[n] /\ rcond' = "none"
      /\ rpc' \in {"connect", "probe"}
      /\ UNCHANGED <<regVars, api, cache, env, timer, restarts>>
  BY DEF ReconcileStart, Dequeue
<1>2. RegInv'
  BY <1>t, <1>1 DEF regVars, RegInv, RegTypeOK, OrderMatchesEntries, Registered
<1>3. TypeRest'
  BY <1>t, <1>1 DEF TypeRest, env, Conditions
<1>4. LiveHasGen'
  BY <1>t, <1>1 DEF LiveHasGen
<1>5. AlwaysScheduled'
  BY <1>t, <1>1 DEF AlwaysScheduled, Scheduled, TypeRest, regVars, Registered
<1> QED BY <1>2, <1>3, <1>4, <1>5, RecInvParts, PTL

LEMMA ReconcileGetFailsInv ==
  ASSUME RecInv, NEW n \in Names, ReconcileGetFails(n)
  PROVE  RecInv'
<1>t. RegInv /\ TypeRest /\ LiveHasGen /\ AlwaysScheduled
  BY RecInvParts
<1>1. /\ queue' = queue \ {n} /\ timer' = timer \union {n}
      /\ UNCHANGED <<regVars, api, cache, env, rpc, work, restarts>>
  BY DEF ReconcileGetFails, Dequeue
<1>2. RegInv'
  BY <1>t, <1>1 DEF regVars, RegInv, RegTypeOK, OrderMatchesEntries, Registered
<1>3. TypeRest'
  BY <1>t, <1>1 DEF TypeRest, env, work
<1>4. LiveHasGen'
  BY <1>t, <1>1 DEF LiveHasGen, work
<1>5. AlwaysScheduled'
  BY <1>t, <1>1 DEF AlwaysScheduled, Scheduled, TypeRest, regVars, work, Registered
<1> QED BY <1>2, <1>3, <1>4, <1>5, RecInvParts, PTL

(* Inside a Reconcile, the only cluster whose entry changes is the one     *)
(* being reconciled, which counts as scheduled.                            *)
LEMMA InsideInv ==
  ASSUME RecInv, RegInv', TypeRest', rpc # "idle", rpc' # "idle",
         UNCHANGED <<api, cache, queue, timer, rname, rcr>>,
         \A n \in Names : n # rname => (n \in Registered' <=> n \in Registered)
  PROVE  RecInv'
<1>t. LiveHasGen /\ AlwaysScheduled
  BY RecInvParts
<1>1. LiveHasGen'
  BY <1>t DEF LiveHasGen
<1>2. AlwaysScheduled'
  BY <1>t DEF AlwaysScheduled, Scheduled
<1> QED BY <1>1, <1>2, RecInvParts, PTL

LEMMA NewEntryType ==
  ASSUME RecInv, Connect
  PROVE  NewEntry(rcr) \in Entry /\ NewEntry(rcr) # NoEntry
<1>t. TypeRest /\ LiveHasGen
  BY RecInvParts
<1>1. rcr \in CR /\ rcr.live /\ HasGen(rcr)
  BY <1>t DEF Connect, LiveHasGen, TypeRest
<1>2. rcr.gen \in 1..MaxGen /\ rcr.uid \in 1..MaxUid /\ rcr.conn \in Conns
  BY <1>1, RecAssumption DEF CR, HasGen
<1>3. secret[rcr.conn] \in 1..MaxRot
  BY <1>t, <1>2, RecAssumption DEF Connect, TypeRest
<1>4. NewEntry(rcr) \in Entry
  BY <1>2, <1>3, EntryAssumption DEF NewEntry, EntryRecord, Conditions
<1> QED BY <1>4, NoEntryAssumption

LEMMA ConnectInv ==
  ASSUME RecInv, Connect
  PROVE  RecInv'
<1>t. RegInv /\ TypeRest
  BY RecInvParts
<1>1. rname \in Names
  BY <1>t DEF TypeRest
<1>2. RegInv'
  BY <1>t, <1>1, NewEntryType, SetInv DEF Connect
<1>3. \A n \in Names : n # rname => (n \in Registered' <=> n \in Registered)
  BY <1>t, <1>1 DEF Connect, Set, RegInv, RegTypeOK, Registered
<1>4. TypeRest'
  BY <1>t DEF Connect, TypeRest, env, work
<1> QED BY <1>2, <1>3, <1>4, InsideInv DEF Connect, work

LEMMA ConnectFailsInv ==
  ASSUME RecInv, ConnectFails
  PROVE  RecInv'
<1>t. RegInv /\ TypeRest
  BY RecInvParts
<1>1. rname \in Names
  BY <1>t DEF TypeRest
<1>2. RegInv'
  BY <1>t, <1>1, DeleteInv DEF ConnectFails
<1>3. \A n \in Names : n # rname => (n \in Registered' <=> n \in Registered)
  BY <1>t, <1>1 DEF ConnectFails, Delete, RegInv, RegTypeOK, Registered
<1>4. TypeRest'
  BY <1>t DEF ConnectFails, TypeRest, env, Conditions
<1> QED BY <1>2, <1>3, <1>4, InsideInv DEF ConnectFails

(* A registered name's entry with some fields overwritten is an entry. *)
LEMMA EntryUpdate ==
  ASSUME RegInv, NEW n \in Registered, NEW cond \in Conditions
  PROVE  /\ [entries[n] EXCEPT !.cond = cond] \in Entry
         /\ [entries[n] EXCEPT !.old = TRUE] \in Entry
<1>1. entries[n] \in EntryRecord
  BY EntryAssumption DEF RegInv, RegTypeOK, Registered
<1>2. [entries[n] EXCEPT !.cond = cond] \in EntryRecord
  BY <1>1 DEF EntryRecord
<1>3. [entries[n] EXCEPT !.old = TRUE] \in EntryRecord
  BY <1>1 DEF EntryRecord
<1> QED BY <1>2, <1>3, EntryAssumption

LEMMA SetStatusRegistered ==
  ASSUME RegInv, NEW n \in Names, NEW e \in Entry, SetStatus(n, e)
  PROVE  Registered' = Registered
  BY NoEntryAssumption DEF SetStatus, RegInv, RegTypeOK, Registered

LEMMA ProbeInv ==
  ASSUME RecInv, Probe
  PROVE  RecInv'
<1>t. RegInv /\ TypeRest
  BY RecInvParts
<1>1. rname \in Names /\ rname \in Registered /\ rcond' \in Conditions
  BY <1>t DEF Probe, TypeRest, SetStatus, Conditions
<1>2. [entries[rname] EXCEPT !.cond = rcond'] \in Entry
  BY <1>t, <1>1, EntryUpdate
<1>3. RegInv' /\ Registered' = Registered
  BY <1>t, <1>1, <1>2, SetStatusInv, SetStatusRegistered DEF Probe
<1>4. TypeRest'
  BY <1>t, <1>1 DEF Probe, TypeRest, env
<1> QED BY <1>3, <1>4, InsideInv DEF Probe

LEMMA WriteStatusInv ==
  ASSUME RecInv, WriteStatus
  PROVE  RecInv'
<1>t. RegInv /\ TypeRest /\ LiveHasGen /\ AlwaysScheduled
  BY RecInvParts
<1>1. rcr \in CR /\ rname \in Names /\ rcr.status \in StatusSet /\ rcond \in Conditions
  BY <1>t DEF TypeRest, CR
<1>2. \A st \in NewStatuses : st \in StatusSet
  BY <1>1 DEF NewStatuses, StatusSet, CR
<1>3. api' \in [Names -> CR] /\ \A n \in Names : HasGen(api'[n])
  <2>1. ASSUME NEW st \in NewStatuses, api' = [api EXCEPT ![rname].status = st]
        PROVE  api' \in [Names -> CR] /\ \A n \in Names : HasGen(api'[n])
    <3> DEFINE cr == [api[rname] EXCEPT !.status = st]
    <3>1. api[rname] \in CR /\ HasGen(api[rname])
      BY <1>t, <1>1 DEF TypeRest, LiveHasGen
    <3>2. cr \in CR /\ cr.live = api[rname].live /\ cr.gen = api[rname].gen /\ cr.uid = api[rname].uid
      BY <1>2, <3>1 DEF CR
    <3>3. HasGen(cr)
      BY <3>1, <3>2 DEF HasGen
    <3>4. api' = [api EXCEPT ![rname] = cr]
      BY <2>1, <1>t, <1>1 DEF TypeRest
    <3> HIDE DEF cr
    <3> QED BY <1>t, <3>2, <3>3, <3>4 DEF TypeRest, LiveHasGen
  <2>2. CASE UNCHANGED api
    BY <1>t, <2>2 DEF TypeRest, LiveHasGen
  <2> QED BY <2>1, <2>2 DEF WriteStatus
<1>4. /\ timer' = timer \union {rname} /\ rpc' = "idle"
      /\ rcr' = Absent(0) /\ rcond' = "none" /\ rname' = rname
      /\ UNCHANGED <<regVars, cache, env, queue, restarts>>
  BY DEF WriteStatus, EndOfCall
<1>5. Absent(0) \in CR
  BY AbsentType, RecAssumption
<1>6. RegInv'
  BY <1>t, <1>4 DEF regVars, RegInv, RegTypeOK, OrderMatchesEntries, Registered
<1>7. TypeRest'
  BY <1>t, <1>1, <1>3, <1>4, <1>5 DEF TypeRest, env, Conditions
<1>8. LiveHasGen'
  BY <1>t, <1>3, <1>4 DEF LiveHasGen
<1>9. AlwaysScheduled'
  BY <1>t, <1>1, <1>4 DEF AlwaysScheduled, Scheduled, regVars, Registered
<1> QED BY <1>6, <1>7, <1>8, <1>9, RecInvParts, PTL

LEMMA AgeInv ==
  ASSUME RecInv, NEW n \in Names, Age(n)
  PROVE  RecInv'
<1>t. RegInv /\ TypeRest /\ LiveHasGen /\ AlwaysScheduled
  BY RecInvParts
<1>1. [entries[n] EXCEPT !.old = TRUE] \in Entry
  BY <1>t, EntryUpdate DEF Age, Conditions
<1>2. RegInv' /\ Registered' = Registered
  BY <1>t, <1>1, SetStatusInv, SetStatusRegistered DEF Age
<1>3. UNCHANGED <<api, cache, env, queue, timer, rpc, work, restarts>>
  BY DEF Age
<1>4. TypeRest'
  BY <1>t, <1>3 DEF TypeRest, env, work
<1>5. LiveHasGen'
  BY <1>t, <1>3 DEF LiveHasGen, work
<1>6. AlwaysScheduled'
  BY <1>t, <1>2, <1>3 DEF AlwaysScheduled, Scheduled, work
<1> QED BY <1>2, <1>4, <1>5, <1>6, RecInvParts, PTL

(* A restart forgets registry, cache and wake-ups together. *)
LEMMA RestartInv ==
  ASSUME RecInv, Restart
  PROVE  RecInv'
<1>t. TypeRest /\ LiveHasGen
  BY RecInvParts
<1>1. RegInit' /\ Registered' = {}
  BY DEF Restart, RegInit, Registered
<1>2. RegInv'
  BY <1>1, RegInitInv, PTL
<1>3. \A n \in Names : /\ Absent(api[n].uid) \in CR
                       /\ ~Absent(api[n].uid).live /\ HasGen(Absent(api[n].uid))
  BY <1>t, AbsentType DEF TypeRest, CR
<1>4. Absent(0) \in CR
  BY AbsentType, RecAssumption
<1>5. restarts' \in 0..MaxRestarts
  BY <1>t, RecAssumption DEF Restart, TypeRest
<1>6. /\ cache' = [n \in Names |-> Absent(api[n].uid)] /\ rpc' = "idle"
      /\ rcr' = Absent(0) /\ rcond' = "none" /\ rname' = rname
      /\ queue' = {} /\ timer' = {} /\ UNCHANGED <<api, env>>
  BY DEF Restart, EndOfCall
<1>7. TypeRest'
  BY <1>t, <1>3, <1>4, <1>5, <1>6 DEF TypeRest, env, Conditions
<1>8. LiveHasGen'
  BY <1>t, <1>3, <1>6 DEF LiveHasGen
<1>9. AlwaysScheduled'
  BY <1>1, <1>3, <1>6 DEF AlwaysScheduled
<1> QED BY <1>2, <1>7, <1>8, <1>9, RecInvParts, PTL

LEMMA RecStepInv == RecInv /\ [RecNext]_recVars => RecInv'
<1> SUFFICES ASSUME RecInv, [RecNext]_recVars PROVE RecInv'
  OBVIOUS
<1>1. CASE UNCHANGED recVars
  <2>t. RegInv /\ TypeRest /\ LiveHasGen /\ AlwaysScheduled
    BY RecInvParts
  <2>1. RegInv'
    BY <2>t, <1>1 DEF recVars, regVars, RegInv, RegTypeOK, OrderMatchesEntries, Registered
  <2>2. TypeRest'
    BY <2>t, <1>1 DEF recVars, TypeRest, env, work
  <2>3. LiveHasGen'
    BY <2>t, <1>1 DEF recVars, LiveHasGen, work
  <2>4. AlwaysScheduled'
    BY <2>t, <1>1 DEF recVars, regVars, AlwaysScheduled, Scheduled, work, Registered
  <2> QED BY <2>1, <2>2, <2>3, <2>4, RecInvParts, PTL
<1>2. ASSUME NEW n \in Names, NEW c \in Conns, CreateCR(n, c) \/ EditCR(n, c) PROVE RecInv'
  BY <1>2, CreateCRInv, EditCRInv
<1>3. ASSUME NEW n \in Names, DeleteCR(n) \/ Inform(n) \/ TimerFires(n) \/ Age(n) PROVE RecInv'
  BY <1>3, DeleteCRInv, InformInv, TimerFiresInv, AgeInv
<1>4. ASSUME NEW c \in Conns, Rotate(c) \/ WriteSecret(c) \/ LoseSecret(c) \/ ToggleNetwork(c)
      PROVE  RecInv'
  BY <1>4, ConnInv
<1>5. ASSUME NEW n \in Names, ReconcileGone(n) \/ ReconcileStart(n) \/ ReconcileGetFails(n)
      PROVE  RecInv'
  BY <1>5, ReconcileGoneInv, ReconcileStartInv, ReconcileGetFailsInv
<1>6. CASE ReconcileStep
  BY <1>6, ConnectInv, ConnectFailsInv, ProbeInv, WriteStatusInv DEF ReconcileStep
<1>7. CASE Restart
  BY <1>7, RestartInv
<1> QED BY <1>1, <1>2, <1>3, <1>4, <1>5, <1>6, <1>7 DEF RecNext

----------------------------------------------------------------------------
(* The inductive invariant holds in every reachable state. *)
THEOREM ReconcilerInvariant == RecSpec => []RecInv
<1> QED BY RecInitInv, RecStepInv, PTL DEF RecSpec

(* Type correctness. *)
THEOREM ReconcilerTypeCorrect == RecSpec => []RecTypeOK
<1>1. RecInv => RecTypeOK
  BY DEF RecInv
<1> QED BY <1>1, ReconcilerInvariant, PTL

(* Under the controller, through errors, deletions and restarts, the       *)
(* registry's map and order slice always agree.                            *)
THEOREM ReconcilerKeepsRegistry == RecSpec => []OrderMatchesEntries
<1>1. RecInv => OrderMatchesEntries
  BY DEF RecInv
<1> QED BY <1>1, ReconcilerInvariant, PTL

(* No wake-up is ever lost, however many clusters, errors, conflicts and   *)
(* restarts there are.                                                     *)
THEOREM ReconcilerAlwaysScheduled == RecSpec => []AlwaysScheduled
<1>1. RecInv => AlwaysScheduled
  BY DEF RecInv
<1> QED BY <1>1, ReconcilerInvariant, PTL

----------------------------------------------------------------------------
(***************************************************************************)
(* ObservedSpecIsServed.  A generation stands for one spec within one      *)
(* incarnation of a name, so it is enough to follow generations: whatever  *)
(* a copy of the CR (in the cache, in the running Reconcile, in the entry) *)
(* says lies between the generation the status claims and the current one. *)
(***************************************************************************)
FirstLife(n) == api[n].live /\ api[n].uid = 1

Sound(n, o) ==
  /\ api[n].status.gen =< o.gen
  /\ o.gen =< api[n].gen
  /\ o.gen = api[n].gen => o.conn = api[n].conn

InHand(n) == rpc # "idle" /\ rname = n

(* Copies belong to an incarnation that has existed. *)
KnownLives(n) ==
  /\ cache[n].live => cache[n].uid =< api[n].uid
  /\ n \in Registered => entries[n].uid =< api[n].uid
  /\ InHand(n) => rcr.uid =< api[n].uid

SoundCopies(n) ==
  FirstLife(n) =>
    /\ api[n].status.gen =< api[n].gen
    /\ cache[n].live => Sound(n, cache[n])
    /\ n \in Registered => Sound(n, entries[n])
    /\ InHand(n) => Sound(n, rcr) /\ (cache[n].live => rcr.gen =< cache[n].gen)

(* From the probe on, the entry is the one of the CR in hand. *)
EntryInHand ==
  /\ rpc = "probe" => rname \in Registered
  /\ rpc \in {"probe", "status"} /\ rname \in Registered => entries[rname].gen = rcr.gen

ObsInv == EntryInHand /\ \A n \in Names : KnownLives(n) /\ SoundCopies(n)

(* The types the arithmetic below needs. *)
LEMMA CopyTypes ==
  ASSUME RecInv
  PROVE  /\ \A n \in Names : /\ api[n].uid \in Nat /\ api[n].gen \in Nat /\ api[n].status.gen \in Nat
                             /\ cache[n].uid \in Nat /\ cache[n].gen \in Nat
                             /\ api[n].live => api[n].uid # 0
                             /\ cache[n].live => cache[n].uid # 0
                             /\ n \in Registered => /\ entries[n].gen \in Nat
                                                    /\ entries[n].uid \in Nat \ {0}
         /\ rcr.uid \in Nat /\ rcr.gen \in Nat /\ rname \in Names
         /\ rpc # "idle" => rcr.uid # 0
<1>t. RecTypeOK /\ LiveHasGen
  BY DEF RecInv
<1>1. \A x \in CR : x.uid \in Nat /\ x.gen \in Nat /\ x.status.gen \in Nat
  <2>1. \A x \in CR : x.uid \in 0..MaxUid /\ x.gen \in 0..MaxGen /\ x.status \in StatusSet
    BY DEF CR
  <2>2. \A y \in StatusSet : y.gen \in 0..MaxGen
    BY DEF StatusSet
  <2> QED BY <2>1, <2>2
<1>2. \A x \in Entry : x.gen \in Nat /\ x.uid \in Nat \ {0}
  <2>1. \A x \in EntryRecord : x.gen \in 1..MaxGen /\ x.uid \in 1..MaxUid
    BY DEF EntryRecord
  <2> QED BY <2>1, EntryAssumption
<1>3. \A n \in Registered : entries[n] \in Entry
  BY <1>t DEF RecTypeOK, RegTypeOK, Registered
<1>4. \A n \in Names : api[n] \in CR /\ cache[n] \in CR
  BY <1>t DEF RecTypeOK
<1>5. rcr \in CR /\ rname \in Names
  BY <1>t DEF RecTypeOK
<1> QED BY <1>t, <1>1, <1>2, <1>3, <1>4, <1>5 DEF LiveHasGen, HasGen

LEMMA ObsImplies == RecInv /\ ObsInv => ObservedSpecIsServed
<1> SUFFICES ASSUME RecInv, ObsInv, NEW n \in Names, api[n].uid = 1, api[n].live,
                    api[n].status.gen = api[n].gen, n \in Registered
             PROVE  entries[n].conn = api[n].conn
  BY DEF ObservedSpecIsServed, ObservedIsServed
<1>1. Sound(n, entries[n])
  BY DEF ObsInv, SoundCopies, FirstLife
<1>2. api[n].gen \in Nat /\ entries[n].gen \in Nat
  BY CopyTypes
<1> QED BY <1>1, <1>2 DEF Sound

LEMMA ObsInitInv == RecInit => ObsInv
<1> SUFFICES ASSUME RecInit PROVE ObsInv
  OBVIOUS
<1>1. \A n \in Names : ~api[n].live /\ ~cache[n].live
  BY DEF RecInit, Absent
<1>2. Registered = {} /\ rpc = "idle"
  BY DEF RecInit, RegInit, Registered
<1> QED BY <1>1, <1>2 DEF ObsInv, EntryInHand, KnownLives, SoundCopies, FirstLife, InHand

(* Operators: an edit starts a new generation, re-creation a new life. *)
LEMMA CreateCRObs ==
  ASSUME RecInv, ObsInv, NEW n \in Names, NEW c \in Conns, CreateCR(n, c)
  PROVE  ObsInv'
<1>t. api \in [Names -> CR]
  BY DEF RecInv, RecTypeOK
<1>1. UNCHANGED <<entries, cache, rpc, rname, rcr>> /\ Registered' = Registered
  BY DEF CreateCR, Operator, regVars, work, Registered
<1>2. /\ api'[n].live /\ api'[n].uid = api[n].uid + 1 /\ api'[n].gen = 1 /\ api'[n].status.gen = 0
      /\ \A m \in Names : m # n => api'[m] = api[m]
  BY <1>t DEF CreateCR, NoStatus
<1>3. ASSUME NEW m \in Names PROVE KnownLives(m)' /\ SoundCopies(m)'
  <2>o. KnownLives(m) /\ SoundCopies(m)
    BY DEF ObsInv
  <2>1. CASE m = n
    <3>1. KnownLives(n)'
      BY <2>o, <2>1, <1>1, <1>2, CopyTypes DEF KnownLives, InHand
    <3>2. CASE api[n].uid = 0
      BY <2>o, <2>1, <3>2, <1>1, <1>2, CopyTypes DEF KnownLives, SoundCopies, InHand
    <3>3. CASE api[n].uid # 0
      BY <2>1, <3>1, <1>2, <3>3, CopyTypes DEF SoundCopies, FirstLife
    <3> QED BY <2>1, <3>1, <3>2, <3>3
  <2>2. CASE m # n
    BY <2>o, <2>2, <1>1, <1>2 DEF KnownLives, SoundCopies, FirstLife, Sound, InHand
  <2> QED BY <2>1, <2>2
<1>4. EntryInHand'
  BY <1>1 DEF ObsInv, EntryInHand
<1> QED BY <1>3, <1>4 DEF ObsInv

LEMMA EditCRObs ==
  ASSUME RecInv, ObsInv, NEW n \in Names, NEW c \in Conns, EditCR(n, c)
  PROVE  ObsInv'
<1>t. api \in [Names -> CR]
  BY DEF RecInv, RecTypeOK
<1>1. UNCHANGED <<entries, cache, rpc, rname, rcr>> /\ Registered' = Registered
  BY DEF EditCR, Operator, regVars, work, Registered
<1>2. /\ api'[n].live = api[n].live /\ api'[n].uid = api[n].uid
      /\ api'[n].gen = api[n].gen + 1 /\ api'[n].status = api[n].status
      /\ \A m \in Names : m # n => api'[m] = api[m]
  BY <1>t DEF EditCR, CR
<1>3. ASSUME NEW m \in Names PROVE KnownLives(m)' /\ SoundCopies(m)'
  <2>o. KnownLives(m) /\ SoundCopies(m)
    BY DEF ObsInv
  <2>1. CASE m = n
    BY <2>o, <2>1, <1>1, <1>2, CopyTypes DEF KnownLives, SoundCopies, FirstLife, Sound, InHand
  <2>2. CASE m # n
    BY <2>o, <2>2, <1>1, <1>2 DEF KnownLives, SoundCopies, FirstLife, Sound, InHand
  <2> QED BY <2>1, <2>2
<1>4. EntryInHand'
  BY <1>1 DEF ObsInv, EntryInHand
<1> QED BY <1>3, <1>4 DEF ObsInv

LEMMA DeleteCRObs ==
  ASSUME RecInv, ObsInv, NEW n \in Names, DeleteCR(n)
  PROVE  ObsInv'
<1>t. api \in [Names -> CR]
  BY DEF RecInv, RecTypeOK
<1>1. UNCHANGED <<entries, cache, rpc, rname, rcr>> /\ Registered' = Registered
  BY DEF DeleteCR, Operator, regVars, work, Registered
<1>2. /\ ~api'[n].live /\ api'[n].uid = api[n].uid
      /\ \A m \in Names : m # n => api'[m] = api[m]
  BY <1>t DEF DeleteCR, Absent
<1>3. ASSUME NEW m \in Names PROVE KnownLives(m)' /\ SoundCopies(m)'
  <2>o. KnownLives(m) /\ SoundCopies(m)
    BY DEF ObsInv
  <2>1. CASE m = n
    BY <2>o, <2>1, <1>1, <1>2 DEF KnownLives, SoundCopies, FirstLife, InHand
  <2>2. CASE m # n
    BY <2>o, <2>2, <1>1, <1>2 DEF KnownLives, SoundCopies, FirstLife, Sound, InHand
  <2> QED BY <2>1, <2>2
<1>4. EntryInHand'
  BY <1>1 DEF ObsInv, EntryInHand
<1> QED BY <1>3, <1>4 DEF ObsInv

(* Steps that touch neither a CR nor a copy of one. *)
LEMMA QuietObs ==
  ASSUME ObsInv, UNCHANGED <<entries, api, cache, rpc, rname, rcr>>
  PROVE  ObsInv'
  BY DEF ObsInv, EntryInHand, KnownLives, SoundCopies, FirstLife, Sound, InHand, Registered

LEMMA InformObs ==
  ASSUME RecInv, ObsInv, NEW n \in Names, Inform(n)
  PROVE  ObsInv'
<1>t. cache \in [Names -> CR]
  BY DEF RecInv, RecTypeOK
<1>1. /\ UNCHANGED <<entries, api, rpc, rname, rcr>> /\ Registered' = Registered
      /\ cache'[n] = api[n] /\ \A m \in Names : m # n => cache'[m] = cache[m]
  BY <1>t DEF Inform, regVars, work, Registered
<1>2. ASSUME NEW m \in Names PROVE KnownLives(m)' /\ SoundCopies(m)'
  <2>o. KnownLives(m) /\ SoundCopies(m)
    BY DEF ObsInv
  <2>1. CASE m = n
    BY <2>o, <2>1, <1>1, CopyTypes DEF KnownLives, SoundCopies, FirstLife, Sound, InHand
  <2>2. CASE m # n
    BY <2>o, <2>2, <1>1 DEF KnownLives, SoundCopies, FirstLife, Sound, InHand
  <2> QED BY <2>1, <2>2
<1>3. EntryInHand'
  BY <1>1 DEF ObsInv, EntryInHand
<1> QED BY <1>2, <1>3 DEF ObsInv

----------------------------------------------------------------------------
LEMMA ReconcileGoneObs ==
  ASSUME RecInv, ObsInv, NEW n \in Names, ReconcileGone(n)
  PROVE  ObsInv'
<1>t. entries \in [Names -> Entry \union {NoEntry}]
  BY DEF RecInv, RecTypeOK, RegTypeOK
<1>1. /\ UNCHANGED <<api, cache, rpc, rname, rcr>> /\ rpc = "idle"
      /\ Registered' = Registered \ {n}
      /\ \A m \in Names : m # n => entries'[m] = entries[m]
  BY <1>t DEF ReconcileGone, Dequeue, Delete, work, Registered
<1>2. ASSUME NEW m \in Names PROVE KnownLives(m)' /\ SoundCopies(m)'
  BY <1>1 DEF ObsInv, KnownLives, SoundCopies, FirstLife, Sound, InHand
<1>3. EntryInHand'
  BY <1>1 DEF EntryInHand
<1> QED BY <1>2, <1>3 DEF ObsInv

LEMMA ReconcileStartObs ==
  ASSUME RecInv, ObsInv, NEW n \in Names, ReconcileStart(n)
  PROVE  ObsInv'
<1>1. /\ UNCHANGED <<entries, api, cache>> /\ Registered' = Registered /\ cache[n].live
      /\ rname' = n /\ rcr' = cache[n]
      /\ rpc' = IF NeedRebuild(n, cache[n]) THEN "connect" ELSE "probe"
  BY DEF ReconcileStart, Dequeue, regVars, Registered
<1>2. ASSUME NEW m \in Names PROVE KnownLives(m)' /\ SoundCopies(m)'
  <2>o. KnownLives(m) /\ SoundCopies(m)
    BY DEF ObsInv
  <2> QED BY <2>o, <1>1, CopyTypes DEF KnownLives, SoundCopies, FirstLife, Sound, InHand
<1>3. EntryInHand'
  BY <1>1 DEF EntryInHand, NeedRebuild
<1> QED BY <1>2, <1>3 DEF ObsInv

LEMMA ConnectObs ==
  ASSUME RecInv, ObsInv, Connect
  PROVE  ObsInv'
<1>t. entries \in [Names -> Entry \union {NoEntry}] /\ rname \in Names
  BY DEF RecInv, RecTypeOK, RegTypeOK
<1>1. /\ UNCHANGED <<api, cache, rname, rcr>> /\ rpc = "connect" /\ rpc' = "probe"
      /\ entries' = [entries EXCEPT ![rname] = NewEntry(rcr)]
  BY DEF Connect, Set, work
<1>2. /\ entries'[rname].gen = rcr.gen /\ entries'[rname].uid = rcr.uid
      /\ entries'[rname].conn = rcr.conn
      /\ \A m \in Names : m # rname => entries'[m] = entries[m]
  BY <1>t, <1>1 DEF NewEntry
<1>3. rname \in Registered'
  BY <1>t, <1>1, NewEntryType DEF Registered
<1>4. ASSUME NEW m \in Names PROVE KnownLives(m)' /\ SoundCopies(m)'
  <2>o. KnownLives(m) /\ SoundCopies(m)
    BY DEF ObsInv
  <2>1. CASE m = rname
    BY <2>o, <2>1, <1>1, <1>2 DEF KnownLives, SoundCopies, FirstLife, Sound, InHand
  <2>2. CASE m # rname
    BY <2>o, <2>2, <1>1, <1>2 DEF KnownLives, SoundCopies, FirstLife, Sound, InHand, Registered
  <2> QED BY <2>1, <2>2
<1>5. EntryInHand'
  BY <1>1, <1>2, <1>3 DEF EntryInHand
<1> QED BY <1>4, <1>5 DEF ObsInv

LEMMA ConnectFailsObs ==
  ASSUME RecInv, ObsInv, ConnectFails
  PROVE  ObsInv'
<1>t. entries \in [Names -> Entry \union {NoEntry}] /\ rname \in Names
  BY DEF RecInv, RecTypeOK, RegTypeOK
<1>1. /\ UNCHANGED <<api, cache, rname, rcr>> /\ rpc = "connect" /\ rpc' = "status"
      /\ Registered' = Registered \ {rname}
      /\ \A m \in Names : m # rname => entries'[m] = entries[m]
  BY <1>t DEF ConnectFails, Delete, Registered
<1>2. ASSUME NEW m \in Names PROVE KnownLives(m)' /\ SoundCopies(m)'
  <2>o. KnownLives(m) /\ SoundCopies(m)
    BY DEF ObsInv
  <2> QED BY <2>o, <1>1 DEF KnownLives, SoundCopies, FirstLife, Sound, InHand
<1>3. EntryInHand'
  BY <1>1 DEF EntryInHand
<1> QED BY <1>2, <1>3 DEF ObsInv

(* Writing into an entry leaves what it says about the CR alone. *)
LEMMA SameEntries ==
  ASSUME RecInv, ObsInv, Registered' = Registered,
         UNCHANGED <<api, cache, rname, rcr>>,
         rpc' = rpc \/ (rpc = "probe" /\ rpc' = "status"),
         \A m \in Registered : /\ entries'[m].gen = entries[m].gen
                               /\ entries'[m].uid = entries[m].uid
                               /\ entries'[m].conn = entries[m].conn
  PROVE  ObsInv'
<1>1. ASSUME NEW m \in Names PROVE KnownLives(m)' /\ SoundCopies(m)'
  <2>o. KnownLives(m) /\ SoundCopies(m)
    BY DEF ObsInv
  <2> QED BY <2>o DEF KnownLives, SoundCopies, FirstLife, Sound, InHand
<1>2. EntryInHand'
  BY DEF ObsInv, EntryInHand
<1> QED BY <1>1, <1>2 DEF ObsInv

LEMMA EntryFields ==
  ASSUME RegInv, NEW n \in Registered, NEW cond \in Conditions, NEW e \in Entry,
         e \in {[entries[n] EXCEPT !.cond = cond], [entries[n] EXCEPT !.old = TRUE]},
         SetStatus(n, e)
  PROVE  \A m \in Registered : /\ entries'[m].gen = entries[m].gen
                               /\ entries'[m].uid = entries[m].uid
                               /\ entries'[m].conn = entries[m].conn
<1>1. entries[n] \in EntryRecord /\ entries \in [Names -> Entry \union {NoEntry}] /\ n \in Names
  BY EntryAssumption DEF RegInv, RegTypeOK, Registered
<1>2. e.gen = entries[n].gen /\ e.uid = entries[n].uid /\ e.conn = entries[n].conn
  BY <1>1 DEF EntryRecord
<1>3. entries' = [entries EXCEPT ![n] = e]
  BY DEF SetStatus
<1> QED BY <1>1, <1>2, <1>3 DEF Registered

LEMMA ProbeObs ==
  ASSUME RecInv, ObsInv, Probe
  PROVE  ObsInv'
<1>t. RegInv /\ rname \in Names
  BY RecInvParts DEF TypeRest
<1>1. rname \in Registered /\ rcond' \in Conditions
  BY DEF Probe, SetStatus, Conditions
<1>2. [entries[rname] EXCEPT !.cond = rcond'] \in Entry
  BY <1>t, <1>1, EntryUpdate
<1>3. SetStatus(rname, [entries[rname] EXCEPT !.cond = rcond'])
  BY DEF Probe
<1>4. Registered' = Registered
  BY <1>t, <1>2, <1>3, SetStatusRegistered
<1>5. \A m \in Registered : /\ entries'[m].gen = entries[m].gen
                            /\ entries'[m].uid = entries[m].uid
                            /\ entries'[m].conn = entries[m].conn
  BY <1>t, <1>1, <1>2, <1>3, EntryFields
<1> QED BY <1>4, <1>5, SameEntries DEF Probe

LEMMA AgeObs ==
  ASSUME RecInv, ObsInv, NEW n \in Names, Age(n)
  PROVE  ObsInv'
<1>t. RegInv
  BY RecInvParts
<1>1. n \in Registered /\ "none" \in Conditions
  BY DEF Age, Conditions
<1>2. [entries[n] EXCEPT !.old = TRUE] \in Entry
  BY <1>t, <1>1, EntryUpdate
<1>3. SetStatus(n, [entries[n] EXCEPT !.old = TRUE])
  BY DEF Age
<1>4. Registered' = Registered
  BY <1>t, <1>2, <1>3, SetStatusRegistered
<1>5. \A m \in Registered : /\ entries'[m].gen = entries[m].gen
                            /\ entries'[m].uid = entries[m].uid
                            /\ entries'[m].conn = entries[m].conn
  BY <1>t, <1>1, <1>2, <1>3, EntryFields
<1> QED BY <1>4, <1>5, SameEntries DEF Age, work

(* A status that claims a generation is written over the very CR that was  *)
(* acted upon, while the entry has that generation.                        *)
LEMMA WriteStatusObs ==
  ASSUME RecInv, ObsInv, WriteStatus
  PROVE  ObsInv'
<1>t. api \in [Names -> CR] /\ rname \in Names /\ rpc = "status"
  BY DEF RecInv, RecTypeOK, WriteStatus
<1>1. UNCHANGED <<entries, cache, rname>> /\ rpc' = "idle" /\ Registered' = Registered
  BY DEF WriteStatus, EndOfCall, regVars, Registered
<1>2. EntryInHand'
  BY <1>1 DEF EntryInHand
<1>3. CASE UNCHANGED api
  <2>1. ASSUME NEW m \in Names PROVE KnownLives(m)' /\ SoundCopies(m)'
    <3>o. KnownLives(m) /\ SoundCopies(m)
      BY DEF ObsInv
    <3> QED BY <3>o, <1>1, <1>3 DEF KnownLives, SoundCopies, FirstLife, Sound, InHand
  <2> QED BY <1>2, <2>1 DEF ObsInv
<1>4. ASSUME NEW st \in NewStatuses, api[rname] = rcr, api' = [api EXCEPT ![rname].status = st]
      PROVE  ObsInv'
  <2>1. st.gen \in {api[rname].status.gen, rcr.gen}
    <3>1. rcr \in CR
      BY <1>t, <1>4
    <3>2. rcr.status \in StatusSet
      BY <3>1 DEF CR
    <3>3. CASE rcond = "CredentialsError"
      BY <3>2, <3>3, <1>4 DEF NewStatuses, StatusSet
    <3>4. CASE rcond # "CredentialsError"
      BY <3>4 DEF NewStatuses
    <3> QED BY <3>3, <3>4
  <2>2. /\ api'[rname].live = api[rname].live /\ api'[rname].uid = api[rname].uid
        /\ api'[rname].gen = api[rname].gen /\ api'[rname].conn = api[rname].conn
        /\ api'[rname].status = st
        /\ \A m \in Names : m # rname => api'[m] = api[m]
    BY <1>t, <1>4 DEF CR
  <2>3. rname \in Registered => entries[rname].gen = rcr.gen
    BY <1>t DEF ObsInv, EntryInHand
  <2>4. ASSUME NEW m \in Names PROVE KnownLives(m)' /\ SoundCopies(m)'
    <3>o. KnownLives(m) /\ SoundCopies(m)
      BY DEF ObsInv
    <3>1. CASE m = rname
      <4>1. KnownLives(m)'
        BY <3>o, <3>1, <1>1, <2>2 DEF KnownLives, InHand
      <4>2. ASSUME FirstLife(m)' PROVE SoundCopies(m)'
        <5>1. /\ FirstLife(m) /\ InHand(m)
              /\ api[m].status.gen =< api[m].gen
              /\ cache[m].live => Sound(m, cache[m]) /\ rcr.gen =< cache[m].gen
              /\ m \in Registered => Sound(m, entries[m])
          BY <3>o, <3>1, <4>2, <1>t, <2>2 DEF SoundCopies, FirstLife, InHand
        <5>2. api'[m].status.gen =< api'[m].gen
          BY <5>1, <3>1, <2>1, <2>2, <1>4, CopyTypes
        <5>3. cache'[m].live => Sound(m, cache[m])'
          BY <5>1, <3>1, <2>1, <2>2, <1>1, <1>4, CopyTypes DEF Sound
        <5>4. m \in Registered' => Sound(m, entries[m])'
          BY <5>1, <3>1, <2>1, <2>2, <2>3, <1>1, <1>4, CopyTypes DEF Sound
        <5> QED BY <5>2, <5>3, <5>4, <1>1 DEF SoundCopies, InHand
      <4> QED BY <4>1, <4>2 DEF SoundCopies
    <3>2. CASE m # rname
      BY <3>o, <3>2, <1>1, <2>2 DEF KnownLives, SoundCopies, FirstLife, Sound, InHand
    <3> QED BY <3>1, <3>2
  <2> QED BY <1>2, <2>4 DEF ObsInv
<1> QED BY <1>3, <1>4 DEF WriteStatus

LEMMA RestartObs ==
  ASSUME RecInv, ObsInv, Restart
  PROVE  ObsInv'
<1>1. /\ UNCHANGED api /\ rpc' = "idle" /\ Registered' = {}
      /\ \A n \in Names : ~cache'[n].live
  BY DEF Restart, EndOfCall, Registered, Absent
<1>2. ASSUME NEW m \in Names PROVE KnownLives(m)' /\ SoundCopies(m)'
  BY <1>1 DEF ObsInv, KnownLives, SoundCopies, FirstLife, InHand
<1>3. EntryInHand'
  BY <1>1 DEF EntryInHand
<1> QED BY <1>2, <1>3 DEF ObsInv

LEMMA ObsStepInv == RecInv /\ ObsInv /\ [RecNext]_recVars => ObsInv'
<1> SUFFICES ASSUME RecInv, ObsInv, [RecNext]_recVars PROVE ObsInv'
  OBVIOUS
<1>1. CASE UNCHANGED recVars
  BY <1>1, QuietObs DEF recVars, regVars, work
<1>2. ASSUME NEW n \in Names, NEW c \in Conns, CreateCR(n, c) \/ EditCR(n, c) PROVE ObsInv'
  BY <1>2, CreateCRObs, EditCRObs
<1>3. ASSUME NEW n \in Names, DeleteCR(n) \/ Inform(n) \/ Age(n) PROVE ObsInv'
  BY <1>3, DeleteCRObs, InformObs, AgeObs
<1>4. ASSUME NEW n \in Names, TimerFires(n) \/ ReconcileGetFails(n) PROVE ObsInv'
  BY <1>4, QuietObs DEF TimerFires, ReconcileGetFails, regVars, work
<1>5. ASSUME NEW c \in Conns, Rotate(c) \/ WriteSecret(c) \/ LoseSecret(c) \/ ToggleNetwork(c)
      PROVE  ObsInv'
  BY <1>5, QuietObs DEF Rotate, WriteSecret, LoseSecret, ToggleNetwork, Operator, regVars, work
<1>6. ASSUME NEW n \in Names, ReconcileGone(n) \/ ReconcileStart(n) PROVE ObsInv'
  BY <1>6, ReconcileGoneObs, ReconcileStartObs
<1>7. CASE ReconcileStep
  BY <1>7, ConnectObs, ConnectFailsObs, ProbeObs, WriteStatusObs DEF ReconcileStep
<1>8. CASE Restart
  BY <1>8, RestartObs
<1> QED BY <1>1, <1>2, <1>3, <1>4, <1>5, <1>6, <1>7, <1>8 DEF RecNext

(* In the first life of a name, a status that claims the current           *)
(* generation is the truth about the connection in the registry, whatever  *)
(* the lag, the conflicts and the restarts.                                *)
THEOREM ReconcilerObservedIsServed == RecSpec => []ObservedSpecIsServed
<1>1. RecSpec => []ObsInv
  BY ReconcilerInvariant, ObsInitInv, ObsStepInv, PTL DEF RecSpec
<1> QED BY <1>1, ReconcilerInvariant, ObsImplies, PTL
=============================================================================
