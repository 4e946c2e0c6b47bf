---------------------------- MODULE WatchProofs ----------------------------
(***************************************************************************)
(* Proofs about WatchManager, for any number of clusters, clients and      *)
(* kinds: a cluster has at most one ClusterWatcher with a live context,    *)
(* and it is the one the manager knows.                                    *)
(***************************************************************************)
EXTENDS WatchManager, RegistryProofs

(* Every client belongs to one cluster, in the registry, in the list and   *)
(* in m.running, and what the manager holds has not been cancelled.        *)
ClientsInv ==
  /\ \A n \in Names : entries[n] # NoEntry => owner[entries[n]] = n
  /\ \A n \in Names : entries[n] # NoEntry /\ mpc # "stopped" => entries[n] \notin cancelled
  /\ \A n \in Names : running[n] # NoClient => owner[running[n]] = n /\ running[n] \notin cancelled
  /\ \A i \in DOMAIN snap : owner[snap[i].client] = snap[i].name /\ snap[i].client \notin cancelled

(* A watcher that still is the registry's one at its turn is in the list:  *)
(* sync does not cancel the watcher of a client the registry holds.        *)
SnapInv ==
  /\ mpc # "apply" => snap = <<>>
  /\ \A i, j \in DOMAIN snap : snap[i].name = snap[j].name => i = j
  /\ \A i \in DOMAIN snap : snap[i].name \notin seen
  /\ mpc = "apply" =>
       \A n \in Names \ seen : running[n] # NoClient /\ entries[n] = running[n]
          => \E i \in DOMAIN snap : snap[i].name = n /\ snap[i].client = running[n]

WatchInv == ManagerTypeOK /\ OrderMatchesEntries /\ ClientsInv /\ SnapInv /\ NoStrayWatcher

Item == [name : Names, client : Entry]

LEMMA SnapItems ==
  ASSUME ManagerTypeOK
  PROVE  /\ snap \in Seq(Item) /\ Len(snap) \in Nat
         /\ \A i \in DOMAIN snap : snap[i].name \in Names /\ snap[i].client \in Entry
<1>1. snap \in Seq(Item) /\ Len(snap) \in Nat
  BY DEF ManagerTypeOK, Item
<1>2. \A i \in DOMAIN snap : snap[i] \in Item
  BY <1>1
<1> QED BY <1>1, <1>2 DEF Item

LEMMA WatchInitInv == WatchInit => WatchInv
<1> SUFFICES ASSUME WatchInit PROVE WatchInv
  OBVIOUS
<1> USE DEF WatchInit
<1>1. RegInv
  BY RegInitInv
<1>2. snap = <<>> /\ snap \in Seq(Item) /\ DOMAIN snap = {}
  OBVIOUS
<1>3. ManagerTypeOK
  BY <1>1, <1>2 DEF RegInv, ManagerTypeOK, Item
<1>4. ClientsInv
  BY <1>2, NoClientAssumption DEF ClientsInv, RegInit
<1>5. SnapInv
  BY <1>2 DEF SnapInv
<1>6. NoStrayWatcher
  BY DEF NoStrayWatcher, Alive, Goroutines
<1> QED BY <1>1, <1>3, <1>4, <1>5, <1>6 DEF WatchInv, RegInv

----------------------------------------------------------------------------
(* The controller *)

LEMMA ConnectWatch ==
  ASSUME WatchInv, NEW n \in Names, NEW c \in Entry, Connect(n, c)
  PROVE  WatchInv'
<1>0. ManagerTypeOK /\ RegInv /\ ClientsInv /\ SnapInv /\ NoStrayWatcher
  BY DEF WatchInv, RegInv, ManagerTypeOK
<1>1. /\ \A m \in Names : entries[m] # c /\ running[m] # c
      /\ \A i \in DOMAIN snap : snap[i].client # c
  BY DEF Connect, InUse
<1>2. RegInv'
  BY <1>0, SetInv DEF Connect
<1>3. /\ entries' = [entries EXCEPT ![n] = c] /\ owner' = [owner EXCEPT ![c] = n]
      /\ cancelled' = cancelled \ {c}
      /\ gpc' = [g \in Goroutines |-> IF g[1] = c THEN "none" ELSE gpc[g]]
      /\ UNCHANGED <<mpc, snap, seen, running, pending, ctxDone, netVars>>
  BY DEF Connect, Set
<1>4. ManagerTypeOK'
  BY <1>0, <1>2, <1>3 DEF ManagerTypeOK, RegInv, netVars
<1>5. entries'[n] = c /\ owner'[c] = n /\ c \notin cancelled'
      /\ (\A m \in Names \ {n} : entries'[m] = entries[m])
      /\ (\A d \in Entry \ {c} : owner'[d] = owner[d])
  BY <1>0, <1>3 DEF ManagerTypeOK, RegInv, RegTypeOK
<1>6. ClientsInv'
  <2>1. \A m \in Names : entries[m] # NoEntry => entries[m] \in Entry \ {c}
    BY <1>0, <1>1 DEF RegInv, RegTypeOK
  <2>2. \A m \in Names : running[m] # NoClient => running[m] \in Entry \ {c}
    BY <1>0, <1>1 DEF ManagerTypeOK
  <2>3. \A i \in DOMAIN snap : snap[i].client \in Entry \ {c}
    BY <1>0, <1>1, SnapItems
  <2>4. \A m \in Names : entries'[m] # NoEntry =>
          owner'[entries'[m]] = m /\ (mpc # "stopped" => entries'[m] \notin cancelled')
    BY <1>0, <1>3, <1>5, <2>1 DEF ClientsInv
  <2>5. \A m \in Names : running[m] # NoClient => owner'[running[m]] = m /\ running[m] \notin cancelled'
    BY <1>0, <1>3, <1>5, <2>2 DEF ClientsInv
  <2>6. \A i \in DOMAIN snap : owner'[snap[i].client] = snap[i].name /\ snap[i].client \notin cancelled'
    BY <1>0, <1>3, <1>5, <2>3 DEF ClientsInv
  <2> QED BY <1>3, <2>4, <2>5, <2>6 DEF ClientsInv
<1>7. SnapInv'
  <2>1. \A m \in Names : entries'[m] = running[m] => entries[m] = running[m]
    BY <1>1, <1>5
  <2> QED BY <1>0, <1>3, <2>1 DEF SnapInv
<1>8. NoStrayWatcher'
  <2> SUFFICES ASSUME NEW d \in Entry, Alive(d)', ~Cancelled(d)' PROVE (running[owner[d]] = d)'
    BY DEF NoStrayWatcher
  <2>1. d # c /\ Alive(d)
    BY <1>3 DEF Alive, Goroutines
  <2>2. ~Cancelled(d)
    BY <1>3, <2>1 DEF Cancelled
  <2> QED BY <1>0, <1>3, <1>5, <2>1, <2>2 DEF NoStrayWatcher
<1> QED BY <1>2, <1>4, <1>6, <1>7, <1>8 DEF WatchInv, RegInv

LEMMA ForgetWatch ==
  ASSUME WatchInv, NEW n \in Names, Forget(n)
  PROVE  WatchInv'
<1>0. ManagerTypeOK /\ RegInv /\ ClientsInv /\ SnapInv /\ NoStrayWatcher
  BY DEF WatchInv, RegInv, ManagerTypeOK
<1>1. RegInv'
  BY <1>0, DeleteInv DEF Forget
<1>2. entries' = [entries EXCEPT ![n] = NoEntry]
      /\ UNCHANGED <<owner, mpc, snap, seen, running, cancelled, gpc, pending, ctxDone, netVars>>
  BY DEF Forget, Delete, mgrVars
<1>3. \A m \in Names : entries'[m] # NoEntry => entries'[m] = entries[m]
  BY <1>0, <1>2 DEF RegInv, RegTypeOK
<1>4. ManagerTypeOK'
  BY <1>0, <1>1, <1>2 DEF ManagerTypeOK, RegInv, netVars
<1>5. ClientsInv'
  BY <1>0, <1>2, <1>3 DEF ClientsInv
<1>6. SnapInv'
  BY <1>0, <1>2, <1>3, NoClientAssumption DEF SnapInv
<1>7. NoStrayWatcher'
  BY <1>0, <1>2 DEF NoStrayWatcher, Alive, Cancelled
<1> QED BY <1>1, <1>4, <1>5, <1>6, <1>7 DEF WatchInv, RegInv

----------------------------------------------------------------------------
(* The manager *)

LEMMA SyncListWatch ==
  ASSUME WatchInv, SyncList
  PROVE  WatchInv'
<1>0. ManagerTypeOK /\ RegInv /\ ClientsInv /\ SnapInv /\ NoStrayWatcher
  BY DEF WatchInv, RegInv, ManagerTypeOK
<1>1. List = order
  BY <1>0, ListIsOrder
<1>2. /\ snap' = [i \in DOMAIN order |-> [name |-> order[i], client |-> entries[order[i]]]]
      /\ seen' = {} /\ mpc = "sync" /\ mpc' = "apply"
      /\ UNCHANGED <<regVars, owner, running, cancelled, gpc, pending, ctxDone, netVars>>
  BY <1>1 DEF SyncList
<1>3. order \in Seq(Names) /\ Len(order) \in Nat /\ DOMAIN order = 1 .. Len(order)
  BY <1>0 DEF RegInv, RegTypeOK
<1>4. \A i \in DOMAIN order : order[i] \in Names /\ entries[order[i]] \in Entry /\ entries[order[i]] # NoEntry
  BY <1>0, <1>3 DEF RegInv, RegTypeOK, OrderMatchesEntries, Registered
<1>5. DOMAIN snap' = DOMAIN order
      /\ \A i \in DOMAIN order : snap'[i].name = order[i] /\ snap'[i].client = entries[order[i]]
  BY <1>2
<1>6. snap' \in Seq(Item)
  <2>1. \A i \in DOMAIN order : snap'[i] \in Item
    BY <1>2, <1>4 DEF Item
  <2> QED BY <1>2, <1>3, <2>1
<1>7. ManagerTypeOK'
  BY <1>0, <1>2, <1>6 DEF ManagerTypeOK, RegTypeOK, regVars, netVars, Item
<1>8. RegInv'
  BY <1>0, <1>2 DEF RegInv, RegTypeOK, OrderMatchesEntries, Registered, regVars
<1>9. ClientsInv'
  BY <1>0, <1>2, <1>4, <1>5 DEF ClientsInv, regVars
<1>10. SnapInv'
  <2>1. \A i, j \in DOMAIN snap' : snap'[i].name = snap'[j].name => i = j
    BY <1>0, <1>5 DEF RegInv, OrderMatchesEntries
  <2>2. \A n \in Names : entries[n] # NoEntry => \E i \in DOMAIN snap' : snap'[i].name = n /\ snap'[i].client = entries[n]
    BY <1>0, <1>5 DEF RegInv, OrderMatchesEntries, Registered
  <2> QED BY <1>2, <2>1, <2>2, NoClientAssumption DEF SnapInv, regVars
<1>11. NoStrayWatcher'
  BY <1>0, <1>2 DEF NoStrayWatcher, Alive, Cancelled
<1> QED BY <1>7, <1>8, <1>9, <1>10, <1>11 DEF WatchInv, RegInv

(* What taking the head off the list keeps. *)
LEMMA TailItems ==
  ASSUME ManagerTypeOK, snap # <<>>
  PROVE  /\ Tail(snap) \in Seq(Item)
         /\ Head(snap) = snap[1] /\ 1 \in DOMAIN snap
         /\ DOMAIN Tail(snap) = 1 .. Len(snap) - 1 /\ DOMAIN snap = 1 .. Len(snap)
         /\ \A i \in DOMAIN Tail(snap) : i + 1 \in DOMAIN snap /\ i + 1 # 1 /\ Tail(snap)[i] = snap[i + 1]
         /\ \A i \in DOMAIN snap : i # 1 => i - 1 \in DOMAIN Tail(snap) /\ Tail(snap)[i - 1] = snap[i]
<1>1. snap \in Seq(Item) /\ Len(snap) \in Nat
  BY SnapItems
<1> QED BY <1>1

LEMMA SyncEntryWatch ==
  ASSUME WatchInv, SyncEntry
  PROVE  WatchInv'
<1> DEFINE n == Head(snap).name
<1> DEFINE c == Head(snap).client
<1>0. ManagerTypeOK /\ RegInv /\ ClientsInv /\ SnapInv /\ NoStrayWatcher
  BY DEF WatchInv, RegInv, ManagerTypeOK
<1>1. /\ mpc = "apply" /\ snap # <<>> /\ seen' = seen \union {n} /\ snap' = Tail(snap)
      /\ UNCHANGED <<regVars, owner, mpc, pending, ctxDone, netVars>>
  BY DEF SyncEntry
<1>2. /\ Tail(snap) \in Seq(Item)
      /\ Head(snap) = snap[1] /\ 1 \in DOMAIN snap
      /\ \A i \in DOMAIN Tail(snap) : i + 1 \in DOMAIN snap /\ i + 1 # 1 /\ Tail(snap)[i] = snap[i + 1]
      /\ \A i \in DOMAIN snap : i # 1 => i - 1 \in DOMAIN Tail(snap) /\ Tail(snap)[i - 1] = snap[i]
  BY <1>0, <1>1, TailItems
<1>3. n \in Names /\ c \in Entry /\ owner[c] = n /\ c \notin cancelled /\ n \notin seen
  BY <1>0, <1>2, SnapItems DEF ClientsInv, SnapInv
<1>4. running[n] \in Entry \union {NoClient}
  BY <1>0, <1>3 DEF ManagerTypeOK
(* Whatever is cancelled is the watcher m.running had for n, and not c. *)
<1>5. /\ running' = [running EXCEPT ![n] = c]
      /\ \A d \in Entry : d \in cancelled' <=> d \in cancelled \/ (d = running[n] /\ d # c)
      /\ cancelled' \subseteq Entry
      /\ \A g \in Goroutines : g[1] # c => gpc'[g] = gpc[g]
      /\ gpc' \in [Goroutines -> {"none", "check", "backoff", "stream", "skipped"}]
  <2>1. CASE running[n] = c
    <3>1. UNCHANGED <<running, cancelled, gpc>>
      BY <2>1 DEF SyncEntry
    <3> QED BY <1>0, <1>3, <2>1, <3>1 DEF ManagerTypeOK
  <2>2. CASE running[n] # c
    <3>1. /\ running' = [running EXCEPT ![n] = c]
          /\ cancelled' = cancelled \union ({running[n]} \ {NoClient})
          /\ gpc' = [g \in Goroutines |-> IF g[1] = c THEN "check" ELSE gpc[g]]
      BY <2>2 DEF SyncEntry
    <3>2. NoClient \notin Entry
      BY NoClientAssumption
    <3> QED BY <1>0, <1>3, <1>4, <2>2, <3>1, <3>2 DEF ManagerTypeOK
  <2> QED BY <2>1, <2>2
<1>6. ManagerTypeOK'
  <2>1. running' \in [Names -> Entry \union {NoClient}]
    BY <1>0, <1>3, <1>5 DEF ManagerTypeOK
  <2>2. seen' \subseteq Names
    BY <1>0, <1>1, <1>3 DEF ManagerTypeOK
  <2> QED BY <1>0, <1>1, <1>2, <1>5, <2>1, <2>2 DEF ManagerTypeOK, RegTypeOK, regVars, netVars, Item
<1>7. RegInv'
  BY <1>0, <1>1 DEF RegInv, RegTypeOK, OrderMatchesEntries, Registered, regVars
(* It belongs to n, is not in the list any more, and not in the registry.  *)
<1>8. \A d \in Entry : d = running[n] /\ d # c =>
        /\ \A m \in Names : entries[m] # d
        /\ \A m \in Names : m # n => running[m] # d
        /\ \A i \in DOMAIN Tail(snap) : Tail(snap)[i].client # d
  <2> SUFFICES ASSUME running[n] \in Entry, running[n] # c
               PROVE  /\ \A m \in Names : entries[m] # running[n]
                      /\ \A m \in Names : m # n => running[m] # running[n]
                      /\ \A i \in DOMAIN Tail(snap) : Tail(snap)[i].client # running[n]
    OBVIOUS
  <2>0. running[n] # NoClient /\ running[n] # NoEntry /\ owner[running[n]] = n
    BY <1>0, <1>3, NoClientAssumption DEF ClientsInv
  <2>1. \A i \in DOMAIN snap : snap[i].name = n => i = 1
    BY <1>0, <1>2 DEF SnapInv
  <2>2. ASSUME NEW m \in Names, entries[m] = running[n] PROVE FALSE
    <3>1. m = n
      BY <1>0, <2>0, <2>2 DEF ClientsInv
    <3>2. \E i \in DOMAIN snap : snap[i].name = n /\ snap[i].client = running[n]
      BY <1>0, <1>1, <1>3, <2>0, <2>2, <3>1 DEF SnapInv
    <3> QED BY <1>2, <2>1, <3>2
  <2>3. ASSUME NEW m \in Names, m # n, running[m] = running[n] PROVE FALSE
    BY <1>0, <2>0, <2>3 DEF ClientsInv
  <2>4. ASSUME NEW i \in DOMAIN Tail(snap), Tail(snap)[i].client = running[n] PROVE FALSE
    <3>1. snap[i + 1].name = n
      BY <1>0, <1>2, <2>0, <2>4 DEF ClientsInv
    <3> QED BY <1>2, <2>1, <3>1
  <2> QED BY <2>2, <2>3, <2>4
<1>9. ClientsInv'
  <2>1. \A m \in Names : entries[m] # NoEntry =>
          entries[m] \in Entry /\ owner[entries[m]] = m /\ entries[m] \notin cancelled'
    BY <1>0, <1>1, <1>5, <1>8 DEF ClientsInv, RegInv, RegTypeOK
  <2>2. ASSUME NEW m \in Names, running'[m] # NoClient
        PROVE  owner[running'[m]] = m /\ running'[m] \notin cancelled'
    <3>1. CASE m = n
      <4>1. running'[m] = c
        BY <1>0, <1>5, <3>1 DEF ManagerTypeOK
      <4> QED BY <1>3, <1>5, <3>1, <4>1
    <3>2. CASE m # n
      <4>1. running'[m] = running[m] /\ running[m] \in Entry
        BY <1>0, <1>5, <2>2, <3>2 DEF ManagerTypeOK
      <4> QED BY <1>0, <1>5, <1>8, <2>2, <3>2, <4>1 DEF ClientsInv
    <3> QED BY <3>1, <3>2
  <2>3. ASSUME NEW i \in DOMAIN Tail(snap)
        PROVE  owner[Tail(snap)[i].client] = Tail(snap)[i].name /\ Tail(snap)[i].client \notin cancelled'
    <3>1. owner[Tail(snap)[i].client] = Tail(snap)[i].name /\ Tail(snap)[i].client \notin cancelled
      BY <1>0, <1>2 DEF ClientsInv
    <3>2. Tail(snap)[i].client \in Entry
      BY <1>0, <1>2, SnapItems
    <3> QED BY <1>5, <1>8, <3>1, <3>2
  <2> QED BY <1>1, <2>1, <2>2, <2>3 DEF ClientsInv, regVars
<1>10. SnapInv'
  <2>1. \A i, j \in DOMAIN Tail(snap) : Tail(snap)[i].name = Tail(snap)[j].name => i = j
    <3>1. \A i, j \in DOMAIN Tail(snap) : Tail(snap)[i].name = Tail(snap)[j].name => i + 1 = j + 1
      BY <1>0, <1>2 DEF SnapInv
    <3>2. DOMAIN Tail(snap) = 1 .. Len(snap) - 1
      BY <1>0, <1>1, TailItems
    <3> QED BY <3>1, <3>2
  <2>2. \A i \in DOMAIN Tail(snap) : Tail(snap)[i].name \notin seen'
    BY <1>0, <1>1, <1>2 DEF SnapInv
  <2>3. ASSUME NEW m \in Names \ seen', running'[m] # NoClient, entries[m] = running'[m]
        PROVE  \E i \in DOMAIN Tail(snap) : Tail(snap)[i].name = m /\ Tail(snap)[i].client = running'[m]
    <3>1. m \notin seen /\ m # n /\ running'[m] = running[m]
      BY <1>0, <1>1, <1>5 DEF ManagerTypeOK
    <3>2. PICK i \in DOMAIN snap : snap[i].name = m /\ snap[i].client = running[m]
      BY <1>0, <1>1, <2>3, <3>1 DEF SnapInv
    <3>3. i # 1
      BY <1>2, <3>1, <3>2
    <3> QED BY <1>2, <3>1, <3>2, <3>3
  <2> QED BY <1>1, <2>1, <2>2, <2>3 DEF SnapInv, regVars
<1>11. NoStrayWatcher'
  <2> SUFFICES ASSUME NEW d \in Entry, Alive(d)', ~Cancelled(d)' PROVE running'[owner[d]] = d
    BY <1>1 DEF NoStrayWatcher
  <2>1. CASE d = c
    BY <1>0, <1>3, <1>5, <2>1 DEF ManagerTypeOK
  <2>2. CASE d # c
    <3>1. Alive(d) /\ ~Cancelled(d)
      BY <1>1, <1>5, <2>2 DEF Alive, Cancelled, Goroutines
    <3>2. running[owner[d]] = d /\ owner[d] \in Names
      BY <1>0, <3>1 DEF NoStrayWatcher, ManagerTypeOK
    <3>3. owner[d] # n
      BY <1>5, <2>2, <3>2 DEF Cancelled
    <3> QED BY <1>0, <1>5, <3>2, <3>3 DEF ManagerTypeOK
  <2> QED BY <2>1, <2>2
<1> QED BY <1>6, <1>7, <1>9, <1>10, <1>11 DEF WatchInv, RegInv

LEMMA SyncSweepWatch ==
  ASSUME WatchInv, SyncSweep
  PROVE  WatchInv'
<1>0. ManagerTypeOK /\ RegInv /\ ClientsInv /\ SnapInv /\ NoStrayWatcher
  BY DEF WatchInv, RegInv, ManagerTypeOK
<1>1. /\ mpc = "apply" /\ snap = <<>> /\ DOMAIN snap = {} /\ mpc' = "wait"
      /\ running' = [n \in Names |-> IF n \in seen THEN running[n] ELSE NoClient]
      /\ cancelled' = cancelled \union ({running[n] : n \in Names \ seen} \ {NoClient})
      /\ UNCHANGED <<regVars, owner, snap, seen, gpc, pending, ctxDone, netVars>>
  BY DEF SyncSweep
<1>2. {running[n] : n \in Names \ seen} \ {NoClient} \subseteq Entry
  BY <1>0 DEF ManagerTypeOK
<1>3. ManagerTypeOK'
  BY <1>0, <1>1, <1>2 DEF ManagerTypeOK, RegTypeOK, regVars, netVars
<1>4. RegInv'
  BY <1>0, <1>1 DEF RegInv, RegTypeOK, OrderMatchesEntries, Registered, regVars
(* What is swept is in no entry: its name was not in the list. *)
<1>5. \A n \in Names \ seen : running[n] # NoClient => \A m \in Names : entries[m] # running[n]
  <2> SUFFICES ASSUME NEW n \in Names \ seen, running[n] # NoClient, NEW m \in Names, entries[m] = running[n]
               PROVE  FALSE
    OBVIOUS
  <2>1. m = n
    BY <1>0, NoClientAssumption DEF ClientsInv
  <2> QED BY <1>0, <1>1, <2>1 DEF SnapInv
<1>6. \A n \in Names \ seen, m \in Names : running[n] # NoClient /\ running[m] = running[n] => m = n
  BY <1>0 DEF ClientsInv
<1>7. ClientsInv'
  <2>1. \A m \in Names : entries[m] # NoEntry => owner[entries[m]] = m /\ entries[m] \notin cancelled'
    BY <1>0, <1>1, <1>5 DEF ClientsInv
  <2>2. \A m \in Names : running'[m] # NoClient => m \in seen /\ running'[m] = running[m]
    BY <1>1
  <2>3. \A m \in Names : running'[m] # NoClient => owner[running'[m]] = m /\ running'[m] \notin cancelled'
    BY <1>0, <1>1, <1>6, <2>2 DEF ClientsInv
  <2> QED BY <1>1, <2>1, <2>3 DEF ClientsInv, regVars
<1>8. SnapInv'
  BY <1>1 DEF SnapInv
<1>9. NoStrayWatcher'
  <2> SUFFICES ASSUME NEW d \in Entry, Alive(d)', ~Cancelled(d)' PROVE running'[owner[d]] = d
    BY <1>1 DEF NoStrayWatcher
  <2>1. Alive(d) /\ ~Cancelled(d) /\ d \notin cancelled'
    BY <1>1 DEF Alive, Cancelled
  <2>2. running[owner[d]] = d /\ owner[d] \in Names
    BY <1>0, <2>1 DEF NoStrayWatcher, ManagerTypeOK
  <2>3. owner[d] \in seen
    BY <1>1, <2>1, <2>2, NoClientAssumption
  <2> QED BY <1>1, <2>2, <2>3
<1> QED BY <1>3, <1>4, <1>7, <1>8, <1>9 DEF WatchInv, RegInv

LEMMA ShutdownAllWatch ==
  ASSUME WatchInv, ShutdownAll
  PROVE  WatchInv'
<1>0. ManagerTypeOK /\ RegInv /\ ClientsInv /\ SnapInv
  BY DEF WatchInv, RegInv, ManagerTypeOK
<1>1. /\ mpc = "wait" /\ ctxDone /\ mpc' = "stopped"
      /\ running' = [n \in Names |-> NoClient]
      /\ cancelled' = cancelled \union ({running[n] : n \in Names} \ {NoClient})
      /\ UNCHANGED <<regVars, owner, snap, seen, gpc, pending, ctxDone, netVars>>
  BY DEF ShutdownAll
<1>2. {running[n] : n \in Names} \ {NoClient} \subseteq Entry
  BY <1>0 DEF ManagerTypeOK
<1>3. snap = <<>> /\ DOMAIN snap = {}
  BY <1>0, <1>1 DEF SnapInv
<1>4. ManagerTypeOK'
  BY <1>0, <1>1, <1>2 DEF ManagerTypeOK, RegTypeOK, regVars, netVars
<1>5. RegInv'
  BY <1>0, <1>1 DEF RegInv, RegTypeOK, OrderMatchesEntries, Registered, regVars
<1>6. ClientsInv'
  BY <1>0, <1>1, <1>3 DEF ClientsInv, regVars
<1>7. SnapInv'
  BY <1>1, <1>3 DEF SnapInv
<1>8. NoStrayWatcher'
  BY <1>1 DEF NoStrayWatcher, Cancelled
<1> QED BY <1>4, <1>5, <1>6, <1>7, <1>8 DEF WatchInv, RegInv

LEMMA TickWatch ==
  ASSUME WatchInv, Tick \/ Shutdown
  PROVE  WatchInv'
<1>0. ManagerTypeOK /\ RegInv /\ ClientsInv /\ SnapInv /\ NoStrayWatcher
  BY DEF WatchInv, RegInv, ManagerTypeOK
<1>1. /\ UNCHANGED <<regVars, owner, snap, seen, running, cancelled, gpc, pending, netVars>>
      /\ (mpc = "wait" /\ mpc' = "sync") \/ mpc' = mpc
      /\ ctxDone' \in BOOLEAN /\ (ctxDone => ctxDone')
  BY <1>0 DEF Tick, Shutdown, mgrVars, ManagerTypeOK
<1>2. ManagerTypeOK'
  BY <1>0, <1>1 DEF ManagerTypeOK, RegTypeOK, regVars, netVars
<1>3. RegInv'
  BY <1>0, <1>1 DEF RegInv, RegTypeOK, OrderMatchesEntries, Registered, regVars
<1>4. ClientsInv'
  BY <1>0, <1>1 DEF ClientsInv, regVars
<1>5. SnapInv'
  BY <1>0, <1>1 DEF SnapInv, regVars
<1>6. NoStrayWatcher'
  BY <1>0, <1>1 DEF NoStrayWatcher, Alive, Cancelled
<1> QED BY <1>2, <1>3, <1>4, <1>5, <1>6 DEF WatchInv, RegInv

----------------------------------------------------------------------------
(* The watchers and the clusters *)

(* A goroutine never comes back to life by itself, and touches nothing the *)
(* manager keeps.                                                          *)
LEMMA GoroutineWatch ==
  ASSUME WatchInv, NEW g \in Goroutines, GoroutineStep(g)
  PROVE  WatchInv'
<1>0. ManagerTypeOK /\ RegInv /\ ClientsInv /\ SnapInv /\ NoStrayWatcher
  BY DEF WatchInv, RegInv, ManagerTypeOK
<1>1. UNCHANGED <<regVars, owner, mgrVars, ctxDone, installed, exists>>
  BY DEF GoroutineStep, WatchStarts, WatchSkipped, WatchFails, BackoffEnds, GoroutineReturns, Consume, StreamEnds,
         Elsewhere, netVars
<1>2. pending' \subseteq Goroutines
  BY <1>0 DEF GoroutineStep, WatchStarts, WatchSkipped, WatchFails, BackoffEnds, GoroutineReturns, Consume,
              StreamEnds, ManagerTypeOK
<1>3. unannounced' \subseteq unannounced
  BY DEF GoroutineStep, WatchStarts, WatchSkipped, WatchFails, BackoffEnds, GoroutineReturns, Consume, StreamEnds,
         Elsewhere, netVars
<1>4. PICK to \in {"none", "check", "backoff", "stream", "skipped"} :
        /\ gpc' = [gpc EXCEPT ![g] = to]
        /\ to \in {"check", "backoff", "stream"} => gpc[g] \in {"check", "backoff", "stream"}
  <2>1. CASE WatchStarts(g) \/ WatchSkipped(g) \/ WatchFails(g) \/ BackoffEnds(g) \/ StreamEnds(g)
    BY <2>1 DEF WatchStarts, WatchSkipped, WatchFails, BackoffEnds, StreamEnds, Goto
  <2>2. CASE GoroutineReturns(g)
    BY <2>2 DEF GoroutineReturns
  <2>3. CASE Consume(g)
    <3>1. gpc' = gpc /\ gpc[g] = "stream"
      BY <2>3 DEF Consume
    <3>2. gpc' = [gpc EXCEPT ![g] = "stream"]
      BY <1>0, <3>1 DEF ManagerTypeOK
    <3> QED BY <3>1, <3>2
  <2> QED BY <2>1, <2>2, <2>3 DEF GoroutineStep
<1>5. ManagerTypeOK'
  BY <1>0, <1>1, <1>2, <1>3, <1>4 DEF ManagerTypeOK, RegTypeOK, regVars, mgrVars
<1>6. RegInv'
  BY <1>0, <1>1 DEF RegInv, RegTypeOK, OrderMatchesEntries, Registered, regVars
<1>7. ClientsInv'
  BY <1>0, <1>1 DEF ClientsInv, regVars, mgrVars
<1>8. SnapInv'
  BY <1>0, <1>1 DEF SnapInv, regVars, mgrVars
<1>9. NoStrayWatcher'
  <2>1. \A d \in Entry : Alive(d)' => Alive(d)
    <3>1. \A h \in Goroutines : gpc'[h] \in {"check", "backoff", "stream"} => gpc[h] \in {"check", "backoff", "stream"}
      BY <1>0, <1>4 DEF ManagerTypeOK
    <3> QED BY <3>1 DEF Alive, Goroutines
  <2> QED BY <1>0, <1>1, <2>1 DEF NoStrayWatcher, Cancelled, mgrVars
<1> QED BY <1>5, <1>6, <1>7, <1>8, <1>9 DEF WatchInv, RegInv

LEMMA ClusterWatch ==
  ASSUME WatchInv, NEW x \in Pairs, ObjectChanges(x) \/ ObjectDeleted(x) \/ InstallCRD(x)
  PROVE  WatchInv'
<1>0. ManagerTypeOK /\ RegInv /\ ClientsInv /\ SnapInv /\ NoStrayWatcher
  BY DEF WatchInv, RegInv, ManagerTypeOK
<1>1. UNCHANGED <<regVars, owner, mgrVars, gpc, ctxDone>>
  BY DEF ObjectChanges, ObjectDeleted, InstallCRD
<1>2. pending' \subseteq Goroutines /\ installed' \subseteq Pairs /\ exists' \subseteq Pairs /\ unannounced' \subseteq Pairs
  BY <1>0 DEF ObjectChanges, ObjectDeleted, InstallCRD, ManagerTypeOK
<1>3. ManagerTypeOK'
  BY <1>0, <1>1, <1>2 DEF ManagerTypeOK, RegTypeOK, regVars, mgrVars
<1>4. RegInv'
  BY <1>0, <1>1 DEF RegInv, RegTypeOK, OrderMatchesEntries, Registered, regVars
<1>5. ClientsInv' /\ SnapInv'
  BY <1>0, <1>1 DEF ClientsInv, SnapInv, regVars, mgrVars
<1>6. NoStrayWatcher'
  BY <1>0, <1>1 DEF NoStrayWatcher, Alive, Cancelled, mgrVars
<1> QED BY <1>3, <1>4, <1>5, <1>6 DEF WatchInv, RegInv

LEMMA WatchStepInv == WatchInv /\ [ManagerNext]_watchVars => WatchInv'
<1> SUFFICES ASSUME WatchInv, [ManagerNext]_watchVars PROVE WatchInv'
  OBVIOUS
<1>1. CASE UNCHANGED watchVars
  <2>1. ManagerTypeOK'
    BY <1>1 DEF watchVars, mgrVars, netVars, regVars, WatchInv, ManagerTypeOK, RegTypeOK
  <2>2. OrderMatchesEntries' /\ ClientsInv' /\ SnapInv'
    BY <1>1 DEF watchVars, mgrVars, regVars, WatchInv, OrderMatchesEntries, Registered, ClientsInv, SnapInv
  <2>3. NoStrayWatcher'
    BY <1>1 DEF watchVars, mgrVars, regVars, WatchInv, NoStrayWatcher, Alive, Cancelled
  <2> QED BY <2>1, <2>2, <2>3 DEF WatchInv
<1>2. CASE SyncStep
  BY <1>2, SyncListWatch, SyncEntryWatch, SyncSweepWatch DEF SyncStep
<1> QED BY <1>1, <1>2, ConnectWatch, ForgetWatch, ShutdownAllWatch, TickWatch, GoroutineWatch, ClusterWatch
        DEF ManagerNext

(* The manager's list, map and watchers agree in every state.              *)
THEOREM WatchInvariant == ManagerSpec => []WatchInv
  BY WatchInitInv, WatchStepInv, PTL DEF ManagerSpec

(* Types: sync never takes a missing entry for a client, nor cancels one   *)
(* that is not there.                                                      *)
THEOREM WatchTypeCorrect == ManagerSpec => []ManagerTypeOK
<1>1. WatchInv => ManagerTypeOK
  BY DEF WatchInv
<1> QED BY <1>1, WatchInvariant, PTL

(* A cluster has at most one ClusterWatcher with a live context, the one   *)
(* in m.running (manager.go:14-19), however the controller replaces        *)
(* clients while sync works through its list.                              *)
THEOREM WatchNoStrayWatcher == ManagerSpec => []NoStrayWatcher
<1>1. WatchInv => NoStrayWatcher
  BY DEF WatchInv
<1> QED BY <1>1, WatchInvariant, PTL

(* What the manager believes to be running serves the cluster it is        *)
(* recorded for, and was not cancelled by the manager.                     *)
THEOREM WatchRunningIsLive == ManagerSpec => []RunningIsLive
<1>1. WatchInv => RunningIsLive
  BY DEF WatchInv, ClientsInv, RunningIsLive
<1> QED BY <1>1, WatchInvariant, PTL

----------------------------------------------------------------------------
(* No change is forgotten *)

(* What is there and not announced yet waits in every stream open for it.  *)
QueuedInv ==
  \A g \in Goroutines :
    gpc[g] = "stream" /\ Subject(g) \in unannounced \intersect exists => g \in pending

(* The goroutines of a watcher are there until its context is cancelled.   *)
RunningInv ==
  \A n \in Names, k \in Kinds :
    running[n] # NoClient /\ ~Cancelled(running[n]) => gpc[<<running[n], k>>] # "none"

(* A change that is not announced yet will be by the cluster's watcher: it *)
(* is queued in the open stream, or the next stream starts with it; unless *)
(* the object is gone, or the goroutine has given up on the kind.          *)
ChangeKept ==
  \A g \in Goroutines :
    /\ running[owner[g[1]]] = g[1] /\ ~Cancelled(g[1])
    /\ Subject(g) \in unannounced \intersect exists
    => \/ gpc[g] = "stream" /\ g \in pending
       \/ gpc[g] \in {"check", "backoff"}
       \/ gpc[g] = "skipped"

LEMMA QueuedStep ==
  ASSUME WatchInv, QueuedInv, [ManagerNext]_watchVars
  PROVE  QueuedInv'
<1>0. /\ gpc \in [Goroutines -> {"none", "check", "backoff", "stream", "skipped"}]
      /\ owner \in [Entry -> Names] /\ \A g \in Goroutines : g[1] \in Entry
      /\ snap # <<>> => Head(snap).client \in Entry
  <2>1. snap # <<>> => Head(snap).client \in Entry
    BY TailItems, SnapItems DEF WatchInv
  <2> QED BY <2>1 DEF WatchInv, ManagerTypeOK, Goroutines
<1> USE DEF QueuedInv
<1>1. CASE UNCHANGED <<owner, gpc, pending, exists, unannounced>>
  BY <1>1 DEF Subject
<1>2. ASSUME UNCHANGED <<owner, pending, exists, unannounced>>,
             \A g \in Goroutines : gpc'[g] = "stream" => gpc[g] = "stream"
      PROVE  QueuedInv'
  BY <1>2 DEF Subject
<1>3. ASSUME NEW n \in Names, NEW c \in Entry, Connect(n, c) PROVE QueuedInv'
  <2>1. /\ owner' = [owner EXCEPT ![c] = n]
        /\ gpc' = [g \in Goroutines |-> IF g[1] = c THEN "none" ELSE gpc[g]]
        /\ UNCHANGED <<pending, exists, unannounced>>
    BY <1>3 DEF Connect, netVars
  <2>2. \A g \in Goroutines : gpc'[g] = "stream" => gpc[g] = "stream" /\ Subject(g)' = Subject(g)
    BY <1>0, <2>1 DEF Subject
  <2> QED BY <2>1, <2>2
<1>4. ASSUME NEW n \in Names, Forget(n) PROVE QueuedInv'
  BY <1>1, <1>4 DEF Forget, netVars
<1>5. CASE SyncList \/ SyncSweep \/ Tick \/ ShutdownAll \/ Shutdown
  BY <1>1, <1>5 DEF SyncList, SyncSweep, Tick, ShutdownAll, Shutdown, netVars
<1>6. CASE SyncEntry
  BY <1>2, <1>6 DEF SyncEntry, netVars
<1>7. ASSUME NEW g \in Goroutines, GoroutineStep(g) PROVE QueuedInv'
  <2>1. CASE WatchStarts(g)
    <3>1. /\ gpc' = [gpc EXCEPT ![g] = "stream"]
          /\ pending' = IF Subject(g) \in exists THEN pending \union {g} ELSE pending
          /\ UNCHANGED <<owner, exists, unannounced>>
      BY <2>1 DEF WatchStarts, Goto, Elsewhere, netVars
    <3>2. \A h \in Goroutines : Subject(h)' = Subject(h)
      BY <3>1 DEF Subject
    <3> QED BY <1>0, <3>1, <3>2
  <2>2. CASE WatchSkipped(g) \/ WatchFails(g) \/ BackoffEnds(g)
    <3>1. /\ UNCHANGED <<owner, pending, exists, unannounced>>
          /\ \A h \in Goroutines : gpc'[h] = "stream" => gpc[h] = "stream"
      BY <1>0, <2>2 DEF WatchSkipped, WatchFails, BackoffEnds, Goto, Elsewhere, netVars
    <3> QED BY <1>2, <3>1
  <2>3. CASE GoroutineReturns(g) \/ StreamEnds(g)
    <3>1. /\ gpc' \in {[gpc EXCEPT ![g] = "none"], [gpc EXCEPT ![g] = "check"]}
          /\ pending' = pending \ {g}
          /\ UNCHANGED <<owner, exists, unannounced>>
      BY <2>3 DEF GoroutineReturns, StreamEnds, Goto, Elsewhere, netVars
    <3>2. \A h \in Goroutines : /\ Subject(h)' = Subject(h)
                                /\ gpc'[h] = "stream" => gpc[h] = "stream" /\ h # g
      BY <1>0, <3>1 DEF Subject
    <3> QED BY <3>1, <3>2
  <2>4. CASE Consume(g)
    <3>1. /\ pending' = pending \ {g} /\ unannounced' = unannounced \ {Subject(g)}
          /\ UNCHANGED <<owner, gpc, exists>>
      BY <2>4 DEF Consume
    <3>2. \A h \in Goroutines : Subject(h)' = Subject(h)
      BY <3>1 DEF Subject
    <3> QED BY <3>1, <3>2
  <2> QED BY <1>7, <2>1, <2>2, <2>3, <2>4 DEF GoroutineStep
<1>8. ASSUME NEW x \in Pairs, ObjectChanges(x) \/ ObjectDeleted(x) \/ InstallCRD(x)
      PROVE  QueuedInv'
  <2>1. CASE ObjectChanges(x)
    <3>1. /\ exists' = exists \union {x} /\ unannounced' = unannounced \union {x}
          /\ pending' = pending \union {g \in Goroutines : gpc[g] = "stream" /\ Subject(g) = x}
          /\ UNCHANGED <<owner, gpc>>
      BY <2>1 DEF ObjectChanges
    <3>2. \A h \in Goroutines : Subject(h)' = Subject(h)
      BY <3>1 DEF Subject
    <3> QED BY <3>1, <3>2
  <2>2. CASE ObjectDeleted(x)
    <3>1. /\ exists' = exists \ {x} /\ unannounced' = unannounced \union {x}
          /\ pending \subseteq pending' /\ UNCHANGED <<owner, gpc>>
      BY <2>2 DEF ObjectDeleted
    <3>2. \A h \in Goroutines : Subject(h)' = Subject(h)
      BY <3>1 DEF Subject
    <3> QED BY <3>1, <3>2
  <2>3. CASE InstallCRD(x)
    BY <1>1, <2>3 DEF InstallCRD
  <2> QED BY <1>8, <2>1, <2>2, <2>3
<1>9. CASE UNCHANGED watchVars
  BY <1>1, <1>9 DEF watchVars, netVars
<1> QED BY <1>3, <1>4, <1>5, <1>6, <1>7, <1>8, <1>9 DEF ManagerNext, SyncStep

LEMMA RunningStep ==
  ASSUME WatchInv, RunningInv, [ManagerNext]_watchVars
  PROVE  RunningInv'
<1>0. /\ gpc \in [Goroutines -> {"none", "check", "backoff", "stream", "skipped"}]
      /\ running \in [Names -> Entry \union {NoClient}]
      /\ \A c \in Entry, k \in Kinds : <<c, k>> \in Goroutines
      /\ snap # <<>> => Head(snap).client \in Entry /\ Head(snap).name \in Names
  <2>1. snap # <<>> => Head(snap).client \in Entry /\ Head(snap).name \in Names
    BY TailItems, SnapItems DEF WatchInv
  <2> QED BY <2>1 DEF WatchInv, ManagerTypeOK, Goroutines
<1> USE DEF RunningInv
<1>1. ASSUME \A n \in Names : running'[n] # NoClient => running'[n] = running[n],
             \A c \in Entry : Cancelled(c) => Cancelled(c)',
             \A g \in Goroutines : gpc'[g] = "none" => gpc[g] = "none" \/ Cancelled(g[1])
      PROVE  RunningInv'
  <2> SUFFICES ASSUME NEW n \in Names, NEW k \in Kinds,
                      running'[n] # NoClient, ~(Cancelled(running[n]))', running'[n] = running[n],
                      gpc'[<<running'[n], k>>] = "none"
               PROVE  FALSE
    BY <1>1
  <2>1. running[n] \in Entry /\ ~Cancelled(running[n])
    BY <1>0, <1>1
  <2>2. gpc[<<running[n], k>>] = "none"
    BY <1>0, <1>1, <2>1
  <2> QED BY <2>1, <2>2
<1>2. ASSUME NEW n \in Names, NEW c \in Entry, Connect(n, c) PROVE RunningInv'
  <2>1. /\ \A m \in Names : running[m] # c
        /\ gpc' = [g \in Goroutines |-> IF g[1] = c THEN "none" ELSE gpc[g]]
        /\ cancelled' = cancelled \ {c} /\ UNCHANGED <<running, ctxDone>>
    BY <1>2 DEF Connect, InUse
  <2> QED BY <1>0, <2>1 DEF Cancelled
<1>3. ASSUME NEW n \in Names, Forget(n) PROVE RunningInv'
  BY <1>1, <1>3 DEF Forget, mgrVars, Cancelled
<1>4. CASE SyncList \/ Tick \/ Shutdown
  BY <1>1, <1>4 DEF SyncList, Tick, Shutdown, mgrVars, Cancelled
<1>5. CASE SyncEntry
  <2> DEFINE n == Head(snap).name
             c == Head(snap).client
  <2>1. n \in Names /\ c \in Entry /\ ctxDone' = ctxDone
    BY <1>0, <1>5 DEF SyncEntry
  <2>2. CASE running[n] = c
    BY <1>1, <1>5, <2>1, <2>2 DEF SyncEntry, Cancelled
  <2>3. CASE running[n] # c
    <3>1. /\ running' = [running EXCEPT ![n] = c]
          /\ cancelled' = cancelled \union ({running[n]} \ {NoClient})
          /\ gpc' = [g \in Goroutines |-> IF g[1] = c THEN "check" ELSE gpc[g]]
      BY <1>5, <2>3 DEF SyncEntry
    <3> HIDE DEF n, c
    <3>2. ASSUME NEW m \in Names, NEW k \in Kinds,
                 running'[m] # NoClient, running'[m] \notin cancelled', ~ctxDone'
          PROVE  gpc'[<<running'[m], k>>] # "none"
      <4>1. running'[m] \in Entry
        BY <1>0, <2>1, <3>1, <3>2
      <4>2. CASE running'[m] = c
        BY <1>0, <3>1, <4>1, <4>2
      <4>3. CASE running'[m] # c
        <5>1. running'[m] = running[m] /\ ~Cancelled(running[m])
          BY <1>0, <2>1, <3>1, <3>2, <4>3 DEF Cancelled
        <5> QED BY <1>0, <3>1, <3>2, <4>1, <5>1
      <4> QED BY <4>2, <4>3
    <3> QED BY <3>2 DEF Cancelled
  <2> QED BY <2>2, <2>3
<1>6. CASE SyncSweep \/ ShutdownAll
  BY <1>1, <1>6 DEF SyncSweep, ShutdownAll, Cancelled
<1>7. ASSUME NEW g \in Goroutines, GoroutineStep(g) PROVE RunningInv'
  <2>1. UNCHANGED <<running, cancelled, ctxDone>>
    BY <1>7 DEF GoroutineStep, WatchStarts, WatchSkipped, WatchFails, BackoffEnds, GoroutineReturns,
                Consume, StreamEnds, Elsewhere, mgrVars
  <2>2. \A h \in Goroutines : gpc'[h] = "none" => gpc[h] = "none" \/ Cancelled(h[1])
    BY <1>0, <1>7 DEF GoroutineStep, WatchStarts, WatchSkipped, WatchFails, BackoffEnds,
                      GoroutineReturns, Consume, StreamEnds, Goto
  <2> QED BY <1>1, <2>1, <2>2 DEF Cancelled
<1>8. ASSUME NEW x \in Pairs, ObjectChanges(x) \/ ObjectDeleted(x) \/ InstallCRD(x)
      PROVE  RunningInv'
  BY <1>1, <1>8 DEF ObjectChanges, ObjectDeleted, InstallCRD, mgrVars, Cancelled
<1>9. CASE UNCHANGED watchVars
  BY <1>1, <1>9 DEF watchVars, mgrVars, Cancelled
<1> QED BY <1>2, <1>3, <1>4, <1>5, <1>6, <1>7, <1>8, <1>9 DEF ManagerNext, SyncStep

(* For any number of clusters, clients and kinds: across stream ends,      *)
(* failed attempts, back-off and replaced clients the watcher of a cluster *)
(* never loses a change of an object that is still there.  What            *)
(* ChangesAnnounced promises rests on this; the one exception is a kind    *)
(* whose CRD was missing when its goroutine started (watcher.go:71-76).    *)
THEOREM WatchChangeKept == ManagerSpec => []ChangeKept
<1>1. WatchInit => QueuedInv /\ RunningInv
  BY DEF WatchInit, QueuedInv, RunningInv
<1>2. WatchInv /\ QueuedInv /\ RunningInv /\ [ManagerNext]_watchVars => QueuedInv' /\ RunningInv'
  BY QueuedStep, RunningStep
<1>3. ManagerSpec => [](QueuedInv /\ RunningInv)
  BY <1>1, <1>2, WatchInvariant, PTL DEF ManagerSpec
<1>4. WatchInv /\ QueuedInv /\ RunningInv => ChangeKept
  <2> SUFFICES ASSUME WatchInv, QueuedInv, RunningInv, NEW g \in Goroutines,
                      running[owner[g[1]]] = g[1], ~Cancelled(g[1]),
                      Subject(g) \in unannounced \intersect exists
               PROVE  \/ gpc[g] = "stream" /\ g \in pending
                      \/ gpc[g] \in {"check", "backoff"}
                      \/ gpc[g] = "skipped"
    BY DEF ChangeKept
  <2>1. /\ g[1] \in Entry /\ g[2] \in Kinds /\ g = <<g[1], g[2]>> /\ owner[g[1]] \in Names
        /\ gpc[g] \in {"none", "check", "backoff", "stream", "skipped"}
    BY DEF WatchInv, ManagerTypeOK, Goroutines
  <2>2. gpc[g] # "none"
    BY <2>1, NoClientAssumption DEF RunningInv
  <2> QED BY <2>1, <2>2 DEF QueuedInv
<1> QED BY <1>3, <1>4, WatchInvariant, PTL
=============================================================================
