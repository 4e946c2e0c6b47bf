---------------------------- MODULE CRDRegistry ----------------------------
(***************************************************************************)
(* internal/cluster/registry_crd.go: the in-memory registry the Cluster    *)
(* controller writes and the HTTP handlers and watch.Manager read: a map   *)
(* and a slice that gives the listing order, both under one mutex, so that *)
(* every method is one step.                                               *)
(***************************************************************************)
EXTENDS Naturals, Sequences

CONSTANTS
  Names,     \* names of Cluster resources
  Entry,     \* what an *Entry may hold
  NoEntry    \* absence from the map

ASSUME NoEntryAssumption == NoEntry \notin Entry

VARIABLES
  entries,   \* r.entries
  order      \* r.order

regVars == <<entries, order>>

Registered == {n \in Names : entries[n] # NoEntry}

RegInit == entries = [n \in Names |-> NoEntry] /\ order = <<>>

(* append(order[:i-1], order[i:]...), counting from 1 *)
CutAt(s, i) == [j \in 1 .. Len(s) - 1 |-> IF j < i THEN s[j] ELSE s[j + 1]]

IsFirst(s, i, n) == s[i] = n /\ \A j \in 1 .. i - 1 : s[j] # n

(* Mutant: the name is appended although it is registered. *)
SetAlwaysAppends(n, e) ==
  /\ order' = Append(order, n)
  /\ entries' = [entries EXCEPT ![n] = e]

Set(n, e) ==
  /\ order' = IF n \in Registered THEN order ELSE Append(order, n)
  /\ entries' = [entries EXCEPT ![n] = e]

Delete(n) ==
  /\ entries' = [entries EXCEPT ![n] = NoEntry]
  /\ \/ \E i \in DOMAIN order : IsFirst(order, i, n) /\ order' = CutAt(order, i)
     \/ (\A i \in DOMAIN order : order[i] # n) /\ UNCHANGED order

(* Entry.SetStatus through a pointer obtained from the registry. *)
SetStatus(n, e) ==
  /\ n \in Registered
  /\ entries' = [entries EXCEPT ![n] = e]
  /\ UNCHANGED order

RegNext ==
  \/ \E n \in Names, e \in Entry : Set(n, e) \/ SetStatus(n, e)
  \/ \E n \in Names : Delete(n)

RegSpec == RegInit /\ [][RegNext]_regVars

----------------------------------------------------------------------------
(* List's loop: what the first i names of the order contribute to the      *)
(* answer, by name.  A name that is not in the map is skipped.             *)
Listed[i \in 0 .. Len(order)] ==
  IF i = 0 THEN <<>>
  ELSE IF order[i] \in Registered THEN Append(Listed[i - 1], order[i]) ELSE Listed[i - 1]

List == Listed[Len(order)]

RegTypeOK ==
  /\ entries \in [Names -> Entry \union {NoEntry}]
  /\ order \in Seq(Names)

(* The map and the slice agree: List and Get answer about the same set of  *)
(* clusters, and no cluster is listed twice (registry_crd.go:9-11).        *)
OrderMatchesEntries ==
  /\ \A i, j \in DOMAIN order : order[i] = order[j] => i = j
  /\ \A n \in Names : n \in Registered <=> \E i \in DOMAIN order : order[i] = n

RegInv == RegTypeOK /\ OrderMatchesEntries

(* List returns entries in insertion order (registry_crd.go:19): clusters  *)
(* that stay registered keep their relative order whatever else changes.   *)
OrderIsStable ==
  [][\A m, n \in Registered : m \in Registered' /\ n \in Registered' =>
       \A i, j \in DOMAIN order : \A k, l \in DOMAIN order' :
          order[i] = m /\ order[j] = n /\ order'[k] = m /\ order'[l] = n => (i < j <=> k < l)
    ]_regVars
=============================================================================
