--------------------------- MODULE RegistryProofs ---------------------------
(***************************************************************************)
(* Proofs about CRDRegistry: whatever is set and deleted, the order slice  *)
(* lists exactly the clusters in the map, each once.                       *)
(***************************************************************************)
EXTENDS CRDRegistry, WellFoundedInduction, TLAPS

(* Cutting one element out of a sequence yields a sequence over the same   *)
(* set, one shorter.                                                       *)
LEMMA CutAtType ==
  ASSUME NEW S, NEW s \in Seq(S), NEW i \in DOMAIN s
  PROVE  /\ CutAt(s, i) \in Seq(S)
         /\ Len(CutAt(s, i)) = Len(s) - 1
         /\ DOMAIN CutAt(s, i) = 1 .. Len(s) - 1
<1>1. Len(s) \in Nat /\ DOMAIN s = 1 .. Len(s) /\ Len(s) - 1 \in Nat
  OBVIOUS
<1>2. \A j \in 1 .. Len(s) - 1 : j \in DOMAIN s /\ j + 1 \in DOMAIN s
  BY <1>1
<1>3. CutAt(s, i) \in Seq(S)
  BY <1>1, <1>2 DEF CutAt
<1>4. DOMAIN CutAt(s, i) = 1 .. Len(s) - 1
  BY DEF CutAt
<1>5. Len(CutAt(s, i)) = Len(s) - 1
  BY <1>1 DEF CutAt
<1> QED BY <1>3, <1>4, <1>5

(* Cutting at i a sequence without repetitions removes s[i] and nothing    *)
(* else, and introduces no repetition.                                     *)
LEMMA CutAtRange ==
  ASSUME NEW S, NEW s \in Seq(S), NEW i \in DOMAIN s,
         \A j, k \in DOMAIN s : s[j] = s[k] => j = k
  PROVE  LET t == CutAt(s, i) IN
         /\ \A j, k \in DOMAIN t : t[j] = t[k] => j = k
         /\ \A x \in S : (\E j \in DOMAIN t : t[j] = x) <=> (x # s[i] /\ \E j \in DOMAIN s : s[j] = x)
<1> DEFINE t == CutAt(s, i)
<1> DEFINE old(j) == IF j < i THEN j ELSE j + 1
<1>1. Len(s) \in Nat /\ DOMAIN s = 1 .. Len(s) /\ DOMAIN t = 1 .. Len(s) - 1
  BY CutAtType
<1>2. \A j \in DOMAIN t : old(j) \in DOMAIN s /\ old(j) # i /\ t[j] = s[old(j)]
  BY <1>1 DEF CutAt
<1>3. \A j, k \in DOMAIN t : old(j) = old(k) => j = k
  BY <1>1
<1>4. \A j, k \in DOMAIN t : t[j] = t[k] => j = k
  BY <1>2, <1>3
<1>5. \A m \in DOMAIN s : m # i => \E j \in DOMAIN t : old(j) = m
  <2> TAKE m \in DOMAIN s
  <2> HAVE m # i
  <2>1. CASE m < i
    BY <1>1, <2>1
  <2>2. CASE m > i
    <3>1. m - 1 \in DOMAIN t /\ old(m - 1) = m
      BY <1>1, <2>2
    <3> QED BY <3>1
  <2> QED BY <1>1, <2>1, <2>2
<1>6. \A x \in S : (\E j \in DOMAIN t : t[j] = x) <=> (x # s[i] /\ \E j \in DOMAIN s : s[j] = x)
  BY <1>2, <1>5
<1> QED BY <1>4, <1>6

LEMMA RegInitInv == RegInit => RegInv
  BY NoEntryAssumption DEF RegInit, RegInv, RegTypeOK, OrderMatchesEntries, Registered

(* Set keeps the invariant. *)
LEMMA SetInv ==
  ASSUME RegInv, NEW n \in Names, NEW e \in Entry, Set(n, e)
  PROVE  RegInv'
<1> USE DEF RegInv, RegTypeOK, Registered
<1>1. entries' \in [Names -> Entry \union {NoEntry}] /\ Registered' = Registered \union {n}
  BY NoEntryAssumption DEF Set
<1>2. CASE n \in Registered
  BY <1>1, <1>2 DEF Set, OrderMatchesEntries
<1>3. CASE n \notin Registered
  <2>1. order' = Append(order, n)
    BY <1>3 DEF Set
  <2>2. /\ order' \in Seq(Names)
        /\ DOMAIN order' = DOMAIN order \union {Len(order) + 1}
        /\ Len(order) + 1 \notin DOMAIN order
        /\ order'[Len(order) + 1] = n
        /\ \A i \in DOMAIN order : order'[i] = order[i]
    BY <2>1
  <2>3. \A i \in DOMAIN order : order[i] # n
    BY <1>3 DEF OrderMatchesEntries
  <2>4. OrderMatchesEntries'
    BY <1>1, <2>2, <2>3 DEF OrderMatchesEntries
  <2> QED BY <1>1, <2>2, <2>4
<1> QED BY <1>2, <1>3

(* Delete keeps the invariant. *)
LEMMA DeleteInv ==
  ASSUME RegInv, NEW n \in Names, Delete(n)
  PROVE  RegInv'
<1> USE DEF RegInv, RegTypeOK
<1>1. /\ entries' \in [Names -> Entry \union {NoEntry}]
      /\ Registered' = Registered \ {n}
  BY DEF Delete, Registered
<1>2. CASE \A i \in DOMAIN order : order[i] # n
  <2>1. UNCHANGED order
    BY <1>2 DEF Delete, IsFirst
  <2> QED BY <1>1, <1>2, <2>1 DEF OrderMatchesEntries
<1>3. ASSUME NEW i \in DOMAIN order, IsFirst(order, i, n), order' = CutAt(order, i)
      PROVE  RegInv'
  <2>1. order[i] = n
    BY <1>3 DEF IsFirst
  <2>2. order' \in Seq(Names)
    BY <1>3, CutAtType
  <2>3. /\ \A j, k \in DOMAIN order' : order'[j] = order'[k] => j = k
        /\ \A x \in Names : (\E j \in DOMAIN order' : order'[j] = x)
                              <=> (x # n /\ \E j \in DOMAIN order : order[j] = x)
    BY <1>3, <2>1, CutAtRange DEF OrderMatchesEntries
  <2>4. OrderMatchesEntries'
    BY <1>1, <2>3 DEF OrderMatchesEntries, Registered
  <2> QED BY <1>1, <2>2, <2>4
<1> QED BY <1>2, <1>3 DEF Delete

(* Writing a status through the entry keeps the invariant. *)
LEMMA SetStatusInv ==
  ASSUME RegInv, NEW n \in Names, NEW e \in Entry, SetStatus(n, e)
  PROVE  RegInv'
<1>1. entries' \in [Names -> Entry \union {NoEntry}] /\ Registered' = Registered
  BY NoEntryAssumption DEF RegInv, RegTypeOK, SetStatus, Registered
<1> QED BY <1>1 DEF RegInv, RegTypeOK, SetStatus, OrderMatchesEntries

(* The map and the slice always agree. *)
THEOREM RegistryInvariant == RegSpec => []RegInv
<1>1. RegInv /\ [RegNext]_regVars => RegInv'
  <2> SUFFICES ASSUME RegInv, [RegNext]_regVars PROVE RegInv'
    OBVIOUS
  <2>1. CASE UNCHANGED regVars
    BY <2>1 DEF regVars, RegInv, RegTypeOK, OrderMatchesEntries, Registered
  <2>2. CASE RegNext
    BY <2>2, SetInv, SetStatusInv, DeleteInv DEF RegNext
  <2> QED BY <2>1, <2>2
<1> QED BY <1>1, RegInitInv, PTL DEF RegSpec

(* Get and List answer about the same clusters and none is listed twice,   *)
(* for any number of clusters registered and forgotten in any order.       *)
THEOREM RegistryOrderMatches == RegSpec => []OrderMatchesEntries
<1>1. RegInv => OrderMatchesEntries
  BY DEF RegInv
<1> QED BY <1>1, RegistryInvariant, PTL

(* Appending a new name and cutting a name out both keep the others in     *)
(* their relative order.                                                   *)
LEMMA AppendStable ==
  ASSUME OrderMatchesEntries, order \in Seq(Names), NEW n \in Names, n \notin Registered,
         NEW i \in 1 .. Len(order), NEW k \in 1 .. Len(order) + 1,
         Append(order, n)[k] = order[i]
  PROVE  k = i
<1>1. \A x \in 1 .. Len(order) : order[x] # n
  BY DEF OrderMatchesEntries
<1>2. k \in 1 .. Len(order) /\ order[k] = order[i]
  BY <1>1
<1> QED BY <1>2 DEF OrderMatchesEntries

LEMMA CutStable ==
  ASSUME OrderMatchesEntries, order \in Seq(Names), NEW c \in 1 .. Len(order),
         NEW i \in 1 .. Len(order), NEW k \in 1 .. Len(order) - 1,
         CutAt(order, c)[k] = order[i]
  PROVE  i = IF k < c THEN k ELSE k + 1
<1> DEFINE old == IF k < c THEN k ELSE k + 1
<1>1. CutAt(order, c)[k] = order[old]
  BY DEF CutAt
<1>2. old \in DOMAIN order /\ i \in DOMAIN order
  OBVIOUS
<1> HIDE DEF old
<1>3. i = old
  BY <1>1, <1>2 DEF OrderMatchesEntries
<1> QED BY <1>3 DEF old

(* Clusters that stay registered keep their place in the listing order.    *)
THEOREM RegistryOrderIsStable == RegSpec => OrderIsStable
<1> DEFINE Stable ==
      \A m, n \in Registered : m \in Registered' /\ n \in Registered' =>
        \A i, j \in DOMAIN order : \A k, l \in DOMAIN order' :
          order[i] = m /\ order[j] = n /\ order'[k] = m /\ order'[l] = n => (i < j <=> k < l)
<1>1. ASSUME RegInv, [RegNext]_regVars PROVE Stable
  <2>t. order \in Seq(Names) /\ OrderMatchesEntries
    BY <1>1 DEF RegInv, RegTypeOK
  <2>1. CASE UNCHANGED order
    <3>1. \A i, k \in DOMAIN order : order[i] = order[k] => i = k
      BY <2>t DEF OrderMatchesEntries
    <3> QED BY <2>1, <3>1
  <2>2. ASSUME NEW n \in Names, n \notin Registered, order' = Append(order, n) PROVE Stable
    <3>1. DOMAIN order' = 1 .. Len(order) + 1 /\ DOMAIN order = 1 .. Len(order)
      BY <2>2, <2>t
    <3>2. \A i \in DOMAIN order, k \in DOMAIN order' : order'[k] = order[i] => k = i
      BY <2>2, <2>t, <3>1, AppendStable
    <3> QED BY <3>2
  <2>3. ASSUME NEW c \in DOMAIN order, order' = CutAt(order, c) PROVE Stable
    <3>1. DOMAIN order' = 1 .. Len(order) - 1 /\ DOMAIN order = 1 .. Len(order) /\ Len(order) \in Nat
      BY <2>3, <2>t DEF CutAt
    <3>2. \A i \in DOMAIN order, k \in DOMAIN order' :
             order'[k] = order[i] => i = IF k < c THEN k ELSE k + 1
      BY <2>3, <2>t, <3>1, CutStable
    <3>3. \A i, j \in DOMAIN order : \A k, l \in DOMAIN order' :
             order'[k] = order[i] /\ order'[l] = order[j] => (i < j <=> k < l)
      BY <2>3, <3>1, <3>2
    <3> QED BY <3>3
  <2>4. CASE UNCHANGED regVars
    BY <2>1, <2>4 DEF regVars
  <2>5. ASSUME NEW n \in Names, NEW e \in Entry, Set(n, e) PROVE Stable
    <3>1. CASE n \in Registered
      <4>1. UNCHANGED order
        BY <2>5, <3>1 DEF Set
      <4> QED BY <2>1, <4>1
    <3>2. CASE n \notin Registered
      <4>1. order' = Append(order, n)
        BY <2>5, <3>2 DEF Set
      <4> QED BY <2>2, <3>2, <4>1
    <3> QED BY <3>1, <3>2
  <2>6. ASSUME NEW n \in Names, NEW e \in Entry, SetStatus(n, e) PROVE Stable
    <3>1. UNCHANGED order
      BY <2>6 DEF SetStatus
    <3> QED BY <2>1, <3>1
  <2>7. ASSUME NEW n \in Names, Delete(n) PROVE Stable
    <3>1. UNCHANGED order \/ \E c \in DOMAIN order : order' = CutAt(order, c)
      BY <2>7 DEF Delete
    <3> QED BY <2>1, <2>3, <3>1
  <2> QED BY <1>1, <2>4, <2>5, <2>6, <2>7 DEF RegNext
<1>2. RegInv /\ [RegNext]_regVars => [Stable]_regVars
  BY <1>1
<1> QED BY <1>2, RegistryInvariant, PTL DEF RegSpec, OrderIsStable
----------------------------------------------------------------------------
(* The listing *)

(* A non-empty set of naturals has a least element. *)
LEMMA LeastNumber ==
  ASSUME NEW T, T \subseteq Nat, T # {}
  PROVE  \E m \in T : \A k \in T : ~(k < m)
<1>1. IsWellFoundedOn(OpToRel(<, Nat), Nat)
  BY NatLessThanWellFounded
<1>2. PICK m \in T : \A k \in T : <<k, m>> \notin OpToRel(<, Nat)
  BY <1>1, WFMin
<1>3. \A k \in T : k < m => <<k, m>> \in OpToRel(<, Nat)
  BY DEF OpToRel
<1> QED BY <1>2, <1>3

(* While map and slice agree, the loop of List copies the order slice.     *)
LEMMA ListIsOrder ==
  ASSUME RegInv
  PROVE  List = order
<1> DEFINE body(f) == [i \in 0 .. Len(order) |->
                         IF i = 0 THEN <<>>
                         ELSE IF order[i] \in Registered THEN Append(f[i - 1], order[i]) ELSE f[i - 1]]
<1> DEFINE prefix == [i \in 0 .. Len(order) |-> SubSeq(order, 1, i)]
<1>0. order \in Seq(Names) /\ Len(order) \in Nat /\ \A i \in DOMAIN order : order[i] \in Registered
  BY DEF RegInv, RegTypeOK, OrderMatchesEntries, Registered
<1>1. prefix = body(prefix)
  <2>1. ASSUME NEW i \in 1 .. Len(order) PROVE SubSeq(order, 1, i) = Append(SubSeq(order, 1, i - 1), order[i])
    BY <1>0
  <2>2. SubSeq(order, 1, 0) = <<>>
    BY <1>0
  <2>3. ASSUME NEW i \in 0 .. Len(order) PROVE prefix[i] = body(prefix)[i]
    <3>1. CASE i = 0
      BY <3>1, <2>2
    <3>2. CASE i # 0
      <4>1. i \in 1 .. Len(order) /\ i - 1 \in 0 .. Len(order) /\ order[i] \in Registered
        BY <1>0, <3>2
      <4> QED BY <4>1, <2>1, <3>2
    <3> QED BY <3>1, <3>2
  <2> HIDE DEF prefix
  <2> QED BY <2>3 DEF prefix
<1>2. Listed = body(Listed)
  <2> HIDE DEF prefix
  <2>1. Listed = CHOOSE f : f = body(f)
    BY DEF Listed
  <2> HIDE DEF body
  <2> QED BY <1>1, <2>1
<1>3. \A i \in 0 .. Len(order) : Listed[i] = prefix[i]
  <2> DEFINE T == {i \in 0 .. Len(order) : Listed[i] # prefix[i]}
  <2> SUFFICES ASSUME T # {} PROVE FALSE
    OBVIOUS
  <2>0. T \subseteq Nat
    BY <1>0
  <2>1. PICK m \in T : \A k \in T : ~(k < m)
    BY <2>0, LeastNumber
  <2>2. m # 0
    BY <1>1, <1>2
  <2>3. m - 1 \in 0 .. Len(order) /\ m - 1 < m
    BY <1>0, <2>2
  <2>4. Listed[m - 1] = prefix[m - 1]
    BY <2>1, <2>3
  <2>5. Listed[m] = body(Listed)[m] /\ prefix[m] = body(prefix)[m]
    BY <1>1, <1>2
  <2>6. body(Listed)[m] = body(prefix)[m]
    BY <2>2, <2>4
  <2> QED BY <2>5, <2>6
<1> QED BY <1>0, <1>3 DEF List

(* List answers with every registered cluster, once, in the order of the   *)
(* slice (registry_crd.go:19-30): the entry it looks up is always there.   *)
THEOREM RegistryListsEverything == RegSpec => [](List = order)
<1>1. RegInv => List = order
  BY ListIsOrder
<1> QED BY <1>1, RegistryInvariant, PTL

=============================================================================
