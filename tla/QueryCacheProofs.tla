-------------------------- MODULE QueryCacheProofs --------------------------
(***************************************************************************)
(* Proofs about QueryCache, for any keys, objects and number of mutations  *)
(* in flight, any bound on the changes and any number of retries.          *)
(***************************************************************************)
EXTENDS QueryCache, SequenceTheorems, TLAPS

\* Whoever made a mutation in flight was shown the object by a query that has
\* data to this moment, and the hook it went through serves the object's kind.
CallsAreInformed ==
  \A c \in Calls : \A o \in calls[c].on :
    /\ calls[c].verb \in DOMAIN Hooks
    /\ KindOf[o] \in Hooks[calls[c].verb].on
    /\ \A k \in Seen(calls[c].verb, o) : q[k].data # NoData

\* No answer still to be shown for k is older than what is owed.
Repaid(k) ==
  /\ owed[k] <= truth[k]
  /\ q[k].fetch = "answered" => owed[k] <= q[k].answer
  /\ q[k].fetch = "idle" /\ ~q[k].failed => owed[k] <= Shown(k)

\* The inductive invariant.
CacheInv ==
  /\ CacheTypeOK
  /\ CallsAreInformed
  /\ \A k \in Keys : Repaid(k)

-----------------------------------------------------------------------------
\* The invalidations of a mutation's onSuccess reach the list the mutation was
\* made in, and after a rollback the list of releases.
LEMMA SeenIsInvalidated ==
  ASSUME NEW verb \in DOMAIN Hooks, NEW o \in Objects,
         KindOf[o] \in Hooks[verb].on, NEW k \in Seen(verb, o)
  PROVE  \E p \in Hooks[verb].onSuccess : PartialMatch(p, k)
<1>1. ASSUME NEW l, k = <<l, "all">>
      PROVE  PartialMatch(<<l>>, k)
  BY <1>1 DEF PartialMatch
<1>2. k = <<"history", App>> => PartialMatch(<<"history", App>>, k)
  BY DEF PartialMatch
<1>3. CASE k \in ListKeys
  <2>1. k \notin DetailKeys \cup {RenderKey}
    BY <1>3 DEF ListKeys, DetailKeys, RenderKey
  <2>2. k[1] = (CASE KindOf[o] \in ApplicationKinds -> "applications"
                  [] KindOf[o] \in SourceKinds      -> "sources"
                  [] KindOf[o] \in AlertKinds       -> "alerts"
                  [] OTHER                          -> "image-updates")
    BY <2>1 DEF Seen, Shows
  <2>3. k[1] # "clusters"
    BY <2>2
  <2>4. k = <<k[1], "all">>
    BY <1>3, <2>3 DEF ListKeys
  <2>5. PartialMatch(<<k[1]>>, k)
    BY <2>4, <1>1
  <2>6. <<k[1]>> \in Hooks[verb].onSuccess
    BY <2>2 DEF Hooks, useAppMutation, useRollbackApp, useImageMutation, useSourceMutation,
                useAlertMutation, useReconcileAllApps, ApplicationKinds, SourceKinds,
                AlertKinds
  <2> QED BY <2>5, <2>6
<1>4. CASE k \notin ListKeys
  <2>1. verb = "rollback" /\ k[1] = "history" /\ k \in Shows(o)
    BY <1>4 DEF Seen
  <2>2. KindOf[o] \in ApplicationKinds
    BY <2>1 DEF Hooks, useRollbackApp, ApplicationKinds
  <2>3. k \in DetailKeys \cup {RenderKey}
    BY <2>1, <2>2 DEF Shows
  <2>4. k = <<"history", App>>
    BY <2>1, <2>3 DEF DetailKeys, RenderKey
  <2> QED BY <2>1, <2>4, <1>2 DEF Hooks, useRollbackApp
<1> QED BY <1>3, <1>4

\* Cache entries stay entries, with a fetch at least as young as before.
LEMMA EntryTypes ==
  ASSUME NEW e \in Entries
  PROVE  /\ Issued(e) \in Entries /\ Asked(e) \in Entries
         /\ Issued(e).fetch = "asked" /\ Issued(e).data = e.data
         /\ Asked(e).fetch # "idle" /\ Asked(e).data = e.data
         /\ Asked(e).fetch = "answered" => Asked(e) = e
<1>1. 0 \in 0..Retry
  BY CacheAssumption DEF CacheAssumption
<1>2. Issued(e) \in Entries /\ Issued(e).fetch = "asked" /\ Issued(e).data = e.data
  BY <1>1 DEF Entries, Issued
<1> QED BY <1>2 DEF Asked

\* What a set of invalidations does to an entry.
LEMMA Invalidation ==
  ASSUME q \in [Keys -> Entries], NEW prefixes, invalidateQueries(prefixes)
  PROVE  /\ q' \in [Keys -> Entries]
         /\ \A k \in Keys :
              /\ q'[k].data = q[k].data
              /\ \/ q'[k].fetch = "asked"
                 \/ /\ q'[k].fetch = q[k].fetch /\ q'[k].answer = q[k].answer
                    /\ q'[k].failed = q[k].failed
              /\ (\E p \in prefixes : PartialMatch(p, k)) /\ Reissues(k) => q'[k].fetch = "asked"
<1> SUFFICES ASSUME NEW k \in Keys
             PROVE  /\ q'[k] \in Entries
                    /\ q'[k].data = q[k].data
                    /\ \/ q'[k].fetch = "asked"
                       \/ /\ q'[k].fetch = q[k].fetch /\ q'[k].answer = q[k].answer
                          /\ q'[k].failed = q[k].failed
                    /\ (\E p \in prefixes : PartialMatch(p, k)) /\ Reissues(k)
                         => q'[k].fetch = "asked"
  BY DEF invalidateQueries
<1> DEFINE marked == [q[k] EXCEPT !.invalid = TRUE]
<1>1. marked \in Entries
  BY DEF Entries
<1>2. /\ marked.data = q[k].data /\ marked.fetch = q[k].fetch
      /\ marked.answer = q[k].answer /\ marked.failed = q[k].failed
  BY DEF Entries
<1>3. /\ Issued(marked) \in Entries /\ Issued(marked).fetch = "asked"
      /\ Issued(marked).data = marked.data
  BY <1>1, EntryTypes
<1>4. CASE \E p \in prefixes : PartialMatch(p, k)
  <2>1. q'[k] = IF Reissues(k) THEN Issued(marked) ELSE marked
    BY <1>4 DEF invalidateQueries, Invalidated
  <2> QED BY <2>1, <1>1, <1>2, <1>3
<1>5. CASE ~ \E p \in prefixes : PartialMatch(p, k)
  BY <1>5 DEF invalidateQueries
<1> QED BY <1>4, <1>5

-----------------------------------------------------------------------------
\* What was informed stays so while no query loses its data.
LEMMA StaysInformed ==
  ASSUME CallsAreInformed,
         \A k \in Keys : q[k].data # NoData => q'[k].data # NoData,
         \A c \in Calls : \/ calls'[c].on = {}
                          \/ calls'[c].on = calls[c].on /\ calls'[c].verb = calls[c].verb
  PROVE  CallsAreInformed'
BY DEF CallsAreInformed, Seen, Shows

\* A step of one query: k's entry becomes e.
LEMMA QueryStep ==
  ASSUME CacheInv, NEW k \in Keys, NEW e \in Entries,
         q' = [q EXCEPT ![k] = e], UNCHANGED <<truth, calls>>,
         owed' \in [Keys -> Nat], owed'[k] = owed[k],
         \A j \in Keys \ {k} : owed'[j] = owed[j],
         q[k].data # NoData => e.data # NoData,
         e.fetch = "answered" => owed[k] <= e.answer,
         e.fetch = "idle" /\ ~e.failed =>
           owed[k] <= IF e.data = NoData THEN 0 ELSE e.data
  PROVE  /\ q' \in [Keys -> Entries]
         /\ CallsAreInformed'
         /\ \A j \in Keys : Repaid(j)'
<1>1. q \in [Keys -> Entries]
  BY DEF CacheInv, CacheTypeOK
<1>2. q' \in [Keys -> Entries] /\ q'[k] = e
  BY <1>1
<1>3. \A j \in Keys \ {k} : q'[j] = q[j]
  BY <1>1
<1>4. CallsAreInformed'
  BY <1>2, <1>3, StaysInformed DEF CacheInv
<1>5. \A j \in Keys : Repaid(j)'
  BY <1>2, <1>3 DEF CacheInv, Repaid, Shown
<1> QED BY <1>2, <1>4, <1>5

\* The state before the page has asked anything.
LEMMA CacheInitInv == CacheInit => CacheInv
<1> SUFFICES ASSUME CacheInit PROVE CacheInv
  OBVIOUS
<1>1. Empty \in Entries /\ Empty.fetch = "idle" /\ Empty.data = NoData
  BY CacheAssumption DEF CacheAssumption, Entries, Empty
<1>2. NoCall \in Running /\ NoCall.on = {}
  BY DEF NoCall, Running
<1>3. CacheTypeOK
  BY <1>1, <1>2 DEF CacheInit, CacheTypeOK
<1>4. CallsAreInformed
  BY <1>2 DEF CacheInit, CallsAreInformed
<1>5. \A k \in Keys : Repaid(k)
  BY <1>1 DEF CacheInit, Repaid, Shown
<1> QED BY <1>3, <1>4, <1>5 DEF CacheInv

\* Components come and go; queries are polled, answered and fail.
LEMMA QueriesInv ==
  ASSUME CacheInv, NEW k \in Keys,
         \/ Mount(k) \/ Unmount(k) \/ Poll(k) \/ Answer(k) \/ Deliver(k) \/ FetchFails(k)
         \/ Drift(k)
  PROVE  CacheInv'
<1> USE DEF CacheInv
<1>t. /\ q \in [Keys -> Entries] /\ q[k] \in Entries /\ owed \in [Keys -> Nat]
      /\ truth \in [Keys -> Nat] /\ Repaid(k)
  BY DEF CacheTypeOK
<1>e. /\ Asked(q[k]) \in Entries /\ Asked(q[k]).fetch # "idle"
      /\ Asked(q[k]).data = q[k].data
      /\ Asked(q[k]).fetch = "answered" => Asked(q[k]) = q[k]
  BY <1>t, EntryTypes
<1>1. CASE Mount(k)
  <2>1. PICK e \in {q[k], Asked(q[k])} : q' = [q EXCEPT ![k] = e]
    BY <1>1, <1>t DEF Mount
  <2>2. /\ q' \in [Keys -> Entries] /\ CallsAreInformed'
        /\ \A j \in Keys : Repaid(j)'
    BY <1>1, <1>t, <1>e, <2>1, QueryStep DEF Mount, Repaid, Shown
  <2>3. CacheTypeOK'
    BY <1>1, <2>2 DEF Mount, CacheTypeOK
  <2> QED BY <2>2, <2>3
<1>2. CASE Unmount(k)
  <2>1. \A j \in Keys : owed'[j] \in Nat /\ owed'[j] <= owed[j]
    BY <1>2, <1>t DEF Unmount
  <2>2. \A j \in Keys : q[j].answer \in Nat /\ Shown(j) \in Nat
    BY <1>t DEF Entries, Shown
  <2>3. \A j \in Keys : Repaid(j)'
    BY <1>2, <1>t, <2>1, <2>2 DEF Unmount, Repaid, Shown
  <2>4. CacheTypeOK' /\ CallsAreInformed'
    BY <1>2, StaysInformed DEF Unmount, CacheTypeOK
  <2> QED BY <2>3, <2>4
<1>3. CASE Poll(k)
  <2>1. /\ q' \in [Keys -> Entries] /\ CallsAreInformed'
        /\ \A j \in Keys : Repaid(j)'
    BY <1>3, <1>t, <1>e, QueryStep DEF Poll, Repaid
  <2> QED BY <1>3, <2>1 DEF Poll, CacheTypeOK
<1>4. CASE Answer(k)
  <2> DEFINE e == [q[k] EXCEPT !.fetch = "answered", !.answer = truth[k]]
  <2>1. e \in Entries /\ e.data = q[k].data /\ e.fetch = "answered" /\ e.answer = truth[k]
    BY <1>t DEF Entries
  <2>2. q' = [q EXCEPT ![k] = e]
    BY <1>4, <1>t DEF Answer
  <2> HIDE DEF e
  <2>3. owed[k] <= e.answer
    BY <1>t, <2>1 DEF Repaid
  <2>4. /\ q' \in [Keys -> Entries] /\ CallsAreInformed'
        /\ \A j \in Keys : Repaid(j)'
    <3>1. UNCHANGED <<truth, calls, owed>>
      BY <1>4 DEF Answer
    <3> QED BY <1>t, <2>1, <2>2, <2>3, <3>1, QueryStep
  <2> QED BY <1>4, <2>4 DEF Answer, CacheTypeOK
<1>5. CASE Deliver(k)
  <2> DEFINE e == [Empty EXCEPT !.data = q[k].answer]
  <2>1. e \in Entries /\ e.data = q[k].answer /\ e.data \in Nat /\ e.fetch = "idle"
    <3>1. 0 \in 0..Retry /\ q[k].answer \in Nat
      BY <1>t, CacheAssumption DEF CacheAssumption, Entries
    <3> QED BY <3>1 DEF Entries, Empty
  <2>2. q' = [q EXCEPT ![k] = e]
    BY <1>5, <1>t DEF Deliver
  <2>3. owed[k] <= e.data /\ e.data # NoData
    BY <1>5, <1>t, <2>1, CacheAssumption DEF CacheAssumption, Deliver, Repaid
  <2> HIDE DEF e
  <2>4. /\ q' \in [Keys -> Entries] /\ CallsAreInformed'
        /\ \A j \in Keys : Repaid(j)'
    BY <1>5, <1>t, <2>1, <2>2, <2>3, QueryStep DEF Deliver
  <2> QED BY <1>5, <2>4 DEF Deliver, CacheTypeOK
<1>6. CASE FetchFails(k)
  <2> DEFINE e == AfterFailure(k)
  <2>1. q' = [q EXCEPT ![k] = e]
    BY <1>6 DEF FetchFails
  <2>2. e \in Entries /\ e.data = q[k].data
    <3>1. 0 \in 0..Retry /\ RetryOf(k) \in {0, Retry} /\ q[k].tries \in 0..Retry
      BY <1>t, CacheAssumption DEF CacheAssumption, Entries, RetryOf
    <3>2. q[k].tries < RetryOf(k) => q[k].tries + 1 \in 0..Retry
      BY <3>1, CacheAssumption DEF CacheAssumption
    <3> QED BY <1>t, <3>1, <3>2 DEF Entries, AfterFailure
  <2>3. e.fetch = "asked" \/ (e.fetch = "idle" /\ e.failed)
    BY <1>t DEF Entries, AfterFailure
  <2> HIDE DEF e
  <2>4. /\ q' \in [Keys -> Entries] /\ CallsAreInformed'
        /\ \A j \in Keys : Repaid(j)'
    <3>1. UNCHANGED <<truth, calls, owed>>
      BY <1>6 DEF FetchFails
    <3> QED BY <1>t, <2>1, <2>2, <2>3, <3>1, QueryStep
  <2> QED BY <1>6, <2>4 DEF FetchFails, CacheTypeOK
<1>7. CASE Drift(k)
  <2>1. truth' \in [Keys -> Nat] /\ \A j \in Keys : truth[j] <= truth'[j]
    BY <1>7, <1>t DEF Drift
  <2>2. \A j \in Keys : Repaid(j)'
    BY <1>7, <1>t, <2>1 DEF Drift, Repaid, Shown
  <2>3. CacheTypeOK' /\ CallsAreInformed'
    BY <1>7, <2>1, StaysInformed DEF Drift, CacheTypeOK
  <2> QED BY <2>2, <2>3
<1> QED BY <1>1, <1>2, <1>3, <1>4, <1>5, <1>6, <1>7

-----------------------------------------------------------------------------
\* An object changes: the answers that show it move on, and its event is sent.
LEMMA ChangesTypes ==
  ASSUME CacheTypeOK, NEW o \in Objects, Changes(o)
  PROVE  /\ truth' \in [Keys -> Nat]
         /\ \A k \in Keys : truth[k] <= truth'[k]
         /\ wire' \in Seq(DOMAIN INVALIDATIONS)
<1>1. KindOf[o] \in DOMAIN INVALIDATIONS
  BY CacheAssumption DEF CacheAssumption
<1>2. truth' \in [Keys -> Nat] /\ \A k \in Keys : truth[k] <= truth'[k]
  <2>1. truth \in [Keys -> Nat]
    BY DEF CacheTypeOK
  <2>2. truth' = [k \in Keys |-> IF k \in Shows(o) THEN truth[k] + 1 ELSE truth[k]]
    BY DEF Changes
  <2> QED BY <2>1, <2>2
<1>3. wire' \in Seq(DOMAIN INVALIDATIONS)
  <2>1. wire \in Seq(DOMAIN INVALIDATIONS)
    BY DEF CacheTypeOK
  <2>2. wire' = Append(wire, KindOf[o]) \/ wire' = wire
    BY DEF Changes
  <2> QED BY <1>1, <2>1, <2>2
<1> QED BY <1>2, <1>3

\* A step that leaves the cache alone while answers move.
LEMMA OthersStep ==
  ASSUME CacheInv, UNCHANGED <<q, owed>>,
         truth' \in [Keys -> Nat], \A k \in Keys : truth[k] <= truth'[k]
  PROVE  \A k \in Keys : Repaid(k)'
<1>1. \A k \in Keys : owed[k] \in Nat /\ truth[k] \in Nat
  BY DEF CacheInv, CacheTypeOK
<1> QED BY <1>1 DEF CacheInv, Repaid, Shown

LEMMA ChangeInv ==
  ASSUME CacheInv, NEW o \in Objects, Change(o)
  PROVE  CacheInv'
<1>1. /\ truth' \in [Keys -> Nat] /\ \A k \in Keys : truth[k] <= truth'[k]
      /\ wire' \in Seq(DOMAIN INVALIDATIONS)
  BY ChangesTypes DEF CacheInv, Change
<1>2. CacheTypeOK'
  BY <1>1 DEF CacheInv, CacheTypeOK, Change
<1>3. CallsAreInformed'
  BY StaysInformed DEF CacheInv, Change
<1>4. \A k \in Keys : Repaid(k)'
  BY <1>1, OthersStep DEF Change
<1> QED BY <1>2, <1>3, <1>4 DEF CacheInv

\* The server patches an object: the call and its objects stay.
LEMMA ApplyInv ==
  ASSUME CacheInv, NEW c \in Calls, NEW o \in Objects, Apply(c, o)
  PROVE  CacheInv'
<1>1. /\ truth' \in [Keys -> Nat] /\ \A k \in Keys : truth[k] <= truth'[k]
      /\ wire' \in Seq(DOMAIN INVALIDATIONS)
  BY ChangesTypes DEF CacheInv, Apply
<1>2. /\ calls' \in [Calls -> Running]
      /\ \A d \in Calls : calls'[d].on = calls[d].on /\ calls'[d].verb = calls[d].verb
  BY DEF CacheInv, CacheTypeOK, Running, Apply
<1>3. CacheTypeOK'
  BY <1>1, <1>2 DEF CacheInv, CacheTypeOK, Apply
<1>4. CallsAreInformed'
  BY <1>2, StaysInformed DEF CacheInv, Apply
<1>5. \A k \in Keys : Repaid(k)'
  BY <1>1, OthersStep DEF Apply
<1> QED BY <1>3, <1>4, <1>5 DEF CacheInv

\* The user makes a mutation of what a query has answered.
LEMMA MutateInv ==
  ASSUME CacheInv, NEW c \in Calls, NEW verb \in DOMAIN Hooks, Mutate(c, verb)
  PROVE  CacheInv'
<1> DEFINE able == {o \in Objects : KindOf[o] \in Hooks[verb].on}
<1>1. PICK os \in SUBSET able :
        /\ \A o \in os : \A k \in Seen(verb, o) : q[k].data # NoData
        /\ calls' = [calls EXCEPT ![c] = [NoCall EXCEPT !.verb = verb, !.on = os,
                                                        !.sent = os]]
  <2>1. PICK os \in (IF verb = "all" THEN {able}
                     ELSE IF verb = "rollback" THEN {{App} \cap able}
                     ELSE {{o} : o \in able}) :
          /\ \A o \in os : \A k \in Seen(verb, o) : q[k].data # NoData
          /\ calls' = [calls EXCEPT ![c] = [NoCall EXCEPT !.verb = verb, !.on = os,
                                                          !.sent = os]]
    BY DEF Mutate
  <2>2. os \in SUBSET able
    OBVIOUS
  <2> QED BY <2>1, <2>2
<1> DEFINE new == [NoCall EXCEPT !.verb = verb, !.on = os, !.sent = os]
<1>2. new \in Running /\ new.verb = verb /\ new.on = os
  BY <1>1 DEF NoCall, Running
<1> HIDE DEF new
<1>3. /\ calls' \in [Calls -> Running] /\ calls'[c] = new
      /\ \A d \in Calls \ {c} : calls'[d] = calls[d]
  BY <1>1, <1>2 DEF CacheInv, CacheTypeOK, new
<1>4. CacheTypeOK'
  BY <1>3 DEF CacheInv, CacheTypeOK, Mutate
<1>5. UNCHANGED <<q, owed, truth>>
  BY DEF Mutate
<1>6. CallsAreInformed'
  BY <1>1, <1>2, <1>3, <1>5 DEF CacheInv, CallsAreInformed, Seen, Shows
<1>7. \A k \in Keys : Repaid(k)'
  BY <1>5 DEF CacheInv, Repaid, Shown
<1> QED BY <1>4, <1>6, <1>7 DEF CacheInv

\* Whatever is invalidated, nothing older is shown for it.
LEMMA InvalidationInv ==
  ASSUME CacheInv, NEW prefixes, invalidateQueries(prefixes), UNCHANGED truth,
         owed' \in [Keys -> Nat],
         \A k \in Keys : \/ owed'[k] = owed[k]
                         \/ owed'[k] = truth[k] /\ q'[k].fetch = "asked"
  PROVE  q' \in [Keys -> Entries] /\ \A k \in Keys : Repaid(k)'
<1>1. q \in [Keys -> Entries]
  BY DEF CacheInv, CacheTypeOK
<1>2. q' \in [Keys -> Entries]
  BY <1>1, Invalidation
<1>3. ASSUME NEW k \in Keys PROVE Repaid(k)'
  <2>1. /\ q'[k].data = q[k].data
        /\ \/ q'[k].fetch = "asked"
           \/ /\ q'[k].fetch = q[k].fetch /\ q'[k].answer = q[k].answer
              /\ q'[k].failed = q[k].failed
    BY <1>1, Invalidation
  <2>2. truth[k] \in Nat /\ owed[k] \in Nat /\ Repaid(k)
    BY DEF CacheInv, CacheTypeOK
  <2>3. CASE q'[k].fetch = "asked"
    BY <2>2, <2>3 DEF Repaid
  <2>4. CASE q'[k].fetch # "asked"
    BY <2>1, <2>2, <2>4 DEF Repaid, Shown
  <2> QED BY <2>3, <2>4
<1> QED BY <1>2, <1>3

LEMMA TimerInv ==
  ASSUME CacheInv, NEW p \in timers, TimerFires(p)
  PROVE  CacheInv'
<1>1. q' \in [Keys -> Entries] /\ \A k \in Keys : Repaid(k)'
  <2>1. invalidateQueries({p}) /\ truth' = truth /\ owed' = owed
    BY DEF TimerFires
  <2>2. owed' \in [Keys -> Nat]
    BY <2>1 DEF CacheInv, CacheTypeOK
  <2> QED BY <2>1, <2>2, InvalidationInv
<1>2. \A k \in Keys : q'[k].data = q[k].data
  BY Invalidation DEF TimerFires, CacheInv, CacheTypeOK
<1>3. CacheTypeOK'
  BY <1>1 DEF CacheInv, CacheTypeOK, TimerFires
<1>4. CallsAreInformed'
  BY <1>2, StaysInformed DEF CacheInv, TimerFires
<1> QED BY <1>1, <1>3, <1>4 DEF CacheInv

\* A mutation succeeds: what it was made in is fetched again, so that the answer
\* to come was read after the server applied it.
LEMMA SucceedsInv ==
  ASSUME CacheInv, NEW c \in Calls, Succeeds(calls[c]), UNCHANGED <<truth, mounted>>
  PROVE  /\ q' \in [Keys -> Entries] /\ owed' \in [Keys -> Nat]
         /\ \A k \in Keys : q'[k].data = q[k].data /\ Repaid(k)'
<1> DEFINE owes(k) == k \in mounted /\ \E o \in calls[c].on : k \in Seen(calls[c].verb, o)
           prefixes == Hooks[calls[c].verb].onSuccess
<1>1. invalidateQueries(prefixes) /\ q \in [Keys -> Entries]
  BY DEF Succeeds, CacheInv, CacheTypeOK
<1>2. owed' = [k \in Keys |-> IF owes(k) THEN truth[k] ELSE owed[k]]
  BY DEF Succeeds
<1>3. owed' \in [Keys -> Nat]
  BY <1>2 DEF CacheInv, CacheTypeOK
<1>4. ASSUME NEW k \in Keys, owes(k) PROVE q'[k].fetch = "asked"
  <2>1. PICK o \in calls[c].on : k \in Seen(calls[c].verb, o)
    BY <1>4
  <2>2. o \in Objects
    BY DEF CacheInv, CacheTypeOK, Running
  <2>3. /\ calls[c].verb \in DOMAIN Hooks /\ KindOf[o] \in Hooks[calls[c].verb].on
        /\ q[k].data # NoData
    BY <2>1 DEF CacheInv, CallsAreInformed
  <2>4. \E p \in prefixes : PartialMatch(p, k)
    BY <2>1, <2>2, <2>3, SeenIsInvalidated
  <2>5. Reissues(k)
    BY <1>4, <2>3 DEF Reissues
  <2> QED BY <1>1, <2>4, <2>5, Invalidation
<1>5. \A k \in Keys : \/ owed'[k] = owed[k]
                      \/ owed'[k] = truth[k] /\ q'[k].fetch = "asked"
  BY <1>2, <1>4
<1> HIDE DEF prefixes
<1>6. q' \in [Keys -> Entries] /\ \A k \in Keys : Repaid(k)'
  <2>1. truth' = truth
    OBVIOUS
  <2> QED BY <1>1, <1>3, <1>5, <2>1, InvalidationInv
<1>7. \A k \in Keys : q'[k].data = q[k].data
  BY <1>1, Invalidation
<1> QED BY <1>3, <1>6, <1>7

\* A request of a call is answered; the last one may make the call succeed.
LEMMA RequestAnsweredInv ==
  ASSUME CacheInv, NEW c \in Calls, NEW o \in Objects, RequestAnswered(c, o)
  PROVE  CacheInv'
<1>1. PICK ok \in BOOLEAN : Settle(c, o, ok)
  BY DEF RequestAnswered
<1>2. UNCHANGED <<truth, mounted, es, wire, timers, page>>
  BY DEF RequestAnswered
<1>3. NoCall \in Running /\ NoCall.on = {}
  BY DEF NoCall, Running
<1>4. /\ calls' \in [Calls -> Running]
      /\ \A d \in Calls : \/ calls'[d].on = {}
                          \/ calls'[d].on = calls[d].on /\ calls'[d].verb = calls[d].verb
  <2>1. CASE calls' = [calls EXCEPT ![c] = NoCall]
    BY <1>3, <2>1 DEF CacheInv, CacheTypeOK
  <2>2. CASE calls' = [calls EXCEPT ![c].sent = @ \ {o}, ![c].applied = @ \ {o},
                                    ![c].failed = calls[c].failed \/ ~ok]
    <3> DEFINE new == [calls[c] EXCEPT !.sent = @ \ {o}, !.applied = @ \ {o},
                                       !.failed = calls[c].failed \/ ~ok]
    <3>1. calls[c] \in Running /\ calls \in [Calls -> Running]
      BY DEF CacheInv, CacheTypeOK
    <3>2. (calls[c].failed \/ ~ok) \in BOOLEAN
      OBVIOUS
    <3>3. new \in Running /\ new.on = calls[c].on /\ new.verb = calls[c].verb
      BY <3>1, <3>2 DEF Running
    <3>4. calls' = [calls EXCEPT ![c] = new]
      BY <2>2, <3>1
    <3> HIDE DEF new
    <3> QED BY <3>1, <3>3, <3>4
  <2> QED BY <1>1, <2>1, <2>2 DEF Settle
<1>5. (UNCHANGED <<q, owed>>) \/ Succeeds(calls[c])
  BY <1>1 DEF Settle
<1>6. CASE UNCHANGED <<q, owed>>
  <2>1. CacheTypeOK'
    BY <1>2, <1>4, <1>6 DEF CacheInv, CacheTypeOK
  <2>2. CallsAreInformed'
    <3>1. CallsAreInformed /\ q' = q
      BY <1>6 DEF CacheInv
    <3> QED BY <1>4, <3>1, StaysInformed
  <2>3. \A k \in Keys : Repaid(k)'
    BY <1>2, <1>6 DEF CacheInv, Repaid, Shown
  <2> QED BY <2>1, <2>2, <2>3 DEF CacheInv
<1>7. CASE Succeeds(calls[c])
  <2>1. /\ q' \in [Keys -> Entries] /\ owed' \in [Keys -> Nat]
        /\ \A k \in Keys : q'[k].data = q[k].data /\ Repaid(k)'
    BY <1>2, <1>7, SucceedsInv
  <2>2. CacheTypeOK'
    BY <1>2, <1>4, <2>1 DEF CacheInv, CacheTypeOK
  <2>3. CallsAreInformed'
    <3>1. CallsAreInformed
      BY DEF CacheInv
    <3> QED BY <1>4, <2>1, <3>1, StaysInformed
  <2> QED BY <2>1, <2>2, <2>3 DEF CacheInv
<1> QED BY <1>5, <1>6, <1>7

\* The event stream, the login page and back.
LEMMA PageInv ==
  ASSUME CacheInv, StreamOpens \/ StreamBreaks \/ ReceiveEvent \/ Unauthorized \/ Load
  PROVE  CacheInv'
<1>1. CASE Unauthorized
  <2>1. handleUnauthorized
    BY <1>1 DEF Unauthorized
  <2>2. Empty \in Entries /\ Empty.fetch = "idle" /\ Empty.data = NoData
    <3>1. 0 \in 0..Retry
      BY CacheAssumption DEF CacheAssumption
    <3> QED BY <3>1 DEF Entries, Empty
  <2>3. NoCall \in Running /\ NoCall.on = {}
    BY DEF NoCall, Running
  <2>4. CacheTypeOK'
    BY <2>1, <2>2, <2>3 DEF handleUnauthorized, CacheInv, CacheTypeOK
  <2>5. CallsAreInformed'
    BY <2>1, <2>3 DEF handleUnauthorized, CallsAreInformed
  <2>6. \A k \in Keys : Repaid(k)'
    BY <2>1, <2>2 DEF handleUnauthorized, CacheInv, CacheTypeOK, Repaid, Shown
  <2> QED BY <2>4, <2>5, <2>6 DEF CacheInv
<1>2. CASE StreamOpens \/ StreamBreaks \/ ReceiveEvent \/ Load
  <2>1. UNCHANGED <<q, owed, truth, calls, mounted>>
    BY <1>2 DEF StreamOpens, StreamBreaks, ReceiveEvent, Load
  <2>2. CallsAreInformed' /\ \A k \in Keys : Repaid(k)'
    BY <2>1, StaysInformed DEF CacheInv, Repaid, Shown
  <2>3. CASE ReceiveEvent
    <3>1. wire # <<>> /\ wire \in Seq(DOMAIN INVALIDATIONS)
      BY <2>3 DEF CacheInv, CacheTypeOK, ReceiveEvent
    <3>2. Head(wire) \in DOMAIN INVALIDATIONS /\ wire' \in Seq(DOMAIN INVALIDATIONS)
      BY <2>3, <3>1 DEF ReceiveEvent
    <3>3. timers' \subseteq UNION {INVALIDATIONS[kind] : kind \in DOMAIN INVALIDATIONS}
      BY <2>3, <3>2 DEF ReceiveEvent, scheduleInvalidate, CacheInv, CacheTypeOK
    <3>4. es' = es /\ page' = page
      BY <2>3 DEF ReceiveEvent
    <3> QED BY <2>1, <2>2, <3>2, <3>3, <3>4 DEF CacheInv, CacheTypeOK
  <2>4. CASE StreamOpens \/ StreamBreaks \/ Load
    <3>1. CacheTypeOK /\ timers' = timers
      BY <2>4 DEF CacheInv, StreamOpens, StreamBreaks, Load
    <3>2. wire' = wire \/ wire' = <<>>
      BY <2>4 DEF StreamOpens, StreamBreaks, Load
    <3>3. es' \in {"connecting", "open", "closed"} /\ page' \in {"shown", "left"}
      BY <2>4, <3>1 DEF StreamOpens, StreamBreaks, Load, CacheTypeOK
    <3>4. wire' \in Seq(DOMAIN INVALIDATIONS)
      <4>1. wire \in Seq(DOMAIN INVALIDATIONS) /\ <<>> \in Seq(DOMAIN INVALIDATIONS)
        BY <3>1 DEF CacheTypeOK
      <4> QED BY <3>2, <4>1
    <3>5. CacheTypeOK'
      BY <2>1, <3>1, <3>3, <3>4 DEF CacheTypeOK
    <3> QED BY <2>2, <3>5 DEF CacheInv
  <2> QED BY <1>2, <2>3, <2>4
<1> QED BY <1>1, <1>2

\* Every step keeps the inductive invariant.
LEMMA CacheStepInv == CacheInv /\ [CacheNext]_cacheVars => CacheInv'
<1> SUFFICES ASSUME CacheInv, [CacheNext]_cacheVars PROVE CacheInv'
  OBVIOUS
<1>1. CASE UNCHANGED cacheVars
  <2>1. CacheTypeOK' /\ CallsAreInformed'
    BY <1>1 DEF cacheVars, CacheInv, CacheTypeOK, CallsAreInformed, Seen, Shows
  <2>2. \A k \in Keys : Repaid(k)'
    BY <1>1 DEF cacheVars, CacheInv, Repaid, Shown
  <2> QED BY <2>1, <2>2 DEF CacheInv
<1>2. CASE CacheNext
  BY <1>2, QueriesInv, ChangeInv, TimerInv, MutateInv, ApplyInv, RequestAnsweredInv, PageInv
     DEF CacheNext
<1> QED BY <1>1, <1>2

\* The cache always satisfies the inductive invariant.
THEOREM CacheInvariant == CacheSpec => []CacheInv
<1> QED BY CacheInitInv, CacheStepInv, PTL DEF CacheSpec

\* Type correctness: no query tries more often than it may, and only kinds the
\* table of stream.ts knows are on the wire.
THEOREM CacheTypeCorrect == CacheSpec => []CacheTypeOK
<1>1. CacheInv => CacheTypeOK
  BY DEF CacheInv
<1> QED BY <1>1, CacheInvariant, PTL

\* A mutation that succeeded is visible in every settled list it was made in: for
\* any set of queries, objects and mutations in flight, any changes by others,
\* any losses of events and any failures of other requests.
THEOREM CacheReadsYourWrites == CacheSpec => []ReadYourWrites
<1>1. CacheInv => ReadYourWrites
  BY DEF CacheInv, Repaid, ReadYourWrites
<1> QED BY <1>1, CacheInvariant, PTL
=============================================================================
