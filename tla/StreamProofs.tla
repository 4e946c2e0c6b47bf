----------------------------- MODULE StreamProofs -----------------------------
(***************************************************************************)
(* Proofs about Hub and StreamHandler, for any number of watchers,         *)
(* browsers and events, any channel capacity and any rights.  The first    *)
(* part is about the hub alone: it assumes nothing but a positive capacity *)
(* of its channels (BufSizeAssumption) and holds for any number of call    *)
(* sites of an unsubscribe function.  The second part is about the SSE     *)
(* handlers composed with the hub: their steps are steps of the hub, so    *)
(* that its invariant holds; the third shows that the two together keep    *)
(* the promise of Feed.                                                    *)
(***************************************************************************)
EXTENDS StreamHandler, TLAPS

-----------------------------------------------------------------------------
(* The hub *)

(* The initial state satisfies the inductive invariant. *)
LEMMA HubInitInv == HubInit => HubInv
<1> SUFFICES ASSUME HubInit PROVE HubInv
  OBVIOUS
<1> USE DEF HubInit
<1>1. HubTypeOK
  BY BufSizeAssumption DEF HubTypeOK, Calls
<1>2. NoPanic /\ ClosedIsUnreachable /\ DeletedBeforeClose /\ OnePerOnce
  BY DEF NoPanic, ClosedIsUnreachable, DeletedBeforeClose, OnePerOnce, Calls
<1>3. IterationsUnderLock /\ OpenFirst
  BY DEF IterationsUnderLock, OpenFirst, Calls
<1> QED BY <1>1, <1>2, <1>3 DEF HubInv

(* Every step of a goroutine inside or outside the hub keeps its types. *)
LEMMA HubStepType == HubTypeOK /\ [HubNext]_hubVars => HubTypeOK'
<1> SUFFICES ASSUME HubTypeOK, [HubNext]_hubVars PROVE HubTypeOK'
  OBVIOUS
<1> USE DEF HubTypeOK
<1>1. ASSUME NEW s \in Subscribers, SubscribeCall(s) PROVE HubTypeOK'
  BY <1>1 DEF SubscribeCall
<1>2. ASSUME NEW s \in Subscribers, SubscribeAdd(s) PROVE HubTypeOK'
  BY <1>2 DEF SubscribeAdd
<1>3. ASSUME NEW s \in Subscribers, Receive(s) PROVE HubTypeOK'
  <2>1. Tail(ch[s]) \in Seq(Events) /\ Len(Tail(ch[s])) = Len(ch[s]) - 1
    BY <1>3 DEF Receive
  <2>2. ch' = [ch EXCEPT ![s] = Tail(ch[s])]
    BY <1>3 DEF Receive
  <2>3. Len(ch[s]) \in Nat
    OBVIOUS
  <2>4. \A t \in Subscribers : Len(ch'[t]) =< BufSize
    BY <2>1, <2>2, <2>3, BufSizeAssumption
  <2>5. ch' \in [Subscribers -> Seq(Events)]
    BY <2>1, <2>2
  <2> QED BY <1>3, <2>4, <2>5 DEF Receive
<1>4. ASSUME NEW s \in Subscribers, NEW c \in Callers, UnsubCall(s, c) PROVE HubTypeOK'
  <2>1. once' \in [Subscribers -> {"fresh", "running", "done"}]
    BY <1>4 DEF UnsubCall
  <2>2. upc' \in [Calls -> {"ready", "lock", "close", "once", "returned"}]
    BY <1>4 DEF UnsubCall
  <2> QED BY <1>4, <2>1, <2>2 DEF UnsubCall
<1>5. ASSUME NEW s \in Subscribers, NEW c \in Callers, UnsubStep(s, c) PROVE HubTypeOK'
  <2> <<s, c>> \in Calls
    BY DEF Calls
  <2>1. CASE UnsubDelete(s, c)
    BY <2>1 DEF UnsubDelete
  <2>2. CASE UnsubClose(s, c)
    BY <2>2 DEF UnsubClose
  <2>3. CASE UnsubOnceDone(s, c)
    BY <2>3 DEF UnsubOnceDone
  <2> QED BY <1>5, <2>1, <2>2, <2>3 DEF UnsubStep
<1>6. ASSUME NEW p \in Publishers, NEW e \in Events, PublishCall(p, e) PROVE HubTypeOK'
  BY <1>6 DEF PublishCall
<1>7. ASSUME NEW p \in Publishers, PublishRLock(p) PROVE HubTypeOK'
  BY <1>7 DEF PublishRLock
<1>8. ASSUME NEW p \in Publishers, NEW s \in Subscribers, PublishSend(p, s) PROVE HubTypeOK'
  <2>1. CASE Fits(s) /\ s \notin closed
    <3>1. ch' = [ch EXCEPT ![s] = Append(ch[s], pev[p])]
      BY <1>8, <2>1 DEF PublishSend
    <3>2. Append(ch[s], pev[p]) \in Seq(Events)
      OBVIOUS
    <3>3. Len(Append(ch[s], pev[p])) =< BufSize
      BY <2>1, BufSizeAssumption DEF Fits
    <3>4. ch' \in [Subscribers -> Seq(Events)]
      BY <3>1, <3>2
    <3>5. \A t \in Subscribers : Len(ch'[t]) =< BufSize
      BY <3>1, <3>3
    <3> QED BY <1>8, <3>4, <3>5 DEF PublishSend
  <2>2. CASE ~(Fits(s) /\ s \notin closed)
    BY <1>8, <2>2 DEF PublishSend
  <2> QED BY <2>1, <2>2
<1>9. ASSUME NEW p \in Publishers, PublishReturn(p) PROVE HubTypeOK'
  BY <1>9 DEF PublishReturn
<1>10. CASE UNCHANGED hubVars
  BY <1>10 DEF hubVars
<1> QED
  BY <1>1, <1>2, <1>3, <1>4, <1>5, <1>6, <1>7, <1>8, <1>9, <1>10
     DEF HubNext, SubscribeStep, PublishStep

(* Every step keeps the part of the invariant that says who may touch      *)
(* which channel, one proof step per operation of the hub.                 *)
LEMMA HubStepInv == HubInv /\ [HubNext]_hubVars => HubInv'
<1> SUFFICES ASSUME HubInv, [HubNext]_hubVars PROVE HubInv'
  OBVIOUS
<1> DEFINE Rest == /\ NoPanic /\ ClosedIsUnreachable /\ OnePerOnce
                   /\ DeletedBeforeClose /\ IterationsUnderLock /\ OpenFirst
<1> USE DEF HubInv
<1>t. HubTypeOK /\ HubTypeOK'
  BY HubStepType
<1> USE DEF NoPanic, ClosedIsUnreachable, OnePerOnce, DeletedBeforeClose,
            IterationsUnderLock, OpenFirst
<1>1. ASSUME NEW s \in Subscribers, SubscribeCall(s) PROVE Rest'
  BY <1>1, <1>t DEF SubscribeCall, HubTypeOK
<1>2. ASSUME NEW s \in Subscribers, SubscribeAdd(s) PROVE Rest'
  <2> USE <1>2, <1>t DEF SubscribeAdd, HubTypeOK
  <2>1. s \notin closed /\ \A c \in Callers : upc[<<s, c>>] = "ready"
    OBVIOUS
  <2>2. NoPanic' /\ ClosedIsUnreachable' /\ DeletedBeforeClose'
    BY <2>1
  <2>3. OnePerOnce' /\ IterationsUnderLock' /\ OpenFirst'
    OBVIOUS
  <2> QED BY <2>2, <2>3
<1>3. ASSUME NEW s \in Subscribers, Receive(s) PROVE Rest'
  BY <1>3, <1>t DEF Receive, HubTypeOK
<1>4. ASSUME NEW s \in Subscribers, NEW c \in Callers, UnsubCall(s, c) PROVE Rest'
  <2>1. UNCHANGED <<subs, closed, spc, todo, panics, ppc>> /\ spc[s] = "open"
    BY <1>4 DEF UnsubCall
  <2>2. once' \in [Subscribers -> {"fresh", "running", "done"}]
        /\ upc' \in [Calls -> {"ready", "lock", "close", "once", "returned"}]
    BY <1>t DEF HubTypeOK
  <2>3. ASSUME NEW t \in Subscribers
        PROVE  IF t = s /\ once[s] = "fresh" THEN once'[t] = "running" ELSE once'[t] = once[t]
    BY <1>4, <1>t DEF UnsubCall, HubTypeOK
  <2>4. ASSUME NEW t \in Subscribers, NEW d \in Callers
        PROVE  IF t = s /\ d = c THEN upc'[<<t, d>>] = IF once[s] = "fresh" THEN "lock" ELSE "once"
                                 ELSE upc'[<<t, d>>] = upc[<<t, d>>]
    <3>1. upc' = [upc EXCEPT ![<<s, c>>] = IF once[s] = "fresh" THEN "lock" ELSE "once"]
      BY <1>4 DEF UnsubCall
    <3>2. upc \in [Calls -> {"ready", "lock", "close", "once", "returned"}]
      BY <1>t DEF HubTypeOK
    <3>3. <<t, d>> \in Calls /\ (<<t, d>> = <<s, c>> <=> t = s /\ d = c)
      BY DEF Calls
    <3> QED BY <3>1, <3>2, <3>3
  <2>5. \A x \in closed : x \in Subscribers
    BY <1>t DEF HubTypeOK
  <2>6. OnePerOnce'
    BY <2>1, <2>3, <2>4, <2>5
  <2>7. NoPanic' /\ ClosedIsUnreachable' /\ IterationsUnderLock'
    BY <2>1
  <2>8. DeletedBeforeClose'
    BY <2>1, <2>4
  <2>9. OpenFirst'
    BY <2>1, <2>3, <2>4
  <2> QED BY <2>6, <2>7, <2>8, <2>9
<1>5. ASSUME NEW s \in Subscribers, NEW c \in Callers, UnsubDelete(s, c) PROVE Rest'
  BY <1>5, <1>t DEF UnsubDelete, CanLock, HubTypeOK, Calls
<1>6. ASSUME NEW s \in Subscribers, NEW c \in Callers, UnsubClose(s, c) PROVE Rest'
  <2> USE <1>6, <1>t DEF UnsubClose, HubTypeOK, Calls
  <2>1. s \notin closed /\ once[s] = "running" /\ spc[s] = "open"
    OBVIOUS
  <2>2. NoPanic'
    BY <2>1
  <2>3. ClosedIsUnreachable'
    OBVIOUS
  <2>4. OnePerOnce'
    BY <2>1
  <2>5. DeletedBeforeClose' /\ IterationsUnderLock'
    OBVIOUS
  <2>6. OpenFirst'
    BY <2>1
  <2> QED BY <2>2, <2>3, <2>4, <2>5, <2>6
<1>7. ASSUME NEW s \in Subscribers, NEW c \in Callers, UnsubOnceDone(s, c) PROVE Rest'
  BY <1>7, <1>t DEF UnsubOnceDone, HubTypeOK, Calls
<1>8. ASSUME NEW p \in Publishers, NEW e \in Events, PublishCall(p, e) PROVE Rest'
  BY <1>8, <1>t DEF PublishCall, HubTypeOK
<1>9. ASSUME NEW p \in Publishers, PublishRLock(p) PROVE Rest'
  BY <1>9, <1>t DEF PublishRLock, HubTypeOK
<1>10. ASSUME NEW p \in Publishers, NEW s \in Subscribers, PublishSend(p, s) PROVE Rest'
  BY <1>10, <1>t DEF PublishSend, HubTypeOK
<1>11. ASSUME NEW p \in Publishers, PublishReturn(p) PROVE Rest'
  BY <1>11, <1>t DEF PublishReturn, HubTypeOK
<1>12. ASSUME UNCHANGED hubVars PROVE Rest'
  BY <1>12 DEF hubVars
<1>13. Rest'
  BY <1>1, <1>2, <1>3, <1>4, <1>5, <1>6, <1>7, <1>8, <1>9, <1>10, <1>11, <1>12
     DEF HubNext, SubscribeStep, UnsubStep, PublishStep
<1> QED BY <1>13, <1>t

(* The hub's state always satisfies the inductive invariant. *)
THEOREM HubInvariant == HubSpec => []HubInv
<1> QED BY HubInitInv, HubStepInv, PTL DEF HubSpec

(* Type correctness; in particular no channel ever holds more than BufSize *)
(* events, whatever the publishers do.                                     *)
THEOREM HubTypeCorrect == HubSpec => []HubTypeOK
<1>1. HubInv => HubTypeOK
  BY DEF HubInv
<1> QED BY <1>1, HubInvariant, PTL

(* No goroutine panics on a closed channel: any number of watchers may     *)
(* publish while any number of clients disconnect.                         *)
THEOREM HubNeverPanics == HubSpec => []NoPanic
<1>1. HubInv => NoPanic
  BY DEF HubInv
<1> QED BY <1>1, HubInvariant, PTL

(* A closed channel is in no iteration of Publish and not in the map. *)
THEOREM HubClosedIsUnreachable == HubSpec => []ClosedIsUnreachable
<1>1. HubInv => ClosedIsUnreachable
  BY DEF HubInv
<1> QED BY <1>1, HubInvariant, PTL

(* A subscriber that was removed receives nothing any more, whichever      *)
(* watcher is in the middle of a Publish.                                  *)
THEOREM HubSilentAfterDelete == HubSpec => SilentAfterDelete
<1> DEFINE Silent == \A s \in Subscribers :
                       (once[s] # "fresh" /\ s \notin subs) => Len(ch'[s]) =< Len(ch[s])
<1>1. ASSUME HubInv, [HubNext]_hubVars PROVE Silent
  <2> SUFFICES ASSUME NEW s \in Subscribers, s \notin subs PROVE Len(ch'[s]) =< Len(ch[s])
    OBVIOUS
  <2>t. HubTypeOK /\ IterationsUnderLock
    BY <1>1 DEF HubInv
  <2>1. ch[s] \in Seq(Events) /\ Len(ch[s]) \in Nat
    BY <2>t DEF HubTypeOK
  <2>2. CASE UNCHANGED ch
    BY <2>1, <2>2
  <2>3. ASSUME NEW p \in Publishers, NEW r \in Subscribers, PublishSend(p, r)
        PROVE  Len(ch'[s]) =< Len(ch[s])
    <3>1. r # s
      BY <2>3, <2>t DEF PublishSend, IterationsUnderLock, HubTypeOK
    <3>2. ch'[s] = ch[s]
      BY <2>3, <2>t, <3>1 DEF PublishSend, HubTypeOK
    <3> QED BY <2>1, <3>2
  <2>4. ASSUME NEW r \in Subscribers, Receive(r) PROVE Len(ch'[s]) =< Len(ch[s])
    <3>1. CASE r = s
      <4>1. ch[s] # <<>> /\ ch'[s] = Tail(ch[s])
        BY <2>4, <2>t, <3>1 DEF Receive, HubTypeOK
      <4> QED BY <2>1, <4>1
    <3>2. CASE r # s
      BY <2>4, <2>t, <2>1, <3>2 DEF Receive, HubTypeOK
    <3> QED BY <3>1, <3>2
  <2>5. ASSUME NEW r \in Subscribers, SubscribeCall(r) \/ SubscribeStep(r) PROVE UNCHANGED ch
    BY <2>5 DEF SubscribeCall, SubscribeStep, SubscribeAdd
  <2>6. ASSUME NEW r \in Subscribers, NEW c \in Callers, UnsubCall(r, c) \/ UnsubStep(r, c)
        PROVE  UNCHANGED ch
    BY <2>6 DEF UnsubCall, UnsubStep, UnsubDelete, UnsubClose, UnsubOnceDone
  <2>7. ASSUME NEW p \in Publishers, NEW e \in Events, PublishCall(p, e) PROVE UNCHANGED ch
    BY <2>7 DEF PublishCall
  <2>8. ASSUME NEW p \in Publishers, PublishRLock(p) \/ PublishReturn(p) PROVE UNCHANGED ch
    BY <2>8 DEF PublishRLock, PublishReturn
  <2>9. CASE UNCHANGED hubVars
    BY <2>9, <2>2 DEF hubVars
  <2> QED BY <1>1, <2>2, <2>3, <2>4, <2>5, <2>6, <2>7, <2>8, <2>9 DEF HubNext, PublishStep
<1>2. HubInv /\ [HubNext]_hubVars => [Silent]_hubVars
  BY <1>1
<1> QED BY <1>2, HubInvariant, PTL DEF HubSpec, SilentAfterDelete

----------------------------------------------------------------------------
(* Nobody waits for ever on somebody who waits *)

(* Who waits in once.Do waits for a caller that runs the body.             *)
OnceInv ==
  \A s \in Subscribers :
    /\ once[s] = "running" => \E c \in Callers : upc[<<s, c>>] \in {"lock", "close"}
    /\ \A c \in Callers : upc[<<s, c>>] = "once" => once[s] # "fresh"

InsideHub ==
  \/ \E p \in Publishers : ppc[p] # "idle"
  \/ \E s \in Subscribers : spc[s] = "lock"
  \/ \E u \in Calls : upc[u] \in {"lock", "close", "once"}

(* The guards of the steps a goroutine takes inside the hub.               *)
SomebodyMoves ==
  \/ \E p \in Publishers : ppc[p] = "send" /\ (todo[p] = {} \/ \E s \in Subscribers : s \in todo[p])
  \/ \E p \in Publishers : ppc[p] = "rlock" /\ CanRLock
  \/ \E s \in Subscribers : spc[s] = "lock" /\ CanLock
  \/ \E u \in Calls : upc[u] = "lock" /\ CanLock
  \/ \E u \in Calls : upc[u] = "close"
  \/ \E s \in Subscribers, c \in Callers : upc[<<s, c>>] = "once" /\ once[s] = "done"

NobodyStuck == InsideHub => SomebodyMoves

LEMMA OnceStep == HubTypeOK /\ OnceInv /\ [HubNext]_hubVars => OnceInv'
<1> SUFFICES ASSUME HubTypeOK, OnceInv, [HubNext]_hubVars PROVE OnceInv'
  OBVIOUS
<1>1. CASE UNCHANGED <<once, upc>>
  BY <1>1 DEF OnceInv
<1>2. ASSUME NEW s \in Subscribers, NEW c \in Callers, UnsubCall(s, c) \/ UnsubStep(s, c)
      PROVE  OnceInv'
  <2> DEFINE u == <<s, c>>
  <2>1. u \in Calls /\ \A t \in Subscribers, d \in Callers :
                         <<t, d>> \in Calls /\ (<<t, d>> = u <=> t = s /\ d = c)
    BY DEF Calls
  <2>2. /\ once \in [Subscribers -> {"fresh", "running", "done"}]
        /\ upc \in [Calls -> {"ready", "lock", "close", "once", "returned"}]
    BY DEF HubTypeOK
  <2>3. CASE UnsubCall(s, c)
    <3>1. CASE once[s] = "fresh"
      <4>1. once' = [once EXCEPT ![s] = "running"] /\ upc' = [upc EXCEPT ![u] = "lock"]
        BY <2>3, <3>1 DEF UnsubCall
      <4> HIDE DEF u
      <4>2. /\ once'[s] = "running" /\ upc'[u] = "lock"
            /\ \A t \in Subscribers \ {s} : once'[t] = once[t]
            /\ \A t \in Subscribers, d \in Callers : <<t, d>> # u => upc'[<<t, d>>] = upc[<<t, d>>]
        BY <2>1, <2>2, <4>1
      <4>3. ASSUME NEW t \in Subscribers, t # s
            PROVE  /\ once'[t] = once[t]
                   /\ \A d \in Callers : upc'[<<t, d>>] = upc[<<t, d>>]
        BY <2>1, <4>2, <4>3
      <4>4. ASSUME NEW d \in Callers PROVE upc'[<<s, d>>] = "once" => once'[s] # "fresh"
        BY <4>2
      <4>5. \E d \in Callers : upc'[<<s, d>>] \in {"lock", "close"}
        BY <4>2 DEF u
      <4> QED BY <4>3, <4>4, <4>5 DEF OnceInv
    <3>2. CASE once[s] # "fresh"
      <4>1. once' = once /\ upc' = [upc EXCEPT ![u] = "once"] /\ upc[u] = "ready"
        BY <2>3, <3>2 DEF UnsubCall
      <4> HIDE DEF u
      <4>2. /\ upc'[u] = "once"
            /\ \A t \in Subscribers, d \in Callers : <<t, d>> # u => upc'[<<t, d>>] = upc[<<t, d>>]
        BY <2>1, <2>2, <4>1
      <4> QED BY <2>1, <3>2, <4>1, <4>2 DEF OnceInv
    <3> QED BY <3>1, <3>2
  <2>4. CASE UnsubDelete(s, c)
    <3>1. once' = once /\ upc' = [upc EXCEPT ![u] = "close"] /\ upc[u] = "lock"
      BY <2>4 DEF UnsubDelete
    <3> HIDE DEF u
    <3>2. /\ upc'[u] = "close"
          /\ \A t \in Subscribers, d \in Callers : <<t, d>> # u => upc'[<<t, d>>] = upc[<<t, d>>]
      BY <2>1, <2>2, <3>1
    <3> QED BY <2>1, <3>1, <3>2 DEF OnceInv
  <2>5. CASE UnsubClose(s, c)
    <3>1. once' = [once EXCEPT ![s] = "done"] /\ upc' = [upc EXCEPT ![u] = "returned"]
      BY <2>5 DEF UnsubClose
    <3> HIDE DEF u
    <3>2. /\ once'[s] = "done" /\ upc'[u] = "returned"
          /\ \A t \in Subscribers \ {s} : once'[t] = once[t]
          /\ \A t \in Subscribers, d \in Callers : <<t, d>> # u => upc'[<<t, d>>] = upc[<<t, d>>]
      BY <2>1, <2>2, <3>1
    <3> QED BY <2>1, <3>2 DEF OnceInv
  <2>6. CASE UnsubOnceDone(s, c)
    <3>1. once' = once /\ upc' = [upc EXCEPT ![u] = "returned"] /\ upc[u] = "once"
      BY <2>6 DEF UnsubOnceDone
    <3> HIDE DEF u
    <3>2. /\ upc'[u] = "returned"
          /\ \A t \in Subscribers, d \in Callers : <<t, d>> # u => upc'[<<t, d>>] = upc[<<t, d>>]
      BY <2>1, <2>2, <3>1
    <3> QED BY <2>1, <3>1, <3>2 DEF OnceInv
  <2> QED BY <1>2, <2>3, <2>4, <2>5, <2>6 DEF UnsubStep
<1> QED BY <1>1, <1>2
        DEF HubNext, SubscribeCall, SubscribeStep, SubscribeAdd, Receive, PublishCall, PublishStep,
            PublishRLock, PublishSend, PublishReturn, hubVars

(* The hub never deadlocks: whatever holds mu, waits for it or waits in a  *)
(* once, as long as some goroutine is inside a call of the hub one of them *)
(* can take its next step, for any number of goroutines (hub.go has three  *)
(* kinds of waiting: RLock behind a writer, Lock behind readers, and a     *)
(* second unsubscribe behind the first).                                   *)
THEOREM HubNobodyStuck == HubSpec => []NobodyStuck
<1>1. HubInit => OnceInv
  BY DEF HubInit, OnceInv, Calls
<1>2. ASSUME HubTypeOK, OnceInv, InsideHub PROVE SomebodyMoves
  <2>1. CASE \E p \in Publishers : ppc[p] = "send"
    BY <1>2, <2>1 DEF SomebodyMoves, HubTypeOK
  <2>2. CASE /\ \A p \in Publishers : ppc[p] # "send"
             /\ (\E s \in Subscribers : spc[s] = "lock") \/ (\E u \in Calls : upc[u] = "lock")
    BY <2>2 DEF SomebodyMoves, CanLock
  <2>3. CASE /\ \A s \in Subscribers : spc[s] # "lock"
             /\ \A u \in Calls : upc[u] # "lock"
             /\ \E p \in Publishers : ppc[p] = "rlock"
    BY <2>3 DEF SomebodyMoves, CanRLock
  <2>4. ASSUME NEW s \in Subscribers, NEW c \in Callers, upc[<<s, c>>] = "once",
               \A u \in Calls : upc[u] # "lock"
        PROVE  SomebodyMoves
    <3>1. once[s] \in {"running", "done"}
      BY <1>2, <2>4 DEF OnceInv, HubTypeOK
    <3>2. CASE once[s] = "running"
      <4>1. PICK d \in Callers : upc[<<s, d>>] \in {"lock", "close"}
        BY <1>2, <3>2 DEF OnceInv
      <4>2. <<s, d>> \in Calls
        BY DEF Calls
      <4> QED BY <2>4, <4>1, <4>2 DEF SomebodyMoves
    <3> QED BY <2>4, <3>1, <3>2 DEF SomebodyMoves
  <2>5. CASE \E u \in Calls : upc[u] = "close"
    BY <2>5 DEF SomebodyMoves
  <2>6. \A p \in Publishers : ppc[p] \in {"idle", "rlock", "send"}
    BY <1>2 DEF HubTypeOK
  <2>7. \A u \in Calls : \E s \in Subscribers : \E c \in Callers : u = <<s, c>>
    BY DEF Calls
  <2> QED BY <1>2, <2>1, <2>2, <2>3, <2>4, <2>5, <2>6, <2>7 DEF InsideHub
<1>3. HubInv => HubTypeOK
  BY DEF HubInv
<1>4. HubSpec => []OnceInv
  BY <1>1, <1>3, OnceStep, HubInvariant, PTL DEF HubSpec
<1> QED BY <1>2, <1>3, <1>4, HubInvariant, PTL DEF NobodyStuck

-----------------------------------------------------------------------------
(* The SSE handlers and the hub *)

Phases == {"connecting", "refused", "greeted", "subscribing", "loop", "leaving", "returned"}

StreamTypeOK ==
  /\ hpc \in [Subscribers -> Phases]
  /\ out \in [Subscribers -> Seq(Events)]
  /\ sent \in [Publishers -> 0 .. MaxEvents]
  /\ owed \in [Subscribers -> SUBSET Events]
  /\ dropped \in [Subscribers -> SUBSET Events]

(* What p publishes is its latest event. *)
LatestOffered ==
  \A p \in Publishers : ppc[p] # "idle" => sent[p] > 0 /\ pev[p] = <<p, sent[p]>>

(* Whether p has still to offer its latest event to s. *)
Pending(p, s) == ppc[p] = "rlock" \/ s \in todo[p]

(* A handler is registered while it is in its loop and is owed nothing     *)
(* before.                                                                 *)
RegisteredInLoop ==
  \A s \in Subscribers :
    /\ hpc[s] = "loop" => s \in subs
    /\ hpc[s] \in {"connecting", "refused", "greeted", "subscribing"} => owed[s] = {}

----------------------------------------------------------------------------
(* Order *)

(* The events of each watcher are in the order of their numbers. *)
Increasing(q) ==
  \A i, j \in 1 .. Len(q) : i < j /\ q[i][1] = q[j][1] => q[i][2] < q[j][2]

Precedes(q, r) ==
  \A i \in 1 .. Len(q), j \in 1 .. Len(r) : q[i][1] = r[j][1] => q[i][2] < r[j][2]

(* What s has got is not newer than what was published, and older as long  *)
(* as its watcher has still to offer that to s.                            *)
Dated(e, s) ==
  /\ e[2] =< sent[e[1]]
  /\ Pending(e[1], s) => e[2] < sent[e[1]]

UpToDate(q, s) == \A i \in 1 .. Len(q) : Dated(q[i], s)

OrderInv(s) ==
  /\ \A i \in 1 .. Len(out[s]) : Authorize(s, out[s][i])
  /\ Increasing(out[s]) /\ Increasing(ch[s]) /\ Precedes(out[s], ch[s])
  /\ UpToDate(out[s], s) /\ UpToDate(ch[s], s)

----------------------------------------------------------------------------
(* Loss *)

(* An event that s is owed is accounted for as soon as it was offered. *)
LossInv(s) ==
  \A e \in owed[s] :
    /\ e[2] =< sent[e[1]]
    /\ \/ Accounted(s, e)
       \/ e[2] = sent[e[1]] /\ Pending(e[1], s)

(* The inductive invariant of the handlers. *)
StreamInv ==
  /\ HubInv
  /\ StreamTypeOK
  /\ LatestOffered
  /\ RegisteredInLoop
  /\ \A s \in Subscribers : OrderInv(s) /\ LossInv(s)

----------------------------------------------------------------------------
(* The handlers' steps are steps of the hub *)

LEMMA EventsOfWatchers ==
  ASSUME NEW p \in Publishers, NEW n \in Nat \ {0}, n =< MaxEvents
  PROVE  <<p, n>> \in Events
BY StreamAssumption DEF StreamAssumption

LEMMA StreamInitHub == StreamInit => HubInit
BY DEF StreamInit

LEMMA StreamStepHub ==
  ASSUME StreamTypeOK, [StreamNext]_streamVars
  PROVE  [HubNext]_hubVars
<1>1. ASSUME NEW s \in Subscribers, HandlerStep(s) PROVE [HubNext]_hubVars
  <2>1. CASE Greet(s)
    BY <2>1 DEF Greet
  <2>2. CASE Subscribe(s)
    BY <2>2 DEF Subscribe, HubNext
  <2>3. CASE EnterLoop(s)
    BY <2>3 DEF EnterLoop, HubNext, SubscribeStep
  <2>4. CASE Unregister(s) \/ Return(s)
    BY <2>4, StreamAssumption DEF StreamAssumption, Unregister, Return, HubNext, UnsubStep
  <2> QED BY <1>1, <2>1, <2>2, <2>3, <2>4 DEF HandlerStep
<1>2. ASSUME NEW s \in Subscribers, Forward(s) PROVE [HubNext]_hubVars
  BY <1>2 DEF Forward, HubNext
<1>3. ASSUME NEW s \in Subscribers, Leave(s) PROVE [HubNext]_hubVars
  BY <1>3, StreamAssumption DEF StreamAssumption, Leave, HubNext
<1>4. ASSUME NEW s \in Subscribers, Disconnect(s) PROVE [HubNext]_hubVars
  BY <1>4 DEF Disconnect
<1>5. ASSUME NEW p \in Publishers, WatchEvent(p) PROVE [HubNext]_hubVars
  <2>1. sent[p] + 1 \in Nat \ {0} /\ sent[p] + 1 =< MaxEvents
    BY <1>5, StreamAssumption DEF StreamAssumption, WatchEvent, StreamTypeOK
  <2>2. <<p, sent[p] + 1>> \in Events /\ PublishCall(p, <<p, sent[p] + 1>>)
    BY <1>5, <2>1, EventsOfWatchers DEF WatchEvent
  <2> QED BY <2>2 DEF HubNext
<1>6. ASSUME NEW p \in Publishers, WatcherStep(p) PROVE [HubNext]_hubVars
  BY <1>6 DEF WatcherStep, Offer, HubNext, PublishStep
<1>7. CASE UNCHANGED streamVars
  BY <1>7 DEF streamVars
<1> QED BY <1>1, <1>2, <1>3, <1>4, <1>5, <1>6, <1>7 DEF StreamNext

LEMMA StreamInitType == StreamInit => StreamTypeOK
BY StreamAssumption DEF StreamAssumption, StreamInit, StreamTypeOK, Phases

LEMMA StreamStepType ==
  ASSUME StreamTypeOK, HubTypeOK, HubTypeOK', [StreamNext]_streamVars
  PROVE  StreamTypeOK'
<1> USE DEF StreamTypeOK, Phases
<1>1. ASSUME NEW s \in Subscribers, HandlerStep(s) \/ Leave(s) \/ Disconnect(s)
      PROVE  StreamTypeOK'
  BY <1>1 DEF HandlerStep, Greet, Subscribe, EnterLoop, Unregister, Return, Leave, Disconnect, history, handlerVars
<1>2. ASSUME NEW s \in Subscribers, Forward(s) PROVE StreamTypeOK'
  <2>1. Head(ch[s]) \in Events
    BY <1>2 DEF Forward, Receive, HubTypeOK
  <2>2. out' \in [Subscribers -> Seq(Events)]
    BY <1>2, <2>1 DEF Forward
  <2> QED BY <1>2, <2>2 DEF Forward, history
<1>3. ASSUME NEW p \in Publishers, WatchEvent(p) PROVE StreamTypeOK'
  <2>1. sent[p] + 1 \in Nat \ {0} /\ sent[p] + 1 =< MaxEvents
    BY <1>3, StreamAssumption DEF StreamAssumption, WatchEvent
  <2>2. <<p, sent[p] + 1>> \in Events
    BY <2>1, EventsOfWatchers
  <2>3. sent' \in [Publishers -> 0 .. MaxEvents]
    BY <1>3, <2>1, StreamAssumption DEF StreamAssumption, WatchEvent
  <2>4. owed' \in [Subscribers -> SUBSET Events]
    BY <1>3, <2>2 DEF WatchEvent
  <2> QED BY <1>3, <2>3, <2>4 DEF WatchEvent, handlerVars
<1>4. ASSUME NEW p \in Publishers, NEW s \in Subscribers, Offer(p, s) PROVE StreamTypeOK'
  BY <1>4 DEF Offer, HubTypeOK, handlerVars
<1>5. ASSUME NEW p \in Publishers, WatcherStep(p) PROVE StreamTypeOK'
  BY <1>4, <1>5 DEF WatcherStep, handlerVars, history
<1>6. CASE UNCHANGED streamVars
  BY <1>6 DEF streamVars, handlerVars, history
<1> QED BY <1>1, <1>2, <1>3, <1>5, <1>6 DEF StreamNext

----------------------------------------------------------------------------
(* Lemmas about feeds *)

LEMMA EventShape ==
  ASSUME NEW e \in Events
  PROVE  e[1] \in Publishers /\ e[2] \in Nat /\ e = <<e[1], e[2]>>
BY StreamAssumption DEF StreamAssumption

LEMMA ElementsOfSeq ==
  ASSUME NEW S, NEW q \in Seq(S)
  PROVE  /\ Len(q) \in Nat /\ DOMAIN q = 1 .. Len(q)
         /\ \A i \in 1 .. Len(q) : q[i] \in S
OBVIOUS

LEMMA TailElements ==
  ASSUME NEW S, NEW q \in Seq(S), q # <<>>
  PROVE  /\ Tail(q) \in Seq(S) /\ Len(Tail(q)) = Len(q) - 1 /\ Len(q) \in Nat \ {0}
         /\ Head(q) = q[1]
         /\ \A i \in 1 .. Len(Tail(q)) : Tail(q)[i] = q[i + 1] /\ i + 1 \in 1 .. Len(q)
OBVIOUS

LEMMA AppendElements ==
  ASSUME NEW S, NEW q \in Seq(S), NEW e \in S
  PROVE  /\ Append(q, e) \in Seq(S) /\ Len(Append(q, e)) = Len(q) + 1 /\ Len(q) \in Nat
         /\ \A i \in 1 .. Len(q) : Append(q, e)[i] = q[i]
         /\ Append(q, e)[Len(q) + 1] = e
OBVIOUS

(* Two feeds of which the second starts after the first make one. *)
LEMMA FeedOrder ==
  ASSUME NEW a \in Seq(Events), NEW b \in Seq(Events),
         Increasing(a), Increasing(b), Precedes(a, b)
  PROVE  Increasing(a \o b)
<1>1. /\ Len(a \o b) = Len(a) + Len(b) /\ Len(a) \in Nat /\ Len(b) \in Nat
      /\ \A i \in 1 .. Len(a) : (a \o b)[i] = a[i]
      /\ \A i \in 1 .. Len(a \o b) : i > Len(a) => (a \o b)[i] = b[i - Len(a)]
  OBVIOUS
<1>2. SUFFICES ASSUME NEW i \in 1 .. Len(a) + Len(b), NEW j \in 1 .. Len(a) + Len(b), i < j,
                      (a \o b)[i][1] = (a \o b)[j][1]
               PROVE  (a \o b)[i][2] < (a \o b)[j][2]
  BY <1>1 DEF Increasing
<1>3. CASE j =< Len(a)
  BY <1>1, <1>2, <1>3 DEF Increasing
<1>4. CASE i > Len(a)
  <2>1. i - Len(a) \in 1 .. Len(b) /\ j - Len(a) \in 1 .. Len(b) /\ i - Len(a) < j - Len(a)
    BY <1>1, <1>2, <1>4
  <2> QED BY <1>1, <1>2, <1>4, <2>1 DEF Increasing
<1>5. CASE i =< Len(a) /\ j > Len(a)
  <2>1. i \in 1 .. Len(a) /\ j - Len(a) \in 1 .. Len(b)
    BY <1>1, <1>2, <1>5
  <2> QED BY <1>1, <1>2, <1>5, <2>1 DEF Precedes
<1> QED BY <1>1, <1>2, <1>3, <1>4, <1>5

(* The next event of the second feed goes over to the first, or is skipped. *)
LEMMA ForwardOrder ==
  ASSUME NEW a \in Seq(Events), NEW b \in Seq(Events), b # <<>>,
         Increasing(a), Increasing(b), Precedes(a, b)
  PROVE  /\ Increasing(Tail(b)) /\ Precedes(a, Tail(b))
         /\ Increasing(Append(a, Head(b))) /\ Precedes(Append(a, Head(b)), Tail(b))
<1> DEFINE t == Tail(b)
           q == Append(a, Head(b))
<1>1. /\ Len(t) = Len(b) - 1 /\ Len(b) \in Nat \ {0} /\ Head(b) = b[1]
      /\ \A i \in 1 .. Len(t) : t[i] = b[i + 1] /\ i + 1 \in 1 .. Len(b)
  BY TailElements
<1>2. Head(b) \in Events
  BY <1>1, ElementsOfSeq
<1>3. /\ Len(q) = Len(a) + 1 /\ Len(a) \in Nat
      /\ \A i \in 1 .. Len(a) : q[i] = a[i]
      /\ q[Len(a) + 1] = b[1]
  BY <1>1, <1>2, AppendElements
<1> HIDE DEF t, q
<1>4. Increasing(t)
  BY <1>1 DEF Increasing
<1>5. Precedes(a, t)
  BY <1>1 DEF Precedes
<1>6. ASSUME NEW i \in 1 .. Len(q), NEW j \in 1 .. Len(q), i < j, q[i][1] = q[j][1]
      PROVE  q[i][2] < q[j][2]
  <2>1. i \in 1 .. Len(a) /\ q[i] = a[i]
    BY <1>3, <1>6
  <2>2. CASE j \in 1 .. Len(a)
    BY <1>3, <1>6, <2>1, <2>2 DEF Increasing
  <2>3. CASE j = Len(a) + 1
    <3>1. q[j] = b[1] /\ 1 \in 1 .. Len(b)
      BY <1>1, <1>3, <2>3
    <3> QED BY <1>6, <2>1, <3>1 DEF Precedes
  <2> QED BY <1>3, <2>2, <2>3
<1>7. ASSUME NEW i \in 1 .. Len(q), NEW j \in 1 .. Len(t), q[i][1] = t[j][1]
      PROVE  q[i][2] < t[j][2]
  <2>1. t[j] = b[j + 1] /\ j + 1 \in 1 .. Len(b)
    BY <1>1
  <2>2. CASE i \in 1 .. Len(a)
    BY <1>3, <1>7, <2>1, <2>2 DEF Precedes
  <2>3. CASE i = Len(a) + 1
    <3>1. q[i] = b[1] /\ 1 \in 1 .. Len(b) /\ 1 < j + 1
      BY <1>1, <1>3, <2>3
    <3> QED BY <1>7, <2>1, <3>1 DEF Increasing
  <2> QED BY <1>3, <2>2, <2>3
<1> QED BY <1>4, <1>5, <1>6, <1>7 DEF Increasing, Precedes, t, q

(* A newer event is added to the second feed. *)
LEMMA OfferOrder ==
  ASSUME NEW a \in Seq(Events), NEW b \in Seq(Events), NEW e \in Events,
         Increasing(b), Precedes(a, b),
         \A i \in 1 .. Len(a) : a[i][1] = e[1] => a[i][2] < e[2],
         \A i \in 1 .. Len(b) : b[i][1] = e[1] => b[i][2] < e[2]
  PROVE  Increasing(Append(b, e)) /\ Precedes(a, Append(b, e))
<1> DEFINE q == Append(b, e)
<1>1. /\ Len(q) = Len(b) + 1 /\ Len(b) \in Nat
      /\ \A i \in 1 .. Len(b) : q[i] = b[i]
      /\ q[Len(b) + 1] = e
  BY AppendElements
<1> HIDE DEF q
<1>2. \A i \in 1 .. Len(q) : i \in 1 .. Len(b) \/ i = Len(b) + 1
  BY <1>1
<1>3. ASSUME NEW i \in 1 .. Len(q), NEW j \in 1 .. Len(q), i < j, q[i][1] = q[j][1]
      PROVE  q[i][2] < q[j][2]
  <2>1. i \in 1 .. Len(b) /\ q[i] = b[i]
    BY <1>1, <1>3
  <2>2. CASE j \in 1 .. Len(b)
    BY <1>1, <1>3, <2>1, <2>2 DEF Increasing
  <2>3. CASE j = Len(b) + 1
    BY <1>1, <1>3, <2>1, <2>3
  <2> QED BY <1>2, <2>2, <2>3
<1>4. ASSUME NEW i \in 1 .. Len(a), NEW j \in 1 .. Len(q), a[i][1] = q[j][1]
      PROVE  a[i][2] < q[j][2]
  <2>1. CASE j \in 1 .. Len(b)
    BY <1>1, <1>4, <2>1 DEF Precedes
  <2>2. CASE j = Len(b) + 1
    BY <1>1, <1>4, <2>2
  <2> QED BY <1>2, <2>1, <2>2
<1> QED BY <1>3, <1>4 DEF Increasing, Precedes, q

----------------------------------------------------------------------------
(* Every step keeps the invariant *)

LEMMA StreamInitInv == StreamInit => StreamInv
<1> SUFFICES ASSUME StreamInit PROVE StreamInv
  OBVIOUS
<1>1. HubInv /\ StreamTypeOK
  BY StreamInitHub, HubInitInv, StreamInitType
<1>2. LatestOffered /\ RegisteredInLoop
  BY DEF StreamInit, HubInit, LatestOffered, RegisteredInLoop
<1>3. ASSUME NEW s \in Subscribers PROVE OrderInv(s) /\ LossInv(s)
  <2>1. out[s] = <<>> /\ ch[s] = <<>> /\ owed[s] = {}
    BY DEF StreamInit, HubInit
  <2>2. 1 .. Len(out[s]) = {} /\ 1 .. Len(ch[s]) = {}
    BY <2>1
  <2> QED BY <2>1, <2>2 DEF OrderInv, LossInv, Increasing, Precedes, UpToDate
<1> QED BY <1>1, <1>2, <1>3 DEF StreamInv

(* The steps that are about neither events nor watchers. *)
Housekeeping(s) == HandlerStep(s) \/ Leave(s) \/ Disconnect(s)

LEMMA HousekeepingKeeps ==
  ASSUME NEW s \in Subscribers, Housekeeping(s)
  PROVE  UNCHANGED <<ch, ppc, pev, todo, out, sent, owed, dropped>>
BY DEF Housekeeping, HandlerStep, Greet, Subscribe, SubscribeCall, EnterLoop, SubscribeAdd,
       Unregister, UnsubDelete, Return, UnsubClose, Leave, UnsubCall, Disconnect, hubVars,
       handlerVars, history

LEMMA LatestOfferedStep ==
  ASSUME StreamInv, [StreamNext]_streamVars
  PROVE  LatestOffered'
<1> USE DEF StreamInv, LatestOffered, StreamTypeOK, HubInv, HubTypeOK
<1>1. CASE UNCHANGED <<ppc, pev, sent>>
  BY <1>1
<1>2. ASSUME NEW p \in Publishers, WatchEvent(p) PROVE LatestOffered'
  BY <1>2, StreamAssumption DEF StreamAssumption, WatchEvent, PublishCall
<1>3. ASSUME NEW p \in Publishers, WatcherStep(p) PROVE LatestOffered'
  BY <1>3 DEF WatcherStep, PublishRLock, PublishReturn, Offer, PublishSend, handlerVars
<1>4. ASSUME NEW s \in Subscribers, Forward(s) PROVE LatestOffered'
  BY <1>4 DEF Forward, Receive
<1> QED BY <1>1, <1>2, <1>3, <1>4, HousekeepingKeeps
        DEF StreamNext, Housekeeping, streamVars, hubVars

LEMMA RegisteredInLoopStep ==
  ASSUME StreamInv, [StreamNext]_streamVars
  PROVE  RegisteredInLoop'
<1> USE DEF StreamInv, RegisteredInLoop, StreamTypeOK, Phases, HubInv, HubTypeOK
<1>1. CASE UNCHANGED <<hpc, subs, owed>>
  BY <1>1
<1>2. ASSUME NEW s \in Subscribers, HandlerStep(s) PROVE RegisteredInLoop'
  <2>1. CASE Greet(s)
    BY <2>1 DEF Greet, hubVars, history
  <2>2. CASE Subscribe(s)
    BY <2>2 DEF Subscribe, SubscribeCall, history
  <2>3. CASE EnterLoop(s)
    BY <2>3 DEF EnterLoop, SubscribeAdd, history
  <2>4. CASE Unregister(s)
    BY <2>4 DEF Unregister, UnsubDelete, handlerVars, history
  <2>5. CASE Return(s)
    BY <2>5 DEF Return, UnsubClose, history
  <2> QED BY <1>2, <2>1, <2>2, <2>3, <2>4, <2>5 DEF HandlerStep
<1>3. ASSUME NEW s \in Subscribers, Forward(s) \/ Disconnect(s) PROVE RegisteredInLoop'
  BY <1>1, <1>3 DEF Forward, Receive, Disconnect, hubVars, history
<1>4. ASSUME NEW s \in Subscribers, Leave(s) PROVE RegisteredInLoop'
  BY <1>4 DEF Leave, UnsubCall, history
<1>5. ASSUME NEW p \in Publishers, WatchEvent(p) PROVE RegisteredInLoop'
  BY <1>5 DEF WatchEvent, PublishCall, handlerVars
<1>6. ASSUME NEW p \in Publishers, WatcherStep(p) PROVE RegisteredInLoop'
  BY <1>1, <1>6 DEF WatcherStep, PublishRLock, PublishReturn, Offer, PublishSend, handlerVars,
                    history
<1>7. CASE UNCHANGED streamVars
  BY <1>1, <1>7 DEF streamVars, hubVars, handlerVars, history
<1> QED BY <1>2, <1>3, <1>4, <1>5, <1>6, <1>7 DEF StreamNext

(* A step by which s gets nothing, and nobody has more to offer. *)
LEMMA OrderStays ==
  ASSUME NEW s \in Subscribers, OrderInv(s), out'[s] = out[s], ch'[s] = ch[s], sent' = sent,
         StreamTypeOK, HubTypeOK,
         \A p \in Publishers : Pending(p, s)' => Pending(p, s)
  PROVE  OrderInv(s)'
<1>1. out[s] \in Seq(Events) /\ ch[s] \in Seq(Events)
  BY DEF StreamTypeOK, HubTypeOK
<1>2. UpToDate(out[s], s)' /\ UpToDate(ch[s], s)'
  <2>1. ASSUME NEW e \in Events, Dated(e, s) PROVE Dated(e, s)'
    BY <2>1, EventShape DEF Dated
  <2>2. UpToDate(out[s], s) /\ UpToDate(ch[s], s)
    BY DEF OrderInv
  <2> QED BY <1>1, <2>1, <2>2, ElementsOfSeq DEF UpToDate
<1> QED BY <1>2 DEF OrderInv, Increasing, Precedes, Authorize

(* A new event is newer than whatever its watcher has sent to s. *)
LEMMA OrderWatchEvent ==
  ASSUME StreamInv, NEW p \in Publishers, WatchEvent(p), NEW s \in Subscribers
  PROVE  OrderInv(s)'
<1>1. /\ sent' = [sent EXCEPT ![p] = sent[p] + 1] /\ ppc' = [ppc EXCEPT ![p] = "rlock"]
      /\ UNCHANGED <<out, ch, todo>>
  BY DEF WatchEvent, PublishCall, handlerVars
<1>2. /\ out[s] \in Seq(Events) /\ ch[s] \in Seq(Events)
      /\ sent \in [Publishers -> 0 .. MaxEvents] /\ ppc \in [Publishers -> {"idle", "rlock", "send"}]
      /\ OrderInv(s)
  BY DEF StreamInv, StreamTypeOK, HubInv, HubTypeOK
<1>3. ASSUME NEW e \in Events, Dated(e, s) PROVE Dated(e, s)'
  <2>1. e[1] \in Publishers /\ e[2] \in Nat /\ sent[e[1]] \in Nat
    BY <1>2, EventShape, StreamAssumption DEF StreamAssumption
  <2>2. CASE e[1] = p
    BY <1>1, <1>2, <1>3, <2>1, <2>2 DEF Dated
  <2>3. CASE e[1] # p
    BY <1>1, <1>2, <1>3, <2>1, <2>3 DEF Dated, Pending
  <2> QED BY <2>2, <2>3
<1>4. UpToDate(out[s], s)' /\ UpToDate(ch[s], s)'
  BY <1>1, <1>2, <1>3, ElementsOfSeq DEF OrderInv, UpToDate
<1> QED BY <1>1, <1>2, <1>4 DEF OrderInv, Increasing, Precedes, Authorize

(* The event a handler takes from its channel is the first one there. *)
LEMMA OrderForward ==
  ASSUME StreamInv, NEW s \in Subscribers, Forward(s)
  PROVE  OrderInv(s)'
<1> DEFINE a == out[s]
           b == ch[s]
           h == Head(b)
<1>1. /\ a \in Seq(Events) /\ b \in Seq(Events) /\ b # <<>> /\ OrderInv(s)
      /\ out'[s] = (IF Authorize(s, h) THEN Append(a, h) ELSE a)
      /\ ch'[s] = Tail(b)
      /\ UNCHANGED <<ppc, todo, sent>>
  BY DEF Forward, Receive, StreamInv, StreamTypeOK, HubInv, HubTypeOK
<1>2. \A e : Dated(e, s)' <=> Dated(e, s)
  BY <1>1 DEF Dated, Pending
<1>3. \A e : Authorize(s, e)' <=> Authorize(s, e)
  BY DEF Authorize
<1>4. /\ Increasing(a) /\ Increasing(b) /\ Precedes(a, b)
      /\ \A i \in 1 .. Len(a) : Authorize(s, a[i]) /\ Dated(a[i], s)
      /\ \A i \in 1 .. Len(b) : Dated(b[i], s)
  BY <1>1 DEF OrderInv, UpToDate
<1>5. /\ Increasing(Tail(b)) /\ Precedes(a, Tail(b))
      /\ Increasing(Append(a, h)) /\ Precedes(Append(a, h), Tail(b))
  BY <1>1, <1>4, ForwardOrder
<1>6. /\ h \in Events /\ h = b[1] /\ 1 \in 1 .. Len(b)
      /\ \A i \in 1 .. Len(Tail(b)) : Dated(Tail(b)[i], s)
  BY <1>1, <1>4, TailElements, ElementsOfSeq
<1>7. /\ \A i \in 1 .. Len(Append(a, h)) : i \in 1 .. Len(a) \/ i = Len(a) + 1
      /\ \A i \in 1 .. Len(a) : Append(a, h)[i] = a[i]
      /\ Append(a, h)[Len(a) + 1] = h
  BY <1>1, <1>6, AppendElements
<1> HIDE DEF a, b, h
<1>8. CASE Authorize(s, h)
  <2>1. \A i \in 1 .. Len(Append(a, h)) : Authorize(s, Append(a, h)[i]) /\ Dated(Append(a, h)[i], s)
    BY <1>4, <1>6, <1>7, <1>8
  <2>2. out'[s] = Append(a, h) /\ ch'[s] = Tail(b)
    BY <1>1, <1>8
  <2> QED BY <1>2, <1>3, <1>5, <1>6, <2>1, <2>2 DEF OrderInv, UpToDate, Increasing, Precedes
<1>9. CASE ~ Authorize(s, h)
  <2>1. out'[s] = a /\ ch'[s] = Tail(b)
    BY <1>1, <1>9
  <2> QED BY <1>2, <1>3, <1>4, <1>5, <1>6, <2>1 DEF OrderInv, UpToDate, Increasing, Precedes
<1> QED BY <1>8, <1>9

(* An event that is offered is newer than what its watcher offered before. *)
LEMMA OrderOffer ==
  ASSUME StreamInv, NEW p \in Publishers, NEW s \in Subscribers, Offer(p, s)
  PROVE  OrderInv(s)'
<1> DEFINE a == out[s]
           b == ch[s]
           e == pev[p]
<1>1. /\ a \in Seq(Events) /\ b \in Seq(Events) /\ OrderInv(s) /\ StreamTypeOK /\ HubTypeOK
      /\ ppc[p] = "send" /\ s \in todo[p] /\ todo' = [todo EXCEPT ![p] = todo[p] \ {s}]
      /\ UNCHANGED <<out, ppc, sent>>
  BY DEF Offer, PublishSend, StreamInv, StreamTypeOK, HubInv, HubTypeOK, handlerVars
<1>2. e = <<p, sent[p]>> /\ e \in Events /\ sent[p] \in Nat
  BY <1>1, StreamAssumption DEF StreamAssumption, StreamInv, LatestOffered, StreamTypeOK, HubTypeOK
<1>3. \A r \in Publishers : Pending(r, s)' => Pending(r, s)
  BY <1>1 DEF Pending, HubTypeOK
<1>4. Pending(p, s) /\ ~ Pending(p, s)'
  BY <1>1 DEF Pending, HubTypeOK
<1>5. CASE ch' = ch
  BY <1>1, <1>3, <1>5, OrderStays
<1>6. CASE ch' # ch
  <2>1. ch'[s] = Append(b, e)
    BY <1>1, <1>6 DEF Offer, PublishSend, HubTypeOK
  <2>2. /\ Increasing(a) /\ Increasing(b) /\ Precedes(a, b)
        /\ \A i \in 1 .. Len(a) : Authorize(s, a[i]) /\ Dated(a[i], s)
        /\ \A i \in 1 .. Len(b) : Dated(b[i], s)
    BY <1>1 DEF OrderInv, UpToDate
  <2>3. \A x : Dated(x, s) /\ x[1] = e[1] => x[2] < e[2]
    BY <1>2, <1>4 DEF Dated
  <2>4. Increasing(Append(b, e)) /\ Precedes(a, Append(b, e))
    BY <1>1, <1>2, <2>2, <2>3, OfferOrder
  <2>5. ASSUME NEW x \in Events, Dated(x, s) PROVE Dated(x, s)'
    BY <1>1, <1>3, <2>5, EventShape DEF Dated
  <2>6. \A x \in Events : x = e => Dated(x, s)'
    BY <1>1, <1>2, <1>4 DEF Dated
  <2>7. /\ \A i \in 1 .. Len(Append(b, e)) : i \in 1 .. Len(b) \/ i = Len(b) + 1
        /\ \A i \in 1 .. Len(b) : Append(b, e)[i] = b[i]
        /\ Append(b, e)[Len(b) + 1] = e
    BY <1>1, <1>2, AppendElements
  <2> HIDE DEF a, b, e
  <2>8. /\ \A x \in Events : (\E i \in 1 .. Len(a) : x = a[i]) => Dated(x, s)'
        /\ \A x \in Events : (\E i \in 1 .. Len(Append(b, e)) : x = Append(b, e)[i]) => Dated(x, s)'
    BY <1>1, <2>2, <2>5, <2>6, <2>7, ElementsOfSeq
  <2>9. out'[s] = a
    BY <1>1 DEF a
  <2>10. /\ \A i \in 1 .. Len(a) : a[i] \in Events
         /\ \A i \in 1 .. Len(Append(b, e)) : Append(b, e)[i] \in Events
    BY <1>1, <1>2, <2>7, ElementsOfSeq
  <2>11. UpToDate(out[s], s)' /\ UpToDate(ch[s], s)'
    BY <2>1, <2>8, <2>9, <2>10 DEF UpToDate
  <2>12. \A x : Authorize(s, x)' <=> Authorize(s, x)
    BY DEF Authorize
  <2> QED BY <2>1, <2>2, <2>4, <2>9, <2>11, <2>12 DEF OrderInv, Increasing, Precedes
<1> QED BY <1>5, <1>6

LEMMA OrderStep ==
  ASSUME StreamInv, [StreamNext]_streamVars, NEW s \in Subscribers
  PROVE  OrderInv(s)'
<1>1. StreamTypeOK /\ HubTypeOK /\ OrderInv(s)
  BY DEF StreamInv, HubInv
<1>2. CASE UNCHANGED <<out, ch, sent, ppc, todo>>
  BY <1>1, <1>2, OrderStays DEF Pending
<1>3. ASSUME NEW r \in Subscribers, Forward(r) PROVE OrderInv(s)'
  <2>1. CASE r = s
    BY <1>3, <2>1, OrderForward
  <2>2. CASE r # s
    BY <1>1, <1>3, <2>2, OrderStays
       DEF Forward, Receive, Pending, StreamTypeOK, HubTypeOK
  <2> QED BY <2>1, <2>2
<1>4. ASSUME NEW p \in Publishers, PublishRLock(p) \/ PublishReturn(p),
             UNCHANGED <<handlerVars, sent, history>>
      PROVE  OrderInv(s)'
  <2>1. \A r \in Publishers : Pending(r, s)' => Pending(r, s)
    BY <1>1, <1>4 DEF PublishRLock, PublishReturn, Pending, HubTypeOK
  <2>2. UNCHANGED <<out, ch, sent>>
    BY <1>4 DEF PublishRLock, PublishReturn, handlerVars
  <2> QED BY <1>1, <2>1, <2>2, OrderStays
<1>5. ASSUME NEW p \in Publishers, NEW r \in Subscribers, Offer(p, r) PROVE OrderInv(s)'
  <2>1. CASE r = s
    BY <1>5, <2>1, OrderOffer
  <2>2. CASE r # s
    <3>1. \A x \in Publishers : Pending(x, s)' => Pending(x, s)
      BY <1>1, <1>5 DEF Offer, PublishSend, Pending, HubTypeOK
    <3>2. out' = out /\ ch'[s] = ch[s] /\ sent' = sent
      BY <1>1, <1>5, <2>2 DEF Offer, PublishSend, HubTypeOK, handlerVars
    <3> QED BY <1>1, <3>1, <3>2, OrderStays
  <2> QED BY <2>1, <2>2
<1> QED BY <1>2, <1>3, <1>4, <1>5, OrderWatchEvent, HousekeepingKeeps
        DEF StreamNext, WatcherStep, Housekeeping, streamVars, hubVars, handlerVars

(* What is accounted for, or still to be offered, remains so.              *)
LEMMA LossStays ==
  ASSUME StreamInv, NEW s \in Subscribers,
         owed'[s] = owed[s], sent' = sent,
         \A e \in owed[s] : Accounted(s, e) => Accounted(s, e)',
         \A e \in owed[s] : e[2] = sent[e[1]] /\ Pending(e[1], s) =>
                              Accounted(s, e)' \/ Pending(e[1], s)'
  PROVE  LossInv(s)'
BY DEF StreamInv, LossInv

(* As long as nothing is taken away, and the handler does not go back.     *)
LEMMA AccountedStays ==
  ASSUME NEW s \in Subscribers,
         Written(s) \cup Buffered(s) \subseteq (Written(s) \cup Buffered(s))',
         dropped[s] \subseteq dropped'[s],
         hpc'[s] \in {"subscribing", "loop"} => hpc[s] \in {"subscribing", "loop"}
  PROVE  \A e : Accounted(s, e) => Accounted(s, e)'
BY DEF Accounted, Authorize

(* Once a handler is owed something it never gets back to its loop. *)
LEMMA HandlerGoesOn ==
  ASSUME StreamInv, NEW r \in Subscribers, Housekeeping(r),
         NEW s \in Subscribers, owed[s] # {}, hpc'[s] \in {"subscribing", "loop"}
  PROVE  hpc[s] = "loop"
<1>1. hpc \in [Subscribers -> Phases] /\ RegisteredInLoop
  BY DEF StreamInv, StreamTypeOK
<1>2. hpc[s] \in {"loop", "leaving", "returned"}
  BY <1>1 DEF RegisteredInLoop, Phases
<1> QED BY <1>1, <1>2 DEF Housekeeping, HandlerStep, Greet, Subscribe, EnterLoop, Unregister,
           Return, Leave, Disconnect, handlerVars

LEMMA LossHousekeeping ==
  ASSUME StreamInv, NEW r \in Subscribers, Housekeeping(r), NEW s \in Subscribers
  PROVE  LossInv(s)'
<1>1. UNCHANGED <<ch, ppc, todo, out, sent, owed, dropped>>
  BY HousekeepingKeeps
<1>2. CASE owed[s] = {}
  BY <1>1, <1>2 DEF LossInv
<1>3. CASE owed[s] # {}
  <2>1. hpc'[s] \in {"subscribing", "loop"} => hpc[s] \in {"subscribing", "loop"}
    BY <1>3, HandlerGoesOn
  <2>2. Written(s)' = Written(s) /\ Buffered(s)' = Buffered(s)
    BY <1>1 DEF Written, Buffered
  <2>3. \A e : Accounted(s, e) => Accounted(s, e)'
    BY <1>1, <2>1, <2>2, AccountedStays
  <2> QED BY <1>1, <2>3, LossStays DEF Pending
<1> QED BY <1>2, <1>3

(* The event a handler takes from its channel is written, or the user may  *)
(* not see it.                                                             *)
LEMMA LossForward ==
  ASSUME StreamInv, NEW r \in Subscribers, Forward(r), NEW s \in Subscribers
  PROVE  LossInv(s)'
<1>1. /\ out \in [Subscribers -> Seq(Events)] /\ ch \in [Subscribers -> Seq(Events)]
      /\ UNCHANGED <<hpc, ppc, todo, sent, owed, dropped>>
      /\ ch[r] # <<>> /\ ch' = [ch EXCEPT ![r] = Tail(ch[r])]
      /\ out' = [out EXCEPT ![r] = IF Authorize(r, Head(ch[r])) THEN Append(out[r], Head(ch[r]))
                                                              ELSE out[r]]
  BY DEF Forward, Receive, StreamInv, StreamTypeOK, HubInv, HubTypeOK, history
<1>2. CASE r # s
  <2>1. Written(s)' = Written(s) /\ Buffered(s)' = Buffered(s)
    BY <1>1, <1>2 DEF Written, Buffered
  <2>2. \A e : Accounted(s, e) => Accounted(s, e)'
    BY <1>1, <2>1, AccountedStays
  <2> QED BY <1>1, <2>2, LossStays DEF Pending
<1>3. CASE r = s
  <2> DEFINE h == Head(ch[s])
  <2>1. /\ ch'[s] = Tail(ch[s])
        /\ out'[s] = (IF Authorize(s, h) THEN Append(out[s], h) ELSE out[s])
        /\ out[s] \in Seq(Events) /\ ch[s] \in Seq(Events) /\ ch[s] # <<>>
    BY <1>1, <1>3
  <2>2. /\ h \in Events /\ h = ch[s][1] /\ Len(ch[s]) \in Nat \ {0}
        /\ Len(Tail(ch[s])) = Len(ch[s]) - 1
        /\ \A i \in 1 .. Len(Tail(ch[s])) : Tail(ch[s])[i] = ch[s][i + 1]
    BY <2>1, TailElements, ElementsOfSeq
  <2>3. Buffered(s) \subseteq {h} \cup Buffered(s)'
    <3>1. ASSUME NEW i \in 1 .. Len(ch[s]) PROVE ch[s][i] \in {h} \cup Buffered(s)'
      <4>1. CASE i = 1
        BY <2>2, <4>1
      <4>2. CASE i # 1
        <5>1. i - 1 \in 1 .. Len(Tail(ch[s])) /\ ch[s][i] = Tail(ch[s])[i - 1]
          BY <2>2, <4>2
        <5>2. DOMAIN Tail(ch[s]) = 1 .. Len(Tail(ch[s]))
          BY <2>1
        <5> QED BY <2>1, <5>1, <5>2 DEF Buffered
      <4> QED BY <4>1, <4>2
    <3> QED BY <2>1, <3>1, ElementsOfSeq DEF Buffered
  <2>4. /\ Written(s) \subseteq Written(s)'
        /\ Authorize(s, h) => h \in Written(s)'
    <3>1. CASE ~ Authorize(s, h)
      BY <2>1, <3>1 DEF Written
    <3>2. CASE Authorize(s, h)
      <4>1. /\ Append(out[s], h) \in Seq(Events) /\ Len(Append(out[s], h)) = Len(out[s]) + 1
            /\ Len(out[s]) \in Nat
            /\ \A i \in 1 .. Len(out[s]) : Append(out[s], h)[i] = out[s][i]
            /\ Append(out[s], h)[Len(out[s]) + 1] = h
        BY <2>1, <2>2, AppendElements
      <4>2. DOMAIN Append(out[s], h) = 1 .. Len(out[s]) + 1 /\ DOMAIN out[s] = 1 .. Len(out[s])
        BY <2>1, <4>1, ElementsOfSeq
      <4>3. out'[s] = Append(out[s], h)
        BY <2>1, <3>2
      <4> HIDE DEF h
      <4> QED BY <4>1, <4>2, <4>3 DEF Written
    <3> QED BY <3>1, <3>2
  <2> HIDE DEF h
  <2>5. \A e : Accounted(s, e) => Accounted(s, e)'
    BY <1>1, <2>3, <2>4 DEF Accounted, Authorize
  <2> QED BY <1>1, <2>5, LossStays DEF Pending
<1> QED BY <1>2, <1>3

(* A new event is still to be offered to everybody. *)
LEMMA LossWatchEvent ==
  ASSUME StreamInv, NEW p \in Publishers, WatchEvent(p), NEW s \in Subscribers
  PROVE  LossInv(s)'
<1> DEFINE e == <<p, sent[p] + 1>>
<1>1. /\ sent' = [sent EXCEPT ![p] = sent[p] + 1] /\ ppc' = [ppc EXCEPT ![p] = "rlock"]
      /\ owed'[s] = (IF hpc[s] = "loop" THEN owed[s] \cup {e} ELSE owed[s])
      /\ UNCHANGED <<out, ch, todo, hpc, dropped>> /\ ppc[p] = "idle"
  BY DEF WatchEvent, PublishCall, handlerVars
<1>2. /\ sent \in [Publishers -> 0 .. MaxEvents] /\ ppc \in [Publishers -> {"idle", "rlock", "send"}]
      /\ owed[s] \subseteq Events /\ LossInv(s) /\ IterationsUnderLock
  BY DEF StreamInv, StreamTypeOK, HubInv, HubTypeOK
<1>3. \A x : Accounted(s, x) => Accounted(s, x)'
  BY <1>1, AccountedStays DEF Written, Buffered
<1>4. ~ Pending(p, s)
  BY <1>1, <1>2 DEF IterationsUnderLock, Pending
<1>5. ASSUME NEW x \in owed[s]
      PROVE  /\ x[2] =< sent'[x[1]]
             /\ \/ Accounted(s, x)'
                \/ x[2] = sent'[x[1]] /\ Pending(x[1], s)'
  <2>1. x[1] \in Publishers /\ x[2] \in Nat /\ sent[x[1]] \in Nat
    BY <1>2, EventShape, StreamAssumption DEF StreamAssumption
  <2>2. /\ x[2] =< sent[x[1]]
        /\ Accounted(s, x) \/ (x[2] = sent[x[1]] /\ Pending(x[1], s))
    BY <1>2 DEF LossInv
  <2>3. CASE x[1] = p
    BY <1>1, <1>2, <1>3, <1>4, <2>1, <2>2, <2>3
  <2>4. CASE x[1] # p
    BY <1>1, <1>2, <1>3, <2>1, <2>2, <2>4 DEF Pending
  <2> QED BY <2>3, <2>4
<1>6. \A x : x = e => /\ x[2] =< sent'[x[1]]
                      /\ x[2] = sent'[x[1]] /\ Pending(x[1], s)'
  <2>1. sent'[p] = sent[p] + 1 /\ sent[p] \in Nat /\ ppc'[p] = "rlock"
    BY <1>1, <1>2, StreamAssumption DEF StreamAssumption
  <2> QED BY <2>1 DEF Pending
<1> HIDE DEF e
<1>7. \A x \in owed'[s] : x \in owed[s] \/ x = e
  BY <1>1
<1> QED BY <1>5, <1>6, <1>7 DEF LossInv

(* A watcher that starts to iterate visits every handler in its loop, and  *)
(* one that returns has visited them all.                                  *)
LEMMA LossIteration ==
  ASSUME StreamInv, NEW p \in Publishers, PublishRLock(p) \/ PublishReturn(p),
         UNCHANGED <<handlerVars, sent, history>>, NEW s \in Subscribers
  PROVE  LossInv(s)'
<1>1. /\ UNCHANGED <<out, ch, hpc, dropped, sent, owed>>
      /\ ppc \in [Publishers -> {"idle", "rlock", "send"}]
      /\ todo \in [Publishers -> SUBSET Subscribers]
      /\ hpc \in [Subscribers -> Phases] /\ RegisteredInLoop /\ owed[s] \subseteq Events
  BY DEF PublishRLock, PublishReturn, handlerVars, history, StreamInv, StreamTypeOK, HubInv,
         HubTypeOK
<1>2. \A e : Accounted(s, e) => Accounted(s, e)'
  BY <1>1, AccountedStays DEF Written, Buffered
<1>3. ASSUME NEW e \in owed[s], Pending(e[1], s)
      PROVE  Accounted(s, e)' \/ Pending(e[1], s)'
  <2>1. CASE s \in subs
    <3>1. e[1] \in Publishers
      BY <1>1, EventShape
    <3> QED BY <1>1, <1>3, <2>1, <3>1 DEF PublishRLock, PublishReturn, Pending
  <2>2. CASE s \notin subs
    <3>1. hpc[s] \notin {"subscribing", "loop"}
      BY <1>1, <2>2 DEF RegisteredInLoop
    <3> QED BY <1>1, <3>1 DEF Accounted
  <2> QED BY <2>1, <2>2
<1> QED BY <1>1, <1>2, <1>3, LossStays

(* What is offered is buffered or counted as dropped. *)
LEMMA LossOffer ==
  ASSUME StreamInv, NEW p \in Publishers, NEW r \in Subscribers, Offer(p, r),
         NEW s \in Subscribers
  PROVE  LossInv(s)'
<1>1. /\ UNCHANGED <<out, hpc, sent, owed, ppc>>
      /\ r \in todo[p] /\ todo' = [todo EXCEPT ![p] = todo[p] \ {r}]
      /\ dropped' = [dropped EXCEPT ![r] = IF Fits(r) THEN dropped[r] ELSE dropped[r] \cup {pev[p]}]
      /\ IF Fits(r) /\ r \notin closed THEN ch' = [ch EXCEPT ![r] = Append(ch[r], pev[p])]
                                       ELSE ch' = ch
      /\ ppc[p] = "send"
  BY DEF Offer, PublishSend, handlerVars
<1>2. /\ ch \in [Subscribers -> Seq(Events)] /\ pev \in [Publishers -> Events]
      /\ todo \in [Publishers -> SUBSET Subscribers] /\ dropped \in [Subscribers -> SUBSET Events]
      /\ owed[s] \subseteq Events /\ ClosedIsUnreachable
      /\ pev[p] = <<p, sent[p]>>
  BY <1>1 DEF StreamInv, LatestOffered, StreamTypeOK, HubInv, HubTypeOK
<1>3. r \notin closed
  BY <1>1, <1>2 DEF ClosedIsUnreachable
<1>4. CASE r # s
  <2>1. Written(s)' = Written(s) /\ Buffered(s)' = Buffered(s) /\ dropped'[s] = dropped[s]
    BY <1>1, <1>2, <1>4 DEF Written, Buffered
  <2>2. \A e : Accounted(s, e) => Accounted(s, e)'
    BY <1>1, <2>1, AccountedStays
  <2>3. \A x \in Publishers : Pending(x, s) => Pending(x, s)'
    BY <1>1, <1>2, <1>4 DEF Pending
  <2>4. \A e \in owed[s] : e[1] \in Publishers
    BY <1>2, EventShape
  <2> QED BY <1>1, <2>2, <2>3, <2>4, LossStays
<1>5. CASE r = s
  <2>1. /\ Buffered(s) \subseteq Buffered(s)'
        /\ pev[p] \in Buffered(s)' \cup dropped'[s]
        /\ dropped[s] \subseteq dropped'[s]
    <3>1. CASE Fits(s)
      <4> DEFINE q == Append(ch[s], pev[p])
      <4>1. ch'[s] = q /\ dropped'[s] = dropped[s]
        BY <1>1, <1>2, <1>3, <1>5, <3>1
      <4>2. /\ q \in Seq(Events) /\ Len(q) = Len(ch[s]) + 1 /\ Len(ch[s]) \in Nat
            /\ \A i \in 1 .. Len(ch[s]) : q[i] = ch[s][i]
            /\ q[Len(ch[s]) + 1] = pev[p]
        <5>1. ch[s] \in Seq(Events) /\ pev[p] \in Events
          BY <1>2
        <5> QED BY <5>1, AppendElements
      <4>3. DOMAIN q = 1 .. Len(ch[s]) + 1 /\ DOMAIN ch[s] = 1 .. Len(ch[s])
        BY <1>2, <4>2, ElementsOfSeq
      <4> HIDE DEF q
      <4> QED BY <4>1, <4>2, <4>3 DEF Buffered
    <3>2. CASE ~ Fits(s)
      BY <1>1, <1>2, <1>5, <3>2 DEF Buffered
    <3> QED BY <3>1, <3>2
  <2>2. \A e : Accounted(s, e) => Accounted(s, e)'
    BY <1>1, <2>1, AccountedStays DEF Written
  <2>3. ASSUME NEW e \in owed[s], e[2] = sent[e[1]], Pending(e[1], s)
        PROVE  Accounted(s, e)' \/ Pending(e[1], s)'
    <3>1. e = <<e[1], e[2]>> /\ e[1] \in Publishers
      BY <1>2, EventShape
    <3>2. CASE e[1] = p
      <4>1. e = pev[p]
        BY <1>2, <2>3, <3>1, <3>2
      <4> QED BY <2>1, <4>1 DEF Accounted
    <3>3. CASE e[1] # p
      BY <1>1, <1>2, <2>3, <3>1, <3>3 DEF Pending
    <3> QED BY <3>2, <3>3
  <2> QED BY <1>1, <2>2, <2>3, LossStays
<1> QED BY <1>4, <1>5

LEMMA LossStep ==
  ASSUME StreamInv, [StreamNext]_streamVars, NEW s \in Subscribers
  PROVE  LossInv(s)'
<1>1. CASE UNCHANGED streamVars
  <2>1. UNCHANGED <<out, ch, hpc, dropped, sent, owed, ppc, todo>>
    BY <1>1 DEF streamVars, hubVars, handlerVars, history
  <2>2. \A e : Accounted(s, e) => Accounted(s, e)'
    BY <2>1, AccountedStays DEF Written, Buffered
  <2> QED BY <2>1, <2>2, LossStays DEF Pending
<1> QED BY <1>1, LossHousekeeping, LossForward, LossWatchEvent, LossIteration, LossOffer
        DEF StreamNext, WatcherStep, Housekeeping

(* The inductive invariant of any number of watchers and browsers. *)
THEOREM StreamInvariant == StreamSpec => []StreamInv
<1>1. StreamInv /\ [StreamNext]_streamVars => StreamInv'
  <2> SUFFICES ASSUME StreamInv, [StreamNext]_streamVars PROVE StreamInv'
    OBVIOUS
  <2>1. StreamTypeOK /\ HubInv /\ HubTypeOK
    BY DEF StreamInv, HubInv
  <2>2. HubInv'
    BY <2>1, StreamStepHub, HubStepInv
  <2>3. StreamTypeOK'
    BY <2>1, <2>2, StreamStepType DEF HubInv
  <2> QED BY <2>2, <2>3, LatestOfferedStep, RegisteredInLoopStep, OrderStep, LossStep
          DEF StreamInv
<1> QED BY <1>1, StreamInitInv, PTL DEF StreamSpec

(* For any number of watchers that interleave in Publish, and whenever     *)
(* browsers come and go: what a browser is sent and what waits for it has  *)
(* every watcher's events in their order and none twice, and nothing sent  *)
(* is of a cluster its user may not read.                                  *)
THEOREM StreamOrderedFeed == StreamSpec => []OrderedFeed
<1>1. ASSUME StreamInv PROVE OrderedFeed
  <2> SUFFICES ASSUME NEW s \in Subscribers
               PROVE  /\ \A e \in Written(s) : Authorize(s, e)
                      /\ \A i, j \in DOMAIN (out[s] \o ch[s]) :
                           i < j /\ (out[s] \o ch[s])[i][1] = (out[s] \o ch[s])[j][1] =>
                             (out[s] \o ch[s])[i][2] < (out[s] \o ch[s])[j][2]
    BY DEF OrderedFeed
  <2>1. out[s] \in Seq(Events) /\ ch[s] \in Seq(Events) /\ OrderInv(s)
    BY <1>1 DEF StreamInv, StreamTypeOK, HubInv, HubTypeOK
  <2>2. \A e \in Written(s) : Authorize(s, e)
    BY <2>1, ElementsOfSeq DEF OrderInv, Written
  <2>3. Increasing(out[s] \o ch[s])
    BY <2>1, FeedOrder DEF OrderInv
  <2>4. DOMAIN (out[s] \o ch[s]) = 1 .. Len(out[s] \o ch[s])
    BY <2>1
  <2> QED BY <2>2, <2>3, <2>4 DEF Increasing
<1> QED BY <1>1, StreamInvariant, PTL

(* For any number of watchers, browsers and any capacity of a channel: an  *)
(* event a browser is owed is never lost for another reason than a full    *)
(* channel, missing rights or the browser's leaving.                       *)
THEOREM StreamNoSilentLoss == StreamSpec => []NoSilentLoss
<1>1. ASSUME StreamInv PROVE NoSilentLoss
  <2> SUFFICES ASSUME NEW s \in Subscribers, NEW e \in Events, e \in owed[s], Completed(e)
               PROVE  Accounted(s, e)
    BY DEF NoSilentLoss
  <2>1. /\ LossInv(s) /\ IterationsUnderLock
        /\ sent \in [Publishers -> 0 .. MaxEvents]
    BY <1>1 DEF StreamInv, StreamTypeOK, HubInv
  <2>2. e[1] \in Publishers /\ e[2] \in Nat /\ sent[e[1]] \in Nat
    BY <2>1, EventShape, StreamAssumption DEF StreamAssumption
  <2>3. ~ (e[2] = sent[e[1]] /\ Pending(e[1], s))
    BY <2>1, <2>2 DEF Completed, Pending, IterationsUnderLock
  <2> QED BY <2>1, <2>3 DEF LossInv
<1> QED BY <1>1, StreamInvariant, PTL

----------------------------------------------------------------------------
(* The life of a subscription *)

(* Where a handler is says where its subscription is. *)
LifeInv ==
  \A s \in Subscribers :
    LET u == upc[<<s, Deferred>>] IN
    /\ hpc[s] \in {"connecting", "refused", "greeted"} => spc[s] = "new"
    /\ hpc[s] = "subscribing" => spc[s] = "lock"
    /\ hpc[s] \in {"loop", "leaving", "returned"} => spc[s] = "open"
    /\ hpc[s] \in {"connecting", "refused", "greeted", "subscribing", "loop"} =>
         u = "ready" /\ once[s] = "fresh"
    /\ hpc[s] = "leaving" => u \in {"lock", "close"}
    /\ hpc[s] = "returned" => u = "returned"
    /\ s \in subs => hpc[s] = "loop" \/ (hpc[s] = "leaving" /\ u = "lock")
    /\ s \in closed <=> hpc[s] = "returned"

LEMMA LifeStep ==
  ASSUME LifeInv, StreamTypeOK, HubTypeOK, [StreamNext]_streamVars
  PROVE  LifeInv'
<1> USE DEF LifeInv, StreamTypeOK, Phases
<1>0. /\ \A s, t \in Subscribers : <<s, Deferred>> \in Calls
                                   /\ (<<s, Deferred>> = <<t, Deferred>> <=> s = t)
      /\ upc \in [Calls -> {"ready", "lock", "close", "once", "returned"}]
      /\ once \in [Subscribers -> {"fresh", "running", "done"}]
      /\ spc \in [Subscribers -> {"new", "lock", "open"}]
      /\ subs \subseteq Subscribers /\ closed \subseteq Subscribers
  BY StreamAssumption DEF StreamAssumption, HubTypeOK, Calls
<1>1. CASE UNCHANGED <<subs, closed, spc, once, upc, hpc>>
  BY <1>1
<1>2. ASSUME NEW s \in Subscribers, Greet(s) PROVE LifeInv'
  BY <1>2 DEF Greet, hubVars
<1>3. ASSUME NEW s \in Subscribers, Subscribe(s) PROVE LifeInv'
  BY <1>0, <1>3 DEF Subscribe, SubscribeCall
<1>4. ASSUME NEW s \in Subscribers, EnterLoop(s) PROVE LifeInv'
  BY <1>0, <1>4 DEF EnterLoop, SubscribeAdd
<1>5. ASSUME NEW s \in Subscribers, Leave(s) PROVE LifeInv'
  <2>1. /\ hpc[s] = "loop" /\ once[s] = "fresh"
        /\ hpc' = [hpc EXCEPT ![s] = "leaving"]
        /\ once' = [once EXCEPT ![s] = "running"]
        /\ upc' = [upc EXCEPT ![<<s, Deferred>>] = "lock"]
        /\ UNCHANGED <<subs, closed, spc>>
    BY <1>5 DEF Leave, UnsubCall
  <2>2. \A t \in Subscribers :
          upc'[<<t, Deferred>>] = IF t = s THEN "lock" ELSE upc[<<t, Deferred>>]
    BY <1>0, <2>1
  <2> QED BY <1>0, <2>1, <2>2
<1>6. ASSUME NEW s \in Subscribers, Unregister(s) PROVE LifeInv'
  <2>1. /\ hpc[s] = "leaving" /\ hpc' = hpc
        /\ upc' = [upc EXCEPT ![<<s, Deferred>>] = "close"] /\ subs' = subs \ {s}
        /\ UNCHANGED <<closed, spc, once>>
    BY <1>6 DEF Unregister, UnsubDelete, handlerVars
  <2>2. \A t \in Subscribers :
          upc'[<<t, Deferred>>] = IF t = s THEN "close" ELSE upc[<<t, Deferred>>]
    BY <1>0, <2>1
  <2> QED BY <1>0, <2>1, <2>2
<1>7. ASSUME NEW s \in Subscribers, Return(s) PROVE LifeInv'
  <2>1. /\ hpc[s] = "leaving" /\ hpc' = [hpc EXCEPT ![s] = "returned"]
        /\ upc[<<s, Deferred>>] = "close"
        /\ upc' = [upc EXCEPT ![<<s, Deferred>>] = "returned"]
        /\ once' = [once EXCEPT ![s] = "done"]
        /\ closed' = closed \cup {s} /\ UNCHANGED <<subs, spc>>
    BY <1>7 DEF Return, UnsubClose
  <2>2. \A t \in Subscribers :
          upc'[<<t, Deferred>>] = IF t = s THEN "returned" ELSE upc[<<t, Deferred>>]
    BY <1>0, <2>1
  <2> QED BY <1>0, <2>1, <2>2
<1>8. ASSUME NEW s \in Subscribers, Forward(s) \/ Disconnect(s) PROVE LifeInv'
  BY <1>1, <1>8 DEF Forward, Receive, Disconnect, hubVars
<1>9. ASSUME NEW p \in Publishers, WatchEvent(p) \/ WatcherStep(p) PROVE LifeInv'
  BY <1>1, <1>9 DEF WatchEvent, PublishCall, WatcherStep, PublishRLock, PublishReturn, Offer,
                    PublishSend, handlerVars
<1>10. CASE UNCHANGED streamVars
  BY <1>1, <1>10 DEF streamVars, hubVars, handlerVars
<1> QED BY <1>2, <1>3, <1>4, <1>5, <1>6, <1>7, <1>8, <1>9, <1>10 DEF StreamNext, HandlerStep

(* A handler in its loop never finds its channel closed: the branch for    *)
(* that (stream.go:60-62) is dead code as long as nobody else unsubscribes *)
(* for it.                                                                 *)
OpenInLoop == \A s \in Subscribers : hpc[s] = "loop" => s \in subs /\ s \notin closed

(* What has returned, or was refused, is in no map and no iteration, and   *)
(* its channel is closed if it had one.                                    *)
NothingLeft ==
  \A s \in Subscribers :
    hpc[s] \in {"refused", "returned"} =>
      /\ s \notin subs /\ \A p \in Publishers : s \notin todo[p]
      /\ hpc[s] = "returned" => s \in closed

(* For any number of browsers and watchers: a subscription lives exactly   *)
(* as long as its handler's loop, and a handler that has returned leaves   *)
(* nothing behind for a publisher to find.                                 *)
THEOREM StreamLifetime == StreamSpec => [](OpenInLoop /\ NothingLeft)
<1>1. StreamInit => LifeInv
  BY StreamAssumption DEF StreamAssumption, StreamInit, HubInit, LifeInv, Calls
<1>2. StreamInv => StreamTypeOK /\ HubTypeOK
  BY DEF StreamInv, HubInv
<1>3. LifeInv /\ StreamTypeOK /\ HubTypeOK /\ [StreamNext]_streamVars => LifeInv'
  BY LifeStep
<1>4. StreamSpec => []LifeInv
  BY <1>1, <1>2, <1>3, StreamInvariant, PTL DEF StreamSpec
<1>5. StreamInv /\ LifeInv => OpenInLoop /\ NothingLeft
  <2> SUFFICES ASSUME StreamInv, LifeInv PROVE OpenInLoop /\ NothingLeft
    OBVIOUS
  <2>1. RegisteredInLoop /\ IterationsUnderLock
    BY DEF StreamInv, HubInv
  <2>2. OpenInLoop
    BY <2>1 DEF OpenInLoop, LifeInv, RegisteredInLoop
  <2>3. NothingLeft
    BY <2>1 DEF NothingLeft, LifeInv, IterationsUnderLock
  <2> QED BY <2>2, <2>3
<1> QED BY <1>4, <1>5, StreamInvariant, PTL

-----------------------------------------------------------------------------
(* What a browser is promised *)

(* A channel is empty before its subscription. *)
FreshInv == \A s \in Subscribers : spc[s] # "open" => ch[s] = <<>>

(* What the refinement needs to know of a state. *)
FeedInv == StreamInv /\ FreshInv

(* The values that Feed sees, under names that proofs can hide. *)
Conns == [s \in Subscribers |-> Connection(s)]
Announcements == [p \in Publishers |-> Announced(p)]
Pendings == [s \in Subscribers |-> {p \in Publishers : s \in todo[p]}]
Queues == [s \in Subscribers |-> IF s \in subs THEN ch[s] ELSE <<>>]

LEMMA FeedFacts ==
  ASSUME FeedInv
  PROVE  /\ subs \subseteq Subscribers
         /\ ch \in [Subscribers -> Seq(Events)]
         /\ \A s \in Subscribers : Len(ch[s]) \in Nat /\ Len(ch[s]) =< BufSize
         /\ todo \in [Publishers -> SUBSET Subscribers]
         /\ \A p \in Publishers : /\ todo[p] \subseteq subs
                                  /\ ppc[p] # "send" => todo[p] = {}
         /\ \A s \in subs : s \notin closed /\ spc[s] = "open"
         /\ sent \in [Publishers -> Nat]
<1>1. HubTypeOK /\ StreamTypeOK /\ IterationsUnderLock /\ ClosedIsUnreachable /\ OpenFirst
  BY DEF FeedInv, StreamInv, HubInv
<1>2. subs \subseteq Subscribers /\ ch \in [Subscribers -> Seq(Events)]
      /\ todo \in [Publishers -> SUBSET Subscribers]
  BY <1>1 DEF HubTypeOK
<1>3. \A s \in Subscribers : Len(ch[s]) \in Nat /\ Len(ch[s]) =< BufSize
  BY <1>1, <1>2 DEF HubTypeOK
<1>4. \A p \in Publishers : todo[p] \subseteq subs /\ (ppc[p] # "send" => todo[p] = {})
  BY <1>1 DEF IterationsUnderLock
<1>5. \A s \in subs : s \notin closed /\ spc[s] = "open"
  BY <1>1, <1>2 DEF ClosedIsUnreachable, OpenFirst
<1>6. sent \in [Publishers -> Nat]
  BY <1>1, StreamAssumption DEF StreamTypeOK, StreamAssumption
<1> QED BY <1>2, <1>3, <1>4, <1>5, <1>6

LEMMA FreshStep ==
  ASSUME FeedInv, [StreamNext]_streamVars
  PROVE  FreshInv'
<1> USE DEF FeedInv, FreshInv
<1>1. CASE UNCHANGED <<spc, ch>>
  BY <1>1
<1>2. ASSUME NEW s \in Subscribers, Forward(s) PROVE FreshInv'
  BY <1>2, FeedFacts DEF Forward, Receive
<1>3. ASSUME NEW s \in Subscribers, EnterLoop(s) PROVE FreshInv'
  BY <1>3, FeedFacts DEF EnterLoop, SubscribeAdd, StreamInv, HubInv, HubTypeOK
<1>4. ASSUME NEW s \in Subscribers, Subscribe(s) PROVE FreshInv'
  BY <1>4 DEF Subscribe, SubscribeCall, StreamInv, HubInv, HubTypeOK
<1>5. ASSUME NEW p \in Publishers, NEW s \in Subscribers, Offer(p, s) PROVE FreshInv'
  <2>1. spc[s] = "open" /\ spc' = spc
    BY <1>5, FeedFacts DEF Offer, PublishSend
  <2>2. \A t \in Subscribers : t # s => ch'[t] = ch[t]
    BY <1>5, FeedFacts DEF Offer, PublishSend
  <2> QED BY <2>1, <2>2
<1> QED
  BY <1>1, <1>2, <1>3, <1>4, <1>5
     DEF StreamNext, HandlerStep, Greet, Unregister, UnsubDelete, Return, UnsubClose, Leave,
         UnsubCall, Disconnect, WatchEvent, PublishCall, WatcherStep, PublishRLock,
         PublishReturn, hubVars, streamVars

(* A browser connects where its handler enters the map. *)
LEMMA EnterLoopConnects ==
  ASSUME FeedInv, NEW s \in Subscribers, EnterLoop(s)
  PROVE  Feed!Connect(s)
<1>1. /\ spc[s] = "lock" /\ subs' = subs \union {s} /\ spc' = [spc EXCEPT ![s] = "open"]
      /\ UNCHANGED <<ch, ppc, todo, sent, out>>
  BY DEF EnterLoop, SubscribeAdd
<1>2. s \notin subs /\ ch[s] = <<>>
  BY <1>1, FeedFacts DEF FeedInv, FreshInv
<1>3. Conns[s] = "new"
  BY <1>1, <1>2 DEF Conns, Connection
<1>4. Conns' = [Conns EXCEPT ![s] = "open"]
  BY <1>1, <1>2, FeedFacts DEF Conns, Connection, FeedInv, StreamInv, HubInv, HubTypeOK
<1>5. Queues' = Queues
  BY <1>1, <1>2 DEF Queues
<1>6. Announcements' = Announcements /\ Pendings' = Pendings
  BY <1>1 DEF Announcements, Announced, Pendings
<1> QED BY <1>1, <1>3, <1>4, <1>5, <1>6 DEF Feed!Connect, Conns, Queues, Announcements, Pendings

(* It leaves where the map entry is deleted: the write lock keeps that out *)
(* of every iteration.                                                     *)
LEMMA UnregisterLeaves ==
  ASSUME FeedInv, NEW s \in Subscribers, Unregister(s)
  PROVE  Feed!Leave(s) \/ UNCHANGED Feed!feedVars
<1>1. /\ CanLock /\ subs' = subs \ {s}
      /\ UNCHANGED <<ch, spc, ppc, todo, sent, out>>
  BY DEF Unregister, UnsubDelete, handlerVars
<1>2. Announcements' = Announcements /\ Pendings' = Pendings
  BY <1>1 DEF Announcements, Announced, Pendings
<1>3. CASE s \in subs
  <2>1. Conns[s] = "open"
    BY <1>3 DEF Conns, Connection
  <2>2. Pendings[s] = {}
    BY <1>1, FeedFacts DEF Pendings, CanLock
  <2>3. Conns' = [Conns EXCEPT ![s] = "left"]
    BY <1>1, <1>3, FeedFacts DEF Conns, Connection
  <2>4. Queues' = [Queues EXCEPT ![s] = <<>>]
    BY <1>1 DEF Queues
  <2> QED BY <1>1, <1>2, <2>1, <2>2, <2>3, <2>4
          DEF Feed!Leave, Conns, Queues, Announcements, Pendings
<1>4. CASE s \notin subs
  <2>1. subs' = subs
    BY <1>1, <1>4
  <2> QED BY <1>1, <2>1 DEF Feed!feedVars, Connection, Announced
<1> QED BY <1>3, <1>4

(* A frame that is written, or filtered, is shown, or not. *)
LEMMA ForwardShows ==
  ASSUME FeedInv, NEW s \in Subscribers, Forward(s)
  PROVE  Feed!Show(s)
<1>1. /\ hpc[s] = "loop" /\ ch[s] # <<>> /\ ch' = [ch EXCEPT ![s] = Tail(ch[s])]
      /\ out' = [out EXCEPT ![s] = IF Authorize(s, Head(ch[s])) THEN Append(out[s], Head(ch[s]))
                                                               ELSE out[s]]
      /\ UNCHANGED <<subs, spc, ppc, todo, sent>>
  BY DEF Forward, Receive
<1>2. s \in subs
  BY <1>1 DEF FeedInv, StreamInv, RegisteredInLoop
<1>3. Queues[s] = ch[s]
  BY <1>2 DEF Queues
<1>4. Queues' = [Queues EXCEPT ![s] = Tail(Queues[s])]
  BY <1>1, <1>2, <1>3, FeedFacts DEF Queues
<1>5. Head(ch[s])[1] \in Publishers
  BY <1>1, FeedFacts, EventShape
<1>6. Authorize(s, Head(ch[s])) <=> <<s, Head(ch[s])[1]>> \in MayRead
  BY <1>5 DEF Authorize, MayRead
<1>7. Announcements' = Announcements /\ Pendings' = Pendings /\ Conns' = Conns
  BY <1>1 DEF Announcements, Announced, Pendings, Conns, Connection
<1> QED BY <1>1, <1>3, <1>4, <1>6, <1>7
        DEF Feed!Show, Conns, Queues, Announcements, Pendings, MayRead

(* Taking the read lock announces the event to those in the map. *)
LEMMA PublishRLockAnnounces ==
  ASSUME FeedInv, NEW p \in Publishers, PublishRLock(p), UNCHANGED <<out, sent>>
  PROVE  Feed!Announce(p)
<1>1. /\ ppc[p] = "rlock" /\ ppc' = [ppc EXCEPT ![p] = "send"]
      /\ todo' = [todo EXCEPT ![p] = subs]
      /\ UNCHANGED <<subs, ch, spc>>
  BY DEF PublishRLock
<1>2. todo[p] = {}
  BY <1>1, FeedFacts
<1>3. \A s \in Subscribers : p \notin Pendings[s]
  BY <1>2 DEF Pendings
<1>4. ppc \in [Publishers -> {"idle", "rlock", "send"}]
  BY DEF FeedInv, StreamInv, HubInv, HubTypeOK
<1>5. Announcements' = [Announcements EXCEPT ![p] = Announcements[p] + 1]
  <2>1. Announced(p) = sent[p] - 1 /\ sent[p] \in Nat /\ Announced(p)' = sent[p]
    BY <1>1, <1>4, FeedFacts DEF Announced
  <2>2. \A r \in Publishers : r # p => Announced(r)' = Announced(r)
    BY <1>1, <1>4 DEF Announced
  <2>3. \A r \in Publishers : Announced(r)' = IF r = p THEN Announced(p) + 1 ELSE Announced(r)
    BY <2>1, <2>2
  <2> QED BY <2>3 DEF Announcements
<1>6. Pendings' = [s \in Subscribers |->
                     IF Conns[s] = "open" THEN Pendings[s] \union {p} ELSE Pendings[s]]
  <2>1. \A s \in Subscribers : Conns[s] = "open" <=> s \in subs
    BY DEF Conns, Connection
  <2>2. ASSUME NEW s \in Subscribers
        PROVE  Pendings'[s] = IF s \in subs THEN Pendings[s] \union {p} ELSE Pendings[s]
    BY <1>1, <1>2, FeedFacts DEF Pendings
  <2> QED BY <2>1, <2>2 DEF Pendings
<1>7. Conns' = Conns /\ Queues' = Queues
  BY <1>1 DEF Conns, Connection, Queues
<1> QED BY <1>3, <1>5, <1>6, <1>7
        DEF Feed!Announce, Conns, Queues, Announcements, Pendings

(* An offer is accepted, or lost at a full channel. *)
LEMMA OfferDecides ==
  ASSUME FeedInv, NEW p \in Publishers, NEW s \in Subscribers, Offer(p, s)
  PROVE  Feed!Accept(s, p) \/ Feed!Lose(s, p)
<1>1. /\ ppc[p] = "send" /\ s \in todo[p] /\ todo' = [todo EXCEPT ![p] = todo[p] \ {s}]
      /\ UNCHANGED <<subs, spc, ppc, pev, out, sent>>
  BY DEF Offer, PublishSend, handlerVars
<1>2. s \in subs /\ s \notin closed
  BY <1>1, FeedFacts
<1>3. p \in Pendings[s] /\ Pendings' = [Pendings EXCEPT ![s] = Pendings[s] \ {p}]
  <2>1. p \in Pendings[s]
    BY <1>1 DEF Pendings
  <2>2. todo \in [Publishers -> SUBSET Subscribers]
    BY FeedFacts
  <2>3. \A t \in Subscribers, r \in Publishers :
          t \in todo'[r] <=> t \in todo[r] /\ ~ (r = p /\ t = s)
    BY <1>1, <2>2
  <2>4. \A t \in Subscribers :
          Pendings'[t] = IF t = s THEN Pendings[s] \ {p} ELSE Pendings[t]
    BY <2>3 DEF Pendings
  <2> QED BY <2>1, <2>4 DEF Pendings
<1>4. Queues[s] = ch[s]
  BY <1>2 DEF Queues
<1>5. pev[p] = <<p, Announcements[p]>>
  BY <1>1 DEF FeedInv, StreamInv, LatestOffered, Announcements, Announced
<1>6. Announcements' = Announcements /\ Conns' = Conns
  BY <1>1 DEF Announcements, Announced, Conns, Connection
<1>7. CASE Fits(s)
  <2>1. ch' = [ch EXCEPT ![s] = Append(ch[s], pev[p])]
    BY <1>2, <1>7 DEF Offer, PublishSend
  <2>2. Queues' = [Queues EXCEPT ![s] = Append(Queues[s], <<p, Announcements[p]>>)]
    BY <1>1, <1>2, <1>4, <1>5, <2>1, FeedFacts DEF Queues
  <2> QED BY <1>1, <1>3, <1>4, <1>6, <1>7, <2>2
          DEF Feed!Accept, Conns, Queues, Announcements, Pendings, Fits
<1>8. CASE ~Fits(s)
  <2>1. ch' = ch
    BY <1>8 DEF Offer, PublishSend
  <2>2. Queues' = Queues
    BY <1>1, <2>1 DEF Queues
  <2>3. Len(Queues[s]) = BufSize
    BY <1>4, <1>8, FeedFacts, BufSizeAssumption DEF Fits
  <2> QED BY <1>1, <1>3, <1>6, <2>2, <2>3
          DEF Feed!Lose, Conns, Queues, Announcements, Pendings
<1> QED BY <1>7, <1>8

LEMMA FeedInitial == StreamInit => Feed!FeedInit
<1> SUFFICES ASSUME StreamInit PROVE Feed!FeedInit
  OBVIOUS
<1>1. /\ subs = {} /\ \A s \in Subscribers : spc[s] = "new" /\ ch[s] = <<>>
      /\ \A p \in Publishers : ppc[p] = "idle" /\ sent[p] = 0 /\ todo[p] = {}
      /\ out = [s \in Subscribers |-> <<>>]
  BY DEF StreamInit, HubInit
<1> QED BY <1>1 DEF Feed!FeedInit, Connection, Announced

LEMMA FeedStep ==
  ASSUME FeedInv, [StreamNext]_streamVars
  PROVE  [Feed!FeedNext]_(Feed!feedVars)
<1> DEFINE Seen == UNCHANGED <<subs, spc, ch, out, ppc, todo, sent>>
<1>1. Seen => UNCHANGED Feed!feedVars
  BY DEF Feed!feedVars, Connection, Announced
<1>2. ASSUME NEW s \in Subscribers, HandlerStep(s) \/ Leave(s) \/ Disconnect(s)
      PROVE  [Feed!FeedNext]_(Feed!feedVars)
  <2>1. CASE Greet(s) \/ Return(s) \/ Leave(s) \/ Disconnect(s)
    BY <1>1, <2>1 DEF Greet, Return, UnsubClose, Leave, UnsubCall, Disconnect, hubVars
  <2>2. CASE Subscribe(s)
    <3>1. spc[s] # "open" /\ spc' = [spc EXCEPT ![s] = "lock"]
          /\ UNCHANGED <<subs, ch, out, ppc, todo, sent>>
      BY <2>2 DEF Subscribe, SubscribeCall
    <3>2. \A t \in Subscribers : Connection(t)' = Connection(t)
      BY <3>1 DEF Connection, FeedInv, StreamInv, HubInv, HubTypeOK
    <3> QED BY <3>1, <3>2 DEF Feed!feedVars, Announced
  <2>3. CASE EnterLoop(s)
    BY <2>3, EnterLoopConnects DEF Feed!FeedNext
  <2>4. CASE Unregister(s)
    BY <2>4, UnregisterLeaves DEF Feed!FeedNext
  <2> QED BY <1>2, <2>1, <2>2, <2>3, <2>4 DEF HandlerStep
<1>3. ASSUME NEW s \in Subscribers, Forward(s) PROVE [Feed!FeedNext]_(Feed!feedVars)
  BY <1>3, ForwardShows DEF Feed!FeedNext
<1>4. ASSUME NEW p \in Publishers, WatchEvent(p) PROVE [Feed!FeedNext]_(Feed!feedVars)
  <2>1. /\ ppc[p] = "idle" /\ ppc' = [ppc EXCEPT ![p] = "rlock"]
        /\ sent' = [sent EXCEPT ![p] = sent[p] + 1]
        /\ UNCHANGED <<subs, spc, ch, out, todo>>
    BY <1>4 DEF WatchEvent, PublishCall, handlerVars
  <2>2. \A r \in Publishers : Announced(r)' = Announced(r)
    BY <2>1, FeedFacts DEF Announced, FeedInv, StreamInv, HubInv, HubTypeOK
  <2> QED BY <2>1, <2>2 DEF Feed!feedVars, Connection
<1>5. ASSUME NEW p \in Publishers, WatcherStep(p) PROVE [Feed!FeedNext]_(Feed!feedVars)
  <2>1. CASE PublishRLock(p) /\ UNCHANGED <<handlerVars, sent, history>>
    BY <2>1, PublishRLockAnnounces DEF Feed!FeedNext, handlerVars
  <2>2. CASE PublishReturn(p) /\ UNCHANGED <<handlerVars, sent, history>>
    <3>1. /\ ppc[p] = "send" /\ ppc' = [ppc EXCEPT ![p] = "idle"]
          /\ UNCHANGED <<subs, spc, ch, out, todo, sent>>
      BY <2>2 DEF PublishReturn, handlerVars
    <3>2. \A r \in Publishers : Announced(r)' = Announced(r)
      BY <3>1 DEF Announced, FeedInv, StreamInv, HubInv, HubTypeOK
    <3> QED BY <3>1, <3>2 DEF Feed!feedVars, Connection
  <2>3. ASSUME NEW s \in Subscribers, Offer(p, s) PROVE [Feed!FeedNext]_(Feed!feedVars)
    BY <2>3, OfferDecides DEF Feed!FeedNext
  <2> QED BY <1>5, <2>1, <2>2, <2>3 DEF WatcherStep
<1>6. CASE UNCHANGED streamVars
  BY <1>1, <1>6 DEF streamVars, hubVars, handlerVars
<1> QED BY <1>2, <1>3, <1>4, <1>5, <1>6 DEF StreamNext

(* For any number of watchers, browsers and events, any capacity and any   *)
(* rights: hub, handlers and locks together are a feed that announces,     *)
(* queues or loses, shows in order and forgets who left.  It rests on      *)
(* IterationsUnderLock (a browser leaves between announcements),           *)
(* ClosedIsUnreachable (only a full buffer loses), LatestOffered (what is  *)
(* offered is the last event) and RegisteredInLoop.                        *)
THEOREM StreamImplementsFeed == StreamSpec => ImplementsFeed
<1>1. StreamInit => FreshInv
  BY DEF StreamInit, HubInit, FreshInv
<1>2. StreamSpec => []FeedInv
  BY <1>1, FreshStep, StreamInvariant, PTL DEF FeedInv, StreamSpec
<1> QED BY <1>2, FeedInitial, FeedStep, PTL DEF StreamSpec, ImplementsFeed, Feed!FeedSpec
==============================================================================
