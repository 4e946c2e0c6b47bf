----------------------------- MODULE PagesProofs -----------------------------
(***************************************************************************)
(* Proofs about the pages of the console: the list pages (Pages), for any  *)
(* rows, calls and answers, and the dependency page (Dependencies, and the *)
(* graphs of DepGraph), for any lists a server may answer and any texts a  *)
(* user may type.  Nothing is shared between the two parts.                *)
(***************************************************************************)
EXTENDS Pages, Dependencies, TLAPS

(* The list pages *)

\* Calls and observers are records of the right shape.
PagesTypeOK ==
  /\ page \in ListPages
  /\ selected \subseteq Rows
  /\ calls \in [Calls -> CallRecords \cup {NoCall}]
  /\ observer \in [Observers -> [status: {"idle", "pending", "error"},
                                 variables: SUBSET Rows, call: Calls \cup {NoCall}]]

InFlightHere(c) == calls[c] # NoCall /\ calls[c].here

\* What observer o takes for pending is in flight.
Waits(o) ==
  isPending(o) =>
    /\ observer[o].call \in Calls
    /\ calls[observer[o].call] = [by |-> o, rows |-> observer[o].variables, here |-> TRUE]

\* On the on-call page a card's call is followed by its observer as long as the
\* card is there: the disabled button keeps a second call from taking over.
CardFollows(c) ==
  InFlightHere(c) =>
    LET o == calls[c].by IN
    /\ \E verb \in Verbs, r \in Rows : o = <<verb, r>> /\ calls[c].rows = {r}
    /\ isPending(o) /\ observer[o].call = c

\* No two calls of what is mounted are about one row.
OneCallPerCard ==
  \A c, d \in Calls :
    InFlightHere(c) /\ InFlightHere(d) /\ c # d => calls[c].rows \cap calls[d].rows = {}

\* The inductive invariant behind BusyIsInFlight.
PagesInv ==
  /\ PagesTypeOK
  /\ \A o \in Observers : Waits(o)
  /\ page = "mobile" => (\A c \in Calls : CardFollows(c)) /\ OneCallPerCard

LEMMA CallRecordsAreCalls ==
  /\ NoCall \notin CallRecords
  /\ \A o \in Observers, rows \in SUBSET Rows : Call(o, rows) \in CallRecords
BY PagesAssumption DEF PagesAssumption, CallRecords, Call

LEMMA ObserverNames ==
  /\ \A verb \in Verbs, r \in Rows : <<verb, r>> \in Observers /\ Behind(verb, r) \in Observers
  /\ <<"reconcile", Table>> \in Observers /\ reconcileMany \in Observers
  /\ \A o \in Observers : o[2] \in Rows \cup {Table}
BY DEF Observers, Verbs, Behind, reconcileMany

LEMMA PagesInitInv == PagesInit => PagesInv
<1> SUFFICES ASSUME PagesInit PROVE PagesInv
  OBVIOUS
<1>1. PagesTypeOK
  BY DEF PagesInit, PagesTypeOK, Idle
<1>2. \A o \in Observers : Waits(o)
  BY DEF PagesInit, Waits, isPending, Idle
<1>3. \A c \in Calls : CardFollows(c)
  BY DEF PagesInit, CardFollows, InFlightHere
<1>4. OneCallPerCard
  BY DEF PagesInit, OneCallPerCard, InFlightHere
<1> QED BY <1>1, <1>2, <1>3, <1>4 DEF PagesInv

LEMMA PendingInFlight ==
  ASSUME PagesTypeOK, NEW o \in Observers, Waits(o), isPending(o)
  PROVE  /\ observer[o].call \in Calls
         /\ calls[observer[o].call] # NoCall
         /\ calls[observer[o].call].by = o
         /\ calls[observer[o].call].rows = observer[o].variables
         /\ calls[observer[o].call].here
<1>1. observer[o].variables \in SUBSET Rows
  BY DEF PagesTypeOK
<1>2. /\ observer[o].call \in Calls
      /\ calls[observer[o].call] = Call(o, observer[o].variables)
  BY DEF Waits, Call
<1>3. calls[observer[o].call] \in CallRecords
  BY <1>1, <1>2, CallRecordsAreCalls
<1>4. calls[observer[o].call] # NoCall
  BY <1>3, CallRecordsAreCalls
<1>5. ASSUME NEW rows PROVE /\ Call(o, rows).by = o /\ Call(o, rows).rows = rows
                            /\ Call(o, rows).here
  BY DEF Call
<1> QED BY <1>2, <1>4, <1>5

\* A call made through observer o: the observers of other calls are as they were.
LEMMA MutateWaits ==
  ASSUME PagesInv, NEW c \in Calls, NEW o \in Observers, NEW rows \in SUBSET Rows,
         mutate(c, o, rows), page' = page, selected' = selected
  PROVE  /\ PagesTypeOK'
         /\ \A p \in Observers : Waits(p)'
<1>1. calls[c] = NoCall /\ calls' = [calls EXCEPT ![c] = Call(o, rows)]
      /\ observer' = [observer EXCEPT ![o] = [status |-> "pending", variables |-> rows, call |-> c]]
  BY DEF mutate
<1>2. PagesTypeOK'
  BY <1>1, CallRecordsAreCalls DEF PagesInv, PagesTypeOK
<1>3. ASSUME NEW p \in Observers PROVE Waits(p)'
  <2>1. CASE p = o
    <3>1. observer'[p] = [status |-> "pending", variables |-> rows, call |-> c]
      BY <1>1, <2>1 DEF PagesInv, PagesTypeOK
    <3>2. calls'[c] = [by |-> o, rows |-> rows, here |-> TRUE]
      BY <1>1 DEF PagesInv, PagesTypeOK, Call
    <3> QED BY <2>1, <3>1, <3>2 DEF Waits, isPending
  <2>2. CASE p # o
    <3>1. observer'[p] = observer[p] /\ Waits(p)
      BY <1>1, <2>2 DEF PagesInv, PagesTypeOK
    <3>2. ASSUME isPending(p) PROVE observer[p].call # c
      <4>1. calls[observer[p].call] # NoCall
        BY <3>1, <3>2, PendingInFlight DEF PagesInv
      <4> QED BY <1>1, <4>1
    <3> QED BY <1>1, <3>1, <3>2 DEF Waits, isPending, PagesInv, PagesTypeOK
  <2> QED BY <2>1, <2>2
<1> QED BY <1>2, <1>3

\* A button that can be pressed makes the only call of its card.
LEMMA PressInv ==
  ASSUME PagesInv, NEW c \in Calls, NEW verb \in Verbs, NEW r \in Rows, Press(c, verb, r)
  PROVE  PagesInv'
<1> DEFINE o == Behind(verb, r)
<1>1. /\ mutate(c, o, {r}) /\ ~busy(r)
      /\ UNCHANGED <<page, list, filter, q, selected>> /\ o \in Observers
  BY ObserverNames DEF Press
<1>2. PagesTypeOK' /\ \A p \in Observers : Waits(p)'
  BY <1>1, MutateWaits
<1>3. ASSUME page = "mobile", NEW d \in Calls
      PROVE  /\ CardFollows(d)'
             /\ d # c /\ InFlightHere(d)' =>
                  calls'[d] = calls[d] /\ calls[d].rows \cap {r} = {}
  <2>0. o = <<verb, r>>
    BY <1>3 DEF Behind
  <2> HIDE DEF o
  <2>1. /\ calls' = [calls EXCEPT ![c] = Call(o, {r})]
        /\ observer' = [observer EXCEPT ![o] = [status |-> "pending", variables |-> {r}, call |-> c]]
    BY <1>1 DEF mutate
  <2>2. CASE d = c
    <3>1. calls'[d] = [by |-> o, rows |-> {r}, here |-> TRUE]
      BY <2>1, <2>2 DEF PagesInv, PagesTypeOK, Call
    <3>2. observer'[o] = [status |-> "pending", variables |-> {r}, call |-> c]
      BY <1>1, <2>1 DEF PagesInv, PagesTypeOK
    <3> QED BY <2>0, <2>2, <3>1, <3>2 DEF CardFollows, InFlightHere, isPending
  <2>3. CASE d # c
    <3>1. calls'[d] = calls[d] /\ CardFollows(d)
      BY <1>3, <2>1, <2>3 DEF PagesInv, PagesTypeOK
    <3>2. ASSUME InFlightHere(d) PROVE calls[d].by # o /\ calls[d].rows \cap {r} = {}
      <4>1. PICK v \in Verbs, s \in Rows : calls[d].by = <<v, s>> /\ calls[d].rows = {s}
        BY <3>1, <3>2 DEF CardFollows
      <4>2. s # r
        <5> SUFFICES ASSUME s = r PROVE FALSE
          OBVIOUS
        <5>1. Behind(v, r) = calls[d].by /\ Behind(v, r) \in Observers
          BY <1>3, <4>1, ObserverNames DEF Behind
        <5>2. /\ isPending(Behind(v, r)) /\ observer[Behind(v, r)].call = d
              /\ Waits(Behind(v, r))
          BY <3>1, <3>2, <5>1 DEF CardFollows, PagesInv
        <5>3. r \in observer[Behind(v, r)].variables
          BY <4>1, <5>1, <5>2, PendingInFlight DEF PagesInv
        <5> QED BY <1>1, <5>2, <5>3 DEF busy
      <4> QED BY <2>0, <4>1, <4>2
    <3>3. calls[d] \in CallRecords \cup {NoCall}
      BY DEF PagesInv, PagesTypeOK
    <3>4. ASSUME InFlightHere(d) PROVE observer'[calls[d].by] = observer[calls[d].by]
      BY <2>1, <3>2, <3>3, <3>4 DEF InFlightHere, CallRecords, PagesInv, PagesTypeOK
    <3> QED BY <3>1, <3>2, <3>4 DEF CardFollows, InFlightHere, isPending
  <2> QED BY <2>2, <2>3
<1>4. ASSUME page = "mobile" PROVE OneCallPerCard'
  <2>1. calls'[c].rows = {r}
    BY <1>1 DEF mutate, PagesInv, PagesTypeOK, Call
  <2> QED BY <1>3, <1>4, <2>1 DEF OneCallPerCard, InFlightHere, PagesInv
<1> QED BY <1>1, <1>2, <1>3, <1>4 DEF PagesInv

\* An observer and the call it follows are done with together.
LEMMA SettleInv ==
  ASSUME PagesInv, NEW c \in Calls, NEW ok \in BOOLEAN, Settle(c, ok)
  PROVE  PagesInv'
<1> DEFINE o == calls[c].by
           after == IF ok THEN Idle ELSE [Idle EXCEPT !.status = "error"]
<1>1. /\ calls[c] \in CallRecords /\ o \in Observers
      /\ calls' = [calls EXCEPT ![c] = NoCall]
      /\ observer' = IF Followed(c) THEN [observer EXCEPT ![o] = after] ELSE observer
      /\ selected' \in {{}, selected} /\ page' = page
  BY DEF Settle, PagesInv, PagesTypeOK, CallRecords
<1>2. after \in [status: {"idle", "error"}, variables: {{}}, call: {NoCall}]
  BY DEF Idle
<1> HIDE DEF o, after
<1>3. PagesTypeOK'
  BY <1>1, <1>2 DEF PagesInv, PagesTypeOK
<1>4. ASSUME NEW p \in Observers PROVE Waits(p)'
  <2>1. observer'[p] = observer[p] \/ observer'[p] = after
    BY <1>1 DEF PagesInv, PagesTypeOK
  <2>2. CASE observer'[p] = after
    BY <1>2, <2>2 DEF Waits, isPending
  <2>3. ASSUME observer'[p] = observer[p], isPending(p) PROVE observer[p].call # c
    <3> SUFFICES ASSUME observer[p].call = c PROVE FALSE
      OBVIOUS
    <3>1. calls[c] = [by |-> p, rows |-> observer[p].variables, here |-> TRUE]
      BY <2>3 DEF PagesInv, Waits
    <3>2. Followed(c) /\ o = p
      BY <3>1 DEF Followed, o
    <3>3. observer'[p] = after
      BY <1>1, <3>2 DEF PagesInv, PagesTypeOK
    <3> QED BY <1>2, <2>3, <3>3 DEF isPending
  <2> QED BY <1>1, <2>1, <2>2, <2>3 DEF Waits, isPending, PagesInv, PagesTypeOK
<1>5. ASSUME page = "mobile", NEW d \in Calls
      PROVE  CardFollows(d)' /\ (InFlightHere(d)' => calls'[d] = calls[d])
  <2>1. CASE d = c
    BY <1>1, <2>1 DEF CardFollows, InFlightHere, PagesInv, PagesTypeOK
  <2>2. CASE d # c
    <3>1. calls'[d] = calls[d] /\ CardFollows(d)
      BY <1>1, <1>5, <2>2 DEF PagesInv, PagesTypeOK
    <3>2. ASSUME InFlightHere(d) PROVE observer'[calls[d].by] = observer[calls[d].by]
      <4>1. observer[calls[d].by].call = d /\ calls[d].by \in Observers
        BY <3>1, <3>2 DEF CardFollows, InFlightHere, PagesInv, PagesTypeOK, CallRecords
      <4>2. Followed(c) => o # calls[d].by
        BY <2>2, <4>1 DEF Followed, o
      <4> QED BY <1>1, <4>1, <4>2 DEF PagesInv, PagesTypeOK
    <3> QED BY <3>1, <3>2 DEF CardFollows, InFlightHere, isPending
  <2> QED BY <2>1, <2>2
<1>6. page = "mobile" => OneCallPerCard'
  BY <1>5 DEF OneCallPerCard, InFlightHere, PagesInv
<1> QED BY <1>1, <1>3, <1>4, <1>5, <1>6 DEF PagesInv

\* What is unmounted stops waiting, what stays is not concerned.
LEMMA UnmountInv ==
  ASSUME PagesInv, NEW owners, Unmount(owners), page' \in ListPages, selected' \subseteq Rows,
         page' = page \/ (Rows \cup {Table}) \subseteq owners
  PROVE  PagesInv'
<1>1. /\ observer' = [o \in Observers |-> IF o[2] \in owners THEN Idle ELSE observer[o]]
      /\ calls' = [c \in Calls |->
                     IF calls[c] # NoCall /\ calls[c].by[2] \in owners
                     THEN [calls[c] EXCEPT !.here = FALSE] ELSE calls[c]]
  BY DEF Unmount
<1>2. ASSUME NEW c \in Calls
      PROVE  /\ calls'[c] \in CallRecords \cup {NoCall}
             /\ InFlightHere(c)' => /\ InFlightHere(c) /\ calls'[c] = calls[c]
                                    /\ calls[c].by \in Observers /\ calls[c].by[2] \notin owners
  <2>1. calls[c] \in CallRecords \cup {NoCall}
    BY DEF PagesInv, PagesTypeOK
  <2>2. CASE calls[c] # NoCall /\ calls[c].by[2] \in owners
    BY <1>1, <2>1, <2>2 DEF CallRecords, InFlightHere
  <2>3. CASE ~ (calls[c] # NoCall /\ calls[c].by[2] \in owners)
    BY <1>1, <2>1, <2>3 DEF CallRecords, InFlightHere
  <2> QED BY <2>2, <2>3
<1>3. PagesTypeOK'
  <2>1. calls' \in [Calls -> CallRecords \cup {NoCall}]
    BY <1>1, <1>2
  <2>2. observer' \in [Observers -> [status: {"idle", "pending", "error"},
                                     variables: SUBSET Rows, call: Calls \cup {NoCall}]]
    BY <1>1 DEF PagesInv, PagesTypeOK, Idle
  <2> QED BY <2>1, <2>2 DEF PagesTypeOK
<1>4. ASSUME NEW o \in Observers PROVE Waits(o)'
  <2>1. CASE o[2] \in owners
    BY <1>1, <2>1 DEF Waits, isPending, Idle
  <2>2. ASSUME o[2] \notin owners, isPending(o)
        PROVE  calls'[observer[o].call] = calls[observer[o].call]
    <3>1. Waits(o) /\ PagesTypeOK
      BY DEF PagesInv
    <3>2. observer[o].call \in Calls /\ calls[observer[o].call].by = o
      BY <2>2, <3>1, PendingInFlight
    <3> QED BY <1>1, <2>2, <3>2
  <2> QED BY <1>1, <2>1, <2>2 DEF Waits, isPending, PagesInv
<1>5. ASSUME page' = "mobile", NEW c \in Calls PROVE CardFollows(c)'
  <2> SUFFICES ASSUME InFlightHere(c)' PROVE CardFollows(c)'
    BY DEF CardFollows
  <2>1. /\ InFlightHere(c) /\ calls'[c] = calls[c]
        /\ calls[c].by \in Observers /\ calls[c].by[2] \notin owners
    BY <1>2
  <2>2. page = "mobile"
    BY <1>5, <2>1, ObserverNames
  <2>3. CardFollows(c) /\ observer'[calls[c].by] = observer[calls[c].by]
    BY <1>1, <2>1, <2>2 DEF PagesInv
  <2> QED BY <2>1, <2>3 DEF CardFollows, isPending
<1>6. ASSUME page' = "mobile", NEW c \in Calls, NEW d \in Calls,
             InFlightHere(c)', InFlightHere(d)', c # d
      PROVE  calls'[c].rows \cap calls'[d].rows = {}
  <2>1. /\ InFlightHere(c) /\ calls'[c] = calls[c] /\ InFlightHere(d) /\ calls'[d] = calls[d]
        /\ calls[c].by \in Observers /\ calls[c].by[2] \notin owners
    BY <1>2, <1>6
  <2>2. page = "mobile"
    BY <1>6, <2>1, ObserverNames
  <2> QED BY <1>6, <2>1, <2>2 DEF PagesInv, OneCallPerCard
<1> QED BY <1>3, <1>4, <1>5, <1>6 DEF PagesInv, OneCallPerCard

\* "Reconcile all": the last of the calls is the one the observer waits for.
LEMMA ReconcileAllInv ==
  ASSUME PagesInv, reconcileAll
  PROVE  PagesInv'
<1> DEFINE o == <<"reconcile", Table>>
<1>1. PICK slot \in [Listed -> Calls], last \in Listed :
        /\ \A r, s \in Listed : slot[r] = slot[s] => r = s
        /\ \A r \in Listed : calls[slot[r]] = NoCall
        /\ calls' = [c \in Calls |->
                       IF \E r \in Listed : slot[r] = c
                       THEN Call(o, {r \in Listed : slot[r] = c}) ELSE calls[c]]
        /\ observer' = [observer EXCEPT ![o] = [status |-> "pending", variables |-> {last},
                                                call |-> slot[last]]]
  BY DEF reconcileAll
<1>2. page = "sources" /\ page' = page /\ selected' = selected /\ Listed \subseteq Rows
  BY DEF reconcileAll, Listed
<1>3. o \in Observers
  BY ObserverNames
<1> HIDE DEF o
<1>4. PagesTypeOK'
  <2>1. ASSUME NEW c \in Calls PROVE calls'[c] \in CallRecords \cup {NoCall}
    <3>1. {r \in Listed : slot[r] = c} \in SUBSET Rows
      BY <1>2
    <3> QED BY <1>1, <1>3, <3>1, CallRecordsAreCalls DEF PagesInv, PagesTypeOK
  <2>2. calls' \in [Calls -> CallRecords \cup {NoCall}]
    BY <1>1, <2>1
  <2> QED BY <1>1, <1>2, <1>3, <2>2 DEF PagesInv, PagesTypeOK
<1>5. ASSUME NEW p \in Observers PROVE Waits(p)'
  <2>1. CASE p = o
    <3>1. observer'[p] = [status |-> "pending", variables |-> {last}, call |-> slot[last]]
      BY <1>1, <2>1 DEF PagesInv, PagesTypeOK
    <3>2. {r \in Listed : slot[r] = slot[last]} = {last}
      BY <1>1
    <3>3. slot[last] \in Calls /\ calls'[slot[last]] = Call(o, {last})
      BY <1>1, <3>2
    <3> QED BY <2>1, <3>1, <3>3 DEF Waits, isPending, Call
  <2>2. CASE p # o
    <3>1. observer'[p] = observer[p] /\ Waits(p)
      BY <1>1, <2>2 DEF PagesInv, PagesTypeOK
    <3>2. ASSUME isPending(p) PROVE calls'[observer[p].call] = calls[observer[p].call]
      <4>1. observer[p].call \in Calls /\ calls[observer[p].call] # NoCall
        BY <3>1, <3>2, PendingInFlight DEF PagesInv
      <4>2. \A r \in Listed : slot[r] # observer[p].call
        BY <1>1, <4>1
      <4> QED BY <1>1, <4>1, <4>2
    <3> QED BY <3>1, <3>2 DEF Waits, isPending
  <2> QED BY <2>1, <2>2
<1> QED BY <1>2, <1>4, <1>5 DEF PagesInv

LEMMA PagesStepInv == PagesInv /\ [PagesNext]_pageVars => PagesInv'
<1> SUFFICES ASSUME PagesInv, [PagesNext]_pageVars PROVE PagesInv'
  OBVIOUS
<1>1. ASSUME NEW c \in Calls, NEW verb \in Verbs, NEW r \in Rows,
             \/ RowOfApps(c, verb, r) \/ RowOfSources(c, verb, r) \/ RowOfImages(c, verb, r)
             \/ RowOfAlerts(c, verb, r) \/ IncidentCard(c, verb, r)
      PROVE  PagesInv'
  BY <1>1, PressInv DEF RowOfApps, RowOfSources, RowOfImages, RowOfAlerts, IncidentCard
<1>2. ASSUME NEW c \in Calls, onReconcileSelected(c) PROVE PagesInv'
  <2>1. /\ mutate(c, reconcileMany, visibleSelected)
        /\ page = "apps" /\ page' = page /\ selected' = selected
    BY <1>2 DEF onReconcileSelected
  <2>2. visibleSelected \in SUBSET Rows /\ reconcileMany \in Observers
    BY ObserverNames DEF visibleSelected, filtered, Listed
  <2> QED BY <2>1, <2>2, MutateWaits DEF PagesInv
<1>3. ASSUME NEW c \in Calls, NEW ok \in BOOLEAN, Settle(c, ok) PROVE PagesInv'
  BY <1>3, SettleInv
<1>4. ASSUME selected' \subseteq Rows, UNCHANGED <<page, observer, calls>> PROVE PagesInv'
  BY <1>4 DEF PagesInv, PagesTypeOK, Waits, CardFollows, OneCallPerCard, InFlightHere, isPending
<1>5. CASE toggleAll \/ SetFilter \/ \E r \in Rows : toggleOne(r)
  BY <1>4, <1>5 DEF toggleAll, SetFilter, toggleOne, filtered, Listed, PagesInv, PagesTypeOK
<1>6. CASE Refetch
  BY <1>6, UnmountInv DEF Refetch, PagesInv, PagesTypeOK
<1>7. CASE Navigate
  BY <1>7, UnmountInv DEF Navigate
<1>8. CASE UNCHANGED pageVars
  BY <1>4, <1>8 DEF pageVars, PagesInv, PagesTypeOK
<1> QED BY <1>1, <1>2, <1>3, <1>5, <1>6, <1>7, <1>8, ReconcileAllInv DEF PagesNext

THEOREM PagesInvariant == PagesSpec => []PagesInv
<1> QED BY PagesInitInv, PagesStepInv, PTL DEF PagesSpec

\* For any rows, calls and pages: a disabled button has a call in flight, and no
\* card of the on-call page ever has two.
THEOREM PagesBusyIsInFlight == PagesSpec => []BusyIsInFlight
<1>1. ASSUME PagesInv PROVE BusyIsInFlight
  <2>1. ASSUME NEW o \in Observers, isPending(o)
        PROVE  calls[observer[o].call] = [by |-> o, rows |-> observer[o].variables, here |-> TRUE]
    BY <1>1, <2>1 DEF PagesInv, Waits
  <2>2. ASSUME page = "mobile", NEW c \in Calls, NEW d \in Calls, c # d,
               InFlightHere(c), InFlightHere(d)
        PROVE  calls[c].rows \cap calls[d].rows = {}
    BY <1>1, <2>2 DEF PagesInv, OneCallPerCard
  <2> QED BY <2>1, <2>2 DEF BusyIsInFlight, InFlightHere
<1> QED BY <1>1, PagesInvariant, PTL

\* For any rows, calls and pages: nothing but its own box, "select all", a bulk
\* reconcile that succeeded or leaving the page drops a ticked row.
THEOREM PagesSelectionSurvives == PagesSpec => SelectionSurvives
<1> DEFINE Dropped(r) ==
       \/ page' # page
       \/ r \in visibleSelected /\ calls' = calls
       \/ \E c \in Calls : /\ calls[c] # NoCall /\ calls'[c] = NoCall
                           /\ calls[c].by = reconcileMany
                           /\ observer'[reconcileMany].status = "idle"
<1>1. ASSUME PagesTypeOK, [PagesNext]_pageVars, NEW r \in selected \ selected'
      PROVE  Dropped(r)
  <2>1. ASSUME NEW c \in Calls, NEW ok \in BOOLEAN, Settle(c, ok) PROVE Dropped(r)
    <3>1. Clears(c, ok) /\ calls[c] # NoCall
      BY <1>1, <2>1 DEF Settle
    <3>2. calls'[c] = NoCall
      BY <1>1, <2>1 DEF Settle, PagesTypeOK
    <3>3. observer' = [observer EXCEPT ![reconcileMany] = Idle]
      BY <2>1, <3>1 DEF Settle, Clears
    <3>4. observer'[reconcileMany].status = "idle"
      BY <1>1, <3>3, ObserverNames DEF PagesTypeOK, Idle
    <3> QED BY <3>1, <3>2, <3>4 DEF Clears
  <2>2. CASE toggleAll \/ \E s \in Rows : toggleOne(s)
    BY <1>1, <2>2 DEF toggleAll, toggleOne, visibleSelected
  <2>3. CASE Navigate
    BY <2>3 DEF Navigate
  <2>4. CASE selected' = selected
    BY <1>1, <2>4
  <2>5. ASSUME NEW c \in Calls, NEW verb \in Verbs, NEW s \in Rows,
               \/ RowOfApps(c, verb, s) \/ RowOfSources(c, verb, s) \/ RowOfImages(c, verb, s)
               \/ RowOfAlerts(c, verb, s) \/ IncidentCard(c, verb, s)
        PROVE  selected' = selected
    BY <2>5 DEF RowOfApps, RowOfSources, RowOfImages, RowOfAlerts, IncidentCard, Press
  <2>6. ASSUME NEW c \in Calls, onReconcileSelected(c) PROVE selected' = selected
    BY <2>6 DEF onReconcileSelected
  <2>7. CASE reconcileAll \/ SetFilter \/ Refetch \/ UNCHANGED pageVars
    BY <2>4, <2>7 DEF reconcileAll, SetFilter, Refetch, pageVars
  <2> HIDE DEF Dropped
  <2> QED BY <1>1, <2>1, <2>2, <2>3, <2>4, <2>5, <2>6, <2>7 DEF PagesNext
<1>2. ASSUME PagesTypeOK, [PagesNext]_pageVars
      PROVE  [\A r \in selected \ selected' : Dropped(r)]_pageVars
  BY <1>1, <1>2
<1>3. PagesInv => PagesTypeOK
  BY DEF PagesInv
<1> QED BY <1>2, <1>3, PagesInvariant, PTL DEF PagesSpec, SelectionSurvives

-----------------------------------------------------------------------------
(* The dependency page *)

UniqueIds(answer) == \A x, y \in answer : x.id = y.id => x = y

\* The two lists name each object once, and the memoised graphs are theirs.
ListsInv ==
  /\ apps \subseteq AllApps /\ UniqueIds(apps)
  /\ sources \subseteq AllSources /\ UniqueIds(sources)
  /\ DOMAIN allGraphs = {x.cluster : x \in apps \cup sources}
  /\ \A c \in DOMAIN allGraphs :
       allGraphs[c] = ClusterGraph({a \in apps : a.cluster = c}, {s \in sources : s.cluster = c})

\* What is shown went through the filter; what is hovered is, or was, a card.
ShownInv ==
  /\ DOMAIN graphs \subseteq Clusters
  /\ \A c \in DOMAIN graphs : \E g, status, text : graphs[c] = filterGraph(g, status, text)
  /\ \A c \in Clusters : \/ hover[c] = NoHover
                         \/ \E id : \E kind \in {"source", "app"} :
                              hover[c] = [kind |-> kind, id |-> id]
  /\ DOMAIN hover = Clusters

DepInv == ListsInv /\ ShownInv

\* EveryNodeOnce for the graph of one cluster.
Accounts(g, cApps, cSources) ==
  /\ g.apps \cap g.orphanApps = {} /\ g.sources \cap g.unusedSources = {}
  /\ g.apps \cup g.orphanApps = {a \in cApps : a.source # <<>>}
  /\ g.sources \cup g.unusedSources = cSources
  /\ \A a \in g.apps :
       \E s \in g.sources : /\ s.ns = a.ns
                            /\ {e.sourceId : e \in {e \in g.edges : e.appId = a.id}} = {s.id}
  /\ \A s \in g.sources : \E e \in g.edges : e.sourceId = s.id

\* ShownIsConnected for one block.
Connected(g) ==
  /\ Drawn(g) = g.edges
  /\ {s.id : s \in g.sources} = {e.sourceId : e \in g.edges}
  /\ {a.id : a \in g.apps} = {e.appId : e \in g.edges}

-----------------------------------------------------------------------------
(* The graphs *)

\* An application resolves to one source at most, of its own namespace.
LEMMA ResolvedOnce ==
  ASSUME NEW a, NEW cSources,
         \A s, t \in cSources : s.ns = t.ns /\ s.kind = t.kind /\ s.name = t.name => s = t
  PROVE  /\ \A s, t \in Resolved(a, cSources) : s = t
         /\ \A s \in Resolved(a, cSources) : s \in cSources /\ s.ns = a.ns
<1>1. \A s, t \in OfItsKind(a, cSources) : s = t
  BY DEF OfItsKind, Candidates
<1>2. /\ OfItsKind(a, cSources) \subseteq Candidates(a, cSources)
      /\ \A s \in Candidates(a, cSources) : s \in cSources /\ s.ns = a.ns
  BY DEF OfItsKind, Candidates
<1>3. CASE Resolved(a, cSources) = OfItsKind(a, cSources)
  BY <1>1, <1>2, <1>3
<1>4. CASE Resolved(a, cSources) # OfItsKind(a, cSources)
  <2>1. /\ Resolved(a, cSources) = Candidates(a, cSources)
        /\ \E s \in cSources : Candidates(a, cSources) = {s}
    BY <1>4 DEF Resolved
  <2> QED BY <1>2, <2>1
<1> QED BY <1>3, <1>4

\* Every node of a cluster's graph is in one of its two places, every matched
\* application has edges to one source and every used source has an edge.
LEMMA GraphOfCluster ==
  ASSUME NEW cApps, NEW cSources, UniqueIds(cApps),
         \A s, t \in cSources : s.ns = t.ns /\ s.kind = t.kind /\ s.name = t.name => s = t,
         NEW g, g = ClusterGraph(cApps, cSources)
  PROVE  Accounts(g, cApps, cSources)
<1> DEFINE refs    == {a \in cApps : a.source # <<>>}
           matched == {a \in refs : Resolved(a, cSources) # {}}
           used    == UNION {Resolved(a, cSources) : a \in matched}
           edge(s, a) == [sourceId |-> s.id, appId |-> a.id, tone |-> edgeTone(s, a)]
           edges   == UNION {{edge(s, a) : s \in Resolved(a, cSources)} : a \in matched}
<1>1. /\ g.apps = matched /\ g.orphanApps = refs \ matched
      /\ g.sources = used /\ g.unusedSources = cSources \ used /\ g.edges = edges
  BY DEF ClusterGraph
<1>2. \A a : /\ \A s, t \in Resolved(a, cSources) : s = t
             /\ \A s \in Resolved(a, cSources) : s \in cSources /\ s.ns = a.ns
  BY ResolvedOnce
<1>3. used \subseteq cSources
  BY <1>2
<1>4. \A a \in matched : \A s \in Resolved(a, cSources) :
        /\ edge(s, a) \in edges /\ edge(s, a).sourceId = s.id /\ edge(s, a).appId = a.id
  OBVIOUS
<1>5. \A e \in edges : \E a \in matched : \E s \in Resolved(a, cSources) :
        e.sourceId = s.id /\ e.appId = a.id
  OBVIOUS
<1> HIDE DEF edge, edges
<1>6. ASSUME NEW a \in matched
      PROVE  \E s \in used : /\ s.ns = a.ns
                             /\ {e.sourceId : e \in {e \in edges : e.appId = a.id}} = {s.id}
  <2>1. PICK s : s \in Resolved(a, cSources)
    OBVIOUS
  <2>2. s \in used /\ s.ns = a.ns
    BY <1>2, <2>1
  <2>3. \A e \in edges : e.appId = a.id => e.sourceId = s.id
    BY <1>2, <1>5, <2>1 DEF UniqueIds
  <2>4. \E e \in edges : e.appId = a.id /\ e.sourceId = s.id
    BY <1>4, <2>1
  <2> QED BY <2>2, <2>3, <2>4
<1>7. ASSUME NEW s \in used PROVE \E e \in edges : e.sourceId = s.id
  BY <1>4
<1> QED BY <1>1, <1>3, <1>6, <1>7 DEF Accounts

\* What the filter leaves has no loose end, whatever graph it is given.
LEMMA FilterConnects ==
  ASSUME NEW h, NEW status, NEW text, NEW g, g = filterGraph(h, status, text)
  PROVE  Connected(g)
<1>1. /\ \A e \in g.edges : \E s \in h.sources, a \in h.apps : e.sourceId = s.id /\ e.appId = a.id
      /\ g.sources = {s \in h.sources : \E e \in g.edges : e.sourceId = s.id}
      /\ g.apps = {a \in h.apps : \E e \in g.edges : e.appId = a.id}
  BY DEF filterGraph, survivingSrc
<1>2. /\ {s.id : s \in g.sources} = {e.sourceId : e \in g.edges}
      /\ {a.id : a \in g.apps} = {e.appId : e \in g.edges}
  BY <1>1
<1>3. \A e \in g.edges : /\ [kind |-> "source", id |-> e.sourceId] \in measure(g)
                         /\ [kind |-> "app", id |-> e.appId] \in measure(g)
  BY <1>1 DEF measure
<1> QED BY <1>2, <1>3 DEF Connected, Drawn

\* Whatever card is or was hovered, an edge is at full strength exactly if both
\* of its cards are.
LEMMA HighlightOfCard ==
  ASSUME NEW g, NEW e \in g.edges, NEW h,
         h = NoHover \/ \E id : \E kind \in {"source", "app"} : h = [kind |-> kind, id |-> id]
  PROVE  isAdjacent(h, e) <=> /\ ~dimmed(g, h, "source", e.sourceId)
                              /\ ~dimmed(g, h, "app", e.appId)
<1>1. CASE h = NoHover
  BY <1>1 DEF isAdjacent, dimmed
<1>2. ASSUME h # NoHover, NEW id, h = [kind |-> "source", id |-> id]
      PROVE  isAdjacent(h, e) <=> /\ ~dimmed(g, h, "source", e.sourceId)
                                  /\ ~dimmed(g, h, "app", e.appId)
  <2>1. h.kind = "source" /\ h.id = id
    BY <1>2
  <2>2. CASE e.sourceId = id
    BY <1>2, <2>1, <2>2 DEF isAdjacent, dimmed
  <2>3. CASE e.sourceId # id
    BY <1>2, <2>1, <2>3 DEF isAdjacent, dimmed
  <2> QED BY <2>2, <2>3
<1>3. ASSUME h # NoHover, NEW id, h = [kind |-> "app", id |-> id]
      PROVE  isAdjacent(h, e) <=> /\ ~dimmed(g, h, "source", e.sourceId)
                                  /\ ~dimmed(g, h, "app", e.appId)
  <2>1. h.kind = "app" /\ h.id = id
    BY <1>3
  <2>2. CASE e.appId = id
    BY <1>3, <2>1, <2>2 DEF isAdjacent, dimmed
  <2>3. CASE e.appId # id
    BY <1>3, <2>1, <2>3 DEF isAdjacent, dimmed
  <2> QED BY <2>2, <2>3
<1> QED BY <1>1, <1>2, <1>3

-----------------------------------------------------------------------------
(* The page *)

LEMMA FilteredBlocks ==
  ASSUME NEW all, NEW status, NEW text, NEW cluster,
         NEW shown, shown = Filtered(all, status, text, cluster)
  PROVE  /\ DOMAIN shown \subseteq DOMAIN all
         /\ \A c \in DOMAIN shown : shown[c] = filterGraph(all[c], status, text)
<1> DEFINE left == [c \in {c \in DOMAIN all : cluster \in {"all", c}} |->
                     filterGraph(all[c], status, text)]
           Empty(g) == g.edges = {} /\ g.orphanApps = {} /\ g.unusedSources = {}
<1>1. shown = [c \in {c \in DOMAIN left : ~Empty(left[c])} |-> left[c]]
  BY DEF Filtered
<1> HIDE DEF Empty
<1> QED BY <1>1

\* Graphs built from two lists that name each object once.
LEMMA BuiltLists ==
  ASSUME ListsInv, apps' \in Answers(apps, AllApps) \/ apps' = apps,
         sources' \in Answers(sources, AllSources) \/ sources' = sources,
         allGraphs' = buildClusterGraphs(apps', sources')
  PROVE  ListsInv'
<1>1. ASSUME NEW old, NEW all, old \subseteq all, NEW l \in Answers(old, all)
      PROVE  l \subseteq all /\ UniqueIds(l)
  BY <1>1 DEF Answers, UniqueIds
<1>2. /\ apps' \subseteq AllApps /\ UniqueIds(apps')
      /\ sources' \subseteq AllSources /\ UniqueIds(sources')
  BY <1>1 DEF ListsInv
<1> QED BY <1>2 DEF ListsInv, buildClusterGraphs, UniqueIds

LEMMA RenderInv ==
  ASSUME ListsInv', ShownInv, Render
  PROVE  ShownInv'
<1>1. DOMAIN allGraphs' \subseteq Clusters
  BY DEF ListsInv, Clusters
<1>2. /\ DOMAIN graphs' \subseteq DOMAIN allGraphs'
      /\ \A c \in DOMAIN graphs' :
           graphs'[c] = filterGraph(allGraphs'[c], statusFilter', search')
  BY FilteredBlocks DEF Render
<1>3. /\ DOMAIN hover' = Clusters
      /\ \A c \in Clusters : hover'[c] = hover[c] \/ hover'[c] = NoHover
  BY DEF Render
<1> QED BY <1>1, <1>2, <1>3 DEF ShownInv

LEMMA DepInitInv == DepInit => DepInv
<1> SUFFICES ASSUME DepInit PROVE DepInv
  OBVIOUS
<1>1. apps = {} /\ sources = {} /\ allGraphs = <<>> /\ graphs = <<>>
  BY DEF DepInit
<1>2. ListsInv
  BY <1>1 DEF ListsInv, UniqueIds
<1>3. hover = [c \in Clusters |-> NoHover]
  BY DEF DepInit
<1>4. ShownInv
  BY <1>1, <1>3 DEF ShownInv
<1> QED BY <1>2, <1>4 DEF DepInv

LEMMA DepStepInv == DepInv /\ [DepNext]_depVars => DepInv'
<1> SUFFICES ASSUME DepInv, [DepNext]_depVars PROVE DepInv'
  OBVIOUS
<1> USE DEF DepInv
<1>1. CASE AppsAnswer
  BY <1>1, BuiltLists, RenderInv DEF AppsAnswer
<1>2. CASE SourcesAnswer
  BY <1>2, BuiltLists, RenderInv DEF SourcesAnswer
<1>3. CASE UNCHANGED <<apps, sources, allGraphs>> /\ Render
  <2>1. ListsInv'
    BY <1>3 DEF ListsInv
  <2> QED BY <1>3, <2>1, RenderInv
<1>4. CASE SetStatusFilter \/ SetSearch \/ SetClusterFilter
  BY <1>3, <1>4 DEF SetStatusFilter, SetSearch, SetClusterFilter
<1>5. ASSUME NEW c, NEW card, card = NoHover \/ \E id : \E kind \in {"source", "app"} :
                                                 card = [kind |-> kind, id |-> id],
             hover' = [hover EXCEPT ![c] = card],
             UNCHANGED <<apps, sources, allGraphs, graphs>>
      PROVE  DepInv'
  <2>1. ListsInv'
    BY <1>5 DEF ListsInv
  <2>2. DOMAIN hover' = Clusters /\ \A d \in Clusters : hover'[d] = hover[d] \/ hover'[d] = card
    BY <1>5 DEF ShownInv
  <2>3. \A d \in Clusters : \/ hover'[d] = NoHover
                            \/ \E id : \E kind \in {"source", "app"} :
                                 hover'[d] = [kind |-> kind, id |-> id]
    BY <1>5, <2>2 DEF ShownInv
  <2>4. ShownInv'
    <3>1. graphs' = graphs
      BY <1>5
    <3> QED BY <2>2, <2>3, <3>1 DEF ShownInv
  <2> QED BY <2>1, <2>4
<1>6. ASSUME NEW c \in DOMAIN graphs, Hover(c, graphs[c]) PROVE DepInv'
  <2>1. PICK card \in measure(graphs[c]) : hover' = [hover EXCEPT ![c] = card]
    BY <1>6 DEF Hover
  <2>2. \E id : \E kind \in {"source", "app"} : card = [kind |-> kind, id |-> id]
    BY DEF measure
  <2>3. UNCHANGED <<apps, sources, allGraphs, graphs>>
    BY <1>6 DEF Hover
  <2> QED BY <1>5, <2>1, <2>2, <2>3
<1>7. ASSUME NEW c \in Clusters, Leave(c) PROVE DepInv'
  BY <1>5, <1>7 DEF Leave
<1>8. CASE UNCHANGED depVars
  BY <1>8 DEF depVars, ListsInv, ShownInv
<1> QED BY <1>1, <1>2, <1>4, <1>6, <1>7, <1>8 DEF DepNext

THEOREM DepInvariant == DepSpec => []DepInv
<1> QED BY DepInitInv, DepStepInv, PTL DEF DepSpec

\* The graphs account for every listed object once, for any lists and however
\* differently old the two answers they are joined from.
THEOREM DepEveryNodeOnce == DepSpec => []EveryNodeOnce
<1>1. ASSUME ListsInv PROVE EveryNodeOnce
  <2>1. ASSUME NEW c \in DOMAIN allGraphs, NEW s \in sources, NEW t \in sources,
               s.cluster = c, t.cluster = c, s.ns = t.ns, s.kind = t.kind, s.name = t.name
        PROVE  s = t
    BY <1>1, <2>1, DependenciesAssumption DEF DependenciesAssumption, ListsInv, UniqueIds
  <2>2. ASSUME NEW c \in DOMAIN allGraphs
        PROVE  LET g == allGraphs[c] IN
               /\ g.apps \cap g.orphanApps = {} /\ g.sources \cap g.unusedSources = {}
               /\ g.apps \cup g.orphanApps = {a \in apps : a.cluster = c /\ a.source # <<>>}
               /\ g.sources \cup g.unusedSources = {s \in sources : s.cluster = c}
               /\ \A a \in g.apps :
                    \E s \in g.sources :
                      /\ s.ns = a.ns
                      /\ {e.sourceId : e \in {e \in g.edges : e.appId = a.id}} = {s.id}
               /\ \A s \in g.sources : \E e \in g.edges : e.sourceId = s.id
    <3> DEFINE g        == allGraphs[c]
               cApps    == {a \in apps : a.cluster = c}
               cSources == {s \in sources : s.cluster = c}
    <3>1. UniqueIds(cApps) /\ g = ClusterGraph(cApps, cSources)
      BY <1>1 DEF ListsInv, UniqueIds
    <3>2. \A s, t \in cSources : s.ns = t.ns /\ s.kind = t.kind /\ s.name = t.name => s = t
      BY <2>1
    <3>3. {a \in cApps : a.source # <<>>} = {a \in apps : a.cluster = c /\ a.source # <<>>}
      OBVIOUS
    <3> HIDE DEF g, cApps, cSources
    <3>4. Accounts(g, cApps, cSources)
      BY <3>1, <3>2, GraphOfCluster
    <3> QED BY <3>3, <3>4 DEF Accounts, g, cSources
  <2> QED BY <1>1, <2>2 DEF EveryNodeOnce, ListsInv
<1> QED BY <1>1, DepInvariant, PTL DEF DepInv

\* No block ever shows a card without an edge in its columns, or an edge that
\* cannot be drawn, whatever is filtered and however the lists change.
THEOREM DepShownIsConnected == DepSpec => []ShownIsConnected
<1>1. ShownInv => ShownIsConnected
  <2> SUFFICES ASSUME ShownInv, NEW c \in DOMAIN graphs PROVE Connected(graphs[c])
    BY DEF ShownIsConnected, Connected
  <2>1. PICK h, status, text : graphs[c] = filterGraph(h, status, text)
    BY DEF ShownInv
  <2> QED BY <2>1, FilterConnects
<1> QED BY <1>1, DepInvariant, PTL DEF DepInv

\* Cards and edges agree on what is highlighted, also for a card that is hovered
\* no more because it is gone.
THEOREM DepHighlightAgrees == DepSpec => []HighlightAgrees
<1>1. ShownInv => HighlightAgrees
  BY HighlightOfCard DEF ShownInv, HighlightAgrees
<1> QED BY <1>1, DepInvariant, PTL DEF DepInv
=============================================================================
