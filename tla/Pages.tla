-------------------------------- MODULE Pages --------------------------------
(***************************************************************************)
(* The list pages and what their buttons do: web/src/pages/Apps.tsx,       *)
(* Sources.tsx, Images.tsx, Alerts.tsx and Mobile.tsx.                     *)
(*                                                                         *)
(* A button calls `mutate` of a TanStack mutation observer.  An observer   *)
(* knows its last call only: isPending, variables and error of an earlier  *)
(* call that is still in flight are lost.  A table has one observer per    *)
(* verb for all its rows, an incident card one per verb of its own.        *)
(***************************************************************************)
EXTENDS Naturals, FiniteSets

CONSTANTS
  Rows,     \* ids of the objects of a list
  Calls,    \* calls in flight at once
  Texts,    \* a search text is the set of rows it matches
  Table,    \* the owner of a table's observers
  NoCall

VARIABLES
  page,      \* the list page shown
  list,      \* list[r]: what the last answer says of r
  filter,    \* status filter of the Applications page
  q,         \* its search text
  selected,  \* its ticked rows
  observer,  \* observer[o]: the last call of mutation observer o
  calls      \* calls in flight; `here` while who made it is still mounted

pageVars == <<page, list, filter, q, selected, observer, calls>>

ListPages == {"apps", "sources", "images", "alerts", "mobile"}
\* Degraded is as failing, progressing as healthy: the pages treat them alike.
Statuses == {"absent", "healthy", "failing", "paused"}
Verbs == {"reconcile", "suspend", "resume"}

Observers == Verbs \X (Rows \cup {Table}) \cup {<<"reconcileMany", Table>>}

reconcileMany == <<"reconcileMany", Table>>

Idle == [status |-> "idle", variables |-> {}, call |-> NoCall]

CallRecords == [by: Observers, rows: SUBSET Rows, here: BOOLEAN]

\* The table is none of its rows, and no call is none.
ASSUME PagesAssumption ==
  /\ Table \notin Rows
  /\ NoCall \notin CallRecords

-----------------------------------------------------------------------------
(* What is shown *)

\* A suspended object is reported as paused.
Listed == {r \in Rows : list[r] # "absent"}

filtered == {r \in Listed : filter \in {"all", list[r]} /\ r \in q}

incidents == {r \in Listed : list[r] = "failing"}

visibleSelected == filtered \cap selected

\* Mutant: the on-call cards share the page's observers.
BehindTable(verb, r) == <<verb, Table>>

\* The observer behind a button of row r.
Behind(verb, r) == IF page = "mobile" THEN <<verb, r>> ELSE <<verb, Table>>

isPending(o) == observer[o].status = "pending"

busy(r) == \E verb \in Verbs : /\ isPending(Behind(verb, r))
                               /\ r \in observer[Behind(verb, r)].variables

-----------------------------------------------------------------------------
PagesInit ==
  /\ page \in ListPages
  /\ list = [r \in Rows |-> "absent"]
  /\ filter = "all" /\ q = Rows /\ selected = {}
  /\ observer = [o \in Observers |-> Idle]
  /\ calls = [c \in Calls |-> NoCall]

Call(o, rows) == [by |-> o, rows |-> rows, here |-> TRUE]

\* mutate: the observer forgets its former call.
mutate(c, o, rows) ==
  /\ calls[c] = NoCall
  /\ calls' = [calls EXCEPT ![c] = Call(o, rows)]
  /\ observer' = [observer EXCEPT ![o] = [status |-> "pending", variables |-> rows,
                                          call |-> c]]

\* A button of row r: reconcile, and suspend or resume.
Press(c, verb, r) ==
  /\ ~busy(r)
  /\ verb = "suspend" => list[r] # "paused"
  /\ verb = "resume" => list[r] = "paused"
  /\ mutate(c, Behind(verb, r), {r})
  /\ UNCHANGED <<page, list, filter, q, selected>>

RowOfApps(c, verb, r)    == page = "apps" /\ r \in filtered /\ Press(c, verb, r)
RowOfSources(c, verb, r) == page = "sources" /\ r \in Listed /\ Press(c, verb, r)
RowOfImages(c, verb, r)  == page = "images" /\ r \in Listed /\ Press(c, verb, r)
RowOfAlerts(c, verb, r)  == page = "alerts" /\ r \in Listed /\ Press(c, verb, r)
IncidentCard(c, verb, r) == page = "mobile" /\ r \in incidents /\ Press(c, verb, r)

\* "Reconcile all" of the Sources page: one call of the same observer for each
\* source, of which it keeps the last.
reconcileAll ==
  LET o == <<"reconcile", Table>> IN
  /\ page = "sources" /\ Listed # {} /\ ~isPending(o)
  /\ \E slot \in [Listed -> Calls], last \in Listed :
       /\ \A r, s \in Listed : slot[r] = slot[s] => r = s
       /\ \A r \in Listed : calls[slot[r]] = NoCall
       /\ calls' = [c \in Calls |->
                      IF \E r \in Listed : slot[r] = c
                      THEN Call(o, {r \in Listed : slot[r] = c}) ELSE calls[c]]
       /\ observer' = [observer EXCEPT ![o] = [status |-> "pending", variables |-> {last},
                                               call |-> slot[last]]]
  /\ UNCHANGED <<page, list, filter, q, selected>>

onReconcileSelected(c) ==
  /\ page = "apps" /\ visibleSelected # {} /\ ~isPending(reconcileMany)
  /\ mutate(c, reconcileMany, visibleSelected)
  /\ UNCHANGED <<page, list, filter, q, selected>>

\* Whether the observer of call c still follows it.
Followed(c) == calls[c].here /\ observer[calls[c].by].call = c

\* Mutant: the selection is cleared in onSettled.
ClearsOnSettled(c, ok) == calls[c].by = reconcileMany /\ Followed(c)

\* Whether the answer runs the onSuccess of onReconcileSelected.
Clears(c, ok) == ok /\ calls[c].by = reconcileMany /\ Followed(c)

\* A call is answered.  Its observer hears of it if it is mounted and has not
\* made another one since.  Which row an error is about is not kept: a table
\* does not say, a card has one row.
Settle(c, ok) ==
  /\ calls[c] # NoCall
  /\ calls' = [calls EXCEPT ![c] = NoCall]
  /\ observer' = IF Followed(c)
                 THEN [observer EXCEPT ![calls[c].by] =
                         IF ok THEN Idle ELSE [Idle EXCEPT !.status = "error"]]
                 ELSE observer
  /\ selected' = IF Clears(c, ok) THEN {} ELSE selected
  /\ UNCHANGED <<page, list, filter, q>>

toggleOne(r) ==
  /\ page = "apps" /\ r \in filtered
  /\ selected' = IF r \in selected THEN selected \ {r} ELSE selected \cup {r}
  /\ UNCHANGED <<page, list, filter, q, observer, calls>>

toggleAll ==
  /\ page = "apps" /\ filtered # {}
  /\ selected' = IF visibleSelected = filtered THEN selected \ filtered
                                               ELSE selected \cup filtered
  /\ UNCHANGED <<page, list, filter, q, observer, calls>>

SetFilter ==
  /\ page = "apps"
  /\ filter' \in (Statuses \ {"absent"}) \cup {"all"} /\ q' \in Texts
  /\ UNCHANGED <<page, list, selected, observer, calls>>

\* What is unmounted takes its observers along; its calls go on.
Unmount(owners) ==
  /\ observer' = [o \in Observers |-> IF o[2] \in owners THEN Idle ELSE observer[o]]
  /\ calls' = [c \in Calls |->
                 IF calls[c] # NoCall /\ calls[c].by[2] \in owners
                 THEN [calls[c] EXCEPT !.here = FALSE] ELSE calls[c]]

\* The list is answered again: an incident that is over takes its card along.
Refetch ==
  /\ \E r \in Rows, s \in Statuses : list' = [list EXCEPT ![r] = s]
  /\ Unmount({r \in Rows : list'[r] # "failing"})
  /\ UNCHANGED <<page, filter, q, selected>>

\* Another page, with another list; the state of this one is lost.
Navigate ==
  /\ page' \in ListPages \ {page}
  /\ list' = [r \in Rows |-> "absent"]
  /\ filter' = "all" /\ q' = Rows /\ selected' = {}
  /\ Unmount(Rows \cup {Table})

PagesNext ==
  \/ \E c \in Calls :
       \/ \E verb \in Verbs, r \in Rows :
            \/ RowOfApps(c, verb, r) \/ RowOfSources(c, verb, r) \/ RowOfImages(c, verb, r)
            \/ RowOfAlerts(c, verb, r) \/ IncidentCard(c, verb, r)
       \/ onReconcileSelected(c)
       \/ \E ok \in BOOLEAN : Settle(c, ok)
  \/ reconcileAll
  \/ toggleAll \/ SetFilter \/ Refetch \/ Navigate
  \/ \E r \in Rows : toggleOne(r)

PagesSpec == PagesInit /\ [][PagesNext]_pageVars

-----------------------------------------------------------------------------
\* A button that is disabled because of a call really has one in flight for its
\* row (or for the selection), so that no lost answer disables it for good; and
\* on the on-call page it is disabled as long as one is: no card ever has two
\* calls in flight.
BusyIsInFlight ==
  /\ \A o \in Observers : isPending(o) =>
       LET c == observer[o].call IN
       calls[c] = [by |-> o, rows |-> observer[o].variables, here |-> TRUE]
  /\ page = "mobile" =>
       \A c, d \in Calls :
         calls[c] # NoCall /\ calls[d] # NoCall /\ c # d =>
           ~ (calls[c].here /\ calls[d].here /\ calls[c].rows \cap calls[d].rows # {})

\* A ticked row stays ticked through polls, filters and failures: it is dropped
\* by its own check box or "select all", while it is visible, by a bulk
\* reconcile that succeeded for every row sent, or with the page.
SelectionSurvives ==
  [][\A r \in selected \ selected' :
       \/ page' # page
       \/ r \in visibleSelected /\ calls' = calls
       \/ \E c \in Calls : /\ calls[c] # NoCall /\ calls'[c] = NoCall
                           /\ calls[c].by = reconcileMany
                           /\ observer'[reconcileMany].status = "idle"]_pageVars
=============================================================================
