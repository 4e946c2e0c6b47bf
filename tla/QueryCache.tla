----------------------------- MODULE QueryCache -----------------------------
(***************************************************************************)
(* The browser's copy of the server: the queries and mutations of          *)
(* web/src/lib/queries.ts, the fetch wrapper of api.ts and the             *)
(* invalidation stream of stream.ts, over the cache of TanStack Query.     *)
(*                                                                         *)
(* An answer is abstracted to a version: truth[k] is what the server would *)
(* answer to key k now, q[k].data what the browser shows for it.  A fetch  *)
(* has three moments (asked, answered, delivered), so that a change, a     *)
(* poll or an invalidation may fall between any two of them.               *)
(***************************************************************************)
EXTENDS Naturals, Sequences

CONSTANTS
  Objects,      \* Flux objects of the clusters
  KindOf,       \* their kinds
  App,          \* the object whose details are open
  Keys,         \* the query keys the instance looks at
  Calls,        \* mutations in flight at once
  NoData,       \* a query that was never answered
  MaxVersion,   \* bound on the changes of one answer
  Retry         \* retries of a failed fetch: 3 by default in TanStack Query

VARIABLES
  truth,    \* truth[k]: version of the server's answer to k
  q,        \* q[k]: the query's cache entry
  owed,     \* owed[k]: version of k when the last mutation of an object that k
            \*   shows succeeded, if k is shown since (history variable)
  mounted,  \* keys some component shows
  es,       \* the EventSource on /api/v1/stream
  wire,     \* kinds of the events sent and not received
  timers,   \* prefixes whose debounce timer runs
  calls,    \* mutations: requests not applied, applied, and any failure
  page      \* "shown", or "left" for the login page

cacheVars == <<truth, q, owed, mounted, es, wire, timers, calls, page>>

-----------------------------------------------------------------------------
(* Keys and the prefixes that name them *)

StaticKeys == {<<"whoami">>, <<"version">>}

ListKeys ==
  {<<"clusters">>} \cup
  {<<l, "all">> : l \in {"applications", "sources", "alerts", "image-updates",
                         "events"}}

DetailKeys ==
  {<<d, App>> : d \in {"logs", "diff", "manifest", "tree", "history"}}
    \cup {<<"events", "app", App>>}

RenderKey == <<"render", App>>

\* Lists and details refetch every POLL_MS, the rendered diff every 30 s;
\* whoami and version never.
Polled(k) == k \notin StaticKeys

\* Mutant: one attempt too many.
RetryOfOneMore(k) == Retry + 1

\* The rendered diff is fetched once; the others retry.
RetryOf(k) == IF k = RenderKey THEN 0 ELSE Retry

ApplicationKinds == {"Kustomization", "HelmRelease"}

SourceKinds == {"GitRepository", "HelmRepository", "OCIRepository", "Bucket"}

AlertKinds == {"Alert", "Provider", "Receiver"}

ImageKinds == {"ImagePolicy", "ImageRepository", "ImageUpdateAutomation"}

\* The prefixes an event of a kind invalidates.
INVALIDATIONS ==
  [kind \in ApplicationKinds \cup SourceKinds \cup AlertKinds \cup ImageKinds |->
     CASE kind \in ApplicationKinds ->
            {<<p>> : p \in {"applications", "app-tree", "app-events", "app-history",
                            "app-manifest", "app-diff", "app-logs", "clusters"}}
       [] kind \in SourceKinds -> {<<"sources">>}
       [] kind \in AlertKinds  -> {<<"alerts">>}
       [] kind \in ImageKinds  -> {<<"image-updates">>}]

\* invalidateQueries matches every query whose key begins with the given one.
PartialMatch(p, k) == Len(p) <= Len(k) /\ \A i \in 1..Len(p) : k[i] = p[i]

\* The answers in which the server shows object o.
Shows(o) ==
  {k \in Keys :
     \/ k[1] = (CASE KindOf[o] \in ApplicationKinds -> "applications"
                  [] KindOf[o] \in SourceKinds      -> "sources"
                  [] KindOf[o] \in AlertKinds       -> "alerts"
                  [] OTHER                          -> "image-updates")
     \/ o = App /\ k \in DetailKeys \cup {RenderKey}}

ASSUME CacheAssumption ==
  /\ KindOf \in [Objects -> DOMAIN INVALIDATIONS]
  /\ NoData \notin Nat
  /\ MaxVersion \in Nat /\ Retry \in Nat

-----------------------------------------------------------------------------
(* Cache entries *)

\* The list a page takes its objects from, and the list of releases that a
\* rollback is chosen in: what the user looks at when a mutation is made.
Seen(verb, o) ==
  {k \in Shows(o) : k \in ListKeys \/ (verb = "rollback" /\ k[1] = "history")}

Entries == [data: Nat \cup {NoData}, fetch: {"idle", "asked", "answered"},
            answer: Nat, tries: 0..Retry, failed: BOOLEAN, invalid: BOOLEAN]

Empty == [data |-> NoData, fetch |-> "idle", answer |-> 0, tries |-> 0,
          failed |-> FALSE, invalid |-> FALSE]

Issued(e) == [e EXCEPT !.fetch = "asked", !.answer = 0, !.tries = 0]

\* A poll or a mount does not disturb a fetch in flight.
Asked(e) == IF e.fetch = "idle" THEN Issued(e) ELSE e

\* An invalidation cancels the fetch in flight and issues another, unless the
\* entry has no data yet: then it joins the fetch in flight.
Reissues(k) == k \in mounted /\ (q[k].fetch = "idle" \/ q[k].data # NoData)

Invalidated(k) ==
  LET marked == [q[k] EXCEPT !.invalid = TRUE]
  IN  IF Reissues(k) THEN Issued(marked) ELSE marked

invalidateQueries(prefixes) ==
  q' = [k \in Keys |-> IF \E p \in prefixes : PartialMatch(p, k)
                       THEN Invalidated(k) ELSE q[k]]

-----------------------------------------------------------------------------
(* The page and its queries *)

NoCall == [verb |-> "none", on |-> {}, sent |-> {}, applied |-> {}, failed |-> FALSE]

CacheInit ==
  /\ truth = [k \in Keys |-> 0]
  /\ q = [k \in Keys |-> Empty]
  /\ owed = [k \in Keys |-> 0]
  /\ mounted = {}
  /\ es = "connecting" /\ wire = <<>> /\ timers = {}
  /\ calls = [c \in Calls |-> NoCall]
  /\ page = "shown"

\* A component that shows k appears: it fetches what is missing, invalidated,
\* or older than staleTime (a choice: time is not modelled).
Mount(k) ==
  /\ page = "shown" /\ k \notin mounted
  /\ mounted' = mounted \cup {k}
  /\ \E old \in BOOLEAN :
       q' = [q EXCEPT ![k] = IF @.data = NoData \/ @.invalid \/ old
                             THEN Asked(@) ELSE @]
  /\ UNCHANGED <<truth, owed, es, wire, timers, calls, page>>

\* It disappears: a fetch in flight goes on and is stored, and is not tried again.
Unmount(k) ==
  /\ k \in mounted
  /\ mounted' = mounted \ {k}
  /\ owed' = [owed EXCEPT ![k] = 0]
  /\ UNCHANGED <<truth, q, es, wire, timers, calls, page>>

\* Mutant: a query in error is polled no more.
PollUntilError(k) ==
  /\ k \in mounted /\ Polled(k) /\ q[k].fetch = "idle" /\ ~q[k].failed
  /\ q' = [q EXCEPT ![k] = Asked(@)]
  /\ UNCHANGED <<truth, owed, mounted, es, wire, timers, calls, page>>

\* refetchInterval.
Poll(k) ==
  /\ k \in mounted /\ Polled(k) /\ q[k].fetch = "idle"
  /\ q' = [q EXCEPT ![k] = Asked(@)]
  /\ UNCHANGED <<truth, owed, mounted, es, wire, timers, calls, page>>

\* The server reads the clusters for its answer.
Answer(k) ==
  /\ q[k].fetch = "asked"
  /\ q' = [q EXCEPT ![k].fetch = "answered", ![k].answer = truth[k]]
  /\ UNCHANGED <<truth, owed, mounted, es, wire, timers, calls, page>>

\* fetchJSON resolves: the answer replaces what the cache held.
Deliver(k) ==
  /\ q[k].fetch = "answered"
  /\ q' = [q EXCEPT ![k] = [Empty EXCEPT !.data = q[k].answer]]
  /\ UNCHANGED <<truth, owed, mounted, es, wire, timers, calls, page>>

\* After a failed fetch the query tries again, if it is still shown, or keeps its
\* data beside the error.
AfterFailure(k) ==
  IF k \in mounted /\ q[k].tries < RetryOf(k)
  THEN [q[k] EXCEPT !.fetch = "asked", !.answer = 0, !.tries = @ + 1]
  ELSE [q[k] EXCEPT !.fetch = "idle", !.answer = 0, !.tries = 0, !.failed = TRUE]

\* fetchJSON throws (an APIError, or no network).
FetchFails(k) ==
  /\ q[k].fetch # "idle"
  /\ q' = [q EXCEPT ![k] = AfterFailure(k)]
  /\ UNCHANGED <<truth, owed, mounted, es, wire, timers, calls, page>>

\* The browser leaves the page: nothing of it survives.  (The early return is for
\* a page under /auth/, where the server serves none of this application.)
handleUnauthorized ==
  /\ page' = "left"
  /\ q' = [k \in Keys |-> Empty]
  /\ owed' = [k \in Keys |-> 0]
  /\ mounted' = {}
  /\ es' = "closed" /\ wire' = <<>> /\ timers' = {}
  /\ calls' = [c \in Calls |-> NoCall]
  /\ UNCHANGED truth

\* fetchJSON meets a 401, in a query or in a mutation: its promise never
\* settles and the browser goes to the login page.
Unauthorized ==
  /\ \/ \E k \in Keys : q[k].fetch = "asked"
     \/ \E c \in Calls : calls[c].sent # {}
  /\ handleUnauthorized

\* Back from the login page.
Load ==
  /\ page = "left"
  /\ page' = "shown" /\ es' = "connecting"
  /\ UNCHANGED <<truth, q, owed, mounted, wire, timers, calls>>

-----------------------------------------------------------------------------
(* Changes in the clusters and the invalidation stream *)

\* Object o changes: every answer that shows it moves, and its event is sent
\* unless no stream is open or the hub drops it.
Changes(o) ==
  /\ \A k \in Shows(o) : truth[k] < MaxVersion
  /\ truth' = [k \in Keys |-> IF k \in Shows(o) THEN truth[k] + 1 ELSE truth[k]]
  /\ \/ es = "open" /\ wire' = Append(wire, KindOf[o])
     \/ wire' = wire

\* Somebody, or Flux, changes an object.
Change(o) ==
  /\ Changes(o)
  /\ UNCHANGED <<q, owed, mounted, es, timers, calls, page>>

\* An answer moves without any Flux object: a probe's result, a Kubernetes
\* event, a log line.
Drift(k) ==
  /\ truth[k] < MaxVersion
  /\ truth' = [truth EXCEPT ![k] = @ + 1]
  /\ UNCHANGED <<q, owed, mounted, es, wire, timers, calls, page>>

\* The native EventSource reconnects after a network error and gives up after
\* an HTTP one; what was on the wire is gone.
StreamOpens ==
  /\ es = "connecting" /\ es' = "open"
  /\ UNCHANGED <<truth, q, owed, mounted, wire, timers, calls, page>>

StreamBreaks ==
  /\ es \in {"connecting", "open"}
  /\ \/ es = "open" /\ es' = "connecting"
     \/ es = "connecting" /\ es' = "closed"
  /\ wire' = <<>>
  /\ UNCHANGED <<truth, q, owed, mounted, timers, calls, page>>

\* Timers that would find no query of the instance are left out.
scheduleInvalidate(prefixes) ==
  timers' = timers \cup {p \in prefixes : \E k \in Keys : PartialMatch(p, k)}

\* onInvalidate.
ReceiveEvent ==
  /\ wire # <<>>
  /\ wire' = Tail(wire)
  /\ scheduleInvalidate(INVALIDATIONS[Head(wire)])
  /\ UNCHANGED <<truth, q, owed, mounted, es, calls, page>>

\* A timer set 300 ms after the last event of its prefix fires.
TimerFires(p) ==
  /\ p \in timers
  /\ timers' = timers \ {p}
  /\ invalidateQueries({p})
  /\ UNCHANGED <<truth, owed, mounted, es, wire, calls, page>>

-----------------------------------------------------------------------------
(* Mutations *)

\* Mutant: the list of applications is not refreshed.
useAppMutationPartly == [on |-> ApplicationKinds, onSuccess |-> {<<"clusters">>}]

useAppMutation      == [on |-> ApplicationKinds,
                        onSuccess |-> {<<"applications">>, <<"clusters">>}]
useRollbackApp      == [on |-> {"HelmRelease"},
                        onSuccess |-> {<<"applications">>, <<"history", App>>}]
useImageMutation    == [on |-> {"ImagePolicy"}, onSuccess |-> {<<"image-updates">>}]
useSourceMutation   == [on |-> SourceKinds,
                        onSuccess |-> {<<"sources">>, <<"applications">>}]
useAlertMutation    == [on |-> {"Alert"}, onSuccess |-> {<<"alerts">>}]
useReconcileAllApps == [on |-> ApplicationKinds,
                        onSuccess |-> {<<"applications">>, <<"clusters">>}]

Hooks == [app |-> useAppMutation, rollback |-> useRollbackApp,
          image |-> useImageMutation, source |-> useSourceMutation,
          alert |-> useAlertMutation, all |-> useReconcileAllApps]

\* mutate: one request, or one for every application.  The user acts on what a
\* query has answered.
Mutate(c, verb) ==
  /\ page = "shown" /\ calls[c] = NoCall
  /\ LET able == {o \in Objects : KindOf[o] \in Hooks[verb].on} IN
     \E os \in (IF verb = "all" THEN {able}
                ELSE IF verb = "rollback" THEN {{App} \cap able}
                ELSE {{o} : o \in able}) :
       /\ os # {}
       /\ \A o \in os : \A k \in Seen(verb, o) : q[k].data # NoData
       /\ calls' = [calls EXCEPT ![c] = [NoCall EXCEPT !.verb = verb, !.on = os,
                                                       !.sent = os]]
  /\ UNCHANGED <<truth, q, owed, mounted, es, wire, timers, page>>

\* The server patches the object.
Apply(c, o) ==
  /\ o \in calls[c].sent
  /\ Changes(o)
  /\ calls' = [calls EXCEPT ![c].sent = @ \ {o}, ![c].applied = @ \cup {o}]
  /\ UNCHANGED <<q, owed, mounted, es, timers, page>>

Succeeds(call) ==
  /\ invalidateQueries(Hooks[call.verb].onSuccess)
  /\ owed' = [k \in Keys |->
               IF k \in mounted /\ \E o \in call.on : k \in Seen(call.verb, o)
               THEN truth[k] ELSE owed[k]]

\* One request of the call is answered; the last one settles the call
\* (Promise.allSettled): onSuccess runs when none of them failed.
Settle(c, o, ok) ==
  LET left   == (calls[c].sent \cup calls[c].applied) \ {o}
      failed == calls[c].failed \/ ~ok
  IN  IF left # {}
      THEN /\ calls' = [calls EXCEPT ![c].sent = @ \ {o}, ![c].applied = @ \ {o},
                                     ![c].failed = failed]
           /\ UNCHANGED <<q, owed>>
      ELSE /\ calls' = [calls EXCEPT ![c] = NoCall]
           /\ IF failed THEN UNCHANGED <<q, owed>> ELSE Succeeds(calls[c])

RequestAnswered(c, o) ==
  /\ \/ o \in calls[c].applied /\ Settle(c, o, TRUE)
     \/ o \in calls[c].sent \cup calls[c].applied /\ Settle(c, o, FALSE)
  /\ UNCHANGED <<truth, mounted, es, wire, timers, page>>

-----------------------------------------------------------------------------
CacheNext ==
  \/ \E k \in Keys : Mount(k) \/ Unmount(k) \/ Poll(k) \/ Answer(k) \/ Deliver(k)
                       \/ FetchFails(k) \/ Drift(k)
  \/ \E o \in Objects : Change(o)
  \/ \E p \in timers : TimerFires(p)
  \/ \E c \in Calls : \/ \E verb \in DOMAIN Hooks : Mutate(c, verb)
                      \/ \E o \in Objects : Apply(c, o) \/ RequestAnswered(c, o)
  \/ StreamOpens \/ StreamBreaks \/ ReceiveEvent
  \/ Unauthorized \/ Load

CacheSpec == CacheInit /\ [][CacheNext]_cacheVars

\* Polling goes on, and a server asked again and again answers once in a while;
\* nothing is assumed of the event stream, the user or the session.
FairCacheSpec ==
  /\ CacheSpec
  /\ \A k \in Keys : /\ WF_cacheVars(Poll(k))
                     /\ SF_cacheVars(Answer(k))
                     /\ SF_cacheVars(Deliver(k))

-----------------------------------------------------------------------------
\* The version shown; 0, the first one, as long as there is nothing.
Shown(k) == IF q[k].data = NoData THEN 0 ELSE q[k].data

Running == [verb: DOMAIN Hooks \cup {"none"}, on: SUBSET Objects,
            sent: SUBSET Objects, applied: SUBSET Objects, failed: BOOLEAN]

CacheTypeOK ==
  /\ truth \in [Keys -> Nat]
  /\ q \in [Keys -> Entries]
  /\ owed \in [Keys -> Nat]
  /\ mounted \subseteq Keys
  /\ es \in {"connecting", "open", "closed"}
  /\ wire \in Seq(DOMAIN INVALIDATIONS)
  /\ timers \subseteq UNION {INVALIDATIONS[kind] : kind \in DOMAIN INVALIDATIONS}
  /\ calls \in [Calls -> Running]
  /\ page \in {"shown", "left"}

\* After a mutation succeeded, the list it was made in (after a rollback the
\* list of releases too) never rests on an answer read before the mutation,
\* whatever polls, events and other mutations were in flight: queries.ts "Force
\* the next refresh to surface the controller's response".
ReadYourWrites ==
  \A k \in Keys : q[k].fetch = "idle" /\ ~q[k].failed => owed[k] <= Shown(k)

\* Whatever the event stream loses and whichever mutations fail half-way, what
\* a shown list or detail tab holds catches up with the server, unless it is
\* closed or the session ends first.
EventuallyFresh ==
  \A k \in Keys : \A v \in 0..MaxVersion :
    Polled(k) /\ k \in mounted /\ truth[k] = v
      ~> (Shown(k) >= v /\ q[k].data # NoData) \/ k \notin mounted
=============================================================================
