------------------------------ MODULE AppDetail ------------------------------
(***************************************************************************)
(* The tabs of the application drawer and the live log of its Logs tab     *)
(* (web/src/pages/AppDetail.tsx).  A line is abstracted to the pod and the *)
(* container it came from.  The drawer has no key: when another            *)
(* application is opened over it, everything here stays.                   *)
(***************************************************************************)
CONSTANTS
  Pods,         \* pods of the applications
  Containers,   \* containers of each pod
  Tabs,         \* tabs the instance opens
  Nothing       \* undefined or null

VARIABLES
  tab,        \* the drawer's tab
  pod,        \* the pod the user picked, if any
  container,  \* the container the user picked, if any
  live,       \* whether lines are streamed
  data,       \* last answer for the pod and container asked for
  es,         \* what the EventSource of useLogStream streams
  lines       \* where the lines of the buffer came from

detailVars == <<tab, pod, container, live, data, es, lines>>

\* What GET logs answers: a pod of the application and its container, or nothing
\* where it has no pod, or not the one asked for.
NoPod == [selected |-> Nothing, container |-> Nothing]
Answers == [selected: Pods, container: Containers] \cup {NoPod}

AnswersFor(p, k) ==
  {a \in Answers : a.selected \in Pods => /\ p \in {a.selected, Nothing}
                                         /\ k \in {a.container, Nothing}}

\* What the query for another pod, container or application has: nothing yet, or
\* what the cache kept.
Cached(p, k) == {Nothing} \cup AnswersFor(p, k)

\* buildStreamURL, for what is picked or else what the server selected.
buildStreamURL(on, picked, ofPod, answer) ==
  LET activePod == IF picked # Nothing THEN picked
                   ELSE IF answer # Nothing THEN answer.selected ELSE Nothing
      activeContainer == IF ofPod # Nothing THEN ofPod
                         ELSE IF answer # Nothing THEN answer.container ELSE Nothing
  IN  IF on /\ activePod # Nothing
      THEN [pod |-> activePod, container |-> activeContainer] ELSE Nothing

url == buildStreamURL(live, pod, container, data)

\* The effect of useLogStream: another URL, another EventSource.
Subscribe == es' = IF url' = url THEN es ELSE url'

\* Mutant: the state is emptied and the ref the next line is appended to is not.
clearNothing == lines' = lines

clear == lines' = {}

LogsOpen == tab = "logs"

-----------------------------------------------------------------------------
\* useState of a tab just mounted.
NoLogs ==
  /\ pod' = Nothing /\ container' = Nothing /\ live' = FALSE
  /\ data' = Nothing /\ es' = Nothing /\ lines' = {}

DetailInit ==
  /\ tab = "overview"
  /\ pod = Nothing /\ container = Nothing /\ live = FALSE
  /\ data = Nothing /\ es = Nothing /\ lines = {}

\* A click, or an arrow key: every tab is somewhere along the arrows.
setTab ==
  /\ tab' \in Tabs \ {tab}
  /\ NoLogs

\* GET logs, at first and at every poll.  Where nothing is picked the server
\* selects; the stream follows it and the lines stay.
LogsAnswer ==
  /\ LogsOpen
  /\ data' \in AnswersFor(pod, container)
  /\ UNCHANGED <<tab, pod, container, live, lines>>
  /\ Subscribe

\* The pod's <select>: what was streamed is dropped and the container is no longer
\* picked.
setPod(p) ==
  /\ LogsOpen /\ data # Nothing
  /\ pod' = p /\ container' = Nothing
  /\ data' \in (IF p = pod /\ container = Nothing THEN {data} ELSE Cached(p, Nothing))
  /\ clear
  /\ UNCHANGED <<tab, live>>
  /\ Subscribe

\* The container's <select>, shown for a pod with several.
setContainer(k) ==
  /\ LogsOpen /\ data # Nothing
  /\ container' = k
  /\ data' \in (IF k = container THEN {data} ELSE Cached(pod, k))
  /\ clear
  /\ UNCHANGED <<tab, pod, live>>
  /\ Subscribe

\* The check box, which needs a pod to be there.  The effect on `live` drops
\* the lines when it is switched off.
setLive ==
  /\ LogsOpen /\ data # Nothing
  /\ live' = ~live
  /\ IF live' THEN lines' = lines ELSE clear
  /\ UNCHANGED <<tab, pod, container, data>>
  /\ Subscribe

\* A message: a line of the container asked for, of any if none was.
append ==
  /\ es # Nothing
  /\ \E k \in Containers :
       /\ es.container # Nothing => k = es.container
       /\ lines' = lines \cup {[pod |-> es.pod, container |-> k]}
  /\ UNCHANGED <<tab, pod, container, live, data, es>>

\* The server ends the stream; after a mere network error the browser
\* reconnects to the same URL.
StreamCloses ==
  /\ es # Nothing /\ es' = Nothing
  /\ UNCHANGED <<tab, pod, container, live, data, lines>>

\* Another application is opened over this one: the queries and the URL are
\* other ones, what was picked and the lines stay.
OtherApp ==
  /\ data' \in Cached(pod, container)
  /\ UNCHANGED <<tab, pod, container, live, lines>>
  /\ es' = url'

DetailStep ==
  \/ LogsAnswer \/ setLive \/ append \/ StreamCloses
  \/ \E p \in Pods : setPod(p)
  \/ \E k \in Containers : setContainer(k)
=============================================================================
