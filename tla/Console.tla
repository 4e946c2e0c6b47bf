------------------------------- MODULE Console -------------------------------
(***************************************************************************)
(* The frame and the drawer together: opening, closing and replacing the   *)
(* application of the drawer is a step of both.                            *)
(***************************************************************************)
EXTENDS Naturals, Shell, AppDetail

consoleVars == <<shellVars, detailVars>>

ConsoleInit == ShellInit /\ DetailInit

\* What becomes of the drawer's state when App renders: it is new, gone, kept,
\* or kept for another application.
DrawerStep ==
  IF NoApp \in {openApp, openApp'}
  THEN IF openApp = openApp' THEN UNCHANGED detailVars
       ELSE tab' = "overview" /\ NoLogs
  ELSE IF openApp = openApp' THEN UNCHANGED detailVars ELSE OtherApp

ShellStep ==
  \/ \E page \in PageIds : onNav(page)
  \/ \E c \in Clusters : pickCluster(c)
  \/ \E list \in Lists : ClustersAnswer(list)
  \/ AppsAnswer \/ onClose \/ TogglePalette \/ InPalette \/ Escape \/ Choose
  \/ setPreference \/ MoveFocus \/ Reload
  \/ \E a \in Apps : onOpen(a)

\* The user works in the drawer: what is clicked has the focus.
InDrawer ==
  /\ openApp # NoApp
  /\ \/ setTab /\ palette = NoPalette /\ focus' = "inside"
     \/ DetailStep /\ focus' = focus
  /\ UNCHANGED <<prefs, clusters, listed, openApp, palette, previous, opener>>

ConsoleNext ==
  \/ ShellStep /\ DrawerStep
  \/ InDrawer

ConsoleSpec == ConsoleInit /\ [][ConsoleNext]_consoleVars

-----------------------------------------------------------------------------
\* As soon as clusters are known the chosen one is among them, whatever the
\* storage held, whichever clusters leave or join, and also after a reload.
ClusterValid ==
  clusters # <<>> => prefs.clusterId \in {clusters[i] : i \in DOMAIN clusters}

\* However the answers of three lists shrink what the palette has found, its cursor
\* never points behind the last item, where Enter would do nothing.
CursorOnList ==
  palette # NoPalette /\ palette.found > 0 => palette.cursor <= palette.found

\* However often App rendered meanwhile, and whatever else was opened in the
\* drawer, closing it gives the focus back to the row that opened it, if that row
\* was there all the time (AppDetail.tsx "restore it to the row that opened it on
\* close").
FocusReturns ==
  [][openApp # NoApp /\ openApp' = NoApp /\ opener \in listed' => focus' = opener]_consoleVars

\* Once the user has picked a pod or a container, the live buffer holds lines of
\* no other one, whatever the polls answer and however streams end, also when the
\* drawer goes over to another application.
PickedOnly ==
  \A l \in lines : /\ pod # Nothing => l.pod = pod
                   /\ container # Nothing => l.container = container
=============================================================================
