-------------------------------- MODULE Shell --------------------------------
(***************************************************************************)
(* The frame around the pages: preferences, the chosen cluster, the        *)
(* command palette and which application's drawer is open (App.tsx,        *)
(* Topbar.tsx, Sidebar.tsx, Fleet.tsx), with the keyboard focus, which the *)
(* drawer's effect moves (AppDetail.tsx).                                  *)
(*                                                                         *)
(* The drawer gets a new onClose whenever App renders, and its effect      *)
(* depends on it: each such render runs the effect's clean-up and the      *)
(* effect again.                                                           *)
(***************************************************************************)
EXTENDS Naturals, Sequences

CONSTANTS
  Apps,         \* applications
  Clusters,     \* cluster ids
  Lists,        \* what GET clusters may answer, as sequences of ids
  PageIds,      \* pages the instance visits
  MaxItems,     \* most items the palette lists: slice(0, 50)
  NoApp, NoCluster, NoPalette

\* Elements of the document that are no row.
Others == {"close", "inside", "input", "body", "gone"}

ASSUME ShellAssumption ==
  /\ Apps \cap Others = {}
  /\ NoApp \notin Apps
  /\ {"fleet", "apps"} \subseteq PageIds
  /\ Lists \subseteq Seq(Clusters)
  /\ MaxItems \in Nat
  /\ NoPalette \notin [found: 0..MaxItems, cursor: 0..MaxItems + 1]

VARIABLES
  prefs,      \* page and clusterId; theme, density and layout are left out
  clusters,   \* ids of the clusters, as last answered
  listed,     \* applications that have a row on the page shown
  openApp,    \* the application of the drawer
  palette,    \* the command palette: how many items it lists, and its cursor
  focus,      \* document.activeElement
  previous,   \* previouslyFocused of the drawer's effect
  opener      \* the row that opened the drawer, while it exists (history)

shellVars == <<prefs, clusters, listed, openApp, palette, focus,
               previous, opener>>

AppPages == {"apps", "dependencies", "mobile"}

\* Elements that take the focus: the row of an application, named by it; the
\* drawer's close button and what else it holds; the palette's "input"; the
\* "body" when nothing has it.  One that was removed is "gone".
Drawer == {"close", "inside"}

\* The elements there after a step.
Present == listed'
             \cup (IF openApp' = NoApp THEN {} ELSE Drawer)
             \cup (IF palette' = NoPalette THEN {} ELSE {"input"})

Kept(e) == IF e \in Present THEN e ELSE "gone"

\* Where the focus is when the elements that went away have lost it.
Left(f) == IF f \in Present THEN f ELSE "body"

\* Mutant: the clean-up does not give the focus back.
RefocusNothing(e, f) == f

\* e.focus(): nothing happens if e was removed, or cannot be focused.
Refocus(e, f) == IF e \in Present THEN e ELSE f

\* App has rendered; f has the focus.  The clean-up of the drawer's effect, if
\* the drawer was there, and the effect, if it is there now.
DrawerEffect(f) ==
  LET cleaned == IF openApp = NoApp THEN Left(f) ELSE Refocus(Kept(previous), Left(f)) IN
  IF openApp' = NoApp
  THEN focus' = cleaned /\ previous' = "gone"
  ELSE previous' = cleaned /\ focus' = "close"

\* Something else than App has rendered.
NoEffect(f) == focus' = Left(f) /\ previous' = Kept(previous)

OpenerStays == opener' = IF NoApp \in {openApp, openApp'} THEN "gone" ELSE Kept(opener)

-----------------------------------------------------------------------------
\* What the browser's storage may hold: the defaults where it was never written
\* or cannot be, else what this or another tab wrote last.
Prefs == [page: PageIds, clusterId: Clusters \cup {NoCluster}]

ShellInit ==
  /\ prefs \in Prefs
  /\ clusters = <<>> /\ listed = {}
  /\ openApp = NoApp /\ palette = NoPalette
  /\ focus = "body" /\ previous = "gone" /\ opener = "gone"

update(key, value) == prefs' = [prefs EXCEPT ![key] = value]

\* Another page: its rows are its own.
setPage(page) ==
  /\ update("page", page)
  /\ listed' = IF page = prefs.page THEN listed ELSE {}

\* A link of the side bar.
onNav(page) ==
  /\ setPage(page)
  /\ UNCHANGED <<clusters, openApp, palette>>
  /\ DrawerEffect(focus) /\ OpenerStays

\* The theme, the density, the side bar's mode or the layout of the Fleet page is
\* changed: App renders, nothing else here does.
setPreference ==
  /\ UNCHANGED <<prefs, clusters, listed, openApp, palette>>
  /\ DrawerEffect(focus) /\ OpenerStays

\* A card of the Fleet page.
pickCluster(c) ==
  /\ prefs.page = "fleet" /\ c \in {clusters[i] : i \in DOMAIN clusters}
  /\ prefs' = [page |-> "apps", clusterId |-> c] /\ listed' = {}
  /\ UNCHANGED <<clusters, openApp, palette>>
  /\ DrawerEffect(focus) /\ OpenerStays

\* Mutant: any choice is taken for one of the clusters.
stillValidOnce(ids) == prefs.clusterId # NoCluster

stillValid(ids) == prefs.clusterId \in ids

\* Mutant: the cursor stays where it was.
Unclamped(cursor, n) == cursor

\* Positions count from 1; 0 is the -1 to which an arrow key leads in an empty
\* list.  "Clamp cursor whenever the visible list shrinks."
Clamped(cursor, n) == IF cursor <= n THEN cursor ELSE IF n = 0 THEN 1 ELSE n

Listing(n, cursor) == [found |-> n, cursor |-> Clamped(cursor, n)]

\* A list the palette searches is answered: what is typed finds other items.
Relist ==
  IF palette = NoPalette THEN palette' = NoPalette
  ELSE \E n \in 0..MaxItems : palette' = Listing(n, palette.cursor)

\* GET /clusters is answered with other clusters.  The effect on the joined ids
\* replaces a choice that is gone, or none, by the first of the list.
\* Render and effect are one step here, as everywhere in this module.
ClustersAnswer(list) ==
  LET ids == {list[i] : i \in DOMAIN list} IN
  /\ list # clusters /\ clusters' = list
  /\ IF list # <<>> /\ ~stillValid(ids)
     THEN update("clusterId", list[1])
     ELSE UNCHANGED prefs
  /\ Relist
  /\ UNCHANGED <<listed, openApp>>
  /\ DrawerEffect(focus) /\ OpenerStays

\* The list of applications is answered: the rows of the page change.
AppsAnswer ==
  /\ prefs.page \in AppPages
  /\ \E a \in Apps : listed' \in {listed \cup {a}, listed \ {a}}
  /\ Relist
  /\ UNCHANGED <<prefs, clusters, openApp>>
  /\ NoEffect(focus) /\ OpenerStays

\* A click or Enter on a row: it has the focus, unless the scrim of an open
\* drawer covers it.
onOpen(a) ==
  /\ openApp = NoApp /\ palette = NoPalette /\ a \in listed
  /\ openApp' = a
  /\ UNCHANGED <<prefs, clusters, listed, palette>>
  /\ DrawerEffect(a) /\ opener' = a

onClose ==
  /\ openApp # NoApp
  /\ openApp' = NoApp
  /\ UNCHANGED <<prefs, clusters, listed, palette>>
  /\ DrawerEffect(focus) /\ OpenerStays

\* Cmd-K, a click into the search field, or one beside the palette.  An opened
\* palette lists the pages and its effect takes the focus.
TogglePalette ==
  /\ IF palette = NoPalette
     THEN \E n \in 1..MaxItems : palette' = Listing(n, 1)
     ELSE palette' = NoPalette
  /\ UNCHANGED <<prefs, clusters, listed, openApp>>
  /\ NoEffect(IF palette' = NoPalette THEN focus ELSE "input") /\ OpenerStays

ArrowDown == IF palette.cursor < palette.found THEN palette.cursor + 1 ELSE palette.found

ArrowUp == IF palette.cursor <= 1 THEN 1 ELSE palette.cursor - 1

\* In the palette: a text is typed, a list it searches is answered, an arrow key
\* is pressed, or the pointer comes to an item.
InPalette ==
  /\ palette # NoPalette
  /\ \/ focus = "input" /\ \E n \in 0..MaxItems : palette' = Listing(n, 1)
     \/ Relist
     \/ focus = "input" /\ palette' = Listing(palette.found, ArrowDown)
     \/ focus = "input" /\ palette' = Listing(palette.found, ArrowUp)
     \/ \E i \in 1..palette.found : palette' = Listing(palette.found, i)
  /\ UNCHANGED <<prefs, clusters, listed, openApp>>
  /\ NoEffect(focus) /\ OpenerStays

\* Escape in the palette's input closes the palette, and the key event goes on
\* to the window, where it closes the drawer.
Escape ==
  /\ focus = "input" \/ openApp # NoApp
  /\ palette' = (IF focus = "input" THEN NoPalette ELSE palette) /\ openApp' = NoApp
  /\ UNCHANGED <<prefs, clusters, listed>>
  /\ (IF openApp = NoApp THEN NoEffect(focus) ELSE DrawerEffect(focus))
  /\ OpenerStays

\* Enter or a click on an item of the palette: a page (Fleet for a cluster,
\* Sources for a source) or an application, over whatever drawer is open; where
\* that one is open already React may leave App as it is.
Choose ==
  /\ palette # NoPalette /\ palette.cursor \in 1..palette.found
  /\ palette' = NoPalette
  /\ \/ /\ \E page \in PageIds \ {"dependencies"} : setPage(page)
        /\ openApp' = openApp
        /\ DrawerEffect(focus)
     \/ /\ openApp' \in Apps /\ UNCHANGED <<prefs, listed>>
        /\ \/ DrawerEffect(focus)
           \/ openApp' = openApp /\ NoEffect(focus)
  /\ UNCHANGED clusters
  /\ OpenerStays

\* Tab or a click moves the focus to something that is there.
MoveFocus ==
  /\ focus' \in (IF palette # NoPalette THEN {"input"} ELSE IF openApp # NoApp THEN Drawer
                 ELSE listed)
  /\ UNCHANGED <<prefs, clusters, listed, openApp, palette, previous, opener>>

\* The page is loaded anew.
Reload ==
  /\ prefs' \in Prefs
  /\ clusters' = <<>> /\ listed' = {}
  /\ openApp' = NoApp /\ palette' = NoPalette
  /\ focus' = "body" /\ previous' = "gone" /\ opener' = "gone"
=============================================================================
