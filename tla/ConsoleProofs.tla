---------------------------- MODULE ConsoleProofs ----------------------------
(***************************************************************************)
(* Proofs about Console: any applications, clusters, pages, pods and       *)
(* containers.                                                             *)
(***************************************************************************)
EXTENDS Console, TLAPS

\* The clusters known; the preferences are a record of the right shape.
ClusterInv ==
  /\ prefs \in Prefs
  /\ clusters \in Seq(Clusters)
  /\ ClusterValid

\* As long as the drawer is open the effect remembers the row that opened it, if
\* that row is still there.
FocusInv ==
  /\ listed \subseteq Apps
  /\ openApp \in Apps \cup {NoApp}
  /\ opener \in listed \cup {"gone"}
  /\ openApp # NoApp /\ opener # "gone" => previous = opener

\* The EventSource streams what is picked, or nothing.
StreamInv ==
  /\ es \in {Nothing, url}
  /\ PickedOnly

-----------------------------------------------------------------------------
(* The chosen cluster *)

LEMMA ClusterInitInv == ConsoleInit => ClusterInv
BY DEF ConsoleInit, ShellInit, ClusterInv, ClusterValid, Prefs

LEMMA ClusterStepInv == ClusterInv /\ [ConsoleNext]_consoleVars => ClusterInv'
<1> SUFFICES ASSUME ClusterInv, [ConsoleNext]_consoleVars PROVE ClusterInv'
  OBVIOUS
<1> USE DEF ClusterInv, ClusterValid, Prefs
<1>1. CASE UNCHANGED <<prefs, clusters>>
  BY <1>1
<1>2. ASSUME NEW page \in PageIds, setPage(page), clusters' = clusters PROVE ClusterInv'
  BY <1>2 DEF setPage, update
<1>3. ASSUME NEW c \in Clusters, pickCluster(c) PROVE ClusterInv'
  BY <1>3, ShellAssumption DEF ShellAssumption, pickCluster
<1>4. ASSUME NEW list \in Seq(Clusters), ClustersAnswer(list) PROVE ClusterInv'
  <2>1. CASE list # <<>> /\ prefs.clusterId \notin {list[i] : i \in DOMAIN list}
    <3>1. 1 \in DOMAIN list /\ list[1] \in Clusters
      BY <2>1
    <3> QED BY <1>4, <2>1, <3>1 DEF ClustersAnswer, stillValid, update
  <2>2. CASE ~ (list # <<>> /\ prefs.clusterId \notin {list[i] : i \in DOMAIN list})
    BY <1>4, <2>2 DEF ClustersAnswer, stillValid
  <2> QED BY <2>1, <2>2
<1>5. CASE Reload
  BY <1>5 DEF Reload
<1>6. Lists \subseteq Seq(Clusters)
  BY ShellAssumption DEF ShellAssumption
<1>7. CASE ShellStep
  BY <1>1, <1>2, <1>3, <1>4, <1>5, <1>6, <1>7
     DEF ShellStep, onNav, AppsAnswer, onClose, TogglePalette, InPalette, Escape, Choose,
         setPreference, MoveFocus, onOpen
<1> QED BY <1>1, <1>7 DEF ConsoleNext, InDrawer, consoleVars, shellVars

\* The chosen cluster is one of those that are listed, for any preferences the
\* storage may hold and any coming and going of clusters.
THEOREM ConsoleClusterValid == ConsoleSpec => []ClusterValid
<1>1. ClusterInv => ClusterValid
  BY DEF ClusterInv
<1> QED BY <1>1, ClusterInitInv, ClusterStepInv, PTL DEF ConsoleSpec

-----------------------------------------------------------------------------
(* The focus *)

LEMMA FocusInitInv == ConsoleInit => FocusInv
BY DEF ConsoleInit, ShellInit, FocusInv

\* Whether or not App renders, the effect ends up remembering a row it remembered
\* before, and gives it the focus when the drawer closes.
LEMMA EffectRemembers ==
  ASSUME FocusInv, openApp # NoApp, listed' \subseteq Apps, NEW f,
         DrawerEffect(f) \/ (openApp' # NoApp /\ NoEffect(f)), opener \in listed'
  PROVE  IF openApp' = NoApp THEN focus' = opener ELSE previous' = opener
<1>1. opener # "gone" /\ previous = opener
  BY ShellAssumption DEF ShellAssumption, Others, FocusInv
<1>2. opener \in Present /\ Kept(opener) = opener /\ Refocus(opener, Left(f)) = opener
  BY DEF Present, Kept, Refocus
<1> QED BY <1>1, <1>2 DEF DrawerEffect, NoEffect

\* What every step of the frame does to the drawer and its row.
LEMMA FrameStep ==
  ASSUME FocusInv, listed' \subseteq Apps, openApp' \in Apps \cup {NoApp}, NEW f,
         DrawerEffect(f) \/ (openApp' = openApp /\ NoEffect(f)), OpenerStays
  PROVE  /\ FocusInv'
         /\ openApp # NoApp /\ openApp' = NoApp /\ opener \in listed' => focus' = opener
<1>1. opener' \in listed' \cup {"gone"}
  <2>1. CASE opener' = "gone"
    BY <2>1
  <2>2. CASE opener' # "gone"
    <3>1. opener' = opener /\ opener \in Present
      BY <2>2 DEF OpenerStays, Kept
    <3>2. opener \in Apps
      BY <2>2, <3>1 DEF FocusInv
    <3> QED BY <3>1, <3>2, ShellAssumption DEF Present, ShellAssumption, Others, Drawer
  <2> QED BY <2>1, <2>2
<1>2. openApp # NoApp /\ opener \in listed' =>
        IF openApp' = NoApp THEN focus' = opener ELSE previous' = opener
  BY EffectRemembers
<1>3. opener' # "gone" => opener' = opener /\ openApp # NoApp /\ openApp' # NoApp
  BY DEF OpenerStays, Kept
<1> QED BY <1>1, <1>2, <1>3 DEF FocusInv

LEMMA FocusStepInv ==
  FocusInv /\ [ConsoleNext]_consoleVars =>
    /\ FocusInv'
    /\ openApp # NoApp /\ openApp' = NoApp /\ opener \in listed' => focus' = opener
<1> DEFINE Good ==
      /\ FocusInv'
      /\ openApp # NoApp /\ openApp' = NoApp /\ opener \in listed' => focus' = opener
<1> SUFFICES ASSUME FocusInv, [ConsoleNext]_consoleVars PROVE Good
  OBVIOUS
<1>1. CASE UNCHANGED <<listed, openApp, opener, previous>>
  BY <1>1 DEF FocusInv
<1>2. ASSUME listed' \subseteq Apps, openApp' \in Apps \cup {NoApp}, NEW f,
             DrawerEffect(f) \/ (openApp' = openApp /\ NoEffect(f)), OpenerStays
      PROVE  Good
  BY <1>2, FrameStep
<1> HIDE DEF Good
<1>3. \A page : setPage(page) => listed' \subseteq Apps
  BY DEF setPage, FocusInv
<1>4. listed \subseteq Apps /\ openApp \in Apps \cup {NoApp}
  BY DEF FocusInv
<1>5. ASSUME NEW page \in PageIds, onNav(page) PROVE Good
  BY <1>2, <1>3, <1>4, <1>5 DEF onNav
<1>6. ASSUME NEW c \in Clusters, pickCluster(c) PROVE Good
  BY <1>2, <1>4, <1>6 DEF pickCluster
<1>7. ASSUME NEW list, ClustersAnswer(list) PROVE Good
  BY <1>2, <1>4, <1>7 DEF ClustersAnswer
<1>8. CASE AppsAnswer
  BY <1>2, <1>4, <1>8 DEF AppsAnswer
<1>9. CASE onClose
  BY <1>2, <1>4, <1>9 DEF onClose
<1>10. CASE TogglePalette \/ InPalette \/ setPreference
  BY <1>2, <1>4, <1>10 DEF TogglePalette, InPalette, setPreference
<1>11. CASE Escape
  BY <1>2, <1>4, <1>11 DEF Escape
<1>12. CASE Choose
  BY <1>2, <1>3, <1>4, <1>12 DEF Choose
<1>13. CASE MoveFocus
  BY <1>1, <1>13 DEF MoveFocus
<1>14. CASE Reload
  BY <1>4, <1>14 DEF Reload, FocusInv, Good
<1>15. ASSUME NEW a \in Apps, onOpen(a) PROVE Good
  <2>1. /\ openApp = NoApp /\ openApp' = a /\ a \in listed /\ listed' = listed
        /\ opener' = a /\ DrawerEffect(a)
    BY <1>15 DEF onOpen
  <2>2. a \in Present /\ Left(a) = a
    BY <2>1 DEF Present, Left
  <2>3. previous' = a
    BY <2>1, <2>2, ShellAssumption DEF ShellAssumption, DrawerEffect
  <2> QED BY <1>4, <2>1, <2>3 DEF FocusInv, Good
<1>16. CASE ShellStep
  BY <1>5, <1>6, <1>7, <1>8, <1>9, <1>10, <1>11, <1>12, <1>13, <1>14, <1>15, <1>16
     DEF ShellStep
<1> QED BY <1>1, <1>16 DEF ConsoleNext, InDrawer, consoleVars, shellVars

\* Closing the drawer gives the focus back to the row that opened it, however
\* often the effect was run again and whatever took the focus meanwhile.
THEOREM ConsoleFocusReturns == ConsoleSpec => FocusReturns
<1> DEFINE Returned == openApp # NoApp /\ openApp' = NoApp /\ opener \in listed' => focus' = opener
<1>1. FocusInv /\ [ConsoleNext]_consoleVars => FocusInv'
  BY FocusStepInv
<1>2. FocusInv /\ [ConsoleNext]_consoleVars => [Returned]_consoleVars
  BY FocusStepInv
<1> QED BY <1>1, <1>2, FocusInitInv, PTL DEF ConsoleSpec, FocusReturns

-----------------------------------------------------------------------------
(* The palette *)

\* What the palette may be.
PaletteInv ==
  palette = NoPalette \/ \E n \in 0..MaxItems : \E c \in Nat : palette = Listing(n, c)

\* Clamping twice is clamping once, and an arrow key never leaves the list.
LEMMA ListingIsClamped ==
  ASSUME NEW n \in Nat, NEW c \in Nat
  PROVE  /\ n > 0 => Listing(n, c).cursor <= Listing(n, c).found
         /\ Listing(n, c).found = n /\ Listing(n, c).cursor \in Nat
BY DEF Listing, Clamped

LEMMA PaletteStepInv == PaletteInv /\ [ConsoleNext]_consoleVars => PaletteInv'
<1> SUFFICES ASSUME PaletteInv, [ConsoleNext]_consoleVars PROVE PaletteInv'
  OBVIOUS
<1> USE DEF PaletteInv
<1>1. CASE palette' \in {palette, NoPalette}
  BY <1>1 DEF Listing, Clamped
<1>2. ASSUME palette' # NoPalette, palette' # palette, ShellStep
      PROVE  \/ Relist
             \/ InPalette
             \/ palette = NoPalette /\ \E n \in 1..MaxItems : palette' = Listing(n, 1)
  BY <1>2 DEF ShellStep, onNav, pickCluster, ClustersAnswer, AppsAnswer, onClose, TogglePalette,
              Escape, Choose, setPreference, MoveFocus, Reload, onOpen
<1>3. CASE palette = NoPalette /\ \E n \in 1..MaxItems : palette' = Listing(n, 1)
  BY <1>3, ShellAssumption DEF ShellAssumption, Listing, Clamped
<1>4. CASE palette # NoPalette /\ (Relist \/ InPalette)
  <2>1. PICK n \in 0..MaxItems, c \in Nat : palette = Listing(n, c)
    BY <1>4
  <2>2. n \in Nat /\ palette.found = n /\ palette.cursor \in Nat
    BY <2>1, ListingIsClamped, ShellAssumption DEF ShellAssumption
  <2>3. ASSUME NEW k \in 0..MaxItems, NEW d \in Nat, palette' = Listing(k, d) PROVE PaletteInv'
    BY <2>3
  <2>4. ArrowDown \in Nat /\ ArrowUp \in Nat /\ 1..palette.found \subseteq Nat
    BY <2>2 DEF ArrowDown, ArrowUp
  <2>5. CASE Relist
    BY <1>4, <2>2, <2>3, <2>5 DEF Relist
  <2>6. CASE InPalette
    BY <2>2, <2>3, <2>4, <2>5, <2>6 DEF InPalette
  <2> QED BY <1>4, <2>5, <2>6
<1>5. Relist /\ palette = NoPalette => palette' = NoPalette
  BY DEF Relist
<1>6. InPalette => palette # NoPalette
  BY DEF InPalette
<1>7. ConsoleNext => ShellStep \/ palette' = palette
  BY DEF ConsoleNext, InDrawer
<1> QED BY <1>1, <1>2, <1>3, <1>4, <1>5, <1>6, <1>7 DEF consoleVars, shellVars

\* The palette's cursor never points behind the last item, for any number of items
\* and however the lists it searches change.
THEOREM ConsoleCursorOnList == ConsoleSpec => []CursorOnList
<1>1. ConsoleInit => PaletteInv
  BY DEF ConsoleInit, ShellInit, PaletteInv
<1>2. PaletteInv => CursorOnList
  BY ListingIsClamped, ShellAssumption DEF PaletteInv, CursorOnList, ShellAssumption
<1> QED BY <1>1, <1>2, PaletteStepInv, PTL DEF ConsoleSpec

-----------------------------------------------------------------------------
(* The live log *)

\* What is streamed is what is picked.
LEMMA UrlIsPicked ==
  ASSUME url # Nothing
  PROVE  /\ pod # Nothing => url.pod = pod
         /\ container # Nothing => url.container = container
BY DEF url, buildStreamURL

LEMMA StreamInitInv == ConsoleInit => StreamInv
BY DEF ConsoleInit, DetailInit, StreamInv, PickedOnly, url, buildStreamURL

\* Steps that leave the lines, and those that drop them.
LEMMA StreamSteps ==
  ASSUME StreamInv, es' \in {Nothing, url'},
         lines' = {} \/ UNCHANGED <<lines, pod, container>>
  PROVE  StreamInv'
BY DEF StreamInv, PickedOnly

LEMMA StreamStepInv == StreamInv /\ [ConsoleNext]_consoleVars => StreamInv'
<1> SUFFICES ASSUME StreamInv, [ConsoleNext]_consoleVars PROVE StreamInv'
  OBVIOUS
<1>1. CASE UNCHANGED detailVars
  BY <1>1 DEF detailVars, StreamInv, PickedOnly, url
<1>2. CASE NoLogs
  BY <1>2, StreamSteps DEF NoLogs
<1>3. Subscribe => es' \in {Nothing, url'}
  BY DEF Subscribe, StreamInv
<1>4. CASE LogsAnswer
  BY <1>3, <1>4, StreamSteps DEF LogsAnswer
<1>5. ASSUME NEW p \in Pods, setPod(p) PROVE StreamInv'
  BY <1>3, <1>5, StreamSteps DEF setPod, clear
<1>6. ASSUME NEW k \in Containers, setContainer(k) PROVE StreamInv'
  BY <1>3, <1>6, StreamSteps DEF setContainer, clear
<1>7. CASE setLive
  BY <1>3, <1>7, StreamSteps DEF setLive, clear
<1>8. CASE append
  <2>1. /\ UNCHANGED <<tab, pod, container, live, data, es>> /\ es # Nothing
    BY <1>8 DEF append
  <2>2. PICK k \in Containers :
          /\ es.container # Nothing => k = es.container
          /\ lines' = lines \cup {[pod |-> es.pod, container |-> k]}
    BY <1>8 DEF append
  <2>3. url' = url /\ es = url /\ url # Nothing
    BY <2>1 DEF url, StreamInv
  <2>4. /\ pod # Nothing => es.pod = pod
        /\ container # Nothing => k = container
    BY <2>2, <2>3, UrlIsPicked
  <2> QED BY <2>1, <2>2, <2>3, <2>4 DEF StreamInv, PickedOnly
<1>9. CASE StreamCloses
  BY <1>9, StreamSteps DEF StreamCloses
<1>10. CASE OtherApp
  BY <1>10, StreamSteps DEF OtherApp
<1>11. CASE DrawerStep
  BY <1>1, <1>2, <1>10, <1>11 DEF DrawerStep
<1>12. CASE InDrawer
  BY <1>2, <1>4, <1>5, <1>6, <1>7, <1>8, <1>9, <1>12 DEF InDrawer, DetailStep, setTab
<1>13. CASE UNCHANGED consoleVars
  BY <1>1, <1>13 DEF consoleVars
<1> QED BY <1>11, <1>12, <1>13 DEF ConsoleNext

\* The live buffer never mixes in the lines of a pod or a container that the user
\* has not picked.
THEOREM ConsolePickedOnly == ConsoleSpec => []PickedOnly
<1>1. StreamInv => PickedOnly
  BY DEF StreamInv
<1> QED BY <1>1, StreamInitInv, StreamStepInv, PTL DEF ConsoleSpec
=============================================================================
