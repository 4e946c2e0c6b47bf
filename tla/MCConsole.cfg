SPECIFICATION ConsoleSpec
CONSTANTS
  Apps = {a1, a2}
  Clusters = {k1, k2}
  Lists <- MCLists
  PageIds = {"fleet", "apps"}
  Pods = {p1, p2}
  Containers = {x, y}
  Tabs = {"overview", "logs"}
  NoApp = NoApp
  NoCluster = NoCluster
  NoPalette = NoPalette
  MaxItems = 2
  Nothing = Nothing
INVARIANTS
  ClusterValid
  PickedOnly
  CursorOnList
PROPERTIES
  FocusReturns
SYMMETRY
  MCSymmetry
