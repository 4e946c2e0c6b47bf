SPECIFICATION DepSpec
CONSTANTS
  AllApps <- MCApps
  AllSources <- MCSources
  Searches <- MCSearches
  NoKind = NoKind
  NoHover = NoHover
INVARIANTS
  EveryNodeOnce
  ShownIsConnected
  HighlightAgrees
