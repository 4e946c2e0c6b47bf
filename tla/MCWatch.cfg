\* One cluster whose client is replaced over and over.
SPECIFICATION FairManagerSpec
CONSTANTS
  Names = {n1}
  Entry = {a, b}
  NoEntry = none
  NoClient = none
  Kinds = {k1}
INVARIANTS
  NoStrayWatcher
  RunningIsLive
PROPERTIES
  ForgottenGoesQuiet
  WatchesCurrentClient
  ChangesAnnounced
  LateCRDAnnounced
  ShutdownStopsWatchers
CHECK_DEADLOCK FALSE
