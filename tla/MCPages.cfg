SPECIFICATION PagesSpec
CONSTANTS
  Rows = {r1, r2}
  Calls = {c1, c2}
  Texts <- MCTexts
  Table = Table
  NoCall = NoCall
SYMMETRY MCSymmetry
INVARIANTS
  BusyIsInFlight
PROPERTIES
  SelectionSurvives
