SPECIFICATION Spec
CONSTANTS
  a = a
  b = b
  d = d
  e = e
  Name = {a, b}
  DB = {d, e}
  databases <- MCdatabases
  Listings <- MCListings
  Tries = 2
  Nothing = Nothing
  MaxMoves = 1
  MaxJobs = 3
INVARIANT SpinnerServes
INVARIANT PanelAgrees
PROPERTY AnswersKeepTrees
PROPERTY LoadsEnd
CHECK_DEADLOCK FALSE
