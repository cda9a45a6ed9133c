\* Two overlapping clients of the file, two statements of one result, two servers.
CONSTANTS
  c1 = c1
  c2 = c2
  Client <- Clients
  MaxActs = 4
  MaxFileActs = 3
  MaxServer = 2
  MaxQuery = 2
  MaxBody = 3
  MaxNow = 1
SPECIFICATION Spec
SYMMETRY Symmetry
INVARIANTS
  RowsOfTheirText
  SpinnerHasItsStatement
  HistoryTellsTheEnd
  OnlyForgottenServersStay
PROPERTY NoLostUpdate
CONSTRAINT LostAlone
CHECK_DEADLOCK FALSE
