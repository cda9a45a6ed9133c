CONSTANTS
  MaxTab = 1
  MaxResult = 4
  MaxQuery = 2
  numResults = 1
  Sessions = {}
SPECIFICATION Spec
INVARIANT SpinnerRuns
CHECK_DEADLOCK FALSE
