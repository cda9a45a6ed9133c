CONSTANTS
  MaxTab = 2
  MaxResult = 3
  MaxQuery = 2
  numResults = 1
  Sessions = {}
SPECIFICATION LiveSteadySpec
INVARIANTS OwnAnswers SpinnerRuns TabSpinnerRuns ForeignOnlyAfterError
PROPERTIES BoardSafety SpinnersStop
CONSTRAINT FewAtOnce
CHECK_DEADLOCK FALSE
