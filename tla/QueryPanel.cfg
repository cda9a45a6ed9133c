CONSTANTS
  MaxTab = 3
  MaxResult = 3
  MaxQuery = 2
  numResults = 1
  Sessions <- Stored
SPECIFICATION Spec
INVARIANTS TypeOK LookupsLand HandlesNeverBehind
PROPERTY CleanupIsOrderly
CONSTRAINT FewAtOnce
CHECK_DEADLOCK FALSE
