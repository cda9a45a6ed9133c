SPECIFICATION Spec
CONSTANTS
  Keyboards <- MCKeyboards
  InternalSchemas <- MCInternal
  MaxName = 3
  MaxAppend = 4
INVARIANTS TokensTile BlocksAreStatements OwnStatement ScannersAgree ObjectAtCursor NameUnderCursor NodesLeadBack SearchFindsCell
CHECK_DEADLOCK FALSE
