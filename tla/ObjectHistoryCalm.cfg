CONSTANTS
  Name = {n1, n2}
  Schema = {s1, s2}
  Load = {l1}
  cap = 2
  none = none
SPECIFICATION CalmSpec
INVARIANTS ColumnsMatch StatementsFit
PROPERTY ShowsCurrent
SYMMETRY Symmetry
CHECK_DEADLOCK FALSE
