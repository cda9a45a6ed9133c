CONSTANTS
  Name = {n1, n2, n3}
  Schema = {s1}
  Load = {l1, l2}
  cap = 2
  none = none
SPECIFICATION Spec
INVARIANTS TypeOK PositionInHistory NoRepeats
PROPERTY BackStaysPossible
SYMMETRY Symmetry
CHECK_DEADLOCK FALSE
