CONSTANTS
  w1 = w1  w2 = w2  c1 = c1  c2 = c2  a1 = a1  a2 = a2  a3 = a3  b1 = b1
  Window = {w1, w2}
  Conn = {c1, c2}
  Tab = {a1, a2, b1}
  conn <- ConnOf
  of <- OfTab
  maxEdits = 1
  maxMessages = 1
  folder = folder
  undefined = undefined
SPECIFICATION CalmSpec
INVARIANTS TypeOK  
PROPERTY OwnWorksheetsKept
CONSTRAINTS FewInFlight FolderClicks
VIEW CalmView
CHECK_DEADLOCK FALSE
