CONSTANTS
  w1 = w1  w2 = w2  w3 = w3  c1 = c1  c2 = c2  a1 = a1  a2 = a2  b1 = b1
  Window = {w1, w2, w3}
  Conn = {c1, c2}
  Tab = {a1, a2, b1}
  conn <- ConnOf
  of <- OfTab
  maxEdits = 1
  maxMessages = 1
  folder = folder
  undefined = undefined
SPECIFICATION LiveSerialSpec
 
PROPERTY SavesReachWindows
CONSTRAINTS ThirdWindow FolderClicks
VIEW SerialView
CHECK_DEADLOCK FALSE
