SPECIFICATION MemberSpec
CONSTANTS
  Members = {p1, p2}
  Refreshes = {u1}
  MinRows = 2
  StaleAfter = 2
  Flight = 1
  LastTime = 3
PROPERTIES
  MissedOnceKept
CHECK_DEADLOCK FALSE
