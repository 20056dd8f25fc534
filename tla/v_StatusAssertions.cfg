SPECIFICATION Spec
CONSTANTS
  Sheets = {s1}
  Requests = {r1, r2}
  Workers = {w1, w2}
  Calls <- Direct2
  MaxDebug = 1
  NoSheet = NoSheet
  NoRequest = NoRequest
INVARIANTS StatusAssertions
CHECK_DEADLOCK FALSE
