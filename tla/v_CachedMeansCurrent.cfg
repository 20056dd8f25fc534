SPECIFICATION Spec
CONSTANTS
  Sheets = {s1}
  Requests = {r1, r2}
  Workers = {w1, w2}
  Calls <- CheckOnly
  MaxDebug = 1
  NoSheet = NoSheet
  NoRequest = NoRequest
PROPERTIES CachedMeansCurrent
CHECK_DEADLOCK FALSE
