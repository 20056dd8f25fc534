SPECIFICATION FairSpec
CONSTANTS
  Sheets = {s1}
  Requests = {r1, r2}
  Workers = {w1, w2}
  Calls <- UpdateOnly
  MaxDebug = 1
  NoSheet = NoSheet
  NoRequest = NoRequest
PROPERTIES RequestsFinish
CHECK_DEADLOCK FALSE
