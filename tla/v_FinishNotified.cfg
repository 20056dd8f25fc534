SPECIFICATION FairSpec
CONSTANTS
  Sheets = {s1}
  Requests = {r1, r2}
  Workers = {w1, w2}
  Calls <- Direct
  MaxDebug = 1
  NoSheet = NoSheet
  NoRequest = NoRequest
PROPERTIES FinishNotified
CHECK_DEADLOCK FALSE
