\* Clients that make requests directly, read documents and never update().
SPECIFICATION FairSpec
CONSTANTS
  Sheets = {s1}
  Requests = {r1, r2}
  Workers = {w1, w2}
  Calls <- NoUpdates
  MaxDebug = 1
  NoSheet = NoSheet
  NoRequest = NoRequest
PROPERTIES RequestsFinish DocumentReturned ShutdownCompletes DebugDelivered
