\* One sheet, two requests, two workers, every call of the client.
SPECIFICATION Spec
CONSTANTS
  Sheets = {s1}
  Requests = {r1, r2}
  Workers = {w1, w2}
  Calls <- AllCalls
  MaxDebug = 2
  NoSheet = NoSheet
  NoRequest = NoRequest
SYMMETRY Symmetric
INVARIANTS TypeOK RequestOnce PopFindsRequest DebugAccounted ErrorExcludesValid SheetExclusive ExitDrained
  HolderAtWork FreeUnlockHasCause UpdateRefusesValid ReclaimNeedsMessage
\* update() hangs its own worker: the program may stop for good.
CHECK_DEADLOCK FALSE
PROPERTIES LifecycleRefined UpdateHangs
