\* The same instance.
SPECIFICATION Spec
CONSTANTS
  Files = {f1, f2}
  f1 = f1
  f2 = f2
  Ids = {a, b}
  a = a
  b = b
  PluginId <- TwoIds
  NoId = NoId
  Objects = {o1, o2}
  Null = Null
  MaxLoads = 3
  Entries <- ThreeEntries
INVARIANT FoundById
CHECK_DEADLOCK FALSE
