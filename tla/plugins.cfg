\* Two files, two handles on one library, three entries in the window.  The user may stop.
SPECIFICATION Spec
CONSTANTS
  Files = {f1, f2}
  f1 = f1
  f2 = f2
  Ids = {a, b}
  a = a
  b = b
  PluginId <- TwoIds
  NoId = NoId
  Objects = {o1, o2}
  Null = Null
  MaxLoads = 3
  Entries <- ThreeEntries
INVARIANTS TypeOK ObjectsHeld CodeLoaded ShownListens
PROPERTIES TableImplemented RadioImplemented
CHECK_DEADLOCK FALSE
