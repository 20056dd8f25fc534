\* Two keys with up to two characters, two threads that parse, three documents and two
\* runs.  The client may stop calling at any time.
SPECIFICATION Spec
CONSTANTS
  Keys = {k1, k2}
  Parsers = {w1, w2}
  Characters = {c1, c2}
  c1 = c1
  c2 = c2
  Chosen = {c1}
  Documents <- TwoDocuments
  MaxDocuments = 3
  MaxRuns = 2
  Nobody = Nobody
SYMMETRY Alike
INVARIANTS TypeOK OneSheetPerId CacheIsOwn SameOrderFindsCache ListsAreWhole LostOnlyByDocument
PROPERTIES DirectoryImplemented
CHECK_DEADLOCK FALSE
