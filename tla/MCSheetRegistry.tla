--------------------------- MODULE MCSheetRegistry ---------------------------
(* The registry for model checking: two keys, which may share a character,  *)
(* and two threads that parse their documents.                              *)
EXTENDS SheetRegistryProperties, TLC

CONSTANTS c1, c2

TwoDocuments == {<<c1>>, <<c2, c1>>}

\* Keys are alike, and so are threads; the documents tell characters apart.
Alike == Permutations(Keys) \cup Permutations(Parsers)
=============================================================================
