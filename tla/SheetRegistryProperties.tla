----------------------- MODULE SheetRegistryProperties -----------------------
(***************************************************************************)
(* What the registry of SheetRegistry is meant to guarantee.               *)
(***************************************************************************)
EXTENDS SheetRegistry

Character == [id : Characters, active : BOOLEAN]
Names == Seq(Objects)

\* The type invariant.
TypeOK ==
  /\ keys \in Seq(Keys) /\ sheets \in Seq(Characters)
  /\ config \in [{"key", "sheet"} -> Names]
  /\ file \in [Objects -> Names]
  /\ holds \in [Objects -> Objects \cup {Nobody}]
  /\ document \in [Keys -> Seq(Characters)] /\ charlist \in [Keys -> Seq(Character)]
  /\ credential \in [Characters -> Keys \cup {Nobody}]
  /\ parsing \in [Parsers -> Keys \cup {Nobody}] /\ rows \in [Parsers -> Seq(Characters)]
  /\ locked \in SUBSET Keys /\ broken \in SUBSET (Nat \X Keys)
  /\ \/ step = "idle" /\ found = NotFound
     \/ /\ step \in {"get_character", "make"} /\ found \in [key : Keys, character : Characters]
        /\ found.character \notin Elems(sheets)
  /\ disturbed \in BOOLEAN
  /\ \A d \in disk : d \in [class : {"key", "sheet"}, name : Names, owner : Objects,
                            list : Seq(Characters)]
  /\ documents \in Nat /\ runs \in Nat
  /\ failure \in {"none", "get_character", "list_race"}

Once(q) == \A i, j \in DOMAIN q : q[i] = q[j] => i = j

\* There is one object for an id ("a unique id", apiinterface.h:51): create looks it up
\* first (keyinfo.cc:39, charactersheet.cc:29), and what happens until the object is in
\* the list lets no second one in.
OneSheetPerId == Once(keys) /\ Once(sheets)

\* A sheet never takes the cached document of another for its own, in this run of the
\* program or a later one, in whatever order the sheets were made: the changing file
\* names (keyinfo.cc:43-45, charactersheet.cc:47) do not collide.
CacheIsOwn == \A x \in Objects : holds[x] \in {x, Nobody}

\* What a run that made the keys ks in this order calls the file of the last of them.
FileAfter(ks) == [i \in DOMAIN ks |-> ks[Len(ks) + 1 - i]]

\* A key that is made after the same keys as in the run that cached its document finds
\* it again (apiinterface.cc:101-117): nothing but the order of creation counts.
SameOrderFindsCache ==
  \A i \in DOMAIN keys :
    Cached("key", FileAfter(SubSeq(keys, 1, i))) # {} => holds[keys[i]] = keys[i]

\* The key that CharacterSheet::create has found for a character (charactersheet.cc:35)
\* has it until the sheet is made, and the assertions of get_character
\* (keyinfo.cc:80-82) hold, unless a document of that very key has come in between: no
\* other step of any thread takes a character away.
LostOnlyByDocument ==
  /\ step # "idle" /\ ~disturbed => HasCharacter(found.key, found.character)
  /\ failure = "get_character" => disturbed

\* The ids of a key's list.
ListOf(q) == [i \in DOMAIN q |-> q[i].id]

\* As long as ~Request has never unlocked a key's mutex for a thread that was parsing
\* (request.cc:67), the key's list is, outside a rebuilding, that of one document, whole
\* (keyinfo.cc:111-113), and so is what is cached for it: not what two documents that came
\* together made of it, nor the part an unfinished rebuilding left before a restart, since
\* the document and not the list is saved (apiinterface.cc:142).  A key without a document
\* has no characters.
ListsAreWhole ==
  /\ \A k \in Keys \ (Rebuilt \cup Unlocked) : ListOf(charlist[k]) \in Documents \cup {<<>>}
  /\ \A d \in disk : d.class = "key" /\ d.owner \notin Unlocked => d.list \in Documents

\* The registry implements the directory of SheetDirectory: two calls of create, the
\* rebuilding of lists and restarts never show an id twice, a file that is in use
\* (keyinfo.cc:43-45, charactersheet.cc:47) or the credentials of a key nobody made.
Directory == INSTANCE SheetDirectory WITH known <- Elems(keys) \cup Elems(sheets)
DirectoryImplemented == Directory!Spec
=============================================================================
