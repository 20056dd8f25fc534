------------------------- MODULE SheetRegistryProofs -------------------------
(* Proofs, for every value of the constants, about the registry of sheets. *)
EXTENDS SheetRegistryProperties, SequenceTheorems, TLAPS

Classes == {"key", "sheet"}

\* The next file name of a class begins with the id of the sheet it is for.
LEMMA NextNameHead ==
  ASSUME NEW class \in Classes, NEW x \in Objects, config \in [Classes -> Names]
  PROVE  NextName(class, x) \in Names /\ NextName(class, x) # <<>> /\ Head(NextName(class, x)) = x
<1>1. config[class] \in Seq(Objects) /\ <<x>> \in Seq(Objects)
  BY DEF Names
<1>2. <<x>> \o config[class] \in Seq(Objects) /\ (<<x>> \o config[class])[1] = x
      /\ <<x>> \o config[class] # <<>>
  BY <1>1
<1> QED BY <1>2 DEF NextName, Names

\* What the constructor of a sheet reads from the cache changes no other sheet.
LEMMA ParseCacheFrame ==
  ASSUME TypeOK, NEW class \in Classes, NEW x \in Objects, ParseCache(class, x)
  PROVE  /\ holds' \in [Objects -> Objects \cup {Nobody}]
         /\ \A y \in Objects \ {x} : holds'[y] = holds[y]
         /\ \/ Cached(class, NextName(class, x)) = {} /\ holds'[x] = Nobody
            \/ \E d \in Cached(class, NextName(class, x)) : holds'[x] = d.owner
BY DEF ParseCache, Cached, TypeOK

\* What is on the disk after saving was there before or has been saved.
LEMMA SaveFrame ==
  ASSUME NEW class, NEW x, NEW list, SaveDocument(class, x, list)
  PROVE  /\ \A d \in disk' : d \in disk \/ d = [class |-> class, name |-> file[x], owner |-> x, list |-> list]
BY DEF SaveDocument

\* What the cache consists of.
CachedDocuments == [class : Classes, name : Names, owner : Objects, list : Seq(Characters)]

\* Saving keeps the cache a set of documents.
LEMMA SaveType ==
  ASSUME TypeOK, NEW class \in Classes, NEW x \in Objects, NEW list \in Seq(Characters),
         SaveDocument(class, x, list)
  PROVE  \A d \in disk' : d \in CachedDocuments
<1>1. \A d \in disk : d \in CachedDocuments
  BY DEF TypeOK, CachedDocuments, Classes
<1>2. [class |-> class, name |-> file[x], owner |-> x, list |-> list] \in CachedDocuments
  BY DEF TypeOK, CachedDocuments
<1> QED BY <1>1, <1>2, SaveFrame

\* What is saved of a key is a list of characters.
LEMMA WrittenType ==
  ASSUME TypeOK, NEW k \in Keys, NEW list \in Written(k) PROVE list \in Seq(Characters)
<1>1. document[k] \in Seq(Characters)
  BY DEF TypeOK
<1>2. ASSUME NEW n \in 0..Len(document[k]) PROVE SubSeq(document[k], 1, n) \in Seq(Characters)
  <2>1. n \in Int /\ \A i \in 1..n : document[k][i] \in Characters
    BY <1>1, <1>2
  <2> QED BY <2>1, SubSeqProperties
<1>3. list = document[k] \/ \E n \in 0..Len(document[k]) : list = SubSeq(document[k], 1, n)
  BY DEF Written
<1> QED BY <1>1, <1>2, <1>3

\* The ids in a key's list are characters.
LEMMA ListIds ==
  ASSUME NEW q \in Seq(Character) PROVE [i \in DOMAIN q |-> q[i].id] \in Seq(Characters)
<1>1. DOMAIN q = 1 .. Len(q) /\ Len(q) \in Nat /\ \A i \in 1 .. Len(q) : q[i] \in Character
  OBVIOUS
<1>2. \A i \in 1 .. Len(q) : q[i].id \in Characters
  BY <1>1 DEF Character
<1> QED BY <1>1, <1>2, IsASeq

\* The characters that are made from a document's ids are inactive entries of a list.
LEMMA InactiveList ==
  ASSUME NEW q \in Seq(Characters) PROVE [i \in DOMAIN q |-> Inactive(q[i])] \in Seq(Character)
<1>1. DOMAIN q = 1 .. Len(q) /\ Len(q) \in Nat /\ \A i \in 1 .. Len(q) : q[i] \in Characters
  OBVIOUS
<1>2. \A i \in 1 .. Len(q) : Inactive(q[i]) \in Character
  BY <1>1 DEF Character, Inactive
<1> QED BY <1>1, <1>2, IsASeq

\* Every step keeps the types.
THEOREM TypeStep == TypeOK /\ [Next]_vars => TypeOK'
<1> SUFFICES ASSUME TypeOK, [Next]_vars PROVE TypeOK'
  OBVIOUS
<1> USE RegistryAssumption
<1>1. ASSUME NEW k \in Keys, CreateKey(k) PROVE TypeOK'
  <2>1. NextName("key", k) \in Names
    BY NextNameHead DEF TypeOK, Objects, Classes
  <2>2. holds' \in [Objects -> Objects \cup {Nobody}]
    BY <1>1, ParseCacheFrame DEF CreateKey, Classes, Objects
  <2>3. charlist' \in [Keys -> Seq(Character)] /\ document' \in [Keys -> Seq(Characters)]
    <3>1. CASE UNCHANGED <<charlist, document>>
      BY <3>1 DEF TypeOK
    <3>2. ASSUME NEW d \in Cached("key", NextName("key", k)),
                 charlist' = [charlist EXCEPT ![k] = [i \in DOMAIN d.list |-> Inactive(d.list[i])]],
                 document' = [document EXCEPT ![k] = d.list]
          PROVE  charlist' \in [Keys -> Seq(Character)] /\ document' \in [Keys -> Seq(Characters)]
      <4>1. d.list \in Seq(Characters)
        BY DEF Cached, TypeOK
      <4> QED BY <3>2, <4>1, InactiveList DEF TypeOK
    <3> QED BY <1>1, <3>1, <3>2 DEF CreateKey
  <2>4. keys' \in Seq(Keys)
    BY <1>1 DEF CreateKey, TypeOK
  <2>5. config' \in [Classes -> Names] /\ file' \in [Objects -> Names]
    BY <1>1, <2>1 DEF CreateKey, TypeOK, Classes
  <2>6. UNCHANGED <<sheets, credential, parsing, rows, locked, broken, step, found, disturbed,
                    documents, failure, disk, runs>>
    BY <1>1 DEF CreateKey, parsers, create
  <2> QED BY <2>2, <2>3, <2>4, <2>5, <2>6 DEF TypeOK, Classes
<1>2. ASSUME NEW k \in Keys, NEW c \in Characters, NEW active \in BOOLEAN, SetActive(k, c, active)
      PROVE  TypeOK'
  <2>1. PICK i \in DOMAIN charlist[k] : charlist' = [charlist EXCEPT ![k][i].active = active]
    BY <1>2 DEF SetActive
  <2>2. charlist[k] \in Seq(Character) /\ charlist[k][i] \in Character
    BY <2>1 DEF TypeOK
  <2>3. [charlist[k][i] EXCEPT !.active = active] \in Character
    BY <2>2 DEF Character
  <2>4. [charlist[k] EXCEPT ![i] = [charlist[k][i] EXCEPT !.active = active]] \in Seq(Character)
    BY <2>1, <2>2, <2>3, ExceptSeq
  <2>5. charlist' \in [Keys -> Seq(Character)]
    BY <2>1, <2>4 DEF TypeOK
  <2> QED BY <1>2, <2>5 DEF SetActive, TypeOK, lists, names, parsers, create
<1>3. ASSUME NEW c \in Characters, FindKey(c) PROVE TypeOK'
  <2>1. PICK i \in DOMAIN keys : found' = [key |-> keys[i], character |-> c]
    BY <1>3 DEF FindKey
  <2>2. keys[i] \in Keys
    BY <2>1 DEF TypeOK
  <2> QED BY <1>3, <2>1, <2>2 DEF FindKey, TypeOK, lists, names, parsers
<1>4. CASE GetCharacter
  BY <1>4 DEF GetCharacter, TypeOK, lists, names, parsers
<1>5. CASE MakeSheet
  <2>1. found.key \in Keys /\ found.character \in Characters /\ found.character \in Objects
    BY <1>5 DEF MakeSheet, TypeOK, Objects
  <2>2. NextName("sheet", found.character) \in Names
    BY <2>1, NextNameHead DEF TypeOK, Classes
  <2>3. holds' \in [Objects -> Objects \cup {Nobody}]
    BY <1>5, <2>1, ParseCacheFrame DEF MakeSheet, Classes
  <2>4. sheets' \in Seq(Characters)
    BY <1>5, <2>1 DEF MakeSheet, TypeOK
  <2>5. /\ config' \in [Classes -> Names] /\ file' \in [Objects -> Names]
        /\ credential' \in [Characters -> Keys \cup {Nobody}]
    BY <1>5, <2>1, <2>2 DEF MakeSheet, TypeOK, Classes
  <2>6. /\ step' = "idle" /\ found' = NotFound /\ disturbed' = FALSE
        /\ UNCHANGED <<keys, document, charlist, parsing, rows, locked, broken, documents, failure,
                       disk, runs>>
    BY <1>5 DEF MakeSheet, parsers
  <2> QED BY <2>3, <2>4, <2>5, <2>6 DEF TypeOK, Classes
<1>6. ASSUME NEW k \in Keys, Reclaim(k) PROVE TypeOK'
  BY <1>6 DEF Reclaim, TypeOK, lists, names, create
<1>7. ASSUME NEW w \in Parsers, NEW k \in Keys, ClearList(w, k) PROVE TypeOK'
  <2>1. rows' \in [Parsers -> Seq(Characters)] /\ document' \in [Keys -> Seq(Characters)]
    BY <1>7 DEF ClearList, TypeOK
  <2>2. charlist' \in [Keys -> Seq(Character)] /\ parsing' \in [Parsers -> Keys \cup {Nobody}]
    BY <1>7 DEF ClearList, TypeOK
  <2>3. disturbed' \in BOOLEAN
    BY <1>7 DEF ClearList
  <2> QED BY <1>7, <2>1, <2>2, <2>3 DEF ClearList, TypeOK, lists, names
<1>8. ASSUME NEW w \in Parsers, AddRow(w) PROVE TypeOK'
  <2> DEFINE k == parsing[w]
  <2>0. k \in Keys
    BY <1>8 DEF AddRow, TypeOK
  <2>1. rows[w] \in Seq(Characters) /\ rows[w] # <<>> /\ charlist[k] \in Seq(Character)
    BY <1>8, <2>0 DEF AddRow, TypeOK
  <2>2. Inactive(Head(rows[w])) \in Character
    BY <2>1 DEF Inactive, Character
  <2>3. Append(charlist[k], Inactive(Head(rows[w]))) \in Seq(Character) /\ Tail(rows[w]) \in Seq(Characters)
    BY <2>1, <2>2
  <2>4. charlist' \in [Keys -> Seq(Character)] /\ rows' \in [Parsers -> Seq(Characters)]
    BY <1>8, <2>3 DEF AddRow, TypeOK
  <2> QED BY <1>8, <2>4 DEF AddRow, TypeOK, lists, names, create
<1>9. ASSUME NEW w \in Parsers, EndParse(w) PROVE TypeOK'
  <2>1. parsing[w] \in Keys /\ parsing[w] \in Objects
    BY <1>9 DEF EndParse, TypeOK, Objects
  <2>2. PICK list \in Written(parsing[w]) : SaveDocument("key", parsing[w], list)
    BY <1>9 DEF EndParse
  <2>3. \A d \in disk' : d \in CachedDocuments
    BY <2>1, <2>2, WrittenType, SaveType DEF Classes
  <2>4. holds' \in [Objects -> Objects \cup {Nobody}] /\ parsing' \in [Parsers -> Keys \cup {Nobody}]
    BY <1>9, <2>1 DEF EndParse, TypeOK
  <2> QED BY <1>9, <2>3, <2>4 DEF EndParse, TypeOK, Classes, CachedDocuments, lists, names, create
<1>10. ASSUME NEW c \in Characters, ParseSheet(c) PROVE TypeOK'
  <2>1. c \in Objects /\ <<>> \in Seq(Characters) /\ SaveDocument("sheet", c, <<>>)
    BY <1>10 DEF ParseSheet, Objects
  <2>2. \A d \in disk' : d \in CachedDocuments
    BY <2>1, SaveType DEF Classes
  <2>3. holds' \in [Objects -> Objects \cup {Nobody}]
    BY <1>10, <2>1 DEF ParseSheet, TypeOK
  <2> QED BY <1>10, <2>2, <2>3 DEF ParseSheet, TypeOK, Classes, CachedDocuments, lists, names,
             parsers, create
<1>11. CASE SearchRaces
  BY <1>11 DEF SearchRaces, TypeOK, lists, names, parsers, create
<1>12. CASE Restart
  <2>1. config' \in [Classes -> Names] /\ file' \in [Objects -> Names]
    BY <1>12 DEF Restart, NoNames, NoFiles, Names, Classes
  <2>2. /\ holds' \in [Objects -> Objects \cup {Nobody}]
        /\ document' \in [Keys -> Seq(Characters)] /\ charlist' \in [Keys -> Seq(Character)]
        /\ credential' \in [Characters -> Keys \cup {Nobody}]
    BY <1>12 DEF Restart
  <2>3. parsing' \in [Parsers -> Keys \cup {Nobody}] /\ rows' \in [Parsers -> Seq(Characters)]
    BY <1>12 DEF Restart
  <2>4. keys' \in Seq(Keys) /\ sheets' \in Seq(Characters) /\ disk' = disk
    BY <1>12 DEF Restart
  <2>5. /\ locked' = {} /\ broken' = broken /\ step' = "idle" /\ found' = NotFound /\ disturbed' = FALSE
        /\ documents' = documents /\ runs' = runs + 1 /\ failure' = "none"
    BY <1>12 DEF Restart
  <2>6. runs' \in Nat /\ \A d \in disk' : d \in CachedDocuments
    BY <2>4, <2>5 DEF TypeOK, CachedDocuments, Classes
  <2> HIDE RegistryAssumption
  <2> QED BY <2>1, <2>2, <2>3, <2>4, <2>5, <2>6 DEF TypeOK, Classes, CachedDocuments
<1>13. CASE UNCHANGED vars
  BY <1>13 DEF vars, memory, lists, names, parsers, create, TypeOK, NotFound, Cached
<1> QED
  BY <1>1, <1>2, <1>3, <1>4, <1>5, <1>6, <1>7, <1>8, <1>9, <1>10, <1>11, <1>12, <1>13 DEF Next

\* The program starts well typed.
LEMMA InitType == Init => TypeOK
<1> SUFFICES ASSUME Init PROVE TypeOK
  OBVIOUS
<1>1. config \in [Classes -> Names] /\ file \in [Objects -> Names]
  BY DEF Init, NoNames, NoFiles, Names, Classes
<1>2. /\ holds \in [Objects -> Objects \cup {Nobody}]
      /\ document \in [Keys -> Seq(Characters)] /\ charlist \in [Keys -> Seq(Character)]
      /\ credential \in [Characters -> Keys \cup {Nobody}]
  BY DEF Init
<1>3. parsing \in [Parsers -> Keys \cup {Nobody}] /\ rows \in [Parsers -> Seq(Characters)]
  BY DEF Init
<1>4. keys \in Seq(Keys) /\ sheets \in Seq(Characters) /\ disk = {}
  BY DEF Init
<1>5. /\ locked = {} /\ broken = {} /\ step = "idle" /\ found = NotFound /\ disturbed = FALSE
      /\ documents = 0 /\ runs = 1 /\ failure = "none"
  BY DEF Init
<1> QED BY <1>1, <1>2, <1>3, <1>4, <1>5 DEF TypeOK, Classes

\* The state of the registry is always well typed (keyinfo.h, charactersheet.h).
THEOREM TypeCorrect == Spec => []TypeOK
  BY InitType, TypeStep, PTL DEF Spec
-----------------------------------------------------------------------------
(* OneSheetPerId.                                                          *)

\* Appending what is not there keeps a sequence free of repetitions.
LEMMA AppendOnce ==
  ASSUME NEW S, NEW q \in Seq(S), NEW e \in S
  PROVE  /\ Elems(Append(q, e)) = Elems(q) \cup {e}
         /\ Once(q) /\ e \notin Elems(q) => Once(Append(q, e))
<1>1. /\ DOMAIN Append(q, e) = 1 .. Len(q) + 1
      /\ \A i \in 1 .. Len(q) : Append(q, e)[i] = q[i]
      /\ Append(q, e)[Len(q) + 1] = e
      /\ DOMAIN q = 1 .. Len(q) /\ Len(q) \in Nat
  OBVIOUS
<1> QED BY <1>1 DEF Elems, Once

\* The steps that make a sheet, or forget them all; the others leave both lists alone.
LEMMA ListFrame ==
  ASSUME [Next]_vars
  PROVE  \/ \E k \in Keys : CreateKey(k)
         \/ MakeSheet
         \/ Restart
         \/ UNCHANGED <<keys, sheets>>
BY DEF Next, vars, memory, lists, SetActive, FindKey, GetCharacter, Reclaim, ClearList, AddRow,
       EndParse, ParseSheet, SearchRaces

\* Every step keeps the ids unique: create looks an id up before it makes a sheet.
LEMMA OnceStep == TypeOK /\ OneSheetPerId /\ [Next]_vars => OneSheetPerId'
<1> SUFFICES ASSUME TypeOK, OneSheetPerId, [Next]_vars PROVE OneSheetPerId'
  OBVIOUS
<1>1. ASSUME NEW k \in Keys, CreateKey(k) PROVE OneSheetPerId'
  BY <1>1, AppendOnce DEF CreateKey, TypeOK, OneSheetPerId
<1>2. CASE MakeSheet
  <2>1. found.character \in Characters /\ found.character \notin Elems(sheets)
    BY <1>2 DEF MakeSheet, TypeOK
  <2>2. keys' = keys /\ sheets' = Append(sheets, found.character)
    BY <1>2 DEF MakeSheet
  <2>3. sheets \in Seq(Characters) /\ Once(keys) /\ Once(sheets)
    BY DEF TypeOK, OneSheetPerId
  <2> QED BY <2>1, <2>2, <2>3, AppendOnce DEF OneSheetPerId
<1>3. CASE Restart
  BY <1>3 DEF Restart, OneSheetPerId, Once
<1>4. CASE UNCHANGED <<keys, sheets>>
  BY <1>4 DEF OneSheetPerId
<1> QED BY <1>1, <1>2, <1>3, <1>4, ListFrame

\* Two calls of create, wherever they come from, never make two objects for one id
\* (keyinfo.cc:37-48, charactersheet.cc:27-50).
THEOREM SheetsAreUnique == Spec => []OneSheetPerId
<1>1. Init => OneSheetPerId
  BY DEF Init, OneSheetPerId, Once
<1> QED BY <1>1, InitType, TypeStep, OnceStep, PTL DEF Spec
-----------------------------------------------------------------------------
(* CacheIsOwn.  The file name of a sheet begins with its id, on the disk   *)
(* as well as in memory, and threads only parse for keys that exist.        *)

Live == Elems(keys) \cup Elems(sheets)

OwnInv ==
  /\ \A d \in disk : Head(d.name) = d.owner
  /\ \A x \in Live : x \in Objects /\ Head(file[x]) = x
  /\ Rebuilt \subseteq Elems(keys)
  /\ CacheIsOwn

\* A new sheet takes from the cache what its own documents left there.
LEMMA CreateOwn ==
  ASSUME TypeOK, OwnInv, NEW class \in Classes, NEW x \in Objects, ParseCache(class, x),
         file' = [file EXCEPT ![x] = NextName(class, x)], disk' = disk,
         Live' = Live \cup {x}, Rebuilt' \subseteq Elems(keys')
  PROVE  OwnInv'
<1>1. Head(NextName(class, x)) = x
  BY NextNameHead DEF TypeOK, Classes
<1>2. holds'[x] \in {x, Nobody} /\ \A y \in Objects \ {x} : holds'[y] = holds[y]
  <2>1. \A d \in Cached(class, NextName(class, x)) : d.owner = x
    BY <1>1 DEF Cached, OwnInv
  <2> QED BY <2>1, ParseCacheFrame
<1>3. CacheIsOwn'
  BY <1>2 DEF OwnInv, CacheIsOwn
<1>4. \A y \in Live' : y \in Objects /\ Head(file'[y]) = y
  BY <1>1 DEF OwnInv, TypeOK
<1> QED BY <1>3, <1>4 DEF OwnInv

\* A document is saved under the name of the sheet that holds it now.
LEMMA SaveOwn ==
  ASSUME TypeOK, OwnInv, NEW class, NEW x \in Live, NEW list, SaveDocument(class, x, list),
         holds' = [holds EXCEPT ![x] = x], UNCHANGED <<keys, sheets, file>>, Rebuilt' \subseteq Rebuilt
  PROVE  OwnInv'
<1>1. x \in Objects /\ Head(file[x]) = x
  BY DEF OwnInv
<1>2. \A d \in disk' : Head(d.name) = d.owner
  BY <1>1, SaveFrame DEF OwnInv
<1>3. CacheIsOwn'
  BY <1>1 DEF OwnInv, CacheIsOwn, TypeOK
<1> QED BY <1>2, <1>3 DEF OwnInv, Live

\* The steps that change neither sheets nor cache, and which keys are rebuilt then.
LEMMA RebuiltFrame ==
  ASSUME TypeOK, OwnInv, [Next]_vars
  PROVE  \/ \E k \in Keys : CreateKey(k)
         \/ \E w \in Parsers : EndParse(w)
         \/ \E c \in Characters : ParseSheet(c)
         \/ MakeSheet \/ Restart
         \/ UNCHANGED <<keys, sheets, file, holds, disk>> /\ Rebuilt' \subseteq Elems(keys)
<1>1. ASSUME NEW w \in Parsers, NEW k \in Keys, ClearList(w, k)
      PROVE  UNCHANGED <<keys, sheets, file, holds, disk>> /\ Rebuilt' \subseteq Elems(keys)
  <2>1. k \in Elems(keys) /\ Rebuilt' \subseteq Rebuilt \cup {k}
    BY <1>1 DEF ClearList, Rebuilt, TypeOK
  <2> QED BY <1>1, <2>1 DEF ClearList, OwnInv, lists, names
<1>2. ASSUME \/ \E k \in Keys : Reclaim(k)
             \/ \E w \in Parsers : AddRow(w)
             \/ \E k \in Keys, c \in Characters, active \in BOOLEAN : SetActive(k, c, active)
             \/ \E c \in Characters : FindKey(c)
             \/ GetCharacter \/ SearchRaces \/ UNCHANGED vars
      PROVE  UNCHANGED <<keys, sheets, file, holds, disk, parsing>>
  BY <1>2 DEF Reclaim, AddRow, SetActive, FindKey, GetCharacter, SearchRaces, vars, memory, lists,
              names, parsers
<1>3. UNCHANGED parsing => Rebuilt' = Rebuilt
  BY DEF Rebuilt
<1> QED BY <1>1, <1>2, <1>3, RegistryAssumption DEF Next, OwnInv

\* Every step keeps the sheets and the cached documents apart.
LEMMA OwnStep == TypeOK /\ OwnInv /\ [Next]_vars => OwnInv'
<1> SUFFICES ASSUME TypeOK, OwnInv, [Next]_vars PROVE OwnInv'
  OBVIOUS
<1>1. ASSUME NEW k \in Keys, CreateKey(k) PROVE OwnInv'
  <2>1. k \in Objects /\ Live' = Live \cup {k} /\ Rebuilt' \subseteq Elems(keys')
    <3>1. Rebuilt' = Rebuilt /\ Elems(keys') = Elems(keys) \cup {k}
      BY <1>1, AppendOnce DEF CreateKey, TypeOK, Rebuilt, parsers
    <3> QED BY <1>1, <3>1 DEF CreateKey, Live, Objects, OwnInv
  <2> QED BY <1>1, <2>1, CreateOwn DEF CreateKey, Classes
<1>2. CASE MakeSheet
  <2>1. found.character \in Objects /\ found.character \in Characters
    BY <1>2 DEF MakeSheet, TypeOK, Objects
  <2>2. sheets' = Append(sheets, found.character) /\ keys' = keys /\ parsing' = parsing
    BY <1>2 DEF MakeSheet, parsers
  <2>3. Live' = Live \cup {found.character} /\ Rebuilt' \subseteq Elems(keys')
    BY <2>1, <2>2, AppendOnce DEF TypeOK, Live, OwnInv, Rebuilt
  <2> QED BY <1>2, <2>1, <2>3, CreateOwn DEF MakeSheet, Classes
<1>3. ASSUME NEW w \in Parsers, EndParse(w) PROVE OwnInv'
  <2>1. parsing[w] \in Live
    BY <1>3 DEF EndParse, OwnInv, Live, Rebuilt
  <2>2. Rebuilt' \subseteq Rebuilt
    BY <1>3 DEF EndParse, Rebuilt, TypeOK
  <2>3. PICK list \in Written(parsing[w]) : SaveDocument("key", parsing[w], list)
    BY <1>3 DEF EndParse
  <2>4. holds' = [holds EXCEPT ![parsing[w]] = parsing[w]] /\ UNCHANGED <<keys, sheets, file>>
    BY <1>3 DEF EndParse, lists, names
  <2> QED BY <2>1, <2>2, <2>3, <2>4, SaveOwn
<1>4. ASSUME NEW c \in Characters, ParseSheet(c) PROVE OwnInv'
  <2>1. Rebuilt' = Rebuilt /\ c \in Live
    BY <1>4 DEF ParseSheet, parsers, Rebuilt, Live
  <2> QED BY <1>4, <2>1, SaveOwn DEF ParseSheet, lists, names
<1>5. CASE Restart
  BY <1>5 DEF Restart, OwnInv, Live, CacheIsOwn, Elems, Rebuilt
<1>6. CASE UNCHANGED <<keys, sheets, file, holds, disk>> /\ Rebuilt' \subseteq Elems(keys)
  BY <1>6 DEF OwnInv, Live, CacheIsOwn
<1> QED BY <1>1, <1>2, <1>3, <1>4, <1>5, <1>6, RebuiltFrame

\* The program starts without a sheet and without a cache.
LEMMA InitOwn == Init => OwnInv
  BY DEF Init, OwnInv, CacheIsOwn, Live, Elems, Rebuilt

\* No sheet ever takes the cached document of another for its own, in any run of the
\* program, in whatever order sheets are created (keyinfo.cc:43-45, charactersheet.cc:47).
THEOREM CacheBelongsToSheet == Spec => []CacheIsOwn
<1>1. OwnInv => CacheIsOwn
  BY DEF OwnInv
<1> QED BY <1>1, InitOwn, InitType, TypeStep, OwnStep, PTL DEF Spec
-----------------------------------------------------------------------------
(* LostOnlyByDocument.  A list only loses characters when it is cleared,   *)
(* and nothing but the end of the program follows a failed assertion.      *)

\* The list of a key has what it had.
Keeps(k) == \A c \in Characters : HasCharacter(k, c) => HasCharacter(k, c)'

\* An entry at the end hides none before it.
LEMMA AddRowKeeps ==
  ASSUME TypeOK, NEW w \in Parsers, AddRow(w), NEW k \in Keys PROVE Keeps(k)
<1>1. parsing[w] \in Keys /\ charlist[k] \in Seq(Character)
  BY DEF AddRow, TypeOK
<1>2. CASE k # parsing[w]
  BY <1>1, <1>2 DEF AddRow, TypeOK, Keeps, HasCharacter
<1>3. CASE k = parsing[w]
  <2>1. charlist'[k] = Append(charlist[k], Inactive(Head(rows[w])))
    BY <1>1, <1>3 DEF AddRow, TypeOK
  <2>2. \A i \in DOMAIN charlist[k] : i \in DOMAIN charlist'[k] /\ charlist'[k][i] = charlist[k][i]
    BY <1>1, <2>1
  <2> QED BY <2>2 DEF Keeps, HasCharacter
<1> QED BY <1>2, <1>3

\* While a character sheet is created, the key's list keeps what it has, or a document
\* of the key comes.
LEMMA CreateKeeps ==
  ASSUME TypeOK, [Next]_vars, Running, step # "idle"
  PROVE  \/ disturbed'
         \/ GetCharacter \/ MakeSheet \/ Restart
         \/ Keeps(found.key) /\ UNCHANGED <<step, found, disturbed>>
<1>1. found.key \in Keys
  BY DEF TypeOK
<1>2. ASSUME NEW w \in Parsers, NEW k \in Keys, ClearList(w, k)
      PROVE  disturbed' \/ (Keeps(found.key) /\ UNCHANGED <<step, found, disturbed>>)
  <2>1. CASE k = found.key
    BY <1>2, <2>1 DEF ClearList
  <2>2. CASE k # found.key
    <3>1. charlist'[found.key] = charlist[found.key] /\ UNCHANGED <<step, found>>
      BY <1>1, <1>2, <2>2 DEF ClearList, TypeOK
    <3>2. disturbed' = disturbed
      BY <1>2, <2>2 DEF ClearList, TypeOK
    <3> QED BY <3>1, <3>2 DEF Keeps, HasCharacter
  <2> QED BY <2>1, <2>2
<1>3. ASSUME NEW w \in Parsers, AddRow(w) PROVE Keeps(found.key) /\ UNCHANGED <<step, found, disturbed>>
  BY <1>1, <1>3, AddRowKeeps DEF AddRow, create
<1>4. CASE UNCHANGED <<charlist, step, found, disturbed>>
  BY <1>4 DEF Keeps, HasCharacter
<1>5. \/ \E w \in Parsers, k \in Keys : ClearList(w, k)
      \/ \E w \in Parsers : AddRow(w)
      \/ GetCharacter \/ MakeSheet \/ Restart
      \/ UNCHANGED <<charlist, step, found, disturbed>>
  BY DEF Next, vars, memory, create, MainFree, CreateKey, SetActive, FindKey, Reclaim, EndParse,
         ParseSheet, SearchRaces
<1> QED BY <1>2, <1>3, <1>4, <1>5

\* A process that was ended by something takes no further step.
LEMMA EndedStays ==
  ASSUME [Next]_vars, ~Running PROVE Restart \/ UNCHANGED vars
BY DEF Next, MainFree, CreateKey, SetActive, FindKey, GetCharacter, MakeSheet, Reclaim, ClearList,
       AddRow, EndParse, ParseSheet, SearchRaces

\* Only a failed assertion is a failure of that name.
LEMMA FailureFrame ==
  ASSUME [Next]_vars, ~GetCharacter, ~Restart, Running PROVE failure' # "get_character"
BY DEF Next, vars, memory, Running, CreateKey, SetActive, FindKey, MakeSheet, Reclaim, ClearList,
       AddRow, EndParse, ParseSheet, SearchRaces

\* Every step keeps the reason why the character is still there.
LEMMA LostStep == TypeOK /\ LostOnlyByDocument /\ [Next]_vars => LostOnlyByDocument'
<1> SUFFICES ASSUME TypeOK, LostOnlyByDocument, [Next]_vars PROVE LostOnlyByDocument'
  OBVIOUS
<1>1. CASE GetCharacter
  BY <1>1 DEF GetCharacter, LostOnlyByDocument, HasCharacter, Running
<1>2. CASE MakeSheet \/ Restart
  BY <1>2 DEF MakeSheet, Restart, LostOnlyByDocument, Running
<1>3. CASE UNCHANGED vars
  BY <1>3 DEF vars, memory, create, LostOnlyByDocument, HasCharacter
<1>4. CASE Running /\ step # "idle" /\ ~GetCharacter /\ ~MakeSheet /\ ~Restart
  <2>1. found.key \in Keys /\ found.character \in Characters
    BY <1>4 DEF TypeOK
  <2>2. failure' # "get_character"
    BY <1>4, FailureFrame
  <2>3. disturbed' \/ (Keeps(found.key) /\ UNCHANGED <<step, found, disturbed>>)
    BY <1>4, CreateKeeps
  <2>4. ASSUME Keeps(found.key), UNCHANGED <<step, found, disturbed>>, ~disturbed
        PROVE  HasCharacter(found.key, found.character)'
    <3>1. HasCharacter(found.key, found.character)
      BY <1>4, <2>4 DEF LostOnlyByDocument
    <3> QED BY <2>1, <2>4, <3>1 DEF Keeps, HasCharacter
  <2> QED BY <2>2, <2>3, <2>4 DEF LostOnlyByDocument
<1>5. CASE Running /\ step = "idle" /\ ~GetCharacter /\ ~MakeSheet /\ ~Restart
  <2>1. failure' # "get_character"
    BY <1>5, FailureFrame
  <2>2. ASSUME NEW c \in Characters, FindKey(c) PROVE HasCharacter(found.key, found.character)'
    <3>1. PICK i \in DOMAIN keys : HasCharacter(keys[i], c) /\ found' = [key |-> keys[i], character |-> c]
      BY <2>2 DEF FindKey
    <3> QED BY <2>2, <3>1 DEF FindKey, HasCharacter
  <2>3. (\E c \in Characters : FindKey(c)) \/ step' = "idle"
    BY <1>5 DEF Next, vars, memory, create, CreateKey, SetActive, Reclaim, ClearList, AddRow,
            EndParse, ParseSheet, SearchRaces
  <2> QED BY <2>1, <2>2, <2>3 DEF LostOnlyByDocument
<1> QED BY <1>1, <1>2, <1>3, <1>4, <1>5, EndedStays

\* The key that was found for a character has it until the sheet is made, and the
\* assertions of get_character hold, unless a document of that key has come since
\* (charactersheet.cc:35-49, keyinfo.cc:80-82).
THEOREM AssertionHasCause == Spec => []LostOnlyByDocument
<1>1. Init => LostOnlyByDocument
  BY DEF Init, LostOnlyByDocument
<1> QED BY <1>1, InitType, TypeStep, LostStep, PTL DEF Spec
-----------------------------------------------------------------------------
(* SameOrderFindsCache.  The file of the i-th key is named after the first *)
(* i keys, and the next name comes from all of them.                       *)

\* Some key's document is cached under the name.
OnDisk(documentsOnDisk, name) == \E d \in documentsOnDisk : d.class = "key" /\ d.name = name

FoundInv ==
  \A i \in DOMAIN keys : OnDisk(disk, FileAfter(SubSeq(keys, 1, i))) => holds[keys[i]] = keys[i]

OrderInv ==
  /\ config["key"] = FileAfter(keys)
  /\ \A i \in DOMAIN keys : file[keys[i]] = FileAfter(SubSeq(keys, 1, i))
  /\ FoundInv

\* One more key puts its id before the name.
LEMMA FileAfterAppend ==
  ASSUME NEW q \in Seq(Keys), NEW k \in Keys
  PROVE  FileAfter(Append(q, k)) = <<k>> \o FileAfter(q)
<1>1. /\ Len(q) \in Nat /\ DOMAIN q = 1 .. Len(q) /\ \A i \in 1 .. Len(q) : q[i] \in Keys
      /\ DOMAIN Append(q, k) = 1 .. Len(q) + 1 /\ Len(Append(q, k)) = Len(q) + 1
      /\ \A i \in 1 .. Len(q) : Append(q, k)[i] = q[i]
      /\ Append(q, k)[Len(q) + 1] = k
  OBVIOUS
<1>2. FileAfter(q) \in Seq(Keys) /\ Len(FileAfter(q)) = Len(q)
      /\ \A i \in 1 .. Len(q) : FileAfter(q)[i] = q[Len(q) + 1 - i]
  <2>1. \A i \in 1 .. Len(q) : q[Len(q) + 1 - i] \in Keys
    BY <1>1
  <2>2. FileAfter(q) = [i \in 1 .. Len(q) |-> q[Len(q) + 1 - i]]
    BY <1>1 DEF FileAfter
  <2> HIDE DEF FileAfter
  <2>3. FileAfter(q) \in Seq(Keys)
    BY <1>1, <2>1, <2>2, IsASeq
  <2> QED BY <1>1, <2>2, <2>3
<1>3. FileAfter(Append(q, k)) \in Seq(Keys) /\ Len(FileAfter(Append(q, k))) = Len(q) + 1
      /\ \A i \in 1 .. Len(q) + 1 : FileAfter(Append(q, k))[i] = Append(q, k)[Len(q) + 2 - i]
  <2>1. \A i \in 1 .. Len(q) + 1 : Append(q, k)[Len(q) + 2 - i] \in Keys
    BY <1>1
  <2>2. FileAfter(Append(q, k)) = [i \in 1 .. Len(q) + 1 |-> Append(q, k)[Len(q) + 2 - i]]
    BY <1>1 DEF FileAfter
  <2> HIDE DEF FileAfter
  <2>3. FileAfter(Append(q, k)) \in Seq(Keys)
    BY <1>1, <2>1, <2>2, IsASeq
  <2> QED BY <1>1, <2>2, <2>3
<1>4. /\ <<k>> \o FileAfter(q) \in Seq(Keys) /\ Len(<<k>> \o FileAfter(q)) = Len(q) + 1
      /\ (<<k>> \o FileAfter(q))[1] = k
      /\ \A i \in 2 .. Len(q) + 1 : (<<k>> \o FileAfter(q))[i] = FileAfter(q)[i - 1]
  <2> DEFINE f == FileAfter(q)
  <2>1. f \in Seq(Keys) /\ Len(f) = Len(q) /\ <<k>> \in Seq(Keys) /\ Len(<<k>>) = 1 /\ <<k>>[1] = k
    BY <1>2
  <2> HIDE DEF f
  <2>2. /\ <<k>> \o f \in Seq(Keys) /\ Len(<<k>> \o f) = Len(q) + 1
        /\ (<<k>> \o f)[1] = k
        /\ \A i \in 2 .. Len(q) + 1 : (<<k>> \o f)[i] = f[i - 1]
    BY <1>1, <2>1, ConcatProperties
  <2> QED BY <2>2 DEF f
<1>5. \A i \in 1 .. Len(q) + 1 : FileAfter(Append(q, k))[i] = (<<k>> \o FileAfter(q))[i]
  <2> TAKE i \in 1 .. Len(q) + 1
  <2>1. CASE i = 1
    BY <1>1, <1>3, <1>4, <2>1
  <2>2. CASE i # 1
    <3>1. i - 1 \in 1 .. Len(q) /\ Len(q) + 2 - i \in 1 .. Len(q) /\ i \in 2 .. Len(q) + 1
      BY <1>1, <2>2
    <3>2. FileAfter(Append(q, k))[i] = q[Len(q) + 2 - i]
      BY <1>1, <1>3, <3>1
    <3>3. (<<k>> \o FileAfter(q))[i] = q[Len(q) + 1 - (i - 1)]
      BY <1>2, <1>4, <3>1
    <3>4. Len(q) + 1 - (i - 1) = Len(q) + 2 - i
      BY <1>1, <3>1
    <3> QED BY <3>2, <3>3, <3>4
  <2> QED BY <2>1, <2>2
<1> QED BY <1>3, <1>4, <1>5, SeqEqual

\* The first keys stay the first when one is added.
LEMMA SubSeqAppend ==
  ASSUME NEW q \in Seq(Keys), NEW k \in Keys
  PROVE  /\ \A i \in 1 .. Len(q) : SubSeq(Append(q, k), 1, i) = SubSeq(q, 1, i)
         /\ SubSeq(Append(q, k), 1, Len(q) + 1) = Append(q, k)
OBVIOUS

\* A new key: its file is named after it and all keys before it.
LEMMA CreateKeyOrder ==
  ASSUME TypeOK, OwnInv, OrderInv, NEW k \in Keys, CreateKey(k) PROVE OrderInv'
<1>1. /\ keys' = Append(keys, k) /\ disk' = disk
      /\ k \notin Elems(keys) /\ k \in Objects
      /\ config' = [config EXCEPT !["key"] = NextName("key", k)]
      /\ file' = [file EXCEPT ![k] = NextName("key", k)]
  BY DEF CreateKey, Objects
<1>2. /\ DOMAIN keys = 1 .. Len(keys) /\ Len(keys) \in Nat /\ keys \in Seq(Keys)
      /\ DOMAIN keys' = 1 .. Len(keys) + 1
      /\ \A i \in 1 .. Len(keys) : keys'[i] = keys[i] /\ keys[i] \in Elems(keys) /\ keys[i] \in Objects
      /\ keys'[Len(keys) + 1] = k
  BY <1>1 DEF TypeOK, Elems, Objects
<1>3. FileAfter(keys') = NextName("key", k)
  BY <1>1, <1>2, FileAfterAppend DEF OrderInv, NextName
<1>4. config'["key"] = FileAfter(keys')
  BY <1>1, <1>3 DEF TypeOK
<1>5. \A i \in 1 .. Len(keys) : SubSeq(keys', 1, i) = SubSeq(keys, 1, i)
  BY <1>1, <1>2, SubSeqAppend
<1>6. SubSeq(keys', 1, Len(keys) + 1) = keys'
  BY <1>1, <1>2, SubSeqAppend
<1>7. \A i \in DOMAIN keys' : file'[keys'[i]] = FileAfter(SubSeq(keys', 1, i))
  <2> TAKE i \in DOMAIN keys'
  <2>1. CASE i \in 1 .. Len(keys)
    <3>1. keys[i] # k /\ file'[keys[i]] = file[keys[i]]
      BY <1>1, <1>2, <2>1 DEF TypeOK
    <3> QED BY <1>2, <1>5, <2>1, <3>1 DEF OrderInv
  <2>2. CASE i = Len(keys) + 1
    BY <1>1, <1>2, <1>3, <1>6, <2>2 DEF TypeOK
  <2> QED BY <1>2, <2>1, <2>2
<1>8. FoundInv'
  <2> SUFFICES ASSUME NEW i \in DOMAIN keys', OnDisk(disk', FileAfter(SubSeq(keys', 1, i)))
               PROVE  holds'[keys'[i]] = keys'[i]
    BY DEF FoundInv
  <2>1. OnDisk(disk, FileAfter(SubSeq(keys', 1, i)))
    BY <1>1
  <2>2. /\ \A y \in Objects \ {k} : holds'[y] = holds[y]
        /\ \/ Cached("key", NextName("key", k)) = {}
           \/ \E d \in Cached("key", NextName("key", k)) : holds'[k] = d.owner
    BY <1>1, ParseCacheFrame DEF CreateKey, Classes
  <2>3. CASE i \in 1 .. Len(keys)
    <3>1. keys[i] # k /\ holds'[keys[i]] = holds[keys[i]]
      BY <1>1, <1>2, <2>2, <2>3
    <3> QED BY <1>2, <1>5, <2>1, <2>3, <3>1 DEF OrderInv, FoundInv
  <2>4. CASE i = Len(keys) + 1
    <3>0. Cached("key", NextName("key", k)) # {}
      BY <1>3, <1>6, <2>1, <2>4 DEF OnDisk, Cached
    <3>1. PICK d \in Cached("key", NextName("key", k)) : holds'[k] = d.owner
      BY <2>2, <3>0
    <3>2. d.owner = Head(NextName("key", k))
      BY <3>1 DEF Cached, OwnInv
    <3>3. Head(NextName("key", k)) = k
      BY <1>1, NextNameHead DEF TypeOK, Classes
    <3> QED BY <1>2, <2>4, <3>1, <3>2, <3>3
  <2> QED BY <1>2, <2>3, <2>4
<1> QED BY <1>4, <1>7, <1>8 DEF OrderInv

\* A document is saved: no other key has a file of that name.
LEMMA EndParseOrder ==
  ASSUME TypeOK, OwnInv, OrderInv, NEW w \in Parsers, EndParse(w) PROVE OrderInv'
<1> DEFINE k == parsing[w]
<1>1. UNCHANGED <<keys, config, file>> /\ holds' = [holds EXCEPT ![k] = k]
      /\ \E list \in Written(k) : SaveDocument("key", k, list)
  BY DEF EndParse, lists, names
<1>2. k \in Elems(keys) /\ Head(file[k]) = k /\ k \in Objects
  BY DEF EndParse, OwnInv, Live, Rebuilt
<1> HIDE DEF k
<1>3. FoundInv'
  <2> SUFFICES ASSUME NEW i \in DOMAIN keys, OnDisk(disk', FileAfter(SubSeq(keys, 1, i)))
               PROVE  holds'[keys[i]] = keys[i]
    BY <1>1 DEF FoundInv
  <2>1. keys[i] \in Objects /\ keys[i] \in Live /\ file[keys[i]] = FileAfter(SubSeq(keys, 1, i))
    BY DEF OrderInv, TypeOK, Live, Elems, Objects
  <2>2. CASE keys[i] = k
    BY <1>1, <1>2, <2>2 DEF TypeOK
  <2>3. CASE keys[i] # k
    <3>1. Head(file[keys[i]]) = keys[i]
      BY <2>1 DEF OwnInv
    <3>2. FileAfter(SubSeq(keys, 1, i)) # file[k]
      BY <1>2, <2>1, <2>3, <3>1
    <3>3. PICK d \in disk' : d.class = "key" /\ d.name = FileAfter(SubSeq(keys, 1, i))
      BY DEF OnDisk
    <3>4. d \in disk
      BY <1>1, <3>2, <3>3, SaveFrame
    <3>5. holds[keys[i]] = keys[i]
      BY <3>3, <3>4 DEF OnDisk, OrderInv, FoundInv
    <3> QED BY <1>1, <2>1, <2>3, <3>5 DEF TypeOK
  <2> QED BY <2>2, <2>3
<1> QED BY <1>1, <1>3 DEF OrderInv

\* The step of a character sheet leaves the keys' documents alone.
LEMMA SheetOrder ==
  ASSUME TypeOK, OrderInv, NEW c \in Characters, UNCHANGED keys, config'["key"] = config["key"],
         \A k \in Keys : file'[k] = file[k] /\ holds'[k] = holds[k],
         \A d \in disk' : d.class = "key" => d \in disk
  PROVE  OrderInv'
<1>1. \A i \in DOMAIN keys : keys[i] \in Keys
  BY DEF TypeOK
<1>2. \A name : OnDisk(disk', name) => OnDisk(disk, name)
  BY DEF OnDisk
<1>3. FoundInv'
  BY <1>1, <1>2 DEF OrderInv, FoundInv
<1> QED BY <1>1, <1>3 DEF OrderInv

\* Every step keeps the names in step with the order of the keys.
LEMMA OrderStep == TypeOK /\ OwnInv /\ OrderInv /\ [Next]_vars => OrderInv'
<1> SUFFICES ASSUME TypeOK, OwnInv, OrderInv, [Next]_vars PROVE OrderInv'
  OBVIOUS
<1>1. ASSUME NEW k \in Keys, CreateKey(k) PROVE OrderInv'
  BY <1>1, CreateKeyOrder
<1>2. ASSUME NEW w \in Parsers, EndParse(w) PROVE OrderInv'
  BY <1>2, EndParseOrder
<1>3. CASE MakeSheet
  <2>1. found.character \in Characters /\ found.character \in Objects /\ found.character \notin Keys
    BY <1>3, RegistryAssumption DEF MakeSheet, TypeOK, Objects
  <2>2. \A k \in Keys : k \in Objects /\ k # found.character
    BY <2>1 DEF Objects
  <2>3. \A y \in Objects \ {found.character} : holds'[y] = holds[y]
    BY <1>3, <2>1, ParseCacheFrame DEF MakeSheet, Classes
  <2>4. /\ keys' = keys /\ disk' = disk
        /\ config' = [config EXCEPT !["sheet"] = NextName("sheet", found.character)]
        /\ file' = [file EXCEPT ![found.character] = NextName("sheet", found.character)]
    BY <1>3 DEF MakeSheet
  <2>5. config'["key"] = config["key"] /\ \A k \in Keys : file'[k] = file[k]
    BY <2>2, <2>4 DEF TypeOK
  <2> QED BY <2>1, <2>2, <2>3, <2>4, <2>5, SheetOrder
<1>4. ASSUME NEW c \in Characters, ParseSheet(c) PROVE OrderInv'
  <2>1. \A k \in Keys : holds'[k] = holds[k]
    BY <1>4, RegistryAssumption DEF ParseSheet, TypeOK, Objects
  <2>2. \A d \in disk' : d.class = "key" => d \in disk
    BY <1>4, SaveFrame DEF ParseSheet
  <2> QED BY <1>4, <2>1, <2>2, SheetOrder DEF ParseSheet, lists, names
<1>5. CASE Restart
  <2>1. keys' = <<>> /\ config'["key"] = <<>>
    BY <1>5 DEF Restart, NoNames
  <2>2. FileAfter(<<>>) = <<>>
    BY DEF FileAfter
  <2> QED BY <2>1, <2>2 DEF OrderInv, FoundInv
<1>6. CASE UNCHANGED <<keys, config, file, holds, disk>>
  BY <1>6 DEF OrderInv, FoundInv
<1>7. \/ \E k \in Keys : CreateKey(k)
      \/ \E w \in Parsers : EndParse(w)
      \/ \E c \in Characters : ParseSheet(c)
      \/ MakeSheet \/ Restart
      \/ UNCHANGED <<keys, config, file, holds, disk>>
  BY DEF Next, vars, memory, lists, names, SetActive, FindKey, GetCharacter, Reclaim, ClearList,
         AddRow, SearchRaces
<1> QED BY <1>1, <1>2, <1>3, <1>4, <1>5, <1>6, <1>7

\* Keys that are created in the order of the run that cached their documents find them
\* again, however many keys and runs there are (keyinfo.cc:43-45, apiinterface.cc:101-117).
THEOREM SameOrderIsEnough == Spec => []SameOrderFindsCache
<1>1. Init => OrderInv
  BY DEF Init, OrderInv, FoundInv, FileAfter, NoNames
<1>2. OrderInv => SameOrderFindsCache
  BY DEF OrderInv, FoundInv, OnDisk, SameOrderFindsCache, Cached
<1> QED BY <1>1, <1>2, InitOwn, InitType, TypeStep, OwnStep, OrderStep, PTL DEF Spec
=============================================================================
