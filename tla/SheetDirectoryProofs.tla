------------------------ MODULE SheetDirectoryProofs ------------------------
(* Proofs, for every value of the constants, that the lists of the keys    *)
(* are whole and that the registry implements the directory.               *)
EXTENDS SheetRegistryProofs

-----------------------------------------------------------------------------
(* The ids of a list.                                                      *)

\* A list has as many ids as entries, each in its place.
LEMMA ListOfType ==
  ASSUME NEW q \in Seq(Character)
  PROVE  /\ ListOf(q) \in Seq(Characters) /\ Len(ListOf(q)) = Len(q)
         /\ \A i \in 1 .. Len(q) : ListOf(q)[i] = q[i].id
<1>1. ListOf(q) \in Seq(Characters)
  BY ListIds DEF ListOf
<1>2. DOMAIN q = 1 .. Len(q) /\ Len(q) \in Nat
  OBVIOUS
<1>3. ListOf(q) = [i \in 1 .. Len(q) |-> q[i].id]
  BY <1>2 DEF ListOf
<1> HIDE DEF ListOf
<1>4. DOMAIN ListOf(q) = 1 .. Len(ListOf(q)) /\ Len(ListOf(q)) \in Nat
  BY <1>1
<1> QED BY <1>1, <1>2, <1>3, <1>4

\* Two lists of the same length have the same ids if they agree everywhere.
LEMMA ListOfEqual ==
  ASSUME NEW q \in Seq(Character), NEW s \in Seq(Characters), Len(q) = Len(s),
         \A i \in 1 .. Len(q) : q[i].id = s[i]
  PROVE  ListOf(q) = s
BY ListOfType, SeqEqual

\* An empty list has no ids.
LEMMA ListOfNone == ListOf(<<>>) = <<>>
  BY DEF ListOf

\* Making inactive characters of a document's ids keeps the ids.
LEMMA ListOfInactive ==
  ASSUME NEW s \in Seq(Characters)
  PROVE  ListOf([i \in DOMAIN s |-> Inactive(s[i])]) = s
<1> DEFINE q == [i \in DOMAIN s |-> Inactive(s[i])]
<1>1. q \in Seq(Character)
  BY InactiveList
<1>2. DOMAIN s = 1 .. Len(s) /\ Len(s) \in Nat /\ DOMAIN q = DOMAIN s
      /\ \A i \in 1 .. Len(s) : q[i].id = s[i]
  BY DEF Inactive
<1> HIDE DEF q
<1>3. Len(q) = Len(s)
  BY <1>1, <1>2
<1>4. ListOf(q) = s
  BY <1>1, <1>2, <1>3, ListOfEqual
<1> QED BY <1>4 DEF q

\* An entry at the end adds its id at the end.
LEMMA ListOfAppend ==
  ASSUME NEW q \in Seq(Character), NEW e \in Character
  PROVE  ListOf(Append(q, e)) = Append(ListOf(q), e.id)
<1>1. ListOf(q) \in Seq(Characters) /\ Len(ListOf(q)) = Len(q)
      /\ \A i \in 1 .. Len(q) : ListOf(q)[i] = q[i].id
  BY ListOfType
<1>2. e.id \in Characters
  BY DEF Character
<1>3. /\ Append(q, e) \in Seq(Character) /\ Len(Append(q, e)) = Len(q) + 1
      /\ \A i \in 1 .. Len(q) : Append(q, e)[i] = q[i]
      /\ Append(q, e)[Len(q) + 1] = e
  BY AppendProperties
<1>4. /\ Append(ListOf(q), e.id) \in Seq(Characters)
      /\ Len(Append(ListOf(q), e.id)) = Len(q) + 1
      /\ \A i \in 1 .. Len(q) : Append(ListOf(q), e.id)[i] = q[i].id
      /\ Append(ListOf(q), e.id)[Len(q) + 1] = e.id
  BY <1>1, <1>2, AppendProperties
<1>5. \A i \in 1 .. Len(q) + 1 : Append(q, e)[i].id = Append(ListOf(q), e.id)[i]
  <2>1. Len(q) \in Nat
    OBVIOUS
  <2> QED BY <1>3, <1>4, <2>1
<1> QED BY <1>3, <1>4, <1>5, ListOfEqual

\* Whether a character is active has nothing to do with its id.
LEMMA ListOfActive ==
  ASSUME NEW q \in Seq(Character), NEW i \in DOMAIN q, NEW active \in BOOLEAN
  PROVE  ListOf([q EXCEPT ![i].active = active]) = ListOf(q)
<1> DEFINE e == [q[i] EXCEPT !.active = active]
<1>1. i \in 1 .. Len(q) /\ q[i] \in Character
  OBVIOUS
<1>2. e \in Character /\ e.id = q[i].id
  BY <1>1 DEF Character
<1> HIDE DEF e
<1>3. /\ [q EXCEPT ![i] = e] \in Seq(Character) /\ Len([q EXCEPT ![i] = e]) = Len(q)
      /\ \A j \in 1 .. Len(q) : [q EXCEPT ![i] = e][j] = IF j = i THEN e ELSE q[j]
  BY <1>1, <1>2, ExceptSeq
<1>4. \A j \in 1 .. Len(q) : [q EXCEPT ![i] = e][j].id = ListOf(q)[j]
  BY <1>2, <1>3, ListOfType
<1>5. ListOf([q EXCEPT ![i] = e]) = ListOf(q)
  BY <1>3, <1>4, ListOfType, ListOfEqual
<1>6. [q EXCEPT ![i].active = active] = [q EXCEPT ![i] = e]
  BY DEF e
<1> QED BY <1>5, <1>6

\* Moving the first row to the end of what was read changes nothing in the whole.
LEMMA MoveRow ==
  ASSUME NEW S, NEW s \in Seq(S), NEW r \in Seq(S), r # <<>>
  PROVE  Append(s, Head(r)) \o Tail(r) = s \o r
<1>1. Head(r) \in S /\ Tail(r) \in Seq(S) /\ <<Head(r)>> \in Seq(S)
  BY HeadTailProperties
<1>2. Append(s, Head(r)) = s \o <<Head(r)>>
  BY <1>1, AppendIsConcat
<1>3. (s \o <<Head(r)>>) \o Tail(r) = s \o (<<Head(r)>> \o Tail(r))
  BY <1>1, ConcatAssociative
<1>4. <<Head(r)>> \o Tail(r) = r
  <2>1. /\ Len(Tail(r)) = Len(r) - 1 /\ Len(r) \in Nat \ {0}
        /\ \A i \in 1 .. Len(Tail(r)) : Tail(r)[i] = r[i + 1]
    BY HeadTailProperties, EmptySeq
  <2>2. /\ <<Head(r)>> \o Tail(r) \in Seq(S)
        /\ Len(<<Head(r)>> \o Tail(r)) = 1 + Len(Tail(r))
        /\ \A i \in 1 .. 1 + Len(Tail(r)) :
             (<<Head(r)>> \o Tail(r))[i] = IF i <= 1 THEN Head(r) ELSE Tail(r)[i - 1]
    BY <1>1, ConcatProperties
  <2>3. Len(<<Head(r)>> \o Tail(r)) = Len(r)
    BY <2>1, <2>2
  <2>4. \A i \in 1 .. Len(r) : (<<Head(r)>> \o Tail(r))[i] = r[i]
    BY <2>1, <2>2
  <2> QED BY <2>2, <2>3, <2>4, SeqEqual
<1> QED BY <1>2, <1>3, <1>4
-----------------------------------------------------------------------------
(* ListsAreWhole.  A key whose mutex was never broken has one parser at     *)
(* most, and what its list has and the rows that are still to come are     *)
(* together a document.                                                    *)

Whole(list) == ListOf(list) \in Documents \cup {<<>>}

Sound(k) ==
  /\ k \in Rebuilt => k \in locked
  /\ \A v, w \in Parsers : parsing[v] = k /\ parsing[w] = k => v = w
  /\ k \notin Rebuilt => Whole(charlist[k])
  /\ \A w \in Parsers : parsing[w] = k => ListOf(charlist[k]) \o rows[w] \in Documents

WholeInv ==
  /\ \A k \in Keys \ Unlocked : Sound(k)
  /\ \A w \in Parsers : parsing[w] # Nobody => document[parsing[w]] \in Documents
  /\ \A d \in disk : d.class = "key" /\ d.owner \notin Unlocked => d.list \in Documents

\* Which keys are rebuilt is a matter of the threads.
LEMMA RebuiltBy ==
  ASSUME NEW k \in Keys
  PROVE  /\ k \in Rebuilt <=> \E w \in Parsers : parsing[w] = k
         /\ (k \in Rebuilt)' <=> \E w \in Parsers : parsing'[w] = k
BY RegistryAssumption DEF Rebuilt

\* A step that has nothing to do with the list of a key and those who parse for it.
LEMMA SoundFrame ==
  ASSUME NEW k \in Keys, Sound(k), ListOf(charlist'[k]) = ListOf(charlist[k]),
         \A w \in Parsers : parsing'[w] = k <=> parsing[w] = k,
         \A w \in Parsers : parsing[w] = k => rows'[w] = rows[w],
         k \in locked => k \in locked'
  PROVE  Sound(k)'
BY RebuiltBy DEF Sound, Whole

\* A step that leaves the lists, the threads and the keys' documents alone.
LEMMA WholeFrame ==
  ASSUME WholeInv, UNCHANGED <<charlist, document, parsers>>,
         \A d \in disk' : d.class = "key" => d \in disk
  PROVE  WholeInv'
BY DEF WholeInv, Sound, Whole, Rebuilt, parsers, Unlocked

\* A new key has no characters, or those of the document it finds in the cache.
LEMMA CreateKeyWhole ==
  ASSUME TypeOK, OwnInv, WholeInv, NEW k \in Keys, CreateKey(k) PROVE WholeInv'
<1>1. k \notin Rebuilt /\ UNCHANGED <<parsers, parsing, rows, locked, Unlocked, disk>>
  BY DEF CreateKey, OwnInv, parsers, Unlocked
<1>2. \A w \in Parsers : parsing[w] # k
  BY <1>1, RebuiltBy
<1>3. CASE UNCHANGED <<charlist, document>>
  BY <1>1, <1>3, WholeFrame
<1>4. ASSUME NEW d \in Cached("key", NextName("key", k)),
             charlist' = [charlist EXCEPT ![k] = [i \in DOMAIN d.list |-> Inactive(d.list[i])]],
             document' = [document EXCEPT ![k] = d.list]
      PROVE  WholeInv'
  <2>1. d.list \in Seq(Characters) /\ (k \notin Unlocked => d.list \in Documents)
    <3>1. d \in disk /\ d.class = "key" /\ d.name = NextName("key", k)
      BY DEF Cached
    <3>2. d.owner = k
      BY <3>1, NextNameHead DEF OwnInv, TypeOK, Classes, Objects
    <3> QED BY <3>1, <3>2 DEF WholeInv, TypeOK
  <2>2. charlist'[k] = [i \in DOMAIN d.list |-> Inactive(d.list[i])]
        /\ \A j \in Keys \ {k} : charlist'[j] = charlist[j] /\ document'[j] = document[j]
    BY <1>4 DEF TypeOK
  <2>3. k \notin Unlocked => Whole(charlist'[k])
    BY <2>1, <2>2, ListOfInactive DEF Whole
  <2>4. k \notin Unlocked => Sound(k)'
    BY <1>1, <1>2, <2>3, RebuiltBy DEF Sound, Whole
  <2>5. ASSUME NEW j \in Keys \ Unlocked, j # k PROVE Sound(j)'
    <3>1. Sound(j)
      BY <2>5 DEF WholeInv
    <3> QED BY <1>1, <2>2, <2>5, <3>1, SoundFrame
  <2>6. \A w \in Parsers : parsing'[w] # Nobody => document'[parsing'[w]] \in Documents
    BY <1>1, <1>2, <2>2 DEF WholeInv, TypeOK
  <2> QED BY <1>1, <2>4, <2>5, <2>6 DEF WholeInv
<1> QED BY <1>3, <1>4 DEF CreateKey

\* A character that becomes active keeps its place in the list.
LEMMA SetActiveWhole ==
  ASSUME TypeOK, WholeInv, NEW k \in Keys, NEW c \in Characters, NEW active \in BOOLEAN,
         SetActive(k, c, active)
  PROVE  WholeInv'
<1>1. PICK i \in DOMAIN charlist[k] : charlist' = [charlist EXCEPT ![k][i].active = active]
  BY DEF SetActive
<1>2. charlist[k] \in Seq(Character) /\ charlist' = [charlist EXCEPT ![k] = [@ EXCEPT ![i].active = active]]
  BY <1>1 DEF TypeOK
<1>3. ListOf(charlist'[k]) = ListOf(charlist[k])
  <2>1. ListOf([charlist[k] EXCEPT ![i].active = active]) = ListOf(charlist[k])
    BY <1>2, ListOfActive
  <2>2. charlist'[k] = [charlist[k] EXCEPT ![i].active = active]
    BY <1>1 DEF TypeOK
  <2> QED BY <2>1, <2>2
<1>4. \A j \in Keys : ListOf(charlist'[j]) = ListOf(charlist[j])
  BY <1>2, <1>3 DEF TypeOK
<1>5. UNCHANGED <<document, parsing, rows, locked, Unlocked, disk>>
  BY DEF SetActive, parsers, Unlocked
<1>6. ASSUME NEW j \in Keys \ Unlocked PROVE Sound(j)'
  BY <1>4, <1>5, <1>6, SoundFrame DEF WholeInv
<1> QED BY <1>5, <1>6 DEF WholeInv

\* A mutex is unlocked for a thread that still parses: the key is broken from now on.
LEMMA ReclaimWhole ==
  ASSUME TypeOK, WholeInv, NEW k \in Keys, Reclaim(k) PROVE WholeInv'
<1>1. /\ UNCHANGED <<charlist, document, parsing, rows, disk>>
      /\ locked' = locked \ {k} /\ broken' = broken \cup {<<runs, k>>}
  BY DEF Reclaim
<1>3. Unlocked' = Unlocked \cup {k}
  <2>1. Unlocked' = {b[2] : b \in broken'}
    BY DEF Unlocked
  <2>2. broken' = broken \cup {<<runs, k>>} /\ <<runs, k>>[2] = k
    BY <1>1
  <2> DEFINE b0 == <<runs, k>>
  <2>3. broken' = broken \cup {b0} /\ b0[2] = k
    BY <2>2
  <2> HIDE DEF b0
  <2>4. {b[2] : b \in broken'} = {b[2] : b \in broken} \cup {k}
    BY <2>3
  <2> QED BY <2>1, <2>4 DEF Unlocked
<1>2. ASSUME NEW j \in Keys \ Unlocked' PROVE Sound(j)'
  <2>1. j # k /\ Sound(j)
    BY <1>2, <1>3 DEF WholeInv
  <2> QED BY <1>1, <2>1, SoundFrame
<1> QED BY <1>1, <1>2, <1>3 DEF WholeInv

\* The rows of a document that has arrived are all still to come, and nobody else parses
\* for a key that was not locked.
LEMMA ClearListWhole ==
  ASSUME TypeOK, WholeInv, NEW v \in Parsers, NEW k \in Keys, ClearList(v, k) PROVE WholeInv'
<1>1. PICK list \in Documents : rows' = [rows EXCEPT ![v] = list] /\ document' = [document EXCEPT ![k] = list]
  BY DEF ClearList
<1>2. /\ charlist' = [charlist EXCEPT ![k] = <<>>]
      /\ parsing[v] = Nobody /\ parsing' = [parsing EXCEPT ![v] = k]
      /\ k \notin locked /\ locked' = locked \cup {k}
      /\ UNCHANGED <<Unlocked, disk>>
  BY DEF ClearList, Unlocked
<1>3. /\ parsing'[v] = k /\ rows'[v] = list
      /\ \A w \in Parsers \ {v} : parsing'[w] = parsing[w] /\ rows'[w] = rows[w]
      /\ charlist'[k] = <<>> /\ document'[k] = list
      /\ \A j \in Keys \ {k} : charlist'[j] = charlist[j] /\ document'[j] = document[j]
  BY <1>1, <1>2 DEF TypeOK
<1>4. ASSUME k \notin Unlocked PROVE Sound(k)'
  <2>1. k \notin Rebuilt
    BY <1>2, <1>4 DEF WholeInv, Sound
  <2>2. \A w \in Parsers : parsing'[w] = k <=> w = v
    BY <1>3, <2>1, RebuiltBy
  <2>3. ListOf(charlist'[k]) \o rows'[v] = list
    BY <1>3, ListOfNone, ConcatEmptySeq, RegistryAssumption
  <2> QED BY <1>2, <2>2, <2>3, RebuiltBy DEF Sound
<1>5. ASSUME NEW j \in Keys \ Unlocked, j # k PROVE Sound(j)'
  <2>1. \A w \in Parsers : parsing'[w] = j <=> parsing[w] = j
    BY <1>2, <1>3, <1>5, RegistryAssumption
  <2>2. \A w \in Parsers : parsing[w] = j => rows'[w] = rows[w]
    BY <1>2, <1>3, RegistryAssumption
  <2> QED BY <1>2, <1>3, <1>5, <2>1, <2>2, SoundFrame DEF WholeInv
<1>6. \A w \in Parsers : parsing'[w] # Nobody => document'[parsing'[w]] \in Documents
  BY <1>1, <1>3 DEF WholeInv, TypeOK
<1> QED BY <1>2, <1>4, <1>5, <1>6 DEF WholeInv

\* A row goes from what is still to come to the end of the list.
LEMMA AddRowWhole ==
  ASSUME TypeOK, WholeInv, NEW v \in Parsers, AddRow(v) PROVE WholeInv'
<1>0. PICK k \in Keys : k = parsing[v]
  BY DEF AddRow, TypeOK
<1>1. /\ rows[v] # <<>>
      /\ charlist' = [charlist EXCEPT ![k] = Append(@, Inactive(Head(rows[v])))]
      /\ rows' = [rows EXCEPT ![v] = Tail(@)]
      /\ UNCHANGED <<document, parsing, locked, Unlocked, disk>>
  BY <1>0 DEF AddRow, TypeOK, Unlocked
<1>2. /\ rows[v] \in Seq(Characters) /\ charlist[k] \in Seq(Character)
      /\ Inactive(Head(rows[v])) \in Character /\ Inactive(Head(rows[v])).id = Head(rows[v])
  <2>1. rows[v] \in Seq(Characters) /\ charlist[k] \in Seq(Character)
    BY <1>1 DEF TypeOK
  <2>2. Head(rows[v]) \in Characters
    BY <1>1, <2>1, HeadTailProperties
  <2> QED BY <2>1, <2>2 DEF Inactive, Character
<1>3. /\ charlist'[k] = Append(charlist[k], Inactive(Head(rows[v])))
      /\ rows'[v] = Tail(rows[v])
      /\ \A j \in Keys \ {k} : charlist'[j] = charlist[j]
      /\ \A w \in Parsers \ {v} : rows'[w] = rows[w]
  BY <1>1 DEF TypeOK
<1>4. ListOf(charlist'[k]) \o rows'[v] = ListOf(charlist[k]) \o rows[v]
  <2>1. ListOf(charlist'[k]) = Append(ListOf(charlist[k]), Head(rows[v]))
    BY <1>2, <1>3, ListOfAppend
  <2>2. ListOf(charlist[k]) \in Seq(Characters)
    BY <1>2, ListOfType
  <2>3. Append(ListOf(charlist[k]), Head(rows[v])) \o Tail(rows[v]) = ListOf(charlist[k]) \o rows[v]
    BY <1>1, <1>2, <2>2, MoveRow
  <2> QED BY <1>3, <2>1, <2>3
<1>5. ASSUME k \notin Unlocked PROVE Sound(k)'
  <2>1. Sound(k) /\ parsing[v] = k
    BY <1>0, <1>5 DEF WholeInv
  <2>2. \A w \in Parsers : parsing[w] = k => w = v
    BY <2>1 DEF Sound
  <2>3. ListOf(charlist'[k]) \o rows'[v] \in Documents
    BY <1>4, <2>1 DEF Sound
  <2>4. k \in Rebuilt /\ k \in locked' /\ parsing' = parsing
    BY <1>1, <2>1, RebuiltBy DEF Sound
  <2>5. \A w \in Parsers : parsing'[w] = k => w = v
    BY <2>2, <2>4
  <2>6. k \in Rebuilt'
    BY <1>1, <2>1, <2>4, RebuiltBy
  <2> QED BY <2>3, <2>4, <2>5, <2>6 DEF Sound
<1>6. ASSUME NEW j \in Keys \ Unlocked, j # k PROVE Sound(j)'
  <2>1. \A w \in Parsers : parsing[w] = j => rows'[w] = rows[w]
    BY <1>0, <1>3, <1>6
  <2> QED BY <1>1, <1>3, <1>6, <2>1, SoundFrame DEF WholeInv
<1>7. \A w \in Parsers : parsing'[w] # Nobody => document'[parsing'[w]] \in Documents
  BY <1>1 DEF WholeInv
<1>8. \A j \in Keys \ Unlocked' : Sound(j)'
  BY <1>1, <1>5, <1>6
<1> QED BY <1>1, <1>7, <1>8 DEF WholeInv

\* When no row is left the list is the document, which is what is saved of a key that was
\* never unlocked.
LEMMA EndParseWhole ==
  ASSUME TypeOK, WholeInv, NEW v \in Parsers, EndParse(v) PROVE WholeInv'
<1>0. PICK k \in Keys : k = parsing[v]
  BY DEF EndParse, TypeOK
<1>1. /\ rows[v] = <<>>
      /\ parsing' = [parsing EXCEPT ![v] = Nobody] /\ locked' = locked \ {k}
      /\ UNCHANGED <<document, charlist, rows, Unlocked>>
  BY <1>0 DEF EndParse, TypeOK, Unlocked
<1>9. PICK list \in Written(k) : SaveDocument("key", k, list)
  BY <1>0 DEF EndParse
<1>2. k \notin Unlocked => list \in Documents
  <2>1. k \notin Unlocked => list = document[k]
    BY DEF Written, Unlocked
  <2> QED BY <1>0, <2>1, RegistryAssumption DEF WholeInv
<1>3. parsing'[v] = Nobody /\ \A w \in Parsers \ {v} : parsing'[w] = parsing[w]
  BY <1>1 DEF TypeOK
<1>4. ASSUME k \notin Unlocked PROVE Sound(k)'
  <2>1. Sound(k) /\ parsing[v] = k
    BY <1>0, <1>4 DEF WholeInv
  <2>2. ListOf(charlist[k]) \in Documents
    <3>1. charlist[k] \in Seq(Character) /\ ListOf(charlist[k]) \o rows[v] \in Documents
      BY <1>1, <2>1 DEF Sound, TypeOK
    <3> QED BY <1>1, <3>1, ListOfType, ConcatEmptySeq
  <2>3. \A w \in Parsers : parsing'[w] # k
    BY <1>1, <1>3, <2>1, RegistryAssumption DEF Sound
  <2> QED BY <1>1, <2>2, <2>3, RebuiltBy DEF Sound, Whole
<1>5. ASSUME NEW j \in Keys \ Unlocked, j # k PROVE Sound(j)'
  <2>1. \A w \in Parsers : parsing'[w] = j <=> parsing[w] = j
    BY <1>0, <1>3, <1>5, RegistryAssumption
  <2> QED BY <1>1, <1>5, <2>1, SoundFrame DEF WholeInv
<1>6. \A d \in disk' : d.class = "key" /\ d.owner \notin Unlocked' => d.list \in Documents
  <2>1. \A d \in disk' : d \in disk \/ (d.owner = k /\ d.list = list)
    BY <1>9, SaveFrame
  <2> QED BY <1>1, <1>2, <2>1 DEF WholeInv
<1>7. \A w \in Parsers : parsing'[w] # Nobody => document'[parsing'[w]] \in Documents
  BY <1>1, <1>3 DEF WholeInv
<1>8. \A j \in Keys \ Unlocked' : Sound(j)'
  BY <1>1, <1>4, <1>5
<1> QED BY <1>6, <1>7, <1>8 DEF WholeInv

\* A program that has just been started.
LEMMA RestartWhole ==
  ASSUME WholeInv, Restart PROVE WholeInv'
<1>1. /\ disk' = disk /\ Unlocked' = Unlocked /\ \A k \in Keys : charlist'[k] = <<>>
      /\ \A w \in Parsers : parsing'[w] = Nobody
  BY DEF Restart, Unlocked
<1>2. \A k \in Keys : Sound(k)'
  BY <1>1, RebuiltBy, ListOfNone, RegistryAssumption DEF Sound, Whole
<1> QED BY <1>1, <1>2 DEF WholeInv

\* Every step keeps the lists whole.
LEMMA WholeStep == TypeOK /\ OwnInv /\ WholeInv /\ [Next]_vars => WholeInv'
<1> SUFFICES ASSUME TypeOK, OwnInv, WholeInv, [Next]_vars PROVE WholeInv'
  OBVIOUS
<1>1. ASSUME NEW k \in Keys, CreateKey(k) \/ Reclaim(k) PROVE WholeInv'
  BY <1>1, CreateKeyWhole, ReclaimWhole
<1>2. ASSUME NEW w \in Parsers, AddRow(w) \/ EndParse(w) \/ \E k \in Keys : ClearList(w, k)
      PROVE  WholeInv'
  BY <1>2, ClearListWhole, AddRowWhole, EndParseWhole
<1>3. ASSUME NEW k \in Keys, NEW c \in Characters, NEW active \in BOOLEAN, SetActive(k, c, active)
      PROVE  WholeInv'
  BY <1>3, SetActiveWhole
<1>4. ASSUME NEW c \in Characters, ParseSheet(c) PROVE WholeInv'
  BY <1>4, SaveFrame, WholeFrame DEF ParseSheet
<1>5. CASE Restart
  BY <1>5, RestartWhole
<1>6. CASE UNCHANGED <<charlist, document, parsers, disk>>
  BY <1>6, WholeFrame
<1>7. \/ \E k \in Keys : CreateKey(k) \/ Reclaim(k)
      \/ \E w \in Parsers : AddRow(w) \/ EndParse(w) \/ \E k \in Keys : ClearList(w, k)
      \/ \E k \in Keys, c \in Characters, active \in BOOLEAN : SetActive(k, c, active)
      \/ \E c \in Characters : ParseSheet(c)
      \/ Restart
      \/ UNCHANGED <<charlist, document, parsers, disk>>
  BY RegistryAssumption DEF Next, vars, memory, FindKey, GetCharacter, MakeSheet, SearchRaces
<1> QED BY <1>1, <1>2, <1>3, <1>4, <1>5, <1>6, <1>7

\* Unless ~Request has unlocked the mutex of the key for a thread that was parsing, a
\* key's list is outside a rebuilding that of one whole document, and so is what is cached
\* for it, for any number of keys, threads, documents and restarts
\* (keyinfo.cc:111-113, apiinterface.cc:142, request.cc:67).
THEOREM ListsStayWhole == Spec => []ListsAreWhole
<1>1. Init => WholeInv
  BY ListOfNone, RebuiltBy, RegistryAssumption DEF Init, WholeInv, Sound, Whole
<1>2. WholeInv => ListsAreWhole
  BY DEF WholeInv, Sound, Whole, ListsAreWhole
<1> QED BY <1>1, <1>2, InitOwn, InitType, TypeStep, OwnStep, WholeStep, PTL DEF Spec
-----------------------------------------------------------------------------
(* The directory.  Files are told apart by their first part, which is the  *)
(* id (OwnInv); the key of an unfinished create is in the list.            *)

FoundKnown == found = NotFound \/ found.key \in Elems(keys)

\* Keys stay in the list until the program ends.
LEMMA FoundKnownStep == TypeOK /\ FoundKnown /\ [Next]_vars => FoundKnown'
<1> SUFFICES ASSUME TypeOK, FoundKnown, [Next]_vars PROVE FoundKnown'
  OBVIOUS
<1>1. ASSUME NEW k \in Keys, CreateKey(k) PROVE FoundKnown'
  <2>1. Elems(keys) \subseteq Elems(keys')
    BY <1>1, AppendOnce DEF CreateKey, TypeOK
  <2> QED BY <1>1, <2>1 DEF CreateKey, FoundKnown, create
<1>2. ASSUME NEW c \in Characters, FindKey(c) PROVE FoundKnown'
  BY <1>2 DEF FindKey, FoundKnown, Elems, lists
<1>3. CASE MakeSheet \/ Restart
  BY <1>3 DEF MakeSheet, Restart, FoundKnown
<1>4. CASE UNCHANGED <<keys, found>>
  BY <1>4 DEF FoundKnown
<1>5. \/ \E k \in Keys : CreateKey(k)
      \/ \E c \in Characters : FindKey(c)
      \/ MakeSheet \/ Restart
      \/ UNCHANGED <<keys, found>>
  BY DEF Next, vars, memory, lists, create, SetActive, GetCharacter, Reclaim, ClearList, AddRow,
         EndParse, ParseSheet, SearchRaces
<1> QED BY <1>1, <1>2, <1>3, <1>4, <1>5

\* The name a new sheet gets is that of no other sheet.
LEMMA NewFile ==
  ASSUME TypeOK, OwnInv, NEW class \in Classes, NEW x \in Objects, x \notin Live, NEW ids,
         file' = [file EXCEPT ![x] = NextName(class, x)]
  PROVE  /\ file' = [file EXCEPT ![x] = file'[x]]
         /\ \A y \in Live \cap ids : file'[x] # file[y]
<1>1. file'[x] = NextName(class, x)
  BY DEF TypeOK
<1>2. Head(NextName(class, x)) = x
  BY NextNameHead DEF TypeOK, Classes
<1>3. \A y \in Live : y # x /\ Head(file[y]) = y
  BY DEF OwnInv
<1> QED BY <1>1, <1>2, <1>3

\* create of a key is the directory's step.
LEMMA CreateKeyAdds ==
  ASSUME TypeOK, OwnInv, NEW k \in Keys, CreateKey(k) PROVE Directory!AddKey(k)
<1>1. k \in Objects /\ keys \in Seq(Keys) /\ sheets \in Seq(Characters)
  BY DEF TypeOK, Objects
<1>2. k \notin Elems(sheets)
  BY <1>1, RegistryAssumption DEF Elems
<1>3. k \notin Live /\ Live' = Live \cup {k}
  BY <1>1, <1>2, AppendOnce DEF CreateKey, Live
<1>4. /\ file' = [file EXCEPT ![k] = file'[k]]
      /\ \A y \in Live \cap Keys : file'[k] # file[y]
  BY <1>1, <1>3, NewFile DEF CreateKey, Classes
<1> QED BY <1>3, <1>4 DEF Directory!AddKey, Directory!FreshFile, CreateKey, Live

\* What create of a character sheet does last is its step.
LEMMA MakeSheetAdds ==
  ASSUME TypeOK, OwnInv, FoundKnown, MakeSheet PROVE \E c \in Characters : Directory!AddSheet(c)
<1> DEFINE c == found.character
<1>1. /\ c \in Characters /\ c \in Objects /\ c \notin Elems(sheets)
      /\ found.key \in Keys /\ found.key \in Elems(keys)
  BY RegistryAssumption DEF MakeSheet, TypeOK, Objects, FoundKnown, NotFound
<1>2. keys \in Seq(Keys) /\ sheets \in Seq(Characters)
  BY DEF TypeOK
<1>3. c \notin Elems(keys)
  BY <1>1, <1>2, RegistryAssumption DEF Elems
<1>4. /\ sheets' = Append(sheets, c) /\ keys' = keys
      /\ file' = [file EXCEPT ![c] = NextName("sheet", c)]
      /\ credential' = [credential EXCEPT ![c] = found.key]
  BY DEF MakeSheet
<1>5. c \notin Live /\ Live' = Live \cup {c}
  BY <1>1, <1>2, <1>3, <1>4, AppendOnce DEF Live
<1> HIDE DEF c
<1>6. /\ file' = [file EXCEPT ![c] = file'[c]]
      /\ \A y \in Live \cap Characters : file'[c] # file[y]
  BY <1>1, <1>4, <1>5, NewFile DEF Classes
<1>7. found.key \in Live \cap Keys
  BY <1>1 DEF Live
<1>8. Directory!AddSheet(c)
  BY <1>4, <1>5, <1>6, <1>7 DEF Directory!AddSheet, Directory!FreshFile, Live
<1> QED BY <1>1, <1>8

\* Every step of the registry is a step of the directory or nothing to it.
LEMMA DirectoryStep ==
  TypeOK /\ OwnInv /\ FoundKnown /\ [Next]_vars => [Directory!Next]_(Directory!directory)
<1> SUFFICES ASSUME TypeOK, OwnInv, FoundKnown, [Next]_vars
             PROVE  Directory!Next \/ UNCHANGED Directory!directory
  OBVIOUS
<1>1. ASSUME NEW k \in Keys, CreateKey(k) PROVE Directory!Next
  BY <1>1, CreateKeyAdds DEF Directory!Next
<1>2. CASE MakeSheet
  BY <1>2, MakeSheetAdds DEF Directory!Next
<1>3. CASE Restart
  BY <1>3 DEF Restart, Elems, NoFiles, Objects, Directory!Next, Directory!StartAgain, Directory!Ids
<1>4. CASE UNCHANGED <<keys, sheets, file, credential>>
  BY <1>4 DEF Directory!directory
<1>5. \/ \E k \in Keys : CreateKey(k)
      \/ MakeSheet \/ Restart
      \/ UNCHANGED <<keys, sheets, file, credential>>
  BY DEF Next, vars, memory, lists, names, SetActive, FindKey, GetCharacter, Reclaim, ClearList,
         AddRow, EndParse, ParseSheet, SearchRaces
<1> QED BY <1>1, <1>2, <1>3, <1>4, <1>5

\* The registry implements the directory, for any number of keys and characters: an id
\* gets one sheet, a file nobody else uses, and the credentials of a key that was made
\* (keyinfo.cc:37-48, charactersheet.cc:27-61).
THEOREM RegistryImplementsDirectory == Spec => DirectoryImplemented
<1>1. Init => OwnInv /\ FoundKnown
  BY InitOwn DEF Init, FoundKnown
<1>2. Init => Directory!Init
  BY DEF Init, Elems, NoFiles, Objects, Directory!Init, Directory!Ids
<1> QED BY <1>1, <1>2, InitType, TypeStep, OwnStep, FoundKnownStep, DirectoryStep, PTL
        DEF Spec, DirectoryImplemented, Directory!Spec
=============================================================================
