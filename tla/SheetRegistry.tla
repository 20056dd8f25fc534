---------------------------- MODULE SheetRegistry ----------------------------
(***************************************************************************)
(* The registry of API sheets: the lists of KeyInfo and CharacterSheet     *)
(* objects (APIObject::m_sheet_list), the file each caches its document    *)
(* in, the characters a key gives access to, and what a restart of the     *)
(* program keeps.  The main thread creates sheets and reclaims requests; a *)
(* pool thread, inside a request, rebuilds the character list of a key.    *)
(*                                                                         *)
(* Slots of the ADDED event run after the sheet is in the list and at the  *)
(* end of create: what they call is a further step.                        *)
(***************************************************************************)
EXTENDS Naturals, Sequences

CONSTANTS
  Keys,          \* API keys, by their keyID
  Parsers,       \* the pool threads, which parse documents of keys
  Characters,    \* characters, by their characterID; a name is as good as the id
  Chosen,        \* the characters that the client switches on and off: a bound
  Documents,     \* the character lists that documents of a key can have
  MaxDocuments,  \* how many documents arrive in all: a bound
  MaxRuns,       \* how often the program is started: a bound
  Nobody         \* no sheet

ASSUME RegistryAssumption ==
  /\ Keys \cap Characters = {} /\ Nobody \notin Keys \cup Characters
  /\ Documents \subseteq Seq(Characters) /\ Chosen \subseteq Characters

Objects == Keys \cup Characters

VARIABLES
  keys, sheets,  \* m_sheet_list of KeyInfo and of CharacterSheet, as ids
  config,        \* config.filename of the two classes, as the names it is made of
  file,          \* m_filename of a sheet, likewise
  holds,         \* whose document a sheet holds, Nobody's if it has none
  document,      \* the characters in a key's m_document
  charlist,      \* KeyInfo::m_charlist
  credential,    \* the key whose keyID and vCode a character sheet has copied
  parsing,       \* the key a pool thread parses a document for, or Nobody
  rows,          \* the rows of that document that it has still to read
  locked,        \* the keys whose mutex a pool thread has locked to parse
  broken,        \* in which runs ~Request has unlocked which key for such a thread: a history
  step,          \* where the main thread is in CharacterSheet::create, or "idle"
  found,         \* the key and the character of that create
  disturbed,     \* whether a document of that key has come since: a history
  disk,          \* the cached documents
  documents, runs,
  failure        \* "none", or what ended the process

lists == <<keys, sheets>>
names == <<config, file>>
parsers == <<parsing, rows, locked, broken>>
create == <<step, found, disturbed>>
memory == <<lists, names, holds, document, charlist, credential, parsers, create, documents,
            failure>>
vars == <<memory, disk, runs>>
-----------------------------------------------------------------------------
(* Helpers.  A name X_Y is a mutant of X: the definition with a plausible  *)
(* bug Y, which the properties are shown to notice.                        *)

Elems(q) == {q[i] : i \in DOMAIN q}

\* KeyInfo::find_character, which does not look at the active flag.
HasCharacter(k, c) == \E i \in DOMAIN charlist[k] : charlist[k][i].id = c

\* The name that config.filename gets: the id goes before whatever it was.
NextName_Plain(class, x) == config[class]
NextName(class, x) == <<x>> \o config[class]

\* A character as parse_character_row makes it.
Inactive(c) == [id |-> c, active |-> FALSE]

\* The document that is cached under a name.
Cached(class, name) == {d \in disk : d.class = class /\ d.name = name}

\* The constructor of a sheet parses the document it finds under its new name.
ParseCache_Never(class, x) == holds' = [holds EXCEPT ![x] = Nobody]
ParseCache(class, x) ==
  LET cached == Cached(class, NextName(class, x)) IN
  \/ cached = {} /\ holds' = [holds EXCEPT ![x] = Nobody]
  \/ \E d \in cached : holds' = [holds EXCEPT ![x] = d.owner]

\* save_file, after a document of x was parsed; it may fail, and nobody looks.  What it
\* leaves may also be torn, which parse_cache takes for no document.
SaveDocument(class, x, list) ==
  \/ disk' = (disk \ Cached(class, file[x]))
               \cup {[class |-> class, name |-> file[x], owner |-> x, list |-> list]}
  \/ disk' = disk \ Cached(class, file[x])
  \/ disk' = disk

Running == failure = "none"
MainFree == Running /\ step = "idle"
NotFound == [key |-> Nobody, character |-> Nobody]

\* The keys whose list some thread is rebuilding.
Rebuilt == {parsing[w] : w \in Parsers} \ {Nobody}

\* The keys whose mutex ~Request has unlocked for a thread, in whatever run.
Unlocked == {b[2] : b \in broken}

\* The list that save_file writes for a key: what the document says, or, once another
\* thread may be replacing the document at that moment, a part of it.
Written(k) ==
  {document[k]} \cup
  IF <<runs, k>> \in broken THEN {SubSeq(document[k], 1, n) : n \in 0..Len(document[k])} ELSE {}

\* Before a sheet is made: config.filename is the constant it is initialised with.
NoNames == [class \in {"key", "sheet"} |-> <<>>]
NoFiles == [x \in Objects |-> <<>>]
-----------------------------------------------------------------------------
\* A program that has just been started has no sheet in memory.
Init ==
  /\ keys = <<>> /\ sheets = <<>>
  /\ config = NoNames
  /\ file = NoFiles
  /\ holds = [x \in Objects |-> Nobody]
  /\ document = [k \in Keys |-> <<>>] /\ charlist = [k \in Keys |-> <<>>]
  /\ credential = [c \in Characters |-> Nobody]
  /\ parsing = [w \in Parsers |-> Nobody] /\ rows = [w \in Parsers |-> <<>>]
  /\ locked = {} /\ broken = {}
  /\ step = "idle" /\ found = NotFound /\ disturbed = FALSE
  /\ documents = 0 /\ failure = "none"
  /\ disk = {} /\ runs = 1
-----------------------------------------------------------------------------
(* Main thread.                                                            *)

\* KeyInfo::create: it throws when the key exists.  The constructor parses the cache,
\* and manage puts the object at the end of the list.
CreateKey_NoFind(k) ==
  /\ MainFree
  /\ config' = [config EXCEPT !["key"] = NextName("key", k)]
  /\ file' = [file EXCEPT ![k] = NextName("key", k)]
  /\ ParseCache("key", k)
  /\ charlist' = [charlist EXCEPT ![k] = <<>>]
  /\ keys' = Append(keys, k)
  /\ UNCHANGED <<sheets, document, credential, parsers, create, documents, failure, disk, runs>>

CreateKey(k) ==
  LET name == NextName("key", k) IN
  /\ MainFree
  /\ k \notin Elems(keys)
  /\ config' = [config EXCEPT !["key"] = name]
  /\ file' = [file EXCEPT ![k] = name]
  /\ ParseCache("key", k)
  /\ \/ Cached("key", name) = {} /\ UNCHANGED <<charlist, document>>
     \/ \E d \in Cached("key", name) :
          /\ charlist' = [charlist EXCEPT ![k] = [i \in DOMAIN d.list |-> Inactive(d.list[i])]]
          /\ document' = [document EXCEPT ![k] = d.list]
  /\ keys' = Append(keys, k)
  /\ UNCHANGED <<sheets, credential, parsers, create, documents, failure, disk, runs>>

\* KeyInfo::set_character_active changes the first entry of the character, and does
\* nothing when there is none.
SetActive(k, c, active) ==
  /\ MainFree
  /\ k \in Elems(keys)
  /\ \E i \in DOMAIN charlist[k] :
       /\ charlist[k][i].id = c
       /\ \A j \in 1..(i - 1) : charlist[k][j].id # c
       /\ charlist' = [charlist EXCEPT ![k][i].active = active]
  /\ UNCHANGED <<lists, names, holds, document, credential, parsers, create, documents,
                 failure, disk, runs>>

\* CharacterSheet::create of a character that has no sheet yet takes the first key that
\* has the character; it throws when there is none.
FindKey_Again(c) ==
  /\ MainFree
  /\ \E i \in DOMAIN keys :
       /\ HasCharacter(keys[i], c)
       /\ found' = [key |-> keys[i], character |-> c]
  /\ step' = "get_character" /\ disturbed' = FALSE
  /\ UNCHANGED <<lists, names, holds, document, charlist, credential, parsers, documents,
                 failure, disk, runs>>

FindKey_Unchecked(c) ==
  /\ MainFree
  /\ c \notin Elems(sheets)
  /\ keys # <<>> /\ found' = [key |-> keys[1], character |-> c]
  /\ step' = "get_character" /\ disturbed' = FALSE
  /\ UNCHANGED <<lists, names, holds, document, charlist, credential, parsers, documents,
                 failure, disk, runs>>

FindKey(c) ==
  /\ MainFree
  /\ c \notin Elems(sheets)
  /\ \E i \in DOMAIN keys :
       /\ HasCharacter(keys[i], c)
       /\ \A j \in 1..(i - 1) : ~HasCharacter(keys[j], c)
       /\ found' = [key |-> keys[i], character |-> c]
  /\ step' = "get_character" /\ disturbed' = FALSE
  /\ UNCHANGED <<lists, names, holds, document, charlist, credential, parsers, documents,
                 failure, disk, runs>>

\* get_character searches the list once more and asserts that the character is there.
GetCharacter ==
  /\ Running /\ step = "get_character"
  /\ \/ HasCharacter(found.key, found.character) /\ step' = "make" /\ UNCHANGED failure
     \/ ~HasCharacter(found.key, found.character) /\ failure' = "get_character" /\ UNCHANGED step
  /\ UNCHANGED <<lists, names, holds, document, charlist, credential, parsers, found, disturbed,
                 documents, disk, runs>>

\* The sheet gets its name, the credentials of the key and what is cached, and goes to
\* the list: of what other threads change only the disk is read.
MakeSheet ==
  LET c == found.character  name == NextName("sheet", c) IN
  /\ Running /\ step = "make"
  /\ config' = [config EXCEPT !["sheet"] = name]
  /\ file' = [file EXCEPT ![c] = name]
  /\ credential' = [credential EXCEPT ![c] = found.key]
  /\ ParseCache("sheet", c)
  /\ sheets' = Append(sheets, c)
  /\ step' = "idle" /\ found' = NotFound /\ disturbed' = FALSE
  /\ UNCHANGED <<keys, document, charlist, parsers, documents, failure, disk, runs>>

\* ~Request unlocks the mutex of its sheet, which another request may have locked by now
\* (of a free mutex RequestSystem says what comes of it).
Reclaim(k) ==
  /\ MainFree
  /\ k \in locked
  /\ locked' = locked \ {k}
  /\ broken' = broken \cup {<<runs, k>>}
  /\ UNCHANGED <<lists, names, holds, document, charlist, credential, parsing, rows, create,
                 documents, failure, disk, runs>>
-----------------------------------------------------------------------------
(* Pool threads.  They lock the sheet they parse for; the main thread does *)
(* not lock it to search a list.                                           *)

ClearList_Keeps(w, k) ==
  /\ Running /\ documents < MaxDocuments
  /\ parsing[w] = Nobody
  /\ k \in Elems(keys) \ locked
  /\ locked' = locked \cup {k}
  /\ parsing' = [parsing EXCEPT ![w] = k]
  /\ \E list \in Documents : rows' = [rows EXCEPT ![w] = list] /\ document' = [document EXCEPT ![k] = list]
  /\ disturbed' = (disturbed \/ k = found.key)
  /\ documents' = documents + 1
  /\ UNCHANGED <<lists, names, holds, charlist, credential, broken, step, found, failure, disk, runs>>

\* A thread that has locked a key and received a document for it: KeyInfo::parse_result
\* forgets the old list, ...
ClearList(w, k) ==
  /\ Running /\ documents < MaxDocuments
  /\ parsing[w] = Nobody
  /\ k \in Elems(keys) \ locked
  /\ locked' = locked \cup {k}
  /\ parsing' = [parsing EXCEPT ![w] = k]
  /\ \E list \in Documents : rows' = [rows EXCEPT ![w] = list] /\ document' = [document EXCEPT ![k] = list]
  /\ charlist' = [charlist EXCEPT ![k] = <<>>]
  /\ disturbed' = (disturbed \/ k = found.key)
  /\ documents' = documents + 1
  /\ UNCHANGED <<lists, names, holds, credential, broken, step, found, failure, disk, runs>>

\* ... adds one character after the other, ...
AddRow(w) ==
  LET k == parsing[w] IN
  /\ Running /\ k # Nobody
  /\ rows[w] # <<>>
  /\ charlist' = [charlist EXCEPT ![k] = Append(@, Inactive(Head(rows[w])))]
  /\ rows' = [rows EXCEPT ![w] = Tail(@)]
  /\ UNCHANGED <<lists, names, holds, document, credential, parsing, locked, broken, create,
                 documents, failure, disk, runs>>

\* ... and the document goes to the cache before the key is unlocked.
EndParse(w) ==
  LET k == parsing[w] IN
  /\ Running /\ k # Nobody
  /\ rows[w] = <<>>
  /\ holds' = [holds EXCEPT ![k] = k]
  /\ \E list \in Written(k) : SaveDocument("key", k, list)
  /\ parsing' = [parsing EXCEPT ![w] = Nobody]
  /\ locked' = locked \ {k}
  /\ UNCHANGED <<lists, names, document, charlist, credential, rows, broken, create, documents,
                 failure, runs>>

\* A document of a character sheet has nothing to parse.
ParseSheet(c) ==
  /\ Running /\ documents < MaxDocuments
  /\ c \in Elems(sheets)
  /\ holds' = [holds EXCEPT ![c] = c]
  /\ SaveDocument("sheet", c, <<>>)
  /\ documents' = documents + 1
  /\ UNCHANGED <<lists, names, document, charlist, credential, parsers, create, failure, runs>>

\* A list is searched, or rebuilt by a second thread, while its nodes are freed.  That
\* each finds what was there before or after is the other steps; it may also end the
\* process.
SearchRaces ==
  /\ Running /\ Rebuilt # {}
  /\ failure' = "list_race"
  /\ UNCHANGED <<lists, names, holds, document, charlist, credential, parsers, create, documents,
                 disk, runs>>
-----------------------------------------------------------------------------
\* The program ends, in whatever way, and is started again: the disk is all that stays.
Restart ==
  /\ runs < MaxRuns
  /\ runs' = runs + 1
  /\ keys' = <<>> /\ sheets' = <<>>
  /\ config' = NoNames
  /\ file' = NoFiles
  /\ holds' = [x \in Objects |-> Nobody]
  /\ document' = [k \in Keys |-> <<>>] /\ charlist' = [k \in Keys |-> <<>>]
  /\ credential' = [c \in Characters |-> Nobody]
  /\ parsing' = [w \in Parsers |-> Nobody] /\ rows' = [w \in Parsers |-> <<>>]
  /\ locked' = {}
  /\ step' = "idle" /\ found' = NotFound /\ disturbed' = FALSE
  /\ failure' = "none"
  /\ UNCHANGED <<disk, broken, documents>>

Next ==
  \/ \E k \in Keys : CreateKey(k) \/ Reclaim(k)
  \/ \E w \in Parsers, k \in Keys : ClearList(w, k)
  \/ \E w \in Parsers : AddRow(w) \/ EndParse(w)
  \/ \E k \in Keys, c \in Chosen, active \in BOOLEAN : SetActive(k, c, active)
  \/ \E c \in Characters : FindKey(c) \/ ParseSheet(c)
  \/ GetCharacter
  \/ MakeSheet
  \/ SearchRaces
  \/ Restart

Spec == Init /\ [][Next]_vars
=============================================================================
