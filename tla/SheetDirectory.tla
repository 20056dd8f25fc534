---------------------------- MODULE SheetDirectory ----------------------------
(***************************************************************************)
(* What the registry of sheets promises to its clients, however it names   *)
(* its files and whatever its threads do to the lists of characters: an    *)
(* id gets a sheet at most once in a run of the program, with a file that  *)
(* no other sheet of its class uses, and a character sheet speaks for a    *)
(* key that exists.                                                        *)
(***************************************************************************)
CONSTANTS Keys, Characters, Nobody

Ids == Keys \cup Characters

VARIABLES
  known,       \* the ids that have a sheet
  file,        \* the file that caches the sheet's document
  credential   \* the key a character sheet has its credentials from

directory == <<known, file, credential>>

Init ==
  /\ known = {}
  /\ file = [x \in Ids |-> <<>>]
  /\ credential = [c \in Characters |-> Nobody]

\* Only x's file changes, and to one that no known sheet of the class has.
FreshFile(class, x) ==
  /\ file' = [file EXCEPT ![x] = file'[x]]
  /\ \A y \in known \cap class : file'[x] # file[y]

AddKey(k) ==
  /\ k \notin known
  /\ known' = known \cup {k}
  /\ FreshFile(Keys, k)
  /\ UNCHANGED credential

AddSheet(c) ==
  /\ c \notin known
  /\ known' = known \cup {c}
  /\ FreshFile(Characters, c)
  /\ \E k \in known \cap Keys : credential' = [credential EXCEPT ![c] = k]

\* A program that starts knows no sheet.
StartAgain ==
  /\ known' = {}
  /\ file' = [x \in Ids |-> <<>>]
  /\ credential' = [c \in Characters |-> Nobody]

Next ==
  \/ \E k \in Keys : AddKey(k)
  \/ \E c \in Characters : AddSheet(c)
  \/ StartAgain

Spec == Init /\ [][Next]_directory
=============================================================================
