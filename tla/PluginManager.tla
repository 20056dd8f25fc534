---------------------------- MODULE PluginManager ----------------------------
(***************************************************************************)
(* The plugin manager: a handle for every file of the plugin directory,    *)
(* the dynamic loader below it (external: reference counts of libraries),  *)
(* and the plugin objects that the libraries create.                       *)
(*                                                                         *)
(* Everything runs on the main thread.  The settings list no plugin at     *)
(* this commit, so that every file is a new plugin (pluginmanager.cc:76).  *)
(***************************************************************************)
EXTENDS Naturals, Sequences, FiniteSets

CONSTANTS
  Files,     \* files whose name is that of a plugin; a handle goes by its file
  Ids,       \* ids that plugins give themselves
  PluginId,  \* the id that get_params of a library answers
  NoId,      \* the empty string
  Objects,   \* addresses at which plugin objects can be
  Null,      \* the null pointer, and no file
  MaxLoads   \* how often a library is loaded at a time: a bound

ASSUME ManagerAssumption ==
  /\ IsFiniteSet(Files)
  /\ PluginId \in [Files -> Ids]
  /\ NoId \notin Ids
  /\ Null \notin Files \cup Objects
  /\ MaxLoads \in Nat

Names == Ids \cup {NoId}

VARIABLES
  phase,     \* what the application is doing, or how it ended
  position,  \* where open_all and close_all are in the list of handles
  handles,   \* m_plugin_handles, as files
  info,      \* the PluginInfo that all handles refer to
  id,        \* PluginHandle::id
  ptr,       \* PluginHandle::ptr
  dlhandle,  \* PluginHandle::dlhandle: the file of the library, or Null
  destroy,   \* whether PluginHandle::destroy is known
  refs,      \* the loader's reference count of a library
  made       \* of a live object the library it comes from, Null of a free address

handle == <<info, ptr, dlhandle, destroy>>
managerVars == <<phase, position, handles, id, handle, refs, made>>

Live == {o \in Objects : made[o] # Null}
-----------------------------------------------------------------------------
(* A name X_Y is a mutant of X, with a plausible bug Y.                    *)

\* The constructor of the application makes the manager.
ManagerInit ==
  /\ phase = "start" /\ position = 1
  /\ handles = <<>>
  /\ info = [file |-> Null, id |-> NoId]
  /\ id = [f \in Files |-> NoId]
  /\ ptr = [f \in Files |-> Null]
  /\ dlhandle = [f \in Files |-> Null]
  /\ destroy = [f \in Files |-> FALSE]
  /\ refs = [f \in Files |-> 0]
  /\ made = [o \in Objects |-> Null]

\* What a directory can be read as: no directory, or some of the files in some order.
Listings ==
  UNION {{q \in [1..n -> Files] : \A i, j \in 1..n : q[i] = q[j] => i = j} :
           n \in 0..Cardinality(Files)}

\* read_plugin_dir fills the one static PluginInfo again for each file; a handle copies
\* the id from it, which no library has set so far.
ReadPluginDir ==
  /\ phase = "start"
  /\ \E q \in Listings :
       /\ handles' = q
       /\ info' = IF q = <<>> THEN info ELSE [info EXCEPT !.file = q[Len(q)]]
       /\ id' = [f \in Files |-> info.id]
  /\ phase' = "open_all"
  /\ UNCHANGED <<position, ptr, dlhandle, destroy, refs, made>>

\* The end of open: nothing is created over an object that is there; create may answer
\* null, and the constructor of a plugin may throw.
Create_Again(f, thrown) ==
  /\ ~thrown
  /\ \E o \in Objects \ Live :
       /\ ptr' = [ptr EXCEPT ![f] = o]
       /\ made' = [made EXCEPT ![o] = info.file]

Create(f, thrown) ==
  \/ ptr[f] # Null /\ ~thrown /\ UNCHANGED <<ptr, made>>
  \/ ptr[f] = Null /\ UNCHANGED <<ptr, made>>
  \/ /\ ptr[f] = Null /\ ~thrown
     /\ \E o \in Objects \ Live :
          /\ ptr' = [ptr EXCEPT ![f] = o]
          /\ made' = [made EXCEPT ![o] = info.file]

\* open of a handle, whose file is the one in the PluginInfo.  dlopen may fail; a missing
\* symbol leaves the library loaded.
Open(f, thrown) ==
  \/ ~thrown /\ UNCHANGED <<handle, refs, made>>
  \/ /\ refs[info.file] < MaxLoads
     /\ refs' = [refs EXCEPT ![info.file] = @ + 1]
     /\ \/ ~thrown /\ UNCHANGED <<handle, made>>
        \/ /\ dlhandle' = [dlhandle EXCEPT ![f] = info.file]
           /\ destroy' = [destroy EXCEPT ![f] = TRUE]
           /\ info' = [info EXCEPT !.id = PluginId[info.file]]
           /\ Create(f, thrown)

\* The destructor of a plugin disconnects its connections while it iterates over them
\* (ConnectionHandler): going on from a removed element is undefined, and may end the
\* process.
DisconnectRaces(f) == ptr[f] # Null

\* close of a handle.  A library that dlclose refuses to give back stays in the handle.
Close_KeepsHandle(f, crash) ==
  \/ ~destroy[f] /\ ~crash /\ UNCHANGED <<handle, refs, made>>
  \/ /\ destroy[f] /\ ~crash
     /\ ptr' = [ptr EXCEPT ![f] = Null]
     /\ made' = [o \in Objects |-> IF o = ptr[f] THEN Null ELSE made[o]]
     /\ refs' = [refs EXCEPT ![dlhandle[f]] = @ - 1]
     /\ UNCHANGED <<info, dlhandle, destroy>>

Close_NoDestroy(f, crash) ==
  /\ destroy[f] /\ ~crash
  /\ dlhandle' = [dlhandle EXCEPT ![f] = Null]
  /\ destroy' = [destroy EXCEPT ![f] = FALSE]
  /\ refs' = [refs EXCEPT ![dlhandle[f]] = @ - 1]
  /\ UNCHANGED <<info, ptr, made>>

Close(f, crash) ==
  \/ ~destroy[f] /\ ~crash /\ UNCHANGED <<handle, refs, made>>
  \/ destroy[f] /\ crash /\ DisconnectRaces(f) /\ UNCHANGED <<handle, refs, made>>
  \/ /\ destroy[f] /\ ~crash
     /\ ptr' = [ptr EXCEPT ![f] = Null]
     /\ made' = [o \in Objects |-> IF o = ptr[f] THEN Null ELSE made[o]]
     /\ \/ UNCHANGED <<dlhandle, destroy, refs>>
        \/ /\ dlhandle' = [dlhandle EXCEPT ![f] = Null]
           /\ destroy' = [destroy EXCEPT ![f] = FALSE]
           /\ refs' = [refs EXCEPT ![dlhandle[f]] = @ - 1]
     /\ UNCHANGED info
-----------------------------------------------------------------------------
(* find, and the operations by id.                                         *)

\* The first handle with the id: a set of one position, or of none.
FindHandle(i) ==
  {k \in DOMAIN handles : id[handles[k]] = i /\ \A j \in 1..(k - 1) : id[handles[j]] # i}

\* The plugin under an id: the object of its handle, if there is one.
FindPlugin(i) == {ptr[handles[k]] : k \in FindHandle(i)} \ {Null}

GoesOn(failed) == phase' = IF failed THEN "failed" ELSE phase

OpenById(i) ==
  /\ phase = "run"
  /\ \/ FindHandle(i) = {} /\ UNCHANGED <<phase, handle, refs, made>>
     \/ \E k \in FindHandle(i), thrown \in BOOLEAN :
          Open(handles[k], thrown) /\ GoesOn(thrown)
  /\ UNCHANGED <<position, handles, id>>

CloseById(i) ==
  /\ phase = "run"
  /\ \/ FindHandle(i) = {} /\ UNCHANGED <<phase, handle, refs, made>>
     \/ \E k \in FindHandle(i), crash \in BOOLEAN :
          Close(handles[k], crash) /\ GoesOn(crash)
  /\ UNCHANGED <<position, handles, id>>

\* One turn of the loop of open_all: every handle is an autoload one.
OpenAll ==
  /\ phase = "open_all"
  /\ \/ /\ position \in DOMAIN handles
        /\ \E thrown \in BOOLEAN : Open(handles[position], thrown) /\ GoesOn(thrown)
        /\ position' = position + 1
     \/ /\ position \notin DOMAIN handles
        /\ phase' = "run" /\ position' = 1
        /\ UNCHANGED <<handle, refs, made>>
  /\ UNCHANGED <<handles, id>>

\* The end of the program deletes the application and with it the manager, ...
Destruct ==
  /\ phase = "run"
  /\ phase' = "close_all"
  /\ UNCHANGED <<position, handles, id, handle, refs, made>>

\* ... whose close_all opens each handle that has a library and no object.
CloseAll ==
  /\ phase = "close_all"
  /\ \/ /\ position \in DOMAIN handles
        /\ LET f == handles[position] IN
           IF dlhandle[f] # Null /\ ptr[f] = Null
           THEN \E thrown \in BOOLEAN : Open(f, thrown) /\ GoesOn(thrown)
           ELSE UNCHANGED <<phase, handle, refs, made>>
        /\ position' = position + 1
     \/ /\ position \notin DOMAIN handles
        /\ phase' = "ended"
        /\ UNCHANGED <<position, handle, refs, made>>
  /\ UNCHANGED <<handles, id>>

ManagerNext ==
  \/ ReadPluginDir \/ OpenAll \/ Destruct \/ CloseAll
  \/ \E i \in Names : OpenById(i) \/ CloseById(i)

ManagerSpec == ManagerInit /\ [][ManagerNext]_managerVars
-----------------------------------------------------------------------------
(* What the manager guarantees.                                            *)

Phases == {"start", "open_all", "run", "close_all", "ended", "failed"}

\* The type invariant of the manager's state.
ManagerTypeOK ==
  /\ phase \in Phases /\ position \in Nat \ {0}
  /\ handles \in Seq(Files)
  /\ info \in [file : Files \cup {Null}, id : Names]
  /\ id \in [Files -> Names]
  /\ ptr \in [Files -> Objects \cup {Null}]
  /\ dlhandle \in [Files -> Files \cup {Null}]
  /\ destroy \in [Files -> BOOLEAN]
  /\ refs \in [Files -> Nat]
  /\ made \in [Objects -> Files \cup {Null}]

\* No plugin object is lost and none is in two handles, however open and close are
\* called and whichever of their steps fails (pluginmanager.cc:157-165, 197-203): what
\* create made is what some handle will destroy.
ObjectsHeld ==
  /\ Live = {ptr[f] : f \in Files} \ {Null}
  /\ \A f, g \in Files : ptr[f] = ptr[g] /\ ptr[f] # Null => f = g

\* A plugin object never outlives the code it runs: its library is loaded, although
\* handles share a library and each of them unloads it (pluginmanager.cc:123, 200).
CodeLoaded == \A o \in Live : refs[made[o]] > 0

\* What find answers is a table of plugins as PluginTable promises it.
Plugin(i) ==
  IF FindPlugin(i) = {} THEN Null ELSE CHOOSE o \in FindPlugin(i) : TRUE

Table == INSTANCE PluginTable WITH plugin <- [i \in Names |-> Plugin(i)]

TableImplemented == Table!Spec
=============================================================================
