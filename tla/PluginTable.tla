----------------------------- MODULE PluginTable -----------------------------
(***************************************************************************)
(* What the plugin manager promises to the rest of the program: a table    *)
(* that has for each id at most one plugin object.  An entry is filled and *)
(* emptied, one at a time, and never changes from one object to another;   *)
(* no object stands under two ids.                                         *)
(***************************************************************************)
CONSTANTS
  Names,    \* the ids a plugin can be asked for by
  Objects,  \* plugin objects, by their address
  Null      \* no object

VARIABLE plugin  \* the object that is found under an id, or Null

Init == plugin = [i \in Names |-> Null]

Fill(i) ==
  /\ plugin[i] = Null
  /\ \E o \in Objects :
       /\ \A j \in Names : plugin[j] # o
       /\ plugin' = [plugin EXCEPT ![i] = o]

Empty(i) == plugin' = [plugin EXCEPT ![i] = Null]

Next == \E i \in Names : Fill(i) \/ Empty(i)

Spec == Init /\ [][Next]_plugin
=============================================================================
