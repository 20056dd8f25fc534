-------------------------- MODULE PluginShellProofs --------------------------
(***************************************************************************)
(* Proofs about PluginShell, for any number of files, ids and buttons.  A  *)
(* step of the shell is a step of the manager or leaves it alone, so that  *)
(* what PluginManagerProofs shows of the manager holds in the window.      *)
(***************************************************************************)
EXTENDS PluginShell, PluginManagerProofs

-----------------------------------------------------------------------------
\* A step of the window is a step of the manager or leaves the manager alone.
LEMMA StepOfManager == [Next]_vars => [ManagerNext]_managerVars
<1> SUFFICES ASSUME [Next]_vars PROVE [ManagerNext]_managerVars
  OBVIOUS
<1>1. CASE Manage
  BY <1>1 DEF Manage, ManagerNext
<1>2. ASSUME NEW i \in Entries, EnablePlugin(i) \/ DisablePlugin(i)
      PROVE  ManagerNext
  BY <1>2, EntriesAssumption DEF EnablePlugin, DisablePlugin, ManagerNext, EntriesAssumption
<1>3. CASE Quit
  BY <1>3 DEF Quit, ManagerNext
<1>4. ASSUME NEW i \in Entries, NEW active \in BOOLEAN, AddPlugin(i, active)
      PROVE  UNCHANGED managerVars
  BY <1>4 DEF AddPlugin
<1>5. ASSUME NEW i \in Entries, PressButton(i) PROVE UNCHANGED managerVars
  BY <1>5 DEF PressButton
<1>6. QED
  BY <1>1, <1>2, <1>3, <1>4, <1>5 DEF Next, vars

\* So the manager's invariant holds under the window.
LEMMA ShellManagerAlways == Spec => []ManagerInv
<1>1. Init => ManagerInv
  BY ManagerInitInv DEF Init
<1>2. ManagerInv /\ [Next]_vars => ManagerInv'
  BY StepOfManager, ManagerStepInv
<1>3. QED
  BY <1>1, <1>2, PTL DEF Spec

\* However menu items and buttons are clicked, no plugin object is lost and none is in
\* two handles (pluginmanager.cc:157-165, 197-203).
THEOREM ObjectsAreHeld == Spec => []ObjectsHeld
<1>1. ManagerInv => ObjectsHeld
  BY DEF ManagerInv, StateOK
<1>2. QED
  BY <1>1, ShellManagerAlways, PTL

\* A plugin object never outlives the code it runs, although handles share a library
\* (pluginmanager.cc:123, 200): each handle that has the library counts for one load.
THEOREM CodeIsLoaded == Spec => []CodeLoaded
BY InvCode, ShellManagerAlways, PTL

\* What find answers in the window is a table of plugins.
THEOREM ShellHasTable == Spec => TableImplemented
<1>1. Init => Table!Init
  BY ManagerTableInit DEF Init
<1>2. ManagerInv /\ ManagerInv' /\ [Next]_vars => [Table!Next]_[i \in Names |-> Plugin(i)]
  BY StepOfManager, ManagerTableStep
<1>3. QED
  BY <1>1, <1>2, ShellManagerAlways, PTL DEF Spec, TableImplemented, Table!Spec

\* The PluginInfo stays that of the last file in the window, too.
LEMMA ShellInfoAlways == Spec => []InfoOK
<1>1. Init => InfoOK
  BY InfoInit DEF Init
<1>2. ManagerInv /\ InfoOK /\ [Next]_vars => InfoOK'
  BY StepOfManager, InfoStep
<1>3. QED
  BY <1>1, <1>2, ShellManagerAlways, PTL DEF Spec

\* Whatever plugins there are, all plugin objects come from the library whose file was
\* read last: the handles share one PluginInfo (pluginmanager.cc:76-82).
THEOREM AllFromLastFile == Spec => []OneLibrary
BY InfoObjects, ShellInfoAlways, ShellManagerAlways, PTL

\* No plugin is ever found under its id, in any directory of plugins
\* (pluginmanager.cc:31, 153).
THEOREM NobodyFoundById == Spec => []NoneByItsId
BY InfoObjects, ShellInfoAlways, ShellManagerAlways, PTL
-----------------------------------------------------------------------------
(* The window.                                                             *)

\* Only what the client added is there, and the button that is down is the current one.
BarOK ==
  /\ item \in [Names -> {"none", "on", "off"}]
  /\ \A i \in Names : item[i] # "none" => i \in Entries
  /\ shown \subseteq Entries
  /\ current \in Entries \cup {Null}
  /\ down = IF current = Null THEN {} ELSE {current}

\* At the start no button is down.
LEMMA BarInit == Init => BarOK
BY DEF Init, BarOK

\* After a press the pressed button is down alone.
LEMMA PressBar ==
  ASSUME BarOK, NEW i \in Entries, PressButton(i)
  PROVE  BarOK' /\ down' = {i}
<1> USE EntriesAssumption DEF EntriesAssumption, BarOK
<1>1. CASE i = current
  BY <1>1 DEF PressButton
<1>2. CASE i # current
  BY <1>2 DEF PressButton
<1>3. QED
  BY <1>1, <1>2

\* Every step keeps the bar in order.
LEMMA BarStep == BarOK /\ [Next]_vars => BarOK'
<1> SUFFICES ASSUME BarOK, [Next]_vars PROVE BarOK'
  OBVIOUS
<1> USE EntriesAssumption DEF EntriesAssumption, BarOK
<1>1. CASE Manage
  BY <1>1 DEF Manage, window
<1>2. ASSUME NEW i \in Entries, NEW active \in BOOLEAN, AddPlugin(i, active)
      PROVE  BarOK'
  BY <1>2 DEF AddPlugin, AddButton
<1>3. ASSUME NEW i \in Entries, EnablePlugin(i) PROVE BarOK'
  BY <1>3 DEF EnablePlugin, ShowButton
<1>4. ASSUME NEW i \in Entries, DisablePlugin(i) PROVE BarOK'
  BY <1>4 DEF DisablePlugin, HideButton
<1>5. ASSUME NEW i \in Entries, PressButton(i) PROVE BarOK'
  BY <1>5, PressBar
<1>6. CASE Quit
  BY <1>6 DEF Quit
<1>7. CASE UNCHANGED vars
  BY <1>7 DEF vars, shellVars, window
<1>8. QED
  BY <1>1, <1>2, <1>3, <1>4, <1>5, <1>6, <1>7 DEF Next

\* So the bar always is.
LEMMA BarAlways == Spec => []BarOK
BY BarInit, BarStep, PTL DEF Spec

\* The plugin bar is a radio group (pluginbar.cc:79-113): only a press changes which
\* button is down, and after a press it is the pressed one alone.
THEOREM BarIsRadio == Spec => RadioImplemented
<1>1. Init => Radio!Init
  BY DEF Init, Radio!Init
<1>2. BarOK /\ [Next]_vars => [Radio!Next]_down
  <2> SUFFICES ASSUME BarOK, [Next]_vars PROVE [Radio!Next]_down
    OBVIOUS
  <2>1. ASSUME NEW i \in Entries, PressButton(i) PROVE Radio!Next
    BY <2>1, PressBar DEF Radio!Next, Radio!Press
  <2>2. ASSUME ~ \E i \in Entries : PressButton(i) PROVE UNCHANGED down
    BY <2>2 DEF Next, Manage, AddPlugin, EnablePlugin, DisablePlugin, Quit, vars, shellVars,
       window
  <2>3. QED
    BY <2>1, <2>2
<1>3. QED
  BY <1>1, <1>2, BarAlways, PTL DEF Spec, RadioImplemented, Radio!Spec
-----------------------------------------------------------------------------
(* Who listens.                                                            *)

\* What a step of the manager does to an object that lives before and after it: nothing.
Kept(o) == \A f \in Files : ptr'[f] = o <=> ptr[f] = o

\* open moves no object that there is.
LEMMA OpenKeepsObjects ==
  ASSUME ManagerInv, NEW f \in Files, NEW thrown \in BOOLEAN, Open(f, thrown),
         NEW o \in Live
  PROVE  Kept(o)
<1> USE DEF Kept, ManagerInv, StateOK, HandleType
<1>1. CASE UNCHANGED ptr
  BY <1>1
<1>2. CASE ptr[f] = Null /\ \E p \in Objects \ Live : ptr' = [ptr EXCEPT ![f] = p]
  BY <1>2, ManagerAssumption DEF ManagerAssumption, Live
<1>3. QED
  BY <1>1, <1>2 DEF Open, Create, handle

\* close moves none that stays.
LEMMA CloseKeepsObjects ==
  ASSUME ManagerInv, NEW f \in Files, NEW crash \in BOOLEAN, Close(f, crash),
         NEW o \in Live, o \in Live'
  PROVE  Kept(o)
<1> USE DEF Kept, ManagerInv, StateOK, HandleType
<1>1. CASE UNCHANGED ptr
  BY <1>1
<1>2. CASE /\ ptr' = [ptr EXCEPT ![f] = Null]
           /\ made' = [p \in Objects |-> IF p = ptr[f] THEN Null ELSE made[p]]
  BY <1>2, ManagerAssumption DEF ManagerAssumption, Live
<1>3. QED
  BY <1>1, <1>2 DEF Close, handle

\* An object that lives before and after a step is found under the same ids.
LEMMA FoundKept ==
  ASSUME ManagerInv, ManagerInv', [ManagerNext]_managerVars, NEW o \in Live, o \in Live',
         NEW i
  PROVE  o \in FindPlugin(i)' <=> o \in FindPlugin(i)
<1>0. o # Null
  BY ManagerAssumption DEF ManagerAssumption, Live
<1>1. phase # "start"
  <2>1. PICK f \in Files : ptr[f] = o
    BY DEF ManagerInv, StateOK, ObjectsHeld
  <2>2. dlhandle[f] # Null
    BY <1>0, <2>1 DEF ManagerInv, StateOK, HandleOK
  <2>3. QED
    BY <2>2 DEF ManagerInv, ControlOK
<1>2. UNCHANGED <<handles, id>>
  BY <1>1 DEF ManagerNext, ReadPluginDir, OpenAll, Destruct, CloseAll, OpenById, CloseById,
     managerVars
<1>3. Kept(o)
  <2>1. ASSUME UNCHANGED ptr PROVE Kept(o)
    BY <2>1 DEF Kept
  <2>2. ASSUME position \in DOMAIN handles PROVE handles[position] \in Files
    BY <2>2 DEF ManagerInv, ControlOK
  <2>3. ASSUME NEW j \in Names, OpenById(j) PROVE Kept(o)
    BY <2>1, <2>3, FoundHandle, OpenKeepsObjects DEF OpenById, handle
  <2>4. ASSUME NEW j \in Names, CloseById(j) PROVE Kept(o)
    BY <2>1, <2>4, FoundHandle, CloseKeepsObjects DEF CloseById, handle
  <2>5. CASE OpenAll
    BY <2>1, <2>2, <2>5, OpenKeepsObjects DEF OpenAll, handle
  <2>6. CASE CloseAll
    BY <2>1, <2>2, <2>6, OpenKeepsObjects DEF CloseAll, handle
  <2>7. CASE Destruct \/ UNCHANGED managerVars
    BY <2>1, <2>7 DEF Destruct, handle, managerVars
  <2>8. QED
    BY <1>1, <2>3, <2>4, <2>5, <2>6, <2>7 DEF ManagerNext, ReadPluginDir
<1>4. FindHandle(i)' = FindHandle(i)
  BY <1>2 DEF FindHandle
<1>5. \A k \in FindHandle(i) : ptr'[handles'[k]] = o <=> ptr[handles[k]] = o
  BY <1>2, <1>3, FoundHandle DEF Kept
<1>6. QED
  BY <1>0, <1>4, <1>5 DEF FindPlugin

SeenOK == seen \subseteq Live /\ blocked \subseteq Objects /\ ShownListens

\* Only objects that live are found.
LEMMA FoundLive ==
  ASSUME ManagerInv, NEW i PROVE FindPlugin(i) \subseteq Live
BY FoundHandle DEF FindPlugin, ManagerInv, StateOK, ObjectsHeld

\* At the start nothing has been shown.
LEMMA SeenInit == Init => SeenOK
BY DEF Init, SeenOK, ShownListens

\* A step that leaves the bar alone, and forgets what it destroys.
LEMMA ForgetStep ==
  ASSUME ManagerInv, ManagerInv', SeenOK, [ManagerNext]_managerVars, OnlyLive,
         UNCHANGED current
  PROVE  SeenOK'
<1>1. seen' \subseteq Live' /\ blocked' \subseteq Objects
  BY DEF SeenOK, OnlyLive
<1>2. ASSUME NEW o \in seen' PROVE o \in blocked' <=> o \notin Deactivated'
  <2>1. o \in seen /\ o \in Live /\ o \in Live'
    BY <1>2 DEF SeenOK, OnlyLive
  <2>2. o \in Deactivated' <=> o \in Deactivated
    <3>1. \A i : o \in FindPlugin(i)' <=> o \in FindPlugin(i)
      BY <2>1, FoundKept
    <3>2. QED
      BY <3>1 DEF Deactivated
  <2>3. QED
    BY <2>1, <2>2 DEF SeenOK, ShownListens, OnlyLive
<1>3. QED
  BY <1>1, <1>2 DEF SeenOK, ShownListens

\* A press blocks what was current and unblocks what is.
LEMMA PressSeen ==
  ASSUME ManagerInv, BarOK, SeenOK, NEW i \in Entries, PressButton(i)
  PROVE  SeenOK'
<1>1. Live' = Live /\ (\A j : FindPlugin(j)' = FindPlugin(j))
  BY DEF PressButton, managerVars, handle, Live, FindPlugin, FindHandle
<1>2. CASE i = current
  BY <1>1, <1>2 DEF PressButton, SeenOK, ShownListens, Deactivated
<1>3. CASE i # current
  <2>1. /\ blocked' = (blocked \cup Deactivated) \ FindPlugin(i)
        /\ seen' = seen \cup FindPlugin(i)
        /\ current' = i
    BY <1>3 DEF PressButton, UnblockAll, BlockAll, Activated
  <2>2. Deactivated' = FindPlugin(i)
    BY <1>1, <2>1, EntriesAssumption DEF Deactivated, EntriesAssumption
  <2>3. seen' \subseteq Live'
    BY <1>1, <2>1, FoundLive DEF SeenOK
  <2>4. blocked' \subseteq Objects
    BY <2>1, FoundLive DEF SeenOK, Deactivated, Live
  <2>5. ShownListens'
    BY <2>1, <2>2 DEF SeenOK, ShownListens
  <2>6. QED
    BY <2>3, <2>4, <2>5 DEF SeenOK
<1>4. QED
  BY <1>2, <1>3

\* Every step keeps the blocks in order.
LEMMA SeenStep ==
  ManagerInv /\ ManagerInv' /\ BarOK /\ SeenOK /\ [Next]_vars => SeenOK'
<1> SUFFICES ASSUME ManagerInv, ManagerInv', BarOK, SeenOK, [Next]_vars PROVE SeenOK'
  OBVIOUS
<1>0. [ManagerNext]_managerVars
  BY StepOfManager
<1>1. ASSUME UNCHANGED <<managerVars, current, blocked, seen>> PROVE SeenOK'
  BY <1>1 DEF SeenOK, ShownListens, Deactivated, FindPlugin, FindHandle, Live, managerVars,
     handle
<1>2. CASE Manage
  BY <1>0, <1>2, ForgetStep DEF Manage, window
<1>3. ASSUME NEW i \in Entries, NEW active \in BOOLEAN, AddPlugin(i, active)
      PROVE  SeenOK'
  BY <1>1, <1>3 DEF AddPlugin
<1>4. ASSUME NEW i \in Entries, EnablePlugin(i) \/ DisablePlugin(i) PROVE SeenOK'
  BY <1>0, <1>4, ForgetStep DEF EnablePlugin, DisablePlugin
<1>5. ASSUME NEW i \in Entries, PressButton(i) PROVE SeenOK'
  BY <1>5, PressSeen
<1>6. CASE Quit
  BY <1>6 DEF Quit, Destruct, SeenOK, ShownListens, Deactivated, FindPlugin, FindHandle, Live,
     handle
<1>7. CASE UNCHANGED vars
  BY <1>1, <1>7 DEF vars, shellVars, window
<1>8. QED
  BY <1>2, <1>3, <1>4, <1>5, <1>6, <1>7 DEF Next

\* So they always are.
LEMMA SeenAlways == Spec => []SeenOK
BY SeenInit, SeenStep, ShellManagerAlways, BarAlways, PTL DEF Spec

\* Of the plugins that have been shown, exactly the one that is found for the current
\* button gets events (pluginbase.h:31), though plugins are opened and closed in between
\* and the slots' answers are never looked at.
THEOREM ShownIsListening == Spec => []ShownListens
<1>1. SeenOK => ShownListens
  BY DEF SeenOK
<1>2. QED
  BY <1>1, SeenAlways, PTL
-----------------------------------------------------------------------------
(* Type correctness.                                                       *)

FrameOK == frame \in Files \cup {Null}

\* The frame shows a plugin's widget, or none.
LEMMA FrameStep == ManagerInv /\ FrameOK /\ [Next]_vars => FrameOK'
<1> SUFFICES ASSUME ManagerInv, FrameOK, [Next]_vars PROVE FrameOK'
  OBVIOUS
<1>1. ASSUME NEW i \in Entries, PressButton(i) PROVE FrameOK'
  <2>1. CASE UNCHANGED frame
    BY <2>1 DEF FrameOK
  <2>2. CASE \E o \in FindPlugin(i) : frame' = made[o]
    <3>1. PICK o \in FindPlugin(i) : frame' = made[o]
      BY <2>2
    <3>2. o \in Objects
      BY <3>1, FoundLive DEF Live
    <3>3. QED
      BY <3>1, <3>2 DEF FrameOK, ManagerInv, StateOK, HandleType
  <2>3. QED
    BY <1>1, <2>1, <2>2 DEF PressButton, ShowPluginWidget, Activated
<1>2. CASE Quit
  BY <1>2 DEF Quit, FrameOK
<1>3. ASSUME ~Quit, ~ \E i \in Entries : PressButton(i) PROVE FrameOK'
  BY <1>3 DEF Next, Manage, AddPlugin, EnablePlugin, DisablePlugin, vars, shellVars, window,
     FrameOK
<1>4. QED
  BY <1>1, <1>2, <1>3

\* The state of manager and window is always well typed.
THEOREM TypeCorrect == Spec => []TypeOK
<1>1. Init => FrameOK
  BY DEF Init, FrameOK
<1>2. Spec => []FrameOK
  BY <1>1, FrameStep, ShellManagerAlways, PTL DEF Spec
<1>3. ManagerInv /\ BarOK /\ SeenOK /\ FrameOK => TypeOK
  BY InvType, EntriesAssumption DEF BarOK, SeenOK, FrameOK, TypeOK, Live, EntriesAssumption
<1>4. QED
  BY <1>2, <1>3, ShellManagerAlways, BarAlways, SeenAlways, PTL
=============================================================================
