----------------------------- MODULE PluginShell -----------------------------
(***************************************************************************)
(* The window around the plugins: menu items that open and close plugins,  *)
(* the plugin bar with a button for each, the frame that shows a plugin,   *)
(* and the slots of the application, which find the plugin in the manager. *)
(*                                                                         *)
(* One event of the user is one step.  The application connects a slot to  *)
(* each of the four signals before there is a button.  A signal call is an *)
(* optional of what its slot answered, and the handlers test whether there *)
(* is an answer: it is always so, and what the answer was is never seen.   *)
(***************************************************************************)
EXTENDS PluginManager

CONSTANT Entries  \* the ids the client adds to the window, each of them once

ASSUME EntriesAssumption == Entries \subseteq Names /\ Null \notin Names

VARIABLES
  item,     \* the menu item of an id: "none", "on" or "off"
  shown,    \* the buttons that are not hidden
  down,     \* the buttons that are active
  current,  \* Pluginbar::m_currpb, as the id of its plugin
  frame,    \* the library whose widget is in the frame
  blocked,  \* the plugin objects whose connections are blocked
  seen      \* the plugin objects that have been shown: a history of the model

window == <<item, shown, down, current, frame>>
shellVars == <<window, blocked, seen>>
vars == <<managerVars, shellVars>>
-----------------------------------------------------------------------------
Init ==
  /\ ManagerInit
  /\ item = [i \in Names |-> "none"]
  /\ shown = {} /\ down = {}
  /\ current = Null
  /\ frame = Null
  /\ blocked = {} /\ seen = {}

\* An object that is destroyed takes its connections and blocks with it; a new one is
\* connected and not blocked.
OnlyLive == blocked' = blocked \cap Live' /\ seen' = seen \cap Live'

\* What the program does before the window gets events, and after.
Manage ==
  /\ ReadPluginDir \/ OpenAll \/ CloseAll
  /\ OnlyLive
  /\ UNCHANGED window

\* add_plugin_button shows the new button with all others, hidden ones too.
AddButton == shown' = {i \in Names : item'[i] # "none"}
ShowButton(i) == shown' = shown \cup {i}
HideButton(i) == shown' = shown \ {i}

\* add_plugin: the item is set before its signal is connected.
AddPlugin(i, active) ==
  /\ phase = "run"
  /\ item[i] = "none"
  /\ item' = [item EXCEPT ![i] = IF active THEN "on" ELSE "off"]
  /\ AddButton
  /\ UNCHANGED <<down, current, frame, blocked, seen, managerVars>>

\* on_menuitem_plugin, when the item has been checked ...
EnablePlugin(i) ==
  /\ item[i] = "off"
  /\ OpenById(i)
  /\ item' = [item EXCEPT ![i] = "on"]
  /\ ShowButton(i)
  /\ OnlyLive
  /\ UNCHANGED <<down, current, frame>>

\* ... and when it has been unchecked: the button goes, and stays the current one.
DisablePlugin(i) ==
  /\ item[i] = "on"
  /\ CloseById(i)
  /\ item' = [item EXCEPT ![i] = "off"]
  /\ HideButton(i)
  /\ OnlyLive
  /\ UNCHANGED <<down, current, frame>>

\* The plugin whose close on_plugin_deactivated calls: that of the current button, if
\* there is one and the manager finds it.
Deactivated == IF current = Null THEN {} ELSE FindPlugin(current)

\* The plugin whose show on_plugin_activated calls.
Activated(i) == FindPlugin(i)

\* close blocks all connections of a plugin, show unblocks them.
BlockAll(objects) == blocked \cup objects
UnblockAll(objects, all) == all \ objects

\* The widget that show answers replaces the one in the frame.
ShowPluginWidget(objects) ==
  IF objects = {} THEN UNCHANGED frame ELSE \E o \in objects : frame' = made[o]

\* on_pluginbutton_toggled of a button the user has clicked.  The toggles that the handler
\* makes itself return at once (signal_handler_running) and are part of this step.  A click
\* on the current button leaves it down.  That a plugin refuses to close is left out: none
\* in the repository does, and the bar does not look at what the slots answer.
PressButton_NoRelease(i) ==
  /\ phase = "run"
  /\ i \in shown
  /\ down' = down \cup {i}
  /\ current' = i
  /\ UNCHANGED <<item, shown, frame, blocked, seen, managerVars>>

PressButton_NoBlock(i) ==
  /\ phase = "run"
  /\ i \in shown /\ i # current
  /\ down' = {i} /\ current' = i
  /\ blocked' = blocked \ Activated(i)
  /\ seen' = seen \cup Activated(i)
  /\ UNCHANGED <<item, shown, frame, managerVars>>

PressButton(i) ==
  /\ phase = "run"
  /\ i \in shown
  /\ IF i = current
     THEN down' = down \cup {i} /\ UNCHANGED <<current, frame, blocked, seen>>
     ELSE /\ blocked' = UnblockAll(Activated(i), BlockAll(Deactivated))
          /\ seen' = seen \cup Activated(i)
          /\ ShowPluginWidget(Activated(i))
          /\ down' = (down \ {current}) \cup {i}
          /\ current' = i
  /\ UNCHANGED <<item, shown, managerVars>>

\* The window is hidden, and the application goes: the window first, then the manager.
Quit ==
  /\ Destruct
  /\ frame' = Null
  /\ UNCHANGED <<item, shown, down, current, blocked, seen>>

Next ==
  \/ Manage
  \/ \E i \in Entries, active \in BOOLEAN : AddPlugin(i, active)
  \/ \E i \in Entries : EnablePlugin(i) \/ DisablePlugin(i) \/ PressButton(i)
  \/ Quit

Spec == Init /\ [][Next]_vars
-----------------------------------------------------------------------------
(* What manager and window guarantee together.                             *)

\* The type invariant.
TypeOK ==
  /\ ManagerTypeOK
  /\ item \in [Names -> {"none", "on", "off"}]
  /\ shown \subseteq Names /\ down \subseteq Names
  /\ current \in Names \cup {Null}
  /\ frame \in Files \cup {Null}
  /\ blocked \subseteq Objects /\ seen \subseteq Objects

\* The plugin bar (pluginbar.cc:79-113) is a radio group, whatever the slots answer.
Radio == INSTANCE RadioGroup WITH Buttons <- Entries, pressed <- down

RadioImplemented == Radio!Spec

\* "blocks all connections. use this if the plugin is not active" (pluginbase.h:31): of
\* the plugins that have been shown, exactly the one of the current button gets events.
ShownListens ==
  \A o \in seen : o \in blocked <=> o \notin Deactivated
-----------------------------------------------------------------------------
(* What the sources say and the code does not do.                          *)

\* "'plugin_id' should be a unique string to identify the plugin"
\* (pluginmanager.cc:25): an open plugin is found under its id.
FoundById == \A o \in Live : o \in FindPlugin(PluginId[made[o]])
=============================================================================
