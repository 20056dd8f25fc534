# Verification of quafe-etk

quafe-etk is a GTK program with which players of EVE Online look at their characters. It has
two halves: the library `libs/eapi`, which fetches API sheets over HTTP on a thread pool,
parses and caches them, and the program `quafe`, which reads its settings, loads plugins and
shows them. This directory holds TLA+ models of the code, the configurations with which TLC
checks them, proofs that TLAPS checks, and `PROJECT.json`, which ties every definition to the
source lines it stands for.

The repository is in the middle of a refactoring and does not compile at this commit
(`CharacterSheet` uses a class `BasicAPI` that no file declares, `value<>` is gone from the
sheets, `libs/eapi/CMakeLists.txt` names a file `apisheet.cc` that is now `apiinterface.cc`).
The models follow the code that is there; where a line cannot be compiled, the component's
entry below says what is modelled in its place or that it is left out.

Contents: 1 inventory, 2 the models, 3 runs and bounds, 4 fairness, 5 proofs, 6 where code and
sources disagree, 7 what is not modelled, 8 what could come next.

## 1 Inventory

### Request pipeline: `EAPI::Main`, `Request` (`eapi.cc`, `request.cc`)

*State.* The thread pool (`NUM_MAX_THREADS` is 3) and its tasks; each `Request` with its curl
handle, its sheet and its verbosity; the finish queue and the debug queue, each with a mutex
and a `Glib::Dispatcher`.
*Operations.* `Main::request` allocates a `Request` and pushes `Request::run` to the pool;
`run` locks the sheet, transfers, parses, unlocks and pushes itself to the finish queue;
`request_finished` and `curl_debug_recieved` run on the main loop when a dispatcher delivers,
and delete finished requests and take debug messages; `~Main` waits for the pool.
*Interaction.* Pool threads and the main thread share sheets, queues and dispatchers.
*Hard.* Every interleaving of these; a reading of the queue's length under the wrong mutex;
a destructor that unlocks; notifications that are lost or go to the wrong slot; the order in
which static objects are destroyed at the end of the program.
*Correct if* no request is lost, run twice or deleted twice; each queued message has its
notification; queues are never popped empty; everything ends that was begun.

### API sheet: `APIInterface` (`apiinterface.cc`, `types.h`)

*State.* The mutex `lock_`, the status word `m_status`, the text `m_error`, the value map with
`cachedUntil`, the document, the file name.
*Operations.* `update`, `check_status`, `get_document` (main thread), `parse_stringstream`,
`parse_xml_document`, `save_file` (pool thread), `parse_cache` (constructor).
*Hard.* The main thread reads and writes status and error without the mutex; `update` takes
the mutex on one thread and the request takes it again on another; early returns.
*Correct if* the flags never contradict each other, the mutex keeps readers and parsers apart
and is given back, and a sheet whose data has expired can be updated.

### Sheet registry: `APIObject`, `KeyInfo`, `CharacterSheet`

*State.* A static list of sheets per class, `config.filename` per class, the characters of a
key, the credentials a character sheet copies from a key, the cached files on disk.
*Operations.* `create` (look up, new file name, parse the cache, add to the list, emit ADDED),
`find_if`, `set_character_active`, `get_character`, and `parse_result`, by which a document
that arrives on a pool thread rebuilds the characters of a key.
*Hard.* File names depend on the order of creation and outlive the process; the main thread
searches a list that a pool thread clears; slots run inside `create`.
*Correct if* an id has one sheet, a sheet never reads another's document, a restart finds the
cache, and a character gets the credentials of a key that had it when it was searched for.

### Settings and start (`settings.cc`, `main` in `application.cc`)

*State.* Two directories (static), the flags for the two texts, the tree of settings, the
lists of plugins and accounts; the directories on disk.
*Operations.* The constructor that reads the command line and finds or makes directories,
`process_command_line`, `get`, `load`, `save`.
*Hard.* Boundaries of the argument loop, find results used as truth values, steps that fail
one by one, two processes that start together on one disk.
*Correct if* a process only goes on with directories that exist and data that is complete,
options mean what the help text says, and what is saved can be loaded.

### Plugin manager (`pluginmanager.cc`, `plugininterface.h`)

*State.* A handle per file in the plugin directory: the id, the library, the function that
destroys, the plugin object, and a reference to a `PluginInfo` (file and id), which is one
function-static object for all handles.
*Operations.* `read_plugin_dir`, `open`, `open_all`, `close`, `close_all`, `find`, by handle
and by id.
*Interaction.* The dynamic loader counts references; the shell asks for plugins by id.
*Hard.* The shared record; a library loaded again over the one that is held; each of the steps
of `open` and `close` failing alone; a constructor that throws; a destructor that changes the
list it iterates over.
*Correct if* every plugin object is in exactly one handle until it is destroyed, its library
is loaded as long, and what `find` answers for an id never changes under the caller.

### Plugin shell (`Application`, `ApplicationWindow`, `Pluginbar`, `PluginButton`)

*State.* Menu items and buttons with their active flags, the current button, the widget in the
frame, a flag against re-entry.
*Operations.* The handlers of the toggled signals, which call slots that open, close, show and
hide plugins; these handlers set buttons and so call themselves.
*Hard.* Re-entry; the truth of a signal call with an optional result, which says that there is
a slot and not what it answered; a current button whose plugin was disabled.
*Correct if* at most one button is down and, once one was pressed, exactly one; and of the
plugins that were shown exactly the current one gets events.

### Plugin base (`ConnectionHandler`, `PluginWidget`)

*State.* Connections and blocks; labels by name. *Operations.* Add, block all, unblock all,
disconnect all; add a label, set a text. *Hard.* A list changed while it is iterated over.
*Correct if* a hidden plugin gets no events and a shown one gets them all.

### Preferences dialog, plugins, EAPI utilities, test programs, pugixml

The dialog keeps a tree of keys and characters and emits signals; nothing in the program
creates it. The plugins are skeletons with labels and pages: what matters to the shell is
`create`, `destroy`, `show` and `close`. The utilities are exceptions,
logging macros and the singleton template, whose only behaviour that matters is the order of
destruction. The two test programs are clients and served as the reference for how the
library is called. pugixml is vendored.

How the components hang together:

    main() --> Settings (directories) --> EAPI::Main::init --> KeyInfo::create per account
       |                                       |                       |
       |                                 request pipeline <------ update(), request()
       |                                       |  pool threads         |
       +--> Application --> plugin manager     +--> API sheet --> sheet registry, cache files
                 |              |
                 +-- plugin shell --- plugins (slots on sheet events)

## 2 The models

### `RequestSystem`, with `SheetStatus`

`SheetStatus` has no state: the four bits of `StatusFlags` as a set, what parsing does to them,
what the constructor can leave behind (`CacheOutcomes`), and `GetDatetime` and `Freshness`,
which follow the code of `get_value` into its comparison of an iterator with itself.

`RequestSystem` composes the pipeline with the sheets. Its state is a program counter for the
main thread (`mainPc`, inside call `mainCall` on `mainSheet`), one per worker (`wpc`, running
request `wreq`), and the shared data: `lock`, `status`, `error` and `cachedUntil` of sheets;
`api`, `handle`, `loud` and `deleted` of requests; `pool`, `finishQueue`, `debugQueue`,
`pending` (emissions that a dispatcher has still to deliver). A step is what one thread does
between two points at which another can observe or disturb it:

| code | actions |
|---|---|
| `update` | `UpdateTryLock`, `TestStatus`, `ReadStatus`, `WriteStatus`, `ClearError`, `UpdateRequest` |
| `check_status` | `CheckStatus`, `TestStatus`, `ReadStatus`, `WriteStatus` (`m_status \|= x` is a read and a write) |
| `Main::request` | `PushRequest`, inside `UpdateRequest` or `DirectRequest` |
| `get_document` | `GetDocument`, `LockDocument`, `ReadDocument` |
| `curl_debug_recieved`, `request_finished` | `Dispatch`, `NumFinishQueue`, `PopFinishQueue` |
| `Request::run`, `do_curl` | `TakeRequest`, `LockSheet`, `PushDebug`, `EmitDebug`, `TransferFails`, `TransferEnds`, `UnlockSheet`, `BeginPush`, `EndPush` |
| parsing and caching | `LoadFails`, `RejectDocument`, `SetErrorStatus`, `AcceptDocument`, `SaveDocument`, `SaveFails` |
| end of the program | `Quit` (the static destructor of the sheets), `Shutdown` (`~Main`), `UseFreedSheet` |

Undefined behaviour is a choice. Unlocking a free mutex is ignored or ends the process; the
queue's length that is read under the wrong mutex is arbitrary while a worker pushes; a worker
whose sheet was deleted goes on with the old memory or ends the process. `failure` names what
ended it. `AcceptDocument` is one step although the value map is filled before the status is
written: nobody can see the difference, as `get_value` never returns an entry.

`RequestLifecycle` is the abstract specification: a request is submitted, started (no more at
a time than there are threads), finished and reclaimed, each once, and the process may halt.
`RequestSystemProperties` maps the pipeline to it (`Stage`) and states the properties.

### `SheetRegistry`, with `SheetDirectory`

Lists of keys and of character sheets, `config` and `file` (a file name is the sequence of ids
it was put together from), `charlist`, `credential`, and the disk. `CreateKey` is one step of
the main thread. Creating a character sheet is three: `FindKey` searches the keys,
`GetCharacter` is the assertion of `get_character`, which searches the key's list once more,
and `MakeSheet` gives the sheet its name and the credentials and adds it; pool threads work in
between. A document that arrives for a key is `ClearList`, then an `AddRow` for each character,
then `EndParse`, each for one of the threads in `Parsers`. A thread locks the key first
(`locked`), which is all that keeps a second one out: `Reclaim` is `~Request` unlocking the
mutex under a thread that parses, and from then on two threads can mix their rows in one list
and overwrite each other's document. `save_file` then may write a part of a document that is
being replaced (`Written`). A torn file counts as no document, which is how `parse_cache` takes
it. Slots of the ADDED event are called when the sheet is already in the list and as the last
thing `create` does: what they call is a further step. `Restart` forgets everything but the
disk, at any moment. `SearchRaces` is the undefined outcome of searching or rebuilding a list
that is being freed. Names stand for themselves: distinct ids give distinct pieces, and a piece
is never empty.

Three variables are histories of the model, which no step depends on but `Written`: `holds`
(whose document a sheet has parsed), `broken` (which key `~Request` has unlocked for a parsing
thread, and in which run) and `disturbed` (whether a document of the key has come since
`FindKey`).

`SheetDirectory` is what the registry promises its clients: an id gets a sheet once in a run,
with a file that no sheet of its class uses, and a character sheet speaks for a key that was
made. File names, lists of characters and the disk do not occur in it. `DirectoryImplemented`
maps the registry to it.

### `Startup`

The program from `main()` to its run, for several processes that share a disk. `ReadArgument`
is one turn of the loop over `argv`; each test of a directory and each attempt to make it is a
step, so that another process may be in between; `make_directory` may fail for reasons of its
own. `Tmp` always exists, directories are made and never removed, and the data is installed
and does not change. An argument is its option and its value, the text after its first `=` or,
without one, all of it. The code cuts an argument in place, so that the test for
`--config-directory` sees a value and not an argument: `LikeConfig` are the values that begin
with this option (a bare `--config-directory` is one) and name no directory, `Cut` is what a
value with a second `=` becomes. A process that runs makes the eveapi directory with the first
document it caches (`CacheDocument`, the only thing the running application does here).

### `PluginManager`, with `PluginTable`

A handle goes by its file; `info` is the record that all handles refer to, and `id`, `ptr`,
`dlhandle`, `destroy` are the members of a handle. `refs` is what the dynamic loader counts
(external: `dlopen` adds one or fails, `dlclose` takes one away or refuses) and `made` the
library that an address got its object from. `ReadPluginDir` reads any selection of the files
in any order; after it `info` is about the file read last, which `open` of *every* handle then
loads. `Open` has a disjunct for each way out of the code: `dlopen` fails; a symbol is missing
(the library stays loaded, the handle keeps what it had); an object is there already (library
and functions were already replaced); `create` answers null or throws; success. `Close`:
nothing known to destroy; the destructor of the plugin goes on from a removed list node and
ends the process (`DisconnectRaces`, undefined); `dlclose` refuses; success. `OpenAll` and
`CloseAll` are one turn each of the loops at the start and the end of the program; `CloseAll`
*opens* handles with a library and no object, as the code does. `FindHandle` and `FindPlugin`
are the loops of `find`. Between these steps nothing else runs: all of it is on the main
thread.

`PluginTable` is what the manager promises: for each id at most one object, an entry is filled
or emptied and never replaced, no object under two ids. `TableImplemented` maps `find` to it.

### `PluginShell`, with `RadioGroup`

`PluginShell` extends `PluginManager` and drives it. An event of the user is one step, with
the calls it makes:

| code | action |
|---|---|
| `ApplicationWindow::add_plugin`, `Pluginbar::add_plugin_button` | `AddPlugin` |
| `on_menuitem_plugin`, checked: `on_plugin_enabled`, `PluginManager::open`, `show_plugin_button` | `EnablePlugin` |
| `on_menuitem_plugin`, unchecked: `on_plugin_disabled`, `PluginManager::close`, `hide_plugin_button` | `DisablePlugin` |
| `on_pluginbutton_toggled`: `on_plugin_deactivated` (`close`), `on_plugin_activated` (`show`), `show_plugin_widget` | `PressButton` |
| `Application::quit`, `~Application`, `~PluginManager` | `Quit`, then `CloseAll` |

`on_pluginbutton_toggled` sets buttons and so calls itself; `signal_handler_running` makes
these inner calls return at once, and the model has their effect on `down` in one step. A
handler that forgot the flag would therefore be another model and no violation. The application
connects a slot to each signal before there is a button, so that each signal call has a result
and the handlers take it for true: what the slot answered is never looked at, and the model has
no refused press and no `close` that answers no. `blocked` are the plugins whose connections
are blocked. `seen`, the plugins that have been shown, is a history of the model.

At this commit the settings list no plugin: every file in the directory is new to the manager
and opened at the start, nothing in the program calls `add_plugin`, and every handle keeps the
empty id. The shell is therefore driven by its public interface, with the ids that plugins
give themselves and the empty one, and only the empty one finds a plugin.

`RadioGroup` is what the bar promises: no button is down until one is pressed, from then on
exactly one.

Names of the form `X_Y` in these modules are variants of `X` with a bug `Y`, one for each
property of a passing run: TLC finds the property violated when `X` is replaced by `X_Y`.

## 3 Runs and bounds

| run | asks | bound |
|---|---|---|
| `req_safety` | all safety properties of the pipeline and the refinement, for every call of the client | 1 sheet, 2 requests, 2 workers, 2 debug messages |
| `req_progress` | liveness, for clients that make requests directly and read documents | the same, 1 message |
| `registry_safety` | uniqueness, cache files, whole lists, the assertions of `get_character`, and the directory | 2 keys, 2 characters, one of which is switched on and off, 2 parsing threads, 3 documents in all, 2 runs |
| `startup` | directories, data, help, what the options do | 2 processes, 14 argument lists, 7 paths, three of them files |
| `plugins` | objects, libraries and the table of the manager, the radio group and the blocks of the window | 2 files, 3 ids and entries, 2 addresses of objects, a library loaded at most 3 times |
| `v_*` | one statement of the sources each, which TLC refutes (section 6) | as their passing runs |

`req_safety` checks `RequestOnce` (every accepted request is in one place, once),
`PopFindsRequest` (the assertion of `pop_finish_queue` holds in spite of the wrong mutex: only
the main thread pops, and a push only adds), `DebugAccounted` (no message without an emission),
`ErrorExcludesValid` (flags stay consistent although `check_status` may overwrite a worker's
write: what it read was consistent, and it adds neither of the two flags), `SheetExclusive`
(the mutex works, until `~Request` first unlocks it), `ExitDrained` (`~Main` destroys mutexes
only when nobody needs them) and `LifecycleRefined`. Deadlock is not checked there: `update`
hangs its own worker, which is one of the findings. Five more say exactly how far the mutex and
the notifications go wrong: `HolderAtWork` (a worker or a `get_document` that owns a mutex is
at work on that sheet and waits for no other, so that threads never wait for each other; only
`update` leaves a sheet locked), `FreeUnlockHasCause` (a worker or a `get_document` that is
about to give back a mutex it does not own is so after a request of that sheet was reclaimed,
and none that is free is unlocked before any request was), `UpdateHangs` (a sheet that `update`
has locked, with no request past the mutex, stays so whatever any thread does),
`ReclaimNeedsMessage` (each reclaimed request has used up a debug message) and
`UpdateRefusesValid` (`update` never makes the first request for a sheet that is VALID from its
cache).

`req_progress` checks that a queued request finishes, `get_document` returns, `~Main` gets
through and debug messages are delivered. It checks deadlock, has no symmetry, and leaves out
`update`, after which none of this holds.

`registry_safety` checks `OneSheetPerId`, `CacheIsOwn`, `SameOrderFindsCache` (after a restart
a key finds its document if the same keys are created before it in the same order),
`ListsAreWhole` (outside a rebuilding a key's list, and what is cached for it, is that of one
document, though the program may end in the middle, as long as `~Request` has in no run
unlocked the key's mutex for a thread that was parsing; after that it may be a mixture, and the
run has such states), `LostOnlyByDocument` (the key that was found for a character has it until
the sheet is made, and the assertions of `get_character` hold, unless a document of that very
key has come in between) and `DirectoryImplemented`. `startup` checks `ConfigExists`,
`DataComplete`, `HelpMakesNothing`, `LastReadCounts` (what the loop over the arguments
computes: the configuration directory is what the last argument says that is read and whose
value does not begin with `--config-directory`, whatever its option is called; the data
directory is what the last one says that is read and is no `--data-directory`) and
`EveapiLeftOut` (once there is a log directory, no start makes the eveapi directory beside it;
what makes it is a running process that caches a document). `plugins` checks `ObjectsHeld` (no
object is lost or shared, whichever steps of `open` and `close` fail), `CodeLoaded` (though all
handles load one library and each unloads it), `ShownListens` (though the current button may
belong to a plugin that was closed and opened again), `TableImplemented` and
`RadioImplemented`. In `registry_safety` and `plugins` the system may stop for good, so that
deadlock is not checked there.

Why the bounds are enough. In the pipeline two requests on one sheet are what it takes for two
workers to meet at a mutex, for the main thread to push or reclaim while another worker pushes,
and for `~Request` of one to unlock the sheet of the other. Sheets do not share anything but
the queues and the pool, where requests on one sheet do at least what requests on two can do. A
third worker (the code has three) adds one more of the same kind; the theorems of section 5
hold for any number. In the registry, collisions of file names need two names, the shared
character needs two keys, a restart needs two runs; a third key only makes names longer, and
the theorems cover it. Two documents that meet in one list need two threads, and the third is
one more that comes between the search for a key and the assertion, or after the restart;
switching a character on and off changes no id, so that one character is enough. In the start,
two processes are needed for the race at `make_directory`, and an argument list needs two
options that are read and one that is last. In the plugin manager two files are what it takes
for a handle to open another one's file and for two handles to hold one library; three loads
are one more than the handles, so that a library can be left loaded by a failed `open` while
both hold it; three buttons are the one that is down, the one that is pressed, and one that
neither must touch. The theorems hold for any number.

## 4 Fairness

`FairSpec` has strong fairness of the main thread's steps within a call or slot, of each
dispatcher and of each worker's own steps. The code justifies it as follows. Threads are
scheduled by the system, so a thread that can go on does. A thread that waits for a mutex that
is given back again and again gets it, which is why fairness of lock steps is strong. The main
loop serves all sources that are ready in each turn, so that an emission is delivered although
the client makes calls in between. Transfers are assumed to end; curl is given no time-out, so
this is a fact about servers and not about the code. The client owes nothing: its calls,
quitting and time are not fair. Neither is `UseFreedSheet`: freed memory need not crash.

## 5 Proofs

All theorems hold for every value of the constants that satisfies the one assumption of the
module (`ConstantsAssumption`, `RegistryAssumption`, `StartupAssumption`, `ManagerAssumption` with
`EntriesAssumption`): model values for
"none" are no members of the sets they stand beside, the pool and the plugin directory are
finite, the lists of the environment are well typed.

`RequestSystemProofs` (`TypeCorrect`, `RequestsOnce`, `ErrorNeverValid`, `PopAssertion`,
`ExitIsDrained`, `SheetIsExclusive`, `DebugIsAccounted`). `TypeOK` and `RequestOnce` are
inductive together. The others need a strengthening:

- `ErrorInv`: what the main thread has read of a status (`mainSeen`) is as consistent as the
  status, since it may be written back;
- `PopInv`: once `num_finish_queue` said that there is a request, there is one or a worker
  holds the mutex and is about to add it; only the main thread takes requests away;
- `ExitInv`: nothing is in the pool and no worker busy once the main thread has exited;
- `LockInv`: a worker inside the sheet, or the main thread inside `get_document`, owns the
  lock, unless a request of the sheet was reclaimed.

`RequestLockProofs` is about what becomes of a sheet's mutex and of the notifications. None of
these theorems has an assumption about the client or the number of threads, so that each of the
findings it names holds of every instance and not of the small one alone:

- `HoldersWork`: `HolderAtWork` is inductive with the types alone, because every way out of
  `do_curl` and out of `get_document` gives back what it took; it also holds after `~Request`
  has unlocked the mutex for another. `FreeUnlockCause` follows from `LockInv`: whoever is past
  the lock of a sheet owns it, or a request of that sheet was reclaimed (`OwnersUnlock`), and a
  mutex that is unlocked while free was given up by one of these or by `~Request` itself.
- `UpdateNeverRuns`, `StuckForEver`: a sheet is `Stuck` if `update` holds it and each of its
  requests is in the pool or at the mutex. The four steps that give a mutex back need a request
  of the sheet that is past the mutex or reclaimed, or a `get_document` that got it; `LockInv`
  and `RequestOnce` exclude all three. It follows that a request of a stuck sheet never
  finishes (`StuckNeverFinishes`, which generalises `v_RequestsFinish`), that a `get_document`
  of it never returns (`StuckDocumentHangs`), that a sheet whose `update` was left by an
  exception is busy for ever (a sheet without requests is `Stuck` too: `v_BusyMeansRunning`),
  and that `~Main` waits for ever (`StuckExitHangs`). These are safety properties: what never
  happens needs no fairness.
- `ReclaimByMessage`: `ReclaimInv` counts; a message, an emission and a call of
  `request_finished` turn into one another (`DebugAccounted`), and a call deletes one request at
  most. This is what is behind `v_FinishNotified`: without debug messages nothing is reclaimed.
- `UpdateOnlyUncached`: `QuietInv` describes a sheet that nobody requested, with what
  `check_status` has read of it; `NeverOutdated` is that `get_value` finds no date, whatever is
  in the value map. It says of every instance what `v_CachedMeansCurrent` shows, of sheets
  that nobody has requested yet; a worker can make a requested sheet VALID at any time.

`RequestLifecycleProofs` (`PipelineImplementsLifecycle`): the stage of a request is a function
of the place it is in (`StageByPlace`, from `RequestOnce`), each of the four actions that move
a request between places is the step of the life cycle of the same meaning, every other action
leaves the places alone; a worker that starts a request was idle, so that fewer requests were
running than there are threads (`FreeWorker`).

`SheetRegistryProofs` (`TypeCorrect`, `SheetsAreUnique`, `CacheBelongsToSheet`,
`AssertionHasCause`, `SameOrderIsEnough`). `OwnInv`: the first piece of every file name, in
memory and on disk, is the id of its owner, so that equal names have equal owners. `OrderInv`:
`config` is a function of the sequence of keys made so far (`FileAfter`), and the file of the
i-th key is that of the first i. `AssertionHasCause` (`LostOnlyByDocument`): of all steps of
all threads only `ClearList` takes a character from a list (`CreateKeeps`, `AddRowKeeps`).

`SheetDirectoryProofs` (`ListsStayWhole`, `RegistryImplementsDirectory`). `WholeInv`: a key that
was never unlocked for a parsing thread is `Sound`, which is that it has one parser at most, who
holds its mutex, and that the ids that are in its list and those that are still to come make
one document; and a list that is written to the disk for such a key is complete. For the
directory, a step of `CreateKey` or `MakeSheet` needs that its file name is new among those of
its class (`NewFile`, from `OwnInv`: it begins with an id that has no sheet) and that the key
that was found still has a sheet (`FoundKnown`); every other step changes no id, no file and no
credential.

`StartupProofs` (`TypeCorrect`, `ConfigAlwaysExists`, `RunsWithData`, `HelpIsHarmless`).
`DirInv`: the temporary directory never goes away; `HelpInv`: a process that is past the
arguments has read all but the last, and no request for a text was among them.
`OptionNamesIgnored` (`LastReadCounts`): `ReadInv` says of the two directories at each turn of the
loop that they are the last of what the arguments so far give (`ConfigGiven` and `DataGiven` of
that prefix, which `NextConfig` and `NextData` extend by one argument), and follows this through
the defaults; each process writes only its own record (`ReadFrame`). It describes what
`v_ConfigOptionHonoured` shows for every argument list. `EveapiNeverMade` (`EveapiLeftOut`): of
the two steps that make the directory, the one of the start is decided on by a test that finds
the log directory (`MissingStep`); the other is a running process that caches a document.

`PluginManagerProofs` (`ManagerIsTable`) rests on `ManagerInv`. `CodeLoaded` alone is not
inductive: `close` takes one off the count of a library that another handle may need. The
invariant counts: the handles that hold a library are no more than the loader has counted
(`CountOK`), a handle has a library exactly as long as it knows how to destroy (`HandleOK`),
every library that is held is that of the one shared record, and an object comes from the
library of its handle. `OpenKeeps` and `CloseKeeps` show it for the two operations, whatever
step of them fails, and the actions that call them follow. `ManagerIsTable` then needs that an id
finds one handle (`OneHandle`) and that `find` answers its object (`PluginFound`): `open` and
`close` of that handle fill or empty this one entry, of any other handle they change none.

`PluginShellProofs` (`TypeCorrect`, `ObjectsAreHeld`, `CodeIsLoaded`, `ShellHasTable`,
`BarIsRadio`, `ShownIsListening`): a step of the window is a step of the manager or leaves it
alone (`StepOfManager`), which carries the manager's theorems over; the bar needs that what is
down is the current button (`BarOK`), the blocks that what is shown is live (`SeenOK`).
`AllFromLastFile` and `NobodyFoundById` say what the shared record costs: `InfoOK` (every
handle keeps the empty id, and the record names the file that was read last) gives that all
objects come from one library, and that no plugin is ever found under its own id, which
generalises `v_FoundById`.

Only model-checked: the liveness properties, since fairness and ENABLED are out of the
prover's reach. Every other property of a passing run is a theorem.

## 6 Where the code and its sources disagree

Each is a run of its own, with the line that is contradicted in `PROJECT.json`. Of
`v_RequestsFinish`, `v_FinishNotified`, `v_CachedMeansCurrent`, `v_ConfigOptionHonoured` and
`v_FoundById` a theorem of section 5 says the same of every instance.

- `v_RequestsFinish`: a request made by `update()` never finishes. `update` holds the mutex
  that `do_curl` waits for, and nobody else unlocks it.
- `v_FinishNotified`: both accessors of `Request` return the debug dispatcher, so the finish
  dispatcher has no slot; finished requests are reclaimed by the accident of debug messages.
- `v_StatusAssertions`: `m_error` is set on many paths without `m_status`; the assertions of
  `check_status` then end the process.
- `v_BusyMeansRunning`: `update()` leaves by an exception with the mutex locked, and from then
  on says that an update is running.
- `v_CachedMeansCurrent`: `get_value` compares with the wrong iterator and never finds an entry,
  so that a VALID sheet is CACHED for ever.
- `v_ConfigOptionHonoured`: `--data-directory` sets the configuration directory,
  `--config-directory` sets both, anything else is taken for both too (but for a bare
  `--config-directory`, which is taken for the data directory alone), and the last argument is
  never read.
- `v_FoundById`: a plugin is not found under the id it gives itself. Handles copy their id from
  the record before any library was asked for one.

Two further facts show in the model, without a run of their own. The name of a key's cache file
contains the ids of all keys made before it, so that in another order a cached document is not
found: `SameOrderFindsCache` says what is left. Between the search for a character and
`get_character` a pool thread may empty the list; the assertion of `get_character` then ends
the process (a disjunct of `GetCharacter`). After it, and before the sheet is made, the same may
happen unnoticed, and the sheet gets the credentials of a key that no longer has the character:
`LostOnlyByDocument` says what it takes.

## 7 What is not modelled, and why

- The text of documents and messages, XML, URLs, curl options: a transfer may have any outcome
  the code tells apart; in the pipeline the exception of `ustring_to_datetime` and a
  `parse_result` that answers no are no outcomes of their own (`AcceptDocument`).
- Some readings of shared words on the main thread: `check_status` reads `m_error` and
  `m_status` for its assertions one after the other and reads `m_status` once more before it
  looks at it; the model has one reading of the two (`TestStatus`) and goes on with what it
  wrote (`WriteStatus`).
- The inner calls of `on_pluginbutton_toggled` and a plugin's `close` that answers no: no step
  shows the one, and nobody looks at the other (`PressButton`).
- `APIObject::remove` (it calls a member that lists do not have and is never instantiated),
  `CharacterSheet::update` and `finish` (they use members that no class declares), `run_sync`
  (never called), the loading of accounts in `main` (the list is always empty).
- `Settings::load` and `save`: protected, and nothing calls them. `get`: the window asks three
  times for a number, of a tree that is still empty. There is no state to follow.
- The preferences dialog: nothing creates it, and its signals have no receiver. Colour
  arithmetic of the plugin bar, styles, the size of the window, the labels of a
  `PluginWidget`: presentation.
- The pages of the plugins. `SkillTraining` is to react to sheets that are added and removed,
  but the slots name methods and signals that the library does not have at this commit, so the
  composition of sheets and plugins has no code to be translated from.
- The test programs. pugixml: vendored, and two thirds of the lines of the repository's
  implementation, so that most lines of the repository belong to no definition here.

## 8 What could come next

Done: `SheetStatus`, `RequestSystem` and `RequestLifecycle`; `SheetRegistry` with
`SheetDirectory`; `Startup`; `PluginManager` with `PluginTable`; `PluginShell` with
`RadioGroup`; each with its proofs.

When the refactoring of the library is finished: the plugins' reactions to sheets, composed
with `SheetRegistry` and `PluginShell`; accounts and plugins in the settings, with `load` and
`save` as a round trip against a reference definition; `CharacterSheet::update` in the request
pipeline. Proofs still of interest: the general form of `v_StatusAssertions` (from which states
on a call of `check_status` ends the process); what `close_all` leaves behind at the end of the
program; and liveness once a prover reaches it.

The number of runs is kept small: a module gets one passing run and a refuting run only where a
line of the sources is contradicted.
