------------------------------- MODULE Startup -------------------------------
(***************************************************************************)
(* How quafe-etk starts: main() lets Settings read the command line, look  *)
(* up or make its directories and find its data, and then runs the         *)
(* application, prints a text or gives up.  Processes of one user share    *)
(* the disk; each may be started any number of times.                      *)
(***************************************************************************)
EXTENDS Naturals, Sequences

CONSTANTS
  Processes,     \* places to run the program in
  Arguments,     \* the argument lists it is started with
  Paths,         \* names of directories
  Home, Tmp,     \* ~/.quafe and the temporary directory
  Hints,         \* where the data is expected: QUAFE_DATADIR, QUAFE_PREFIX, the working directory
  Complete,      \* the paths under which all of the data is found
  Files,         \* the paths at which there is a plain file
  Empty,         \* the empty string
  Cut,           \* what a value becomes when it is cut after its first '=', if it has one
  LikeConfig     \* the values that begin with --config-directory

Options == {"help", "version", "data", "config", "other"}

\* The value of an argument is what follows its first '=', or all of it.
Argument == [option : Options, value : Paths \cup {Empty}]

ASSUME StartupAssumption ==
  /\ Home \in Paths /\ Tmp \in Paths \ Files /\ Empty \notin Paths
  /\ Hints \in Seq(Paths)
  /\ Arguments \subseteq Seq(Argument)
  /\ Cut \in [Paths \cup {Empty} -> Paths \cup {Empty}]

VARIABLES
  phase,         \* where the process is in main()
  arguments,     \* argv without the program's name
  position,      \* the next argument to read
  data, config,  \* Settings::c_data_directory and Settings::c_config_directory
  dirs           \* the directories on the disk: Paths and their subdirectories

process == <<phase, arguments, position, data, config>>
vars == <<process, dirs>>
-----------------------------------------------------------------------------
\* file_test with EXISTS | IS_DIR is true of anything that exists.
Exists(x) == x \in dirs \cup Files

Logs(p) == <<config[p], "logs">>
Eveapi(p) == <<config[p], "eveapi">>

\* The loop over argv stops before the last argument.
MoreArguments(p) == position[p] < Len(arguments[p])

Goto(p, next) == phase' = [phase EXCEPT ![p] = next]

\* Where the data is looked for.
DirHints(p) == IF data[p] = Empty THEN Hints ELSE <<data[p]>>

Init ==
  /\ phase = [p \in Processes |-> "off"]
  /\ arguments = [p \in Processes |-> <<>>]
  /\ position = [p \in Processes |-> 1]
  /\ data = [p \in Processes |-> Empty] /\ config = [p \in Processes |-> Empty]
  /\ dirs \in {d \in SUBSET (Paths \ Files) : Tmp \in d}
-----------------------------------------------------------------------------
Start(p) ==
  /\ phase[p] = "off"
  /\ \E list \in Arguments : arguments' = [arguments EXCEPT ![p] = list]
  /\ Goto(p, "arguments")
  /\ UNCHANGED <<position, data, config, dirs>>

\* The configuration directory after an argument, if it was named before.
NamedConfig(a, before) ==
  IF a.option = "data" THEN a.value
  ELSE IF a.value \in LikeConfig THEN before ELSE Cut[a.value]

\* One turn of the loop over argv.  find(...) > 0 is false only of an argument that begins
\* with the option.  The first test cuts every argument but the data option down to its
\* value: what is left names the configuration directory, cut once more, unless it begins
\* with the config option, as one without a '=' does.
ReadArgument_NoReturn(p) ==
  LET a == arguments[p][position[p]] IN
  /\ phase[p] = "arguments" /\ MoreArguments(p)
  /\ config' = [config EXCEPT ![p] = NamedConfig(a, @)]
  /\ position' = [position EXCEPT ![p] = @ + 1]
  /\ UNCHANGED <<phase, arguments, data, dirs>>

ReadArgument_FirstWins(p) ==
  LET a == arguments[p][position[p]] IN
  /\ phase[p] = "arguments" /\ MoreArguments(p)
  /\ \/ /\ a.option \in {"help", "version"}
        /\ Goto(p, "asked")
        /\ UNCHANGED <<position, data, config>>
     \/ /\ a.option \notin {"help", "version"}
        /\ data' = [data EXCEPT ![p] = IF a.option = "data" THEN @ ELSE a.value]
        /\ config' = [config EXCEPT ![p] = IF @ = Empty THEN NamedConfig(a, @) ELSE @]
        /\ position' = [position EXCEPT ![p] = @ + 1]
        /\ UNCHANGED phase
  /\ UNCHANGED <<arguments, dirs>>

ReadArgument(p) ==
  LET a == arguments[p][position[p]] IN
  /\ phase[p] = "arguments" /\ MoreArguments(p)
  /\ \/ /\ a.option \in {"help", "version"}
        /\ Goto(p, "asked")
        /\ UNCHANGED <<position, data, config>>
     \/ /\ a.option \notin {"help", "version"}
        /\ data' = [data EXCEPT ![p] = IF a.option = "data" THEN @ ELSE a.value]
        /\ config' = [config EXCEPT ![p] = NamedConfig(a, @)]
        /\ position' = [position EXCEPT ![p] = @ + 1]
        /\ UNCHANGED phase
  /\ UNCHANGED <<arguments, dirs>>

LookupConfig_NoDefault(p) ==
  /\ phase[p] = "arguments" /\ ~MoreArguments(p)
  /\ Goto(p, IF Exists(config[p]) THEN "logs" ELSE "make_config")
  /\ UNCHANGED <<arguments, position, data, config, dirs>>

LookupConfig(p) ==
  LET wanted == IF config[p] = Empty THEN Home ELSE config[p] IN
  /\ phase[p] = "arguments" /\ ~MoreArguments(p)
  /\ config' = [config EXCEPT ![p] = wanted]
  /\ Goto(p, IF Exists(wanted) THEN "logs" ELSE "make_config")
  /\ UNCHANGED <<arguments, position, data, dirs>>

\* make_directory fails if another process was faster, and for reasons of its own.
MakeConfig_Keeps(p) ==
  /\ phase[p] = "make_config"
  /\ dirs' \in {dirs} \cup IF Exists(config[p]) THEN {} ELSE {dirs \cup {config[p]}}
  /\ Goto(p, "logs")
  /\ UNCHANGED <<arguments, position, data, config>>

MakeConfig(p) ==
  /\ phase[p] = "make_config"
  /\ \/ ~Exists(config[p]) /\ dirs' = dirs \cup {config[p]} /\ UNCHANGED config
     \/ config' = [config EXCEPT ![p] = Tmp] /\ UNCHANGED dirs
  /\ Goto(p, "logs")
  /\ UNCHANGED <<arguments, position, data>>

LookupLogs(p) ==
  /\ phase[p] = "logs"
  /\ Goto(p, IF Exists(Logs(p)) THEN "eapi" ELSE "make_logs")
  /\ UNCHANGED <<arguments, position, data, config, dirs>>

\* The two subdirectories need the directory above them; nobody looks at a failure.
MakeSubdirectory(p, x) ==
  \/ ~Exists(x) /\ config[p] \in dirs /\ dirs' = dirs \cup {x}
  \/ UNCHANGED dirs

MakeLogs(p) ==
  /\ phase[p] = "make_logs"
  /\ MakeSubdirectory(p, Logs(p))
  /\ Goto(p, "eapi")
  /\ UNCHANGED <<arguments, position, data, config>>

\* The test is of the log directory again.
LookupEapi_Untested(p) ==
  /\ phase[p] = "eapi"
  /\ Goto(p, "make_eapi")
  /\ UNCHANGED <<arguments, position, data, config, dirs>>

LookupEapi(p) ==
  /\ phase[p] = "eapi"
  /\ Goto(p, IF Exists(Logs(p)) THEN "data" ELSE "make_eapi")
  /\ UNCHANGED <<arguments, position, data, config, dirs>>

MakeEapi(p) ==
  /\ phase[p] = "make_eapi"
  /\ MakeSubdirectory(p, Eveapi(p))
  /\ Goto(p, "data")
  /\ UNCHANGED <<arguments, position, data, config>>

\* The first hint under which the data is complete; without one the constructor throws and
\* main() returns EXIT_FAILURE.
LookupData_Unchecked(p) ==
  /\ phase[p] = "data"
  /\ data' = [data EXCEPT ![p] = Head(DirHints(p))]
  /\ Goto(p, "running")
  /\ UNCHANGED <<arguments, position, config, dirs>>

LookupData(p) ==
  LET hints == DirHints(p)  good == {i \in DOMAIN hints : hints[i] \in Complete} IN
  /\ phase[p] = "data"
  /\ \/ /\ \E i \in good : /\ \A j \in good : i <= j
                           /\ data' = [data EXCEPT ![p] = hints[i]]
        /\ Goto(p, "running")
     \/ good = {} /\ Goto(p, "failed") /\ UNCHANGED data
  /\ UNCHANGED <<arguments, position, config, dirs>>

\* The first document that a running process caches makes the eveapi directory, which is
\* the working directory of the EAPI library.
CacheDocument(p) ==
  /\ phase[p] = "running"
  /\ config[p] \in dirs /\ ~Exists(Eveapi(p))
  /\ dirs' = dirs \cup {Eveapi(p)}
  /\ UNCHANGED process

\* The end of a process: the disk is all that stays.
Ends(p) ==
  /\ Goto(p, "off")
  /\ arguments' = [arguments EXCEPT ![p] = <<>>]
  /\ position' = [position EXCEPT ![p] = 1]
  /\ data' = [data EXCEPT ![p] = Empty] /\ config' = [config EXCEPT ![p] = Empty]
  /\ UNCHANGED dirs

\* process_command_line prints the text that was asked for, and main() returns.
ProcessCommandLine(p) == phase[p] = "asked" /\ Ends(p)

\* The end of the application, or of a start that has failed.
End(p) == phase[p] \in {"running", "failed"} /\ Ends(p)

Next ==
  \E p \in Processes :
    \/ Start(p) \/ ReadArgument(p) \/ LookupConfig(p) \/ MakeConfig(p) \/ LookupLogs(p)
    \/ MakeLogs(p) \/ LookupEapi(p) \/ MakeEapi(p) \/ LookupData(p)
    \/ CacheDocument(p) \/ ProcessCommandLine(p) \/ End(p)

Spec == Init /\ [][Next]_vars
-----------------------------------------------------------------------------
(* What a start guarantees.                                                *)

Phases == {"off", "arguments", "make_config", "logs", "make_logs", "eapi", "make_eapi",
           "data", "running", "asked", "failed"}
Looking == {"logs", "make_logs", "eapi", "make_eapi", "data", "running"}
Subdirectories == Paths \X {"logs", "eveapi"}

\* The type invariant.
TypeOK ==
  /\ phase \in [Processes -> Phases]
  /\ arguments \in [Processes -> Seq(Argument)]
  /\ position \in [Processes -> Nat \ {0}]
  /\ data \in [Processes -> Paths \cup {Empty}]
  /\ config \in [Processes -> Paths \cup {Empty}]
  /\ \A p \in Processes : phase[p] \in Looking \cup {"make_config"} => config[p] \in Paths
  /\ dirs \subseteq Paths \cup Subdirectories

\* From the moment it is looked up, the configuration directory of a process exists
\* (settings.cc:84-95), although another process may make it between the test and
\* make_directory, and make_directory may fail.
ConfigExists == \A p \in Processes : phase[p] \in Looking => Exists(config[p])

\* A process runs only with a complete data directory (settings.cc:130-143), whatever was
\* named on the command line.
DataComplete == \A p \in Processes : phase[p] = "running" => data[p] \in Complete

\* A process that read a request for help or the version leaves the disk alone
\* (settings.cc:57-65 returns before any directory is made).
AskedForText(p) ==
  \E i \in 1..Len(arguments[p]) :
    i < Len(arguments[p]) /\ arguments[p][i].option \in {"help", "version"}

HelpMakesNothing ==
  [][\A p \in Processes : phase[p] \in {"make_config", "make_logs", "make_eapi"}
       => ~AskedForText(p) \/ dirs' = dirs]_vars

\* What the first arguments, those before the n-th, say of the data directory: all but
\* the ones that give this option (settings.cc:67); and of the configuration directory:
\* all but the ones whose value begins with that option (settings.cc:72).
DataGiven(list, n) ==
  [i \in {j \in DOMAIN list : j < n /\ list[j].option # "data"} |-> list[i].value]

ConfigGiven(list, n) ==
  [i \in {j \in DOMAIN list : j < n /\ (list[j].option = "data" \/ list[j].value \notin LikeConfig)}
     |-> IF list[i].option = "data" THEN list[i].value ELSE Cut[list[i].value]]

\* v is the last of these; without one it is empty.
LastOf(v, given) ==
  IF DOMAIN given = {} THEN v = Empty
  ELSE \E i \in DOMAIN given : (\A j \in DOMAIN given : j <= i) /\ v = given[i]

\* The names of the options do not count, nor does the last argument (settings.cc:53-76).
\* The configuration directory is what the last argument says that is read and does not,
\* like a --config-directory without a '=', begin with this option; or the default if that
\* is empty, or the temporary one if it cannot be made.  The data directory is what the
\* last says that is read, and never what --data-directory says.
LastReadCounts ==
  \A p \in Processes : LET list == arguments[p]  read == Len(list) IN
    /\ phase[p] \in Looking =>
         \/ config[p] = Tmp
         \/ config[p] = Home /\ LastOf(Empty, ConfigGiven(list, read))
         \/ LastOf(config[p], ConfigGiven(list, read))
    /\ phase[p] = "running" =>
         \/ LastOf(Empty, DataGiven(list, read)) /\ \E i \in DOMAIN Hints : data[p] = Hints[i]
         \/ LastOf(data[p], DataGiven(list, read))

\* Where there is a log directory and nobody has yet decided to make the eveapi directory
\* (settings.cc:109-118), no start makes it, now or later, unless it is somebody's
\* configuration directory: the test is of the wrong directory.  Only a process that is
\* running there and caches a document does (apiinterface.cc:131-140).
EveapiMissing(x) ==
  /\ <<x, "logs">> \in dirs /\ <<x, "eveapi">> \notin dirs \cup Paths
  /\ \A p \in Processes : config[p] = x => phase[p] # "make_eapi"

EveapiLeftOut ==
  [][\A x \in Paths : EveapiMissing(x) =>
       EveapiMissing(x)' \/ \E p \in Processes : config[p] = x /\ CacheDocument(p)]_vars
-----------------------------------------------------------------------------
(* What the help text says and the code does not do.                       *)

\* "--config-directory=DIR specify the config directory" (settings.cc:166): a process
\* that was given one uses the last it was given, or the temporary directory.
ConfigOptionHonoured ==
  \A p \in Processes :
    LET given == {i \in DOMAIN arguments[p] : arguments[p][i].option = "config"} IN
    phase[p] = "running" /\ given # {}
      => \/ config[p] = Tmp
         \/ \E i \in given : config[p] = arguments[p][i].value
=============================================================================
