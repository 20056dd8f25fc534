---------------------------- MODULE StartupProofs ----------------------------
(***************************************************************************)
(* Proofs about Startup, for any number of processes, argument lists and   *)
(* paths.                                                                  *)
(***************************************************************************)
EXTENDS Startup, TLAPS

-----------------------------------------------------------------------------
(* Type correctness.                                                       *)

\* The state is well typed before a process is started.
LEMMA InitType == Init => TypeOK
BY StartupAssumption DEF Init, TypeOK, Phases, Looking, Subdirectories

\* Every step of a process keeps it so.
LEMMA StepType == TypeOK /\ [Next]_vars => TypeOK'
<1> SUFFICES ASSUME TypeOK, [Next]_vars PROVE TypeOK'
  OBVIOUS
<1> USE StartupAssumption DEF TypeOK, Phases, Looking, Subdirectories
<1>1. ASSUME NEW p \in Processes, Start(p) PROVE TypeOK'
  BY <1>1 DEF Start, Goto
<1>2. ASSUME NEW p \in Processes, ReadArgument(p) PROVE TypeOK'
  <2>1. position[p] \in DOMAIN arguments[p]
    BY <1>2 DEF ReadArgument, MoreArguments
  <2> DEFINE a == arguments[p][position[p]]
  <2>2. a.value \in Paths \cup {Empty}
    <3>1. a \in Argument
      BY <2>1
    <3>2. QED
      BY <3>1 DEF Argument
  <2> HIDE DEF a
  <2>n. NamedConfig(a, config[p]) \in Paths \cup {Empty}
    BY <2>2 DEF NamedConfig
  <2>3. /\ data' \in [Processes -> Paths \cup {Empty}]
        /\ config' \in [Processes -> Paths \cup {Empty}]
        /\ position' \in [Processes -> Nat \ {0}]
    <3>1. CASE UNCHANGED <<position, data, config>>
      BY <3>1
    <3>2. CASE /\ data' = [data EXCEPT ![p] = IF a.option = "data" THEN @ ELSE a.value]
               /\ config' = [config EXCEPT ![p] = NamedConfig(a, @)]
               /\ position' = [position EXCEPT ![p] = @ + 1]
      BY <3>2, <2>2, <2>n
    <3>3. QED
      BY <1>2, <3>1, <3>2 DEF ReadArgument, a
  <2>4. /\ phase' \in [Processes -> Phases]
        /\ \A q \in Processes :
             phase'[q] \in Looking \cup {"make_config"} => config'[q] \in Paths
    BY <1>2 DEF ReadArgument, Goto
  <2>5. QED
    BY <1>2, <2>3, <2>4 DEF ReadArgument
<1>3. ASSUME NEW p \in Processes, LookupConfig(p) PROVE TypeOK'
  BY <1>3 DEF LookupConfig, Goto
<1>4. ASSUME NEW p \in Processes, MakeConfig(p) PROVE TypeOK'
  BY <1>4 DEF MakeConfig, Goto
<1>5. ASSUME NEW p \in Processes, LookupLogs(p) PROVE TypeOK'
  BY <1>5 DEF LookupLogs, Goto
<1>6. ASSUME NEW p \in Processes, MakeLogs(p) PROVE TypeOK'
  <2>1. config[p] \in Paths
    BY <1>6 DEF MakeLogs
  <2>2. dirs' \subseteq Paths \cup Subdirectories
    BY <1>6, <2>1 DEF MakeLogs, MakeSubdirectory, Logs
  <2>3. QED
    BY <1>6, <2>2 DEF MakeLogs, Goto
<1>7. ASSUME NEW p \in Processes, LookupEapi(p) PROVE TypeOK'
  BY <1>7 DEF LookupEapi, Goto
<1>8. ASSUME NEW p \in Processes, MakeEapi(p) PROVE TypeOK'
  <2>1. config[p] \in Paths
    BY <1>8 DEF MakeEapi
  <2>2. dirs' \subseteq Paths \cup Subdirectories
    BY <1>8, <2>1 DEF MakeEapi, MakeSubdirectory, Eveapi
  <2>3. QED
    BY <1>8, <2>2 DEF MakeEapi, Goto
<1>9. ASSUME NEW p \in Processes, LookupData(p) PROVE TypeOK'
  <2>1. \A i \in DOMAIN DirHints(p) : DirHints(p)[i] \in Paths \cup {Empty}
    BY DEF DirHints
  <2>2. data' \in [Processes -> Paths \cup {Empty}]
    <3>1. CASE UNCHANGED data
      BY <3>1
    <3>2. CASE \E i \in DOMAIN DirHints(p) : data' = [data EXCEPT ![p] = DirHints(p)[i]]
      BY <3>2, <2>1
    <3>3. QED
      BY <1>9, <3>1, <3>2 DEF LookupData
  <2>3. QED
    BY <1>9, <2>2 DEF LookupData, Goto
<1>0. ASSUME NEW p \in Processes, ProcessCommandLine(p) PROVE TypeOK'
  BY <1>0 DEF ProcessCommandLine, Ends, Goto
<1>10. ASSUME NEW p \in Processes, End(p) PROVE TypeOK'
  BY <1>10 DEF End, Ends, Goto
<1>11. ASSUME NEW p \in Processes, CacheDocument(p) PROVE TypeOK'
  <2>1. config[p] \in Paths
    BY <1>11 DEF CacheDocument
  <2>2. dirs' \subseteq Paths \cup Subdirectories
    BY <1>11, <2>1 DEF CacheDocument, Eveapi
  <2>3. QED
    BY <1>11, <2>2 DEF CacheDocument, process
<1>12. CASE UNCHANGED vars
  BY <1>12 DEF vars, process
<1>13. QED
  BY <1>0, <1>1, <1>2, <1>3, <1>4, <1>5, <1>6, <1>7, <1>8, <1>9, <1>10, <1>11, <1>12 DEF Next

\* The state is always well typed.
THEOREM TypeCorrect == Spec => []TypeOK
<1>1. Init => TypeOK
  BY InitType
<1>2. TypeOK /\ [Next]_vars => TypeOK'
  BY StepType
<1>3. QED
  BY <1>1, <1>2, PTL DEF Spec

-----------------------------------------------------------------------------
(* Directories.                                                            *)

\* Nothing removes a directory, and there is always a temporary one.
TmpStays == Tmp \in dirs

\* What has been looked up exists.
DirInv == TmpStays /\ ConfigExists

\* At the start there is a temporary directory, and nobody has looked for another.
LEMMA InitDir == Init => DirInv
BY StartupAssumption DEF Init, DirInv, TmpStays, ConfigExists, Looking

\* No step removes a directory, and a process goes on with one that is there.
LEMMA StepDir == TypeOK /\ DirInv /\ [Next]_vars => DirInv'
<1> SUFFICES ASSUME TypeOK, DirInv, [Next]_vars PROVE DirInv'
  OBVIOUS
<1>1. dirs \subseteq dirs'
  BY DEF Next, vars, Start, ReadArgument, LookupConfig, MakeConfig, LookupLogs, MakeLogs,
         LookupEapi, MakeEapi, MakeSubdirectory, LookupData, CacheDocument, process,
         ProcessCommandLine, End, Ends
<1>2. TmpStays'
  BY <1>1 DEF DirInv, TmpStays
<1>3. ConfigExists'
  <2> USE <1>1 DEF DirInv, TmpStays, ConfigExists, Exists, Looking, TypeOK, Goto
  <2>1. ASSUME NEW p \in Processes, Start(p) PROVE ConfigExists'
    BY <2>1 DEF Start
  <2>2. ASSUME NEW p \in Processes, ReadArgument(p) PROVE ConfigExists'
    BY <2>2 DEF ReadArgument
  <2>3. ASSUME NEW p \in Processes, LookupConfig(p) PROVE ConfigExists'
    BY <2>3 DEF LookupConfig
  <2>4. ASSUME NEW p \in Processes, MakeConfig(p) PROVE ConfigExists'
    BY <2>4 DEF MakeConfig
  <2>5. ASSUME NEW p \in Processes, LookupLogs(p) PROVE ConfigExists'
    BY <2>5 DEF LookupLogs
  <2>6. ASSUME NEW p \in Processes, MakeLogs(p) PROVE ConfigExists'
    BY <2>6 DEF MakeLogs
  <2>7. ASSUME NEW p \in Processes, LookupEapi(p) PROVE ConfigExists'
    BY <2>7 DEF LookupEapi
  <2>8. ASSUME NEW p \in Processes, MakeEapi(p) PROVE ConfigExists'
    BY <2>8 DEF MakeEapi
  <2>9. ASSUME NEW p \in Processes, LookupData(p) PROVE ConfigExists'
    BY <2>9 DEF LookupData
  <2>0. ASSUME NEW p \in Processes, ProcessCommandLine(p) PROVE ConfigExists'
    BY <2>0 DEF ProcessCommandLine, Ends
  <2>10. ASSUME NEW p \in Processes, End(p) PROVE ConfigExists'
    BY <2>10 DEF End, Ends
  <2>11. ASSUME NEW p \in Processes, CacheDocument(p) PROVE ConfigExists'
    BY <2>11 DEF CacheDocument, process
  <2>12. CASE UNCHANGED vars
    BY <2>12 DEF vars, process
  <2>13. QED
    BY <2>0, <2>1, <2>2, <2>3, <2>4, <2>5, <2>6, <2>7, <2>8, <2>9, <2>10, <2>11, <2>12 DEF Next
<1>4. QED
  BY <1>2, <1>3 DEF DirInv

\* The configuration directory of a process that has looked it up exists, however the
\* processes interleave and whatever make_directory answers.
THEOREM ConfigAlwaysExists == Spec => []ConfigExists
<1>1. Init => DirInv
  BY InitDir
<1>2. TypeOK /\ DirInv /\ [Next]_vars => DirInv'
  BY StepDir
<1>3. DirInv => ConfigExists
  BY DEF DirInv
<1>4. QED
  BY <1>1, <1>2, <1>3, TypeCorrect, PTL DEF Spec
-----------------------------------------------------------------------------
(* The command line.                                                       *)

\* The arguments a process has read contain no request for a text, once it goes on.
ReadNoRequest(p) ==
  \A i \in 1..Len(arguments[p]) :
    i < position[p] /\ i < Len(arguments[p])
      => arguments[p][i].option \notin {"help", "version"}

HelpInv ==
  \A p \in Processes :
    /\ phase[p] # "asked" => ReadNoRequest(p)
    /\ phase[p] \in Looking \cup {"make_config", "failed"} => ~MoreArguments(p)
    /\ phase[p] = "off" => position[p] = 1

\* A process that is not started has read nothing.
LEMMA InitHelp == Init => HelpInv
<1> SUFFICES ASSUME Init, NEW p \in Processes
             PROVE  /\ ReadNoRequest(p) /\ position[p] = 1
                    /\ phase[p] \notin Looking \cup {"make_config", "failed"}
  BY DEF HelpInv
<1>1. ReadNoRequest(p) /\ position[p] = 1
  BY DEF Init, ReadNoRequest
<1>2. phase[p] \notin Looking \cup {"make_config", "failed"}
  BY DEF Init, Looking
<1>3. QED
  BY <1>1, <1>2

\* Every argument that is read and gone on from was no request for a text.
LEMMA StepHelp == TypeOK /\ HelpInv /\ [Next]_vars => HelpInv'
<1> SUFFICES ASSUME TypeOK, HelpInv, [Next]_vars PROVE HelpInv'
  OBVIOUS
<1> USE DEF TypeOK, HelpInv, ReadNoRequest, MoreArguments, Looking, Goto
<1>1. ASSUME NEW p \in Processes, Start(p) PROVE HelpInv'
  BY <1>1 DEF Start
<1>2. ASSUME NEW p \in Processes, ReadArgument(p) PROVE HelpInv'
  BY <1>2 DEF ReadArgument
<1>3. ASSUME NEW p \in Processes, LookupConfig(p) PROVE HelpInv'
  BY <1>3 DEF LookupConfig
<1>4. ASSUME NEW p \in Processes, MakeConfig(p) PROVE HelpInv'
  BY <1>4 DEF MakeConfig
<1>5. ASSUME NEW p \in Processes, LookupLogs(p) PROVE HelpInv'
  BY <1>5 DEF LookupLogs
<1>6. ASSUME NEW p \in Processes, MakeLogs(p) PROVE HelpInv'
  BY <1>6 DEF MakeLogs
<1>7. ASSUME NEW p \in Processes, LookupEapi(p) PROVE HelpInv'
  BY <1>7 DEF LookupEapi
<1>8. ASSUME NEW p \in Processes, MakeEapi(p) PROVE HelpInv'
  BY <1>8 DEF MakeEapi
<1>9. ASSUME NEW p \in Processes, LookupData(p) PROVE HelpInv'
  BY <1>9 DEF LookupData
<1>0. ASSUME NEW p \in Processes, ProcessCommandLine(p) PROVE HelpInv'
  BY <1>0 DEF ProcessCommandLine, Ends
<1>10. ASSUME NEW p \in Processes, End(p) PROVE HelpInv'
  BY <1>10 DEF End, Ends
<1>11. ASSUME NEW p \in Processes, CacheDocument(p) PROVE HelpInv'
  BY <1>11 DEF CacheDocument, process
<1>12. CASE UNCHANGED vars
  BY <1>12 DEF vars, process
<1>13. QED
  BY <1>0, <1>1, <1>2, <1>3, <1>4, <1>5, <1>6, <1>7, <1>8, <1>9, <1>10, <1>11, <1>12 DEF Next

\* A process that read a request for help or the version makes no directory.
THEOREM HelpIsHarmless == Spec => HelpMakesNothing
<1>1. Init => HelpInv
  BY InitHelp
<1>2. TypeOK /\ HelpInv /\ [Next]_vars => HelpInv'
  BY StepHelp
<1>3. TypeOK /\ HelpInv => 
        \A p \in Processes : phase[p] \in {"make_config", "make_logs", "make_eapi"}
          => ~AskedForText(p) \/ dirs' = dirs
  <2> SUFFICES ASSUME TypeOK, HelpInv, NEW p \in Processes, AskedForText(p),
                      phase[p] \in {"make_config", "make_logs", "make_eapi"}
               PROVE  FALSE
    OBVIOUS
  <2>1. PICK i \in 1..Len(arguments[p]) :
          i < Len(arguments[p]) /\ arguments[p][i].option \in {"help", "version"}
    BY DEF AskedForText
  <2>2. ReadNoRequest(p) /\ ~MoreArguments(p)
    BY DEF HelpInv, Looking
  <2>3. arguments[p] \in Seq(Argument) /\ position[p] \in Nat
    BY DEF TypeOK
  <2>4. i < position[p]
    BY <2>1, <2>2, <2>3 DEF MoreArguments
  <2>5. QED
    BY <2>1, <2>2, <2>4 DEF ReadNoRequest
<1>4. QED
  BY <1>1, <1>2, <1>3, TypeCorrect, PTL DEF Spec, HelpMakesNothing
-----------------------------------------------------------------------------
(* The data.                                                               *)

\* At the start no process runs.
LEMMA InitData == Init => DataComplete
BY DEF Init, DataComplete

\* Only the step that finds the data lets a process run.
LEMMA StepData == TypeOK /\ DataComplete /\ [Next]_vars => DataComplete'
<1> SUFFICES ASSUME TypeOK, DataComplete, [Next]_vars PROVE DataComplete'
  OBVIOUS
<1> USE DEF TypeOK, DataComplete, Goto
<1>1. ASSUME NEW p \in Processes, Start(p) PROVE DataComplete'
  BY <1>1 DEF Start
<1>2. ASSUME NEW p \in Processes, ReadArgument(p) PROVE DataComplete'
  BY <1>2 DEF ReadArgument
<1>3. ASSUME NEW p \in Processes, LookupConfig(p) PROVE DataComplete'
  BY <1>3 DEF LookupConfig
<1>4. ASSUME NEW p \in Processes, MakeConfig(p) PROVE DataComplete'
  BY <1>4 DEF MakeConfig
<1>5. ASSUME NEW p \in Processes, LookupLogs(p) PROVE DataComplete'
  BY <1>5 DEF LookupLogs
<1>6. ASSUME NEW p \in Processes, MakeLogs(p) PROVE DataComplete'
  BY <1>6 DEF MakeLogs
<1>7. ASSUME NEW p \in Processes, LookupEapi(p) PROVE DataComplete'
  BY <1>7 DEF LookupEapi
<1>8. ASSUME NEW p \in Processes, MakeEapi(p) PROVE DataComplete'
  BY <1>8 DEF MakeEapi
<1>9. ASSUME NEW p \in Processes, LookupData(p) PROVE DataComplete'
  <2>1. data' = [data EXCEPT ![p] = data'[p]]
    BY <1>9 DEF LookupData
  <2>2. phase'[p] = "running" => data'[p] \in Complete
    BY <1>9 DEF LookupData
  <2>3. \A q \in Processes \ {p} : phase'[q] = phase[q] /\ data'[q] = data[q]
    BY <1>9, <2>1 DEF LookupData
  <2>4. QED
    BY <2>2, <2>3
<1>0. ASSUME NEW p \in Processes, ProcessCommandLine(p) PROVE DataComplete'
  BY <1>0 DEF ProcessCommandLine, Ends
<1>10. ASSUME NEW p \in Processes, End(p) PROVE DataComplete'
  BY <1>10 DEF End, Ends
<1>11. ASSUME NEW p \in Processes, CacheDocument(p) PROVE DataComplete'
  BY <1>11 DEF CacheDocument, process
<1>12. CASE UNCHANGED vars
  BY <1>12 DEF vars, process
<1>13. QED
  BY <1>0, <1>1, <1>2, <1>3, <1>4, <1>5, <1>6, <1>7, <1>8, <1>9, <1>10, <1>11, <1>12 DEF Next

\* A process runs only with data that is complete, whatever was named on the command line.
THEOREM RunsWithData == Spec => []DataComplete
<1>1. Init => DataComplete
  BY InitData
<1>2. TypeOK /\ DataComplete /\ [Next]_vars => DataComplete'
  BY StepData
<1>3. QED
  BY <1>1, <1>2, TypeCorrect, PTL DEF Spec
-----------------------------------------------------------------------------
(* What the command line decides.                                          *)

\* What the loop has set when it is through, and what is left of it later.
ConfigNamed(p) ==
  LET given == ConfigGiven(arguments[p], Len(arguments[p])) IN
  (config[p] = Home /\ LastOf(Empty, given)) \/ LastOf(config[p], given)

DataNamed(p) == LastOf(data[p], DataGiven(arguments[p], Len(arguments[p])))

DataFound(p) ==
  \/ /\ LastOf(Empty, DataGiven(arguments[p], Len(arguments[p])))
     /\ \E i \in DOMAIN Hints : data[p] = Hints[i]
  \/ DataNamed(p)

\* While the loop reads, the directories are what the arguments before the next one say.
ReadOK(p) ==
  /\ phase[p] = "off" => position[p] = 1 /\ data[p] = Empty /\ config[p] = Empty
  /\ phase[p] = "arguments" =>
       /\ position[p] = 1 \/ position[p] <= Len(arguments[p])
       /\ LastOf(config[p], ConfigGiven(arguments[p], position[p]))
       /\ LastOf(data[p], DataGiven(arguments[p], position[p]))
  /\ phase[p] = "make_config" => ConfigNamed(p)
  /\ phase[p] \in Looking => config[p] = Tmp \/ ConfigNamed(p)
  /\ phase[p] \in {"make_config"} \cup (Looking \ {"running"}) => DataNamed(p)
  /\ phase[p] = "running" => DataFound(p)

ReadInv == \A p \in Processes : ReadOK(p)

\* Before the first argument nothing is said.
LEMMA NoneRead ==
  ASSUME NEW list \in Seq(Argument)
  PROVE  LastOf(Empty, ConfigGiven(list, 1)) /\ LastOf(Empty, DataGiven(list, 1))
<1>1. DOMAIN ConfigGiven(list, 1) = {} /\ DOMAIN DataGiven(list, 1) = {}
  BY DEF ConfigGiven, DataGiven
<1> QED BY <1>1 DEF LastOf

\* The k-th argument has the last word on the data directory, unless it is that option.
LEMMA NextData ==
  ASSUME NEW list \in Seq(Argument), NEW k \in DOMAIN list, NEW v,
         LastOf(v, DataGiven(list, k))
  PROVE  LastOf(IF list[k].option = "data" THEN v ELSE list[k].value, DataGiven(list, k + 1))
<1> DEFINE old == DataGiven(list, k)  new == DataGiven(list, k + 1)
<1>1. /\ DOMAIN old = {j \in DOMAIN list : j < k /\ list[j].option # "data"}
      /\ DOMAIN new = {j \in DOMAIN list : j < k + 1 /\ list[j].option # "data"}
      /\ \A j \in DOMAIN new : new[j] = list[j].value
      /\ \A j \in DOMAIN old : old[j] = list[j].value
  BY DEF DataGiven
<1>2. DOMAIN list \subseteq Nat /\ k \in Nat
  OBVIOUS
<1>3. \A j \in DOMAIN list : j < k + 1 <=> j < k \/ j = k
  BY <1>2
<1> HIDE DEF old, new
<1>4. CASE list[k].option = "data"
  <2>1. DOMAIN new = DOMAIN old /\ \A j \in DOMAIN old : new[j] = old[j]
    BY <1>1, <1>3, <1>4
  <2>2. LastOf(v, old)
    BY DEF old
  <2>3. LastOf(v, new)
    BY <2>1, <2>2 DEF LastOf
  <2> QED BY <1>4, <2>3 DEF new
<1>5. CASE list[k].option # "data"
  <2>1. k \in DOMAIN new /\ (\A j \in DOMAIN new : j <= k) /\ new[k] = list[k].value
    BY <1>1, <1>2, <1>3, <1>5
  <2>2. LastOf(list[k].value, new)
    BY <2>1 DEF LastOf
  <2> QED BY <1>5, <2>2 DEF new
<1> QED BY <1>4, <1>5

\* And so it has on the configuration directory, unless its value begins with that option.
LEMMA NextConfig ==
  ASSUME NEW list \in Seq(Argument), NEW k \in DOMAIN list, NEW v,
         LastOf(v, ConfigGiven(list, k))
  PROVE  LastOf(NamedConfig(list[k], v), ConfigGiven(list, k + 1))
<1> DEFINE old == ConfigGiven(list, k)  new == ConfigGiven(list, k + 1)
           Says(j) == list[j].option = "data" \/ list[j].value \notin LikeConfig
           Word(j) == IF list[j].option = "data" THEN list[j].value ELSE Cut[list[j].value]
<1>1. /\ DOMAIN old = {j \in DOMAIN list : j < k /\ Says(j)}
      /\ DOMAIN new = {j \in DOMAIN list : j < k + 1 /\ Says(j)}
      /\ \A j \in DOMAIN new : new[j] = Word(j)
      /\ \A j \in DOMAIN old : old[j] = Word(j)
  BY DEF ConfigGiven
<1>2. DOMAIN list \subseteq Nat /\ k \in Nat
  OBVIOUS
<1>3. \A j \in DOMAIN list : j < k + 1 <=> j < k \/ j = k
  BY <1>2
<1>4. NamedConfig(list[k], v) = IF Says(k) THEN Word(k) ELSE v
  BY DEF NamedConfig
<1> HIDE DEF old, new, Says, Word
<1>5. CASE ~Says(k)
  <2>1. DOMAIN new = DOMAIN old /\ \A j \in DOMAIN old : new[j] = old[j]
    BY <1>1, <1>3, <1>5
  <2>2. LastOf(v, old)
    BY DEF old
  <2>3. LastOf(v, new)
    BY <2>1, <2>2 DEF LastOf
  <2> QED BY <1>4, <1>5, <2>3 DEF new
<1>6. CASE Says(k)
  <2>1. k \in DOMAIN new /\ (\A j \in DOMAIN new : j <= k) /\ new[k] = Word(k)
    BY <1>1, <1>2, <1>3, <1>6
  <2>2. LastOf(Word(k), new)
    BY <2>1 DEF LastOf
  <2> QED BY <1>4, <1>6, <2>2 DEF new
<1> QED BY <1>5, <1>6

\* When the loop ends, it has read what the whole list says: all arguments but the last.
LEMMA AllRead ==
  ASSUME TypeOK, NEW p \in Processes, ReadOK(p), phase[p] = "arguments", ~MoreArguments(p)
  PROVE  LET all == Len(arguments[p]) IN
         /\ ConfigGiven(arguments[p], position[p]) = ConfigGiven(arguments[p], all)
         /\ DataGiven(arguments[p], position[p]) = DataGiven(arguments[p], all)
<1> DEFINE list == arguments[p]
<1>1. /\ list \in Seq(Argument) /\ position[p] \in Nat \ {0}
      /\ ~(position[p] < Len(list))
      /\ position[p] = 1 \/ position[p] <= Len(list)
  BY DEF TypeOK, ReadOK, MoreArguments
<1> HIDE DEF list
<1>2. \A j \in DOMAIN list : j < position[p] <=> j < Len(list)
  BY <1>1
<1> QED BY <1>2 DEF ConfigGiven, DataGiven, list

\* What another process does, or a test or an attempt to make a directory, is of no concern.
LEMMA ReadFrame ==
  ASSUME NEW p \in Processes, ReadOK(p),
         arguments'[p] = arguments[p], position'[p] = position[p],
         data'[p] = data[p], config'[p] = config[p],
         \/ phase'[p] = phase[p]
         \/ phase[p] \in Looking \ {"running"} /\ phase'[p] \in Looking \ {"running"}
         \/ phase'[p] \in {"asked", "failed"}
  PROVE  ReadOK(p)'
BY DEF ReadOK, ConfigNamed, DataNamed, DataFound, Looking

\* Every step of a process keeps what its command line decides.
LEMMA ReadStep ==
  ASSUME TypeOK, NEW p \in Processes, ReadOK(p), NEW q \in Processes, p = q,
         \/ Start(q) \/ ReadArgument(q) \/ LookupConfig(q) \/ MakeConfig(q) \/ LookupLogs(q)
         \/ MakeLogs(q) \/ LookupEapi(q) \/ MakeEapi(q) \/ LookupData(q)
         \/ CacheDocument(q) \/ ProcessCommandLine(q) \/ End(q)
  PROVE  ReadOK(p)'
<1> USE DEF TypeOK, Goto
<1>1. CASE Start(p)
  <2>1. /\ phase'[p] = "arguments" /\ arguments'[p] \in Seq(Argument)
        /\ position'[p] = 1 /\ data'[p] = Empty /\ config'[p] = Empty
    BY <1>1, StartupAssumption DEF Start, ReadOK
  <2>2. /\ LastOf(config'[p], ConfigGiven(arguments'[p], position'[p]))
        /\ LastOf(data'[p], DataGiven(arguments'[p], position'[p]))
    BY <2>1, NoneRead
  <2> QED BY <2>1, <2>2 DEF ReadOK, Looking
<1>2. CASE ReadArgument(p)
  <2> DEFINE list == arguments[p]  k == position[p]
  <2>1. /\ phase[p] = "arguments" /\ list \in Seq(Argument) /\ k \in Nat \ {0}
        /\ k < Len(list) /\ arguments' = arguments
    BY <1>2 DEF ReadArgument, MoreArguments
  <2>2. k \in DOMAIN list
    BY <2>1
  <2>3. CASE phase'[p] = "asked"
    BY <2>3 DEF ReadOK, Looking
  <2>4. CASE /\ data'[p] = IF list[k].option = "data" THEN data[p] ELSE list[k].value
             /\ config'[p] = NamedConfig(list[k], config[p])
             /\ position'[p] = k + 1 /\ phase'[p] = "arguments"
    <3>1. LastOf(config[p], ConfigGiven(list, k)) /\ LastOf(data[p], DataGiven(list, k))
      BY <2>1 DEF ReadOK
    <3>2. LastOf(config'[p], ConfigGiven(list, k + 1))
      BY <2>1, <2>2, <2>4, <3>1, NextConfig
    <3>3. LastOf(data'[p], DataGiven(list, k + 1))
      BY <2>1, <2>2, <2>4, <3>1, NextData
    <3>4. position'[p] <= Len(arguments'[p])
      BY <2>1, <2>4
    <3> QED BY <2>1, <2>4, <3>2, <3>3, <3>4 DEF ReadOK, Looking
  <2>5. \/ phase'[p] = "asked"
        \/ /\ data'[p] = IF list[k].option = "data" THEN data[p] ELSE list[k].value
           /\ config'[p] = NamedConfig(list[k], config[p])
           /\ position'[p] = k + 1 /\ phase'[p] = "arguments"
    BY <1>2, <2>1 DEF ReadArgument
  <2> QED BY <2>3, <2>4, <2>5
<1>3. CASE LookupConfig(p)
  <2>1. /\ phase[p] = "arguments" /\ ~MoreArguments(p)
        /\ phase'[p] \in {"logs", "make_config"}
        /\ config'[p] = IF config[p] = Empty THEN Home ELSE config[p]
        /\ UNCHANGED <<arguments, data>>
    BY <1>3 DEF LookupConfig
  <2>2. /\ LastOf(config[p], ConfigGiven(arguments[p], Len(arguments[p])))
        /\ DataNamed(p)
    BY <2>1, AllRead DEF ReadOK, DataNamed
  <2>3. ConfigNamed(p)' /\ DataNamed(p)'
    BY <2>1, <2>2 DEF ConfigNamed, DataNamed
  <2> QED BY <2>1, <2>3 DEF ReadOK, Looking
<1>4. CASE MakeConfig(p)
  <2>1. /\ phase[p] = "make_config" /\ phase'[p] = "logs"
        /\ config'[p] \in {config[p], Tmp} /\ UNCHANGED <<arguments, data>>
    BY <1>4 DEF MakeConfig
  <2> QED BY <2>1 DEF ReadOK, ConfigNamed, DataNamed, Looking
<1>5. CASE LookupLogs(p) \/ MakeLogs(p) \/ LookupEapi(p) \/ MakeEapi(p)
  <2>1. /\ phase[p] \in Looking \ {"running"} /\ phase'[p] \in Looking \ {"running"}
        /\ UNCHANGED <<arguments, position, data, config>>
    BY <1>5 DEF LookupLogs, MakeLogs, LookupEapi, MakeEapi, Looking
  <2> QED BY <2>1, ReadFrame
<1>6. CASE LookupData(p)
  <2>1. CASE phase'[p] = "failed"
    BY <2>1 DEF ReadOK, Looking
  <2>2. CASE phase'[p] = "running"
    <3>1. /\ phase[p] = "data" /\ UNCHANGED <<arguments, config>>
          /\ \E i \in DOMAIN DirHints(p) : data'[p] = DirHints(p)[i]
      BY <1>6, <2>2 DEF LookupData
    <3>2. DataNamed(p)
      BY <3>1 DEF ReadOK, Looking
    <3>3. data[p] # Empty => data'[p] = data[p]
      BY <3>1 DEF DirHints
    <3>4. data[p] = Empty => \E i \in DOMAIN Hints : data'[p] = Hints[i]
      BY <3>1 DEF DirHints
    <3>5. DataFound(p)'
      BY <3>1, <3>2, <3>3, <3>4 DEF DataFound, DataNamed
    <3>6. config[p] = Tmp \/ ConfigNamed(p)
      BY <3>1 DEF ReadOK, Looking
    <3> QED BY <2>2, <3>1, <3>5, <3>6 DEF ReadOK, ConfigNamed, Looking
  <2> QED BY <1>6, <2>1, <2>2 DEF LookupData
<1>7. CASE ProcessCommandLine(p) \/ End(p)
  BY <1>7 DEF ProcessCommandLine, End, Ends, ReadOK, Looking
<1>8. CASE CacheDocument(p)
  BY <1>8, ReadFrame DEF CacheDocument, process
<1> QED BY <1>1, <1>2, <1>3, <1>4, <1>5, <1>6, <1>7, <1>8

\* Every step of the program keeps it for all processes: each writes only its own record.
LEMMA ReadInvStep == TypeOK /\ ReadInv /\ [Next]_vars => ReadInv'
<1> SUFFICES ASSUME TypeOK, ReadInv, [Next]_vars, NEW p \in Processes PROVE ReadOK(p)'
  BY DEF ReadInv
<1>0. ReadOK(p)
  BY DEF ReadInv
<1>1. CASE UNCHANGED vars
  BY <1>0, <1>1, ReadFrame DEF vars, process
<1>2. ASSUME NEW q \in Processes,
             \/ Start(q) \/ ReadArgument(q) \/ LookupConfig(q) \/ MakeConfig(q) \/ LookupLogs(q)
             \/ MakeLogs(q) \/ LookupEapi(q) \/ MakeEapi(q) \/ LookupData(q)
             \/ CacheDocument(q) \/ ProcessCommandLine(q) \/ End(q),
             p # q
      PROVE  ReadOK(p)'
  <2>1. /\ arguments'[p] = arguments[p] /\ position'[p] = position[p] /\ phase'[p] = phase[p]
        /\ data'[p] = data[p] /\ config'[p] = config[p]
    BY <1>2 DEF TypeOK, Goto, Start, ReadArgument, LookupConfig, MakeConfig, LookupLogs, MakeLogs,
           LookupEapi, MakeEapi, LookupData, CacheDocument, process, ProcessCommandLine, End, Ends
  <2> QED BY <1>0, <2>1, ReadFrame
<1> QED BY <1>0, <1>1, <1>2, ReadStep DEF Next

\* Whatever the options are called, the last argument that is read and has a word on a
\* directory decides on it, for any argument list: the last of the list is never read, every
\* argument but --data-directory has one on the data directory, and every argument but one
\* whose value begins with --config-directory, as a bare option does, has one on the
\* configuration directory (settings.cc:55, 67, 72).
THEOREM OptionNamesIgnored == Spec => []LastReadCounts
<1>1. Init => ReadInv
  BY DEF Init, ReadInv, ReadOK, Looking
<1>2. ReadInv => LastReadCounts
  BY DEF ReadInv, ReadOK, LastReadCounts, ConfigNamed, DataNamed, DataFound
<1> QED
  BY <1>1, <1>2, ReadInvStep, TypeCorrect, PTL DEF Spec
-----------------------------------------------------------------------------
(* The eveapi directory.                                                   *)

\* No step of a start makes the eveapi directory, or decides to, beside a log directory.
LEMMA MissingStep ==
  ASSUME TypeOK, [Next]_vars, NEW x \in Paths, EveapiMissing(x),
         ~ \E p \in Processes : config[p] = x /\ CacheDocument(p)
  PROVE  EveapiMissing(x)'
<1> USE DEF TypeOK, Goto
<1>1. <<x, "logs">> \in dirs /\ dirs \subseteq dirs' /\ <<x, "eveapi">> \notin dirs \cup Paths
  BY DEF EveapiMissing, Next, vars, Start, ReadArgument, LookupConfig, MakeConfig, LookupLogs,
         MakeLogs, LookupEapi, MakeEapi, MakeSubdirectory, LookupData, CacheDocument,
         ProcessCommandLine, End, Ends
<1>2. ASSUME NEW p \in Processes,
             \/ Start(p) \/ ReadArgument(p) \/ LookupConfig(p) \/ LookupLogs(p) \/ LookupData(p)
             \/ ProcessCommandLine(p) \/ End(p)
      PROVE  EveapiMissing(x)'
  BY <1>1, <1>2 DEF EveapiMissing, Start, ReadArgument, LookupConfig, LookupLogs, LookupData,
         ProcessCommandLine, End, Ends
<1>3. ASSUME NEW p \in Processes, MakeConfig(p) PROVE EveapiMissing(x)'
  <2>1. phase' = [phase EXCEPT ![p] = "logs"] /\ dirs' \subseteq dirs \cup {config[p]}
    BY <1>3 DEF MakeConfig
  <2>2. \A q \in Processes \ {p} : config'[q] = config[q]
    BY <1>3 DEF MakeConfig
  <2>3. config[p] \in Paths
    BY <1>3 DEF MakeConfig
  <2> QED BY <1>1, <2>1, <2>2, <2>3 DEF EveapiMissing
<1>4. ASSUME NEW p \in Processes, MakeLogs(p) PROVE EveapiMissing(x)'
  <2>1. phase' = [phase EXCEPT ![p] = "eapi"] /\ UNCHANGED config
    BY <1>4 DEF MakeLogs
  <2>2. dirs' \subseteq dirs \cup {<<config[p], "logs">>}
    BY <1>4 DEF MakeLogs, MakeSubdirectory, Logs
  <2> QED BY <1>1, <2>1, <2>2 DEF EveapiMissing
\* The test of the log directory finds it.
<1>5. ASSUME NEW p \in Processes, LookupEapi(p) PROVE EveapiMissing(x)'
  <2>1. UNCHANGED <<config, dirs>>
        /\ phase' = [phase EXCEPT ![p] = IF Exists(Logs(p)) THEN "data" ELSE "make_eapi"]
    BY <1>5 DEF LookupEapi
  <2>2. config[p] = x => Exists(Logs(p))
    BY <1>1 DEF Exists, Logs
  <2> QED BY <1>1, <2>1, <2>2 DEF EveapiMissing
\* Who makes the directory had decided to before.
<1>6. ASSUME NEW p \in Processes, MakeEapi(p) PROVE EveapiMissing(x)'
  <2>1. phase' = [phase EXCEPT ![p] = "data"] /\ UNCHANGED config /\ config[p] # x
    BY <1>6 DEF MakeEapi, EveapiMissing
  <2>2. dirs' \subseteq dirs \cup {<<config[p], "eveapi">>}
    BY <1>6 DEF MakeEapi, MakeSubdirectory, Eveapi
  <2> QED BY <1>1, <2>1, <2>2 DEF EveapiMissing
\* A running process makes the one of its own configuration directory.
<1>7. ASSUME NEW p \in Processes, CacheDocument(p) PROVE EveapiMissing(x)'
  <2>1. UNCHANGED process /\ dirs' = dirs \cup {<<config[p], "eveapi">>} /\ config[p] # x
    BY <1>7 DEF CacheDocument, Eveapi
  <2> QED BY <1>1, <2>1 DEF EveapiMissing, process
<1>8. CASE UNCHANGED vars
  BY <1>8 DEF vars, process, EveapiMissing
<1> QED BY <1>2, <1>3, <1>4, <1>5, <1>6, <1>7, <1>8 DEF Next

\* Beside a log directory no start makes the eveapi directory, however many processes there
\* are and whatever they are told (settings.cc:109-118): if it appears, a process that was
\* running there cached a document.
THEOREM EveapiNeverMade == Spec => EveapiLeftOut
<1>1. TypeOK /\ [Next]_vars =>
        \A x \in Paths : EveapiMissing(x) =>
          EveapiMissing(x)' \/ \E p \in Processes : config[p] = x /\ CacheDocument(p)
  BY MissingStep
<1> QED
  BY <1>1, TypeCorrect, PTL DEF Spec, EveapiLeftOut
=============================================================================
