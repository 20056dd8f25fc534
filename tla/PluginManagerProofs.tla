------------------------- MODULE PluginManagerProofs -------------------------
(***************************************************************************)
(* Proofs about PluginManager, for any number of files, ids and objects.   *)
(***************************************************************************)
EXTENDS PluginManager, FiniteSetTheorems, TLAPS

-----------------------------------------------------------------------------
(* The inductive invariant.                                                *)

\* The list of handles has each file once.  Once there is a handle, the PluginInfo that
\* all of them open names a file; before, no library is in a handle.
ControlOK ==
  /\ phase \in Phases /\ position \in Nat \ {0}
  /\ handles \in Seq(Files)
  /\ \A j, k \in DOMAIN handles : handles[j] = handles[k] => j = k
  /\ id \in [Files -> Names]
  /\ handles # <<>> => info.file \in Files
  /\ phase = "start" => \A f \in Files : dlhandle[f] = Null

HandleType ==
  /\ info \in [file : Files \cup {Null}, id : Names]
  /\ ptr \in [Files -> Objects \cup {Null}]
  /\ dlhandle \in [Files -> Files \cup {Null}]
  /\ destroy \in [Files -> BOOLEAN]
  /\ refs \in [Files -> Nat]
  /\ made \in [Objects -> Files \cup {Null}]

\* A handle knows destroy exactly while it has a library, which is the one of the
\* PluginInfo; its object comes from that library.
HandleOK ==
  \A f \in Files :
    /\ destroy[f] <=> dlhandle[f] # Null
    /\ dlhandle[f] \in {Null, info.file}
    /\ ptr[f] # Null => dlhandle[f] # Null /\ made[ptr[f]] = dlhandle[f]

\* The handles that have library x, each of which has loaded it once.
Holders(x) == {f \in Files : dlhandle[f] = x}

CountOK == \A x \in Files : Cardinality(Holders(x)) <= refs[x]

StateOK == HandleType /\ HandleOK /\ CountOK /\ ObjectsHeld
ManagerInv == ControlOK /\ StateOK

\* The plugin directory is finite, and with it the handles of a library.
LEMMA HoldersFinite ==
  \A x : IsFiniteSet(Holders(x))
BY ManagerAssumption, FS_Subset DEF Holders, ManagerAssumption

\* The invariant says all of the manager's type.
LEMMA InvType == ManagerInv => ManagerTypeOK
BY DEF ManagerInv, ControlOK, StateOK, HandleType, ManagerTypeOK

\* The code of an object is loaded, because the handle of the object has loaded it.
LEMMA InvCode == ManagerInv => CodeLoaded
<1> SUFFICES ASSUME ManagerInv, NEW o \in Live PROVE refs[made[o]] > 0
  BY DEF CodeLoaded
<1>1. PICK f \in Files : ptr[f] = o /\ o # Null
  BY DEF ManagerInv, StateOK, ObjectsHeld
<1>2. made[o] \in Files /\ dlhandle[f] = made[o]
  BY <1>1 DEF ManagerInv, StateOK, HandleType, HandleOK, Live
<1>3. f \in Holders(made[o])
  BY <1>2 DEF Holders
<1>4. Cardinality(Holders(made[o])) # 0 /\ Cardinality(Holders(made[o])) \in Nat
  BY <1>3, HoldersFinite, FS_EmptySet, FS_CardinalityType
<1>5. Cardinality(Holders(made[o])) <= refs[made[o]] /\ refs[made[o]] \in Nat
  BY <1>2 DEF ManagerInv, StateOK, CountOK, HandleType
<1>6. QED
  BY <1>4, <1>5

\* The invariant holds when the manager has no handle yet.
LEMMA ManagerInitInv == ManagerInit => ManagerInv
<1> SUFFICES ASSUME ManagerInit PROVE ManagerInv
  OBVIOUS
<1> USE ManagerAssumption DEF ManagerInit, ManagerAssumption
<1>1. ControlOK
  BY DEF ControlOK, Phases, Names
<1>2. HandleType /\ HandleOK /\ ObjectsHeld
  BY DEF HandleType, HandleOK, ObjectsHeld, Live, Names
<1>3. CountOK
  <2> SUFFICES ASSUME NEW x \in Files PROVE Cardinality(Holders(x)) <= refs[x]
    BY DEF CountOK
  <2>1. Holders(x) = {}
    BY DEF Holders
  <2>2. QED
    BY <2>1, FS_EmptySet
<1>4. QED
  BY <1>1, <1>2, <1>3 DEF ManagerInv, StateOK
-----------------------------------------------------------------------------
(* open and close of one handle.                                           *)

\* open keeps the state of the handles in order, by whichever of its ways out it goes
\* (pluginmanager.cc:120-171).
LEMMA OpenKeeps ==
  ASSUME StateOK, info.file \in Files, NEW f \in Files, NEW thrown \in BOOLEAN,
         Open(f, thrown)
  PROVE  StateOK' /\ info'.file = info.file
<1> USE ManagerAssumption DEF ManagerAssumption, StateOK
<1>1. CASE UNCHANGED <<handle, refs, made>>
  BY <1>1 DEF handle, HandleType, HandleOK, CountOK, Holders, ObjectsHeld, Live
<1>2. CASE UNCHANGED <<handle, made>> /\ refs' = [refs EXCEPT ![info.file] = @ + 1]
  <2>1. HandleType' /\ HandleOK' /\ ObjectsHeld'
    BY <1>2 DEF handle, HandleType, HandleOK, ObjectsHeld, Live
  <2>2. CountOK'
    <3> SUFFICES ASSUME NEW x \in Files PROVE (Cardinality(Holders(x)) <= refs[x])'
      BY DEF CountOK
    <3>1. Holders(x)' = Holders(x) /\ Cardinality(Holders(x)) \in Nat
      BY <1>2, HoldersFinite, FS_CardinalityType DEF handle, Holders
    <3>2. refs[x] <= refs'[x] /\ refs[x] \in Nat /\ refs'[x] \in Nat
      BY <1>2 DEF HandleType
    <3>3. Cardinality(Holders(x)) <= refs[x]
      BY DEF CountOK
    <3>4. QED
      BY <3>1, <3>2, <3>3
  <2>3. QED
    BY <1>2, <2>1, <2>2 DEF handle
<1>3. CASE /\ refs' = [refs EXCEPT ![info.file] = @ + 1]
           /\ dlhandle' = [dlhandle EXCEPT ![f] = info.file]
           /\ destroy' = [destroy EXCEPT ![f] = TRUE]
           /\ info' = [info EXCEPT !.id = PluginId[info.file]]
           /\ Create(f, thrown)
  <2>1. info'.file = info.file /\ info' \in [file : Files \cup {Null}, id : Names]
    BY <1>3 DEF HandleType, Names
  <2>2. /\ dlhandle' \in [Files -> Files \cup {Null}] /\ destroy' \in [Files -> BOOLEAN]
        /\ refs' \in [Files -> Nat]
    BY <1>3 DEF HandleType
  <2>3. /\ ptr' \in [Files -> Objects \cup {Null}]
        /\ made' \in [Objects -> Files \cup {Null}]
        /\ ObjectsHeld'
        /\ \A g \in Files : ptr'[g] # Null =>
             \/ ptr'[g] = ptr[g] /\ made'[ptr'[g]] = made[ptr[g]]
             \/ g = f /\ made'[ptr'[g]] = info.file
    <3>1. CASE UNCHANGED <<ptr, made>>
      BY <3>1 DEF HandleType, ObjectsHeld, Live
    <3>2. CASE /\ ptr[f] = Null
               /\ \E o \in Objects \ Live : /\ ptr' = [ptr EXCEPT ![f] = o]
                                            /\ made' = [made EXCEPT ![o] = info.file]
      <4>1. PICK o \in Objects \ Live : /\ ptr' = [ptr EXCEPT ![f] = o]
                                        /\ made' = [made EXCEPT ![o] = info.file]
        BY <3>2
      <4>2. \A g \in Files : ptr[g] # o
        BY ManagerAssumption DEF ObjectsHeld
      <4>3. Live' = Live \cup {o}
        BY <4>1 DEF Live, HandleType
      <4>4. {ptr'[g] : g \in Files} \ {Null} = ({ptr[g] : g \in Files} \ {Null}) \cup {o}
        BY <4>1, <4>2, <3>2 DEF HandleType
      <4>5. \A g, h \in Files : ptr'[g] = ptr'[h] /\ ptr'[g] # Null => g = h
        BY <4>1, <4>2 DEF HandleType, ObjectsHeld
      <4>6. ObjectsHeld'
        BY <4>3, <4>4, <4>5 DEF ObjectsHeld
      <4>7. QED
        BY <4>1, <4>2, <4>6 DEF HandleType
    <3>3. QED
      BY <1>3, <3>1, <3>2 DEF Create
  <2>4. HandleOK'
    BY <1>3, <2>1, <2>3 DEF HandleOK, HandleType
  <2>5. CountOK'
    <3> SUFFICES ASSUME NEW x \in Files PROVE (Cardinality(Holders(x)) <= refs[x])'
      BY DEF CountOK
    <3>1. /\ Cardinality(Holders(x)) \in Nat /\ Cardinality(Holders(x)) <= refs[x]
          /\ refs[x] \in Nat
      BY HoldersFinite, FS_CardinalityType DEF CountOK, HandleType
    <3>2. CASE x = info.file
      <4>1. Holders(x)' = Holders(x) \cup {f}
        BY <1>3, <3>2 DEF Holders, HandleType
      <4> DEFINE H == Holders(x)
      <4>2. Cardinality(H \cup {f}) = IF f \in H THEN Cardinality(H) ELSE Cardinality(H) + 1
        <5>1. IsFiniteSet(H)
          BY HoldersFinite
        <5> HIDE DEF H
        <5>2. QED
          BY <5>1, FS_AddElement
      <4>3. /\ Cardinality(Holders(x)') \in Nat
            /\ Cardinality(Holders(x)') <= Cardinality(Holders(x)) + 1
        BY <4>1, <4>2, <3>1
      <4>4. refs'[x] = refs[x] + 1
        BY <1>3, <3>2 DEF HandleType
      <4>5. QED
        BY <4>3, <4>4, <3>1
    <3>3. CASE x # info.file
      <4>1. Holders(x)' = Holders(x)
        BY <1>3, <3>3 DEF Holders, HandleType, HandleOK
      <4>2. refs'[x] = refs[x]
        BY <1>3, <3>3 DEF HandleType
      <4>3. QED
        BY <4>1, <4>2, <3>1
    <3>4. QED
      BY <3>2, <3>3
  <2>6. QED
    BY <2>1, <2>2, <2>3, <2>4, <2>5 DEF HandleType
<1>4. QED
  BY <1>1, <1>2, <1>3 DEF Open

\* So does close (pluginmanager.cc:191-211): the load that it gives back is that of its own
\* handle, and does not take the library from another.
LEMMA CloseKeeps ==
  ASSUME StateOK, NEW f \in Files, NEW crash \in BOOLEAN, Close(f, crash)
  PROVE  StateOK' /\ info' = info
<1> USE ManagerAssumption DEF ManagerAssumption, StateOK
<1>1. CASE UNCHANGED <<handle, refs, made>>
  BY <1>1 DEF handle, HandleType, HandleOK, CountOK, Holders, ObjectsHeld, Live
<1>2. CASE /\ destroy[f]
           /\ ptr' = [ptr EXCEPT ![f] = Null]
           /\ made' = [o \in Objects |-> IF o = ptr[f] THEN Null ELSE made[o]]
           /\ \/ UNCHANGED <<dlhandle, destroy, refs>>
              \/ /\ dlhandle' = [dlhandle EXCEPT ![f] = Null]
                 /\ destroy' = [destroy EXCEPT ![f] = FALSE]
                 /\ refs' = [refs EXCEPT ![dlhandle[f]] = @ - 1]
           /\ UNCHANGED info
  <2>1. dlhandle[f] \in Files /\ refs[dlhandle[f]] \in Nat \ {0}
    <3>1. dlhandle[f] \in Files /\ f \in Holders(dlhandle[f])
      BY <1>2 DEF HandleOK, HandleType, Holders
    <3>2. /\ Cardinality(Holders(dlhandle[f])) # 0
          /\ Cardinality(Holders(dlhandle[f])) \in Nat
      BY <3>1, HoldersFinite, FS_EmptySet, FS_CardinalityType
    <3>3. Cardinality(Holders(dlhandle[f])) <= refs[dlhandle[f]] /\ refs[dlhandle[f]] \in Nat
      BY <3>1 DEF CountOK, HandleType
    <3>4. QED
      BY <3>1, <3>2, <3>3
  <2>2. /\ dlhandle' \in [Files -> Files \cup {Null}] /\ destroy' \in [Files -> BOOLEAN]
        /\ refs' \in [Files -> Nat]
        /\ ptr' \in [Files -> Objects \cup {Null}]
        /\ made' \in [Objects -> Files \cup {Null}]
    <3>1. ptr' \in [Files -> Objects \cup {Null}]
      BY <1>2 DEF HandleType
    <3>2. made' \in [Objects -> Files \cup {Null}]
      BY <1>2 DEF HandleType
    <3>3. CASE UNCHANGED <<dlhandle, destroy, refs>>
      BY <3>1, <3>2, <3>3 DEF HandleType
    <3>4. CASE /\ dlhandle' = [dlhandle EXCEPT ![f] = Null]
               /\ destroy' = [destroy EXCEPT ![f] = FALSE]
               /\ refs' = [refs EXCEPT ![dlhandle[f]] = @ - 1]
      <4>1. dlhandle' \in [Files -> Files \cup {Null}] /\ destroy' \in [Files -> BOOLEAN]
        BY <3>4 DEF HandleType
      <4>2. refs' \in [Files -> Nat]
        BY <3>4, <2>1 DEF HandleType
      <4>3. QED
        BY <4>1, <4>2, <3>1, <3>2
    <3>5. QED
      BY <1>2, <3>3, <3>4
  <2>3. ObjectsHeld'
    <3>1. Live' = Live \ {ptr[f]}
      BY <1>2 DEF Live, HandleType
    <3>2. \A g \in Files : ptr'[g] # Null => ptr'[g] = ptr[g] /\ g # f /\ ptr[g] # ptr[f]
      BY <1>2 DEF HandleType, ObjectsHeld
    <3>3. \A g \in Files : ptr[g] # ptr[f] => ptr'[g] = ptr[g]
      BY <1>2 DEF HandleType
    <3>4. {ptr'[g] : g \in Files} \ {Null} = ({ptr[g] : g \in Files} \ {Null}) \ {ptr[f]}
      BY <3>2, <3>3
    <3>5. QED
      BY <3>1, <3>2, <3>4 DEF ObjectsHeld
  <2>4. HandleOK'
    <3> SUFFICES ASSUME NEW g \in Files
                 PROVE  /\ destroy'[g] <=> dlhandle'[g] # Null
                        /\ dlhandle'[g] \in {Null, info'.file}
                        /\ ptr'[g] # Null => dlhandle'[g] # Null /\ made'[ptr'[g]] = dlhandle'[g]
      BY DEF HandleOK
    <3>1. (destroy'[g] <=> dlhandle'[g] # Null) /\ dlhandle'[g] \in {Null, info'.file}
      BY <1>2 DEF HandleOK, HandleType
    <3>2. ASSUME ptr'[g] # Null PROVE dlhandle'[g] # Null /\ made'[ptr'[g]] = dlhandle'[g]
      <4>1. g # f /\ ptr'[g] = ptr[g] /\ ptr[g] # ptr[f] /\ ptr[g] \in Objects
        BY <1>2, <3>2 DEF HandleType, ObjectsHeld
      <4>2. dlhandle'[g] = dlhandle[g] /\ made'[ptr[g]] = made[ptr[g]]
        BY <1>2, <4>1 DEF HandleType
      <4>3. QED
        BY <4>1, <4>2, <3>2 DEF HandleOK
    <3>3. QED
      BY <3>1, <3>2
  <2>5. CountOK'
    <3>1. CASE UNCHANGED <<dlhandle, destroy, refs>>
      BY <3>1 DEF CountOK, Holders
    <3>2. CASE /\ dlhandle' = [dlhandle EXCEPT ![f] = Null]
               /\ refs' = [refs EXCEPT ![dlhandle[f]] = @ - 1]
      <4> SUFFICES ASSUME NEW x \in Files PROVE (Cardinality(Holders(x)) <= refs[x])'
        BY DEF CountOK
      <4>1. /\ Cardinality(Holders(x)) \in Nat /\ Cardinality(Holders(x)) <= refs[x]
            /\ refs[x] \in Nat
        BY HoldersFinite, FS_CardinalityType DEF CountOK, HandleType
      <4>2. CASE x = dlhandle[f]
        <5>1. Holders(x)' = Holders(x) \ {f} /\ f \in Holders(x)
          BY <3>2, <4>2 DEF Holders, HandleType
        <5>2. Cardinality(Holders(x)') = Cardinality(Holders(x)) - 1
          BY <5>1, HoldersFinite, FS_RemoveElement
        <5>3. refs'[x] = refs[x] - 1
          BY <3>2, <4>2 DEF HandleType
        <5>4. QED
          BY <5>2, <5>3, <4>1
      <4>3. CASE x # dlhandle[f]
        <5>1. Holders(x)' = Holders(x) /\ refs'[x] = refs[x]
          BY <3>2, <4>3 DEF Holders, HandleType
        <5>2. QED
          BY <5>1, <4>1
      <4>4. QED
        BY <4>2, <4>3
    <3>3. QED
      BY <1>2, <3>1, <3>2
  <2>6. QED
    BY <1>2, <2>2, <2>3, <2>4, <2>5 DEF HandleType
<1>3. QED
  BY <1>1, <1>2 DEF Close
-----------------------------------------------------------------------------
(* The steps of the manager.                                               *)

\* What find finds under an id is a handle of a file.
LEMMA FoundHandle ==
  ASSUME ManagerInv, NEW i, NEW k \in FindHandle(i)
  PROVE  k \in DOMAIN handles /\ handles[k] \in Files /\ info.file \in Files
BY DEF ManagerInv, ControlOK, FindHandle

\* What a step on one handle leaves of the invariant.
LEMMA HandleStep ==
  ASSUME ManagerInv, StateOK', info'.file = info.file, UNCHANGED <<handles, id>>,
         phase # "start", phase' \in Phases \ {"start"}, position' \in Nat \ {0}
  PROVE  ManagerInv'
BY DEF ManagerInv, ControlOK

\* After a step that may end the process the manager is still past its start.
LEMMA GoesOnPhase ==
  ASSUME ManagerInv, phase # "start", NEW failed \in BOOLEAN, GoesOn(failed)
  PROVE  phase' \in Phases \ {"start"}
BY DEF ManagerInv, ControlOK, GoesOn, Phases

\* Every step of the manager keeps the invariant.
LEMMA ManagerStepInv == ManagerInv /\ [ManagerNext]_managerVars => ManagerInv'
<1> SUFFICES ASSUME ManagerInv, [ManagerNext]_managerVars PROVE ManagerInv'
  OBVIOUS
<1>0. StateOK /\ phase \in Phases /\ position \in Nat \ {0}
  BY DEF ManagerInv, ControlOK
<1>1. ASSUME UNCHANGED <<info, ptr, dlhandle, destroy, refs, made>>
      PROVE  StateOK'
  BY <1>0, <1>1 DEF StateOK, HandleType, HandleOK, CountOK, Holders, ObjectsHeld, Live
<1>2. CASE ReadPluginDir
  <2>1. PICK q \in Listings :
          /\ handles' = q
          /\ info' = IF q = <<>> THEN info ELSE [info EXCEPT !.file = q[Len(q)]]
          /\ id' = [f \in Files |-> info.id]
    BY <1>2 DEF ReadPluginDir
  <2>2. /\ q \in Seq(Files)
        /\ \A j, k \in DOMAIN q : q[j] = q[k] => j = k
        /\ q # <<>> => q[Len(q)] \in Files
    BY DEF Listings
  <2>3. info' \in [file : Files \cup {Null}, id : Names] /\ info.id \in Names
    <3>1. info \in [file : Files \cup {Null}, id : Names]
      BY <1>0 DEF StateOK, HandleType
    <3>2. QED
      BY <2>1, <2>2, <3>1
  <2>4. \A f \in Files : dlhandle[f] = Null
    BY <1>2 DEF ManagerInv, ControlOK, ReadPluginDir
  <2>5. ControlOK'
    <3>1. handles' # <<>> => info'.file \in Files
      <4>1. info \in [file : Files \cup {Null}, id : Names]
        BY <1>0 DEF StateOK, HandleType
      <4>2. QED
        BY <2>1, <2>2, <4>1
    <3>2. id' \in [Files -> Names]
      BY <2>1, <2>3
    <3>3. QED
      BY <1>0, <1>2, <2>1, <2>2, <3>1, <3>2 DEF ControlOK, ReadPluginDir, Phases
  <2>6. HandleType' /\ HandleOK' /\ CountOK' /\ ObjectsHeld'
    BY <1>0, <1>2, <2>3, <2>4 DEF StateOK, HandleType, HandleOK, CountOK, Holders,
       ObjectsHeld, Live, ReadPluginDir
  <2>7. QED
    BY <2>5, <2>6 DEF ManagerInv, StateOK
<1>3. ASSUME NEW i \in Names, OpenById(i) PROVE ManagerInv'
  <2>1. CASE UNCHANGED <<phase, handle, refs, made>>
    BY <1>0, <1>1, <1>3, <2>1, HandleStep DEF OpenById, handle
  <2>2. CASE \E k \in FindHandle(i), thrown \in BOOLEAN :
               Open(handles[k], thrown) /\ GoesOn(thrown)
    <3>1. PICK k \in FindHandle(i), thrown \in BOOLEAN :
            Open(handles[k], thrown) /\ GoesOn(thrown)
      BY <2>2
    <3>2. StateOK' /\ info'.file = info.file
      BY <1>0, <3>1, FoundHandle, OpenKeeps
    <3>3. QED
      BY <1>0, <1>3, <3>1, <3>2, GoesOnPhase, HandleStep DEF OpenById
  <2>3. QED
    BY <1>3, <2>1, <2>2 DEF OpenById
<1>4. ASSUME NEW i \in Names, CloseById(i) PROVE ManagerInv'
  <2>1. CASE UNCHANGED <<phase, handle, refs, made>>
    BY <1>0, <1>1, <1>4, <2>1, HandleStep DEF CloseById, handle
  <2>2. CASE \E k \in FindHandle(i), crash \in BOOLEAN :
               Close(handles[k], crash) /\ GoesOn(crash)
    <3>1. PICK k \in FindHandle(i), crash \in BOOLEAN :
            Close(handles[k], crash) /\ GoesOn(crash)
      BY <2>2
    <3>2. StateOK' /\ info' = info
      BY <1>0, <3>1, FoundHandle, CloseKeeps
    <3>3. QED
      BY <1>0, <1>4, <3>1, <3>2, GoesOnPhase, HandleStep DEF CloseById
  <2>3. QED
    BY <1>4, <2>1, <2>2 DEF CloseById
<1>5. ASSUME position \in DOMAIN handles
      PROVE  handles[position] \in Files /\ info.file \in Files
  BY <1>5 DEF ManagerInv, ControlOK
<1>6. CASE OpenAll
  <2>1. CASE position \in DOMAIN handles
    <3>1. PICK thrown \in BOOLEAN : Open(handles[position], thrown) /\ GoesOn(thrown)
      BY <1>6, <2>1 DEF OpenAll
    <3>2. StateOK' /\ info'.file = info.file
      BY <1>0, <1>5, <2>1, <3>1, OpenKeeps
    <3>3. position' \in Nat \ {0} /\ phase # "start" /\ UNCHANGED <<handles, id>>
      BY <1>0, <1>6, <2>1 DEF OpenAll
    <3>4. QED
      BY <3>1, <3>2, <3>3, GoesOnPhase, HandleStep
  <2>2. CASE position \notin DOMAIN handles
    BY <1>0, <1>1, <1>6, <2>2, HandleStep DEF OpenAll, handle, Phases
  <2>3. QED
    BY <2>1, <2>2
<1>7. CASE Destruct
  BY <1>0, <1>1, <1>7, HandleStep DEF Destruct, handle, Phases
<1>8. CASE CloseAll
  <2>1. CASE position \in DOMAIN handles
    <3>1. position' \in Nat \ {0} /\ phase # "start" /\ UNCHANGED <<handles, id>>
      BY <1>0, <1>8, <2>1 DEF CloseAll
    <3>2. CASE UNCHANGED <<phase, handle, refs, made>>
      BY <1>0, <1>1, <3>1, <3>2, HandleStep DEF handle
    <3>3. CASE \E thrown \in BOOLEAN : Open(handles[position], thrown) /\ GoesOn(thrown)
      <4>1. PICK thrown \in BOOLEAN : Open(handles[position], thrown) /\ GoesOn(thrown)
        BY <3>3
      <4>2. StateOK' /\ info'.file = info.file
        BY <1>0, <1>5, <2>1, <4>1, OpenKeeps
      <4>3. QED
        BY <3>1, <4>1, <4>2, GoesOnPhase, HandleStep
    <3>4. QED
      BY <1>8, <2>1, <3>2, <3>3 DEF CloseAll
  <2>2. CASE position \notin DOMAIN handles
    BY <1>0, <1>1, <1>8, <2>2, HandleStep DEF CloseAll, handle, Phases
  <2>3. QED
    BY <2>1, <2>2
<1>9. CASE UNCHANGED managerVars
  BY <1>1, <1>9 DEF managerVars, handle, ManagerInv, ControlOK
<1>10. QED
  BY <1>2, <1>3, <1>4, <1>6, <1>7, <1>8, <1>9 DEF ManagerNext

\* So it always holds.
LEMMA ManagerAlways == ManagerSpec => []ManagerInv
BY ManagerInitInv, ManagerStepInv, PTL DEF ManagerSpec

-----------------------------------------------------------------------------
(* What find answers.                                                      *)

\* At most one handle is the first with an id.
LEMMA OneHandle ==
  ASSUME ManagerInv, NEW i, NEW j \in FindHandle(i), NEW k \in FindHandle(i)
  PROVE  j = k
<1>1. DOMAIN handles \subseteq Nat \ {0}
  BY DEF ManagerInv, ControlOK
<1>2. j \in Nat /\ k \in Nat /\ ~(j < k) /\ ~(k < j)
  BY <1>1 DEF FindHandle
<1>3. QED
  BY <1>2

\* The object of the first handle with an id is what is found under the id.
LEMMA PluginFound ==
  ManagerInv => \A i : \A k \in FindHandle(i) : Plugin(i) = ptr[handles[k]]
<1> SUFFICES ASSUME ManagerInv, NEW i, NEW k \in FindHandle(i)
             PROVE  Plugin(i) = ptr[handles[k]]
  OBVIOUS
<1>1. FindPlugin(i) = {ptr[handles[k]]} \ {Null}
  BY OneHandle DEF FindPlugin
<1>2. QED
  BY <1>1 DEF Plugin

\* Without such a handle nothing is found.
LEMMA PluginUnknown ==
  ASSUME NEW i, FindHandle(i) = {} PROVE Plugin(i) = Null
BY DEF Plugin, FindPlugin

\* A step that changes the object of one handle changes what is found under one id at
\* most, the id that this handle is the first one of.
LEMMA TableStep ==
  ASSUME ManagerInv, ManagerInv', UNCHANGED <<handles, id>>, NEW f \in Files,
         NEW o \in Objects \cup {Null}, ptr' = [ptr EXCEPT ![f] = o],
         o # Null => ptr[f] = Null /\ \A g \in Files : ptr[g] # o
  PROVE  [Table!Next]_[i \in Names |-> Plugin(i)]
<1> DEFINE P == [i \in Names |-> Plugin(i)]
<1>0. (\A i : \A k \in FindHandle(i) : Plugin(i) = ptr[handles[k]])'
  BY PluginFound, PTL
<1>1. \A i : FindHandle(i)' = FindHandle(i)
  BY DEF FindHandle
<1>2. \A i : \A k \in FindHandle(i) : handles[k] # f => Plugin(i)' = Plugin(i)
  <2> SUFFICES ASSUME NEW i, NEW k \in FindHandle(i), handles[k] # f
               PROVE  Plugin(i)' = Plugin(i)
    OBVIOUS
  <2>1. Plugin(i) = ptr[handles[k]] /\ handles[k] \in Files
    BY PluginFound, FoundHandle
  <2>2. Plugin(i)' = ptr'[handles'[k]]
    <3>1. k \in FindHandle(i)'
      BY <1>1
    <3>2. QED
      BY <1>0, <3>1
  <2>3. ptr'[handles[k]] = ptr[handles[k]]
    BY <2>1 DEF ManagerInv, StateOK, HandleType
  <2>4. QED
    BY <2>1, <2>2, <2>3
<1>3. \A i : FindHandle(i) = {} => Plugin(i)' = Plugin(i)
  <2> SUFFICES ASSUME NEW i, FindHandle(i) = {} PROVE Plugin(i)' = Plugin(i)
    OBVIOUS
  <2>1. FindHandle(i)' = {}
    BY <1>1
  <2>2. FindPlugin(i) = {} /\ FindPlugin(i)' = {}
    BY <2>1 DEF FindPlugin
  <2>3. QED
    BY <2>2 DEF Plugin
<1>4. CASE \E i \in Names : \E k \in FindHandle(i) : handles[k] = f
  <2>1. PICK i \in Names : \E k \in FindHandle(i) : handles[k] = f
    BY <1>4
  <2>2. PICK k \in FindHandle(i) : handles[k] = f
    BY <2>1
  <2>3. \A j \in Names \ {i} : Plugin(j)' = Plugin(j)
    <3> SUFFICES ASSUME NEW j \in Names \ {i}, NEW l \in FindHandle(j)
                 PROVE  Plugin(j)' = Plugin(j)
      BY <1>3
    <3>1. handles[l] # f
      BY <2>2 DEF FindHandle
    <3>2. QED
      BY <1>2, <3>1
  <2>4. Plugin(i) = ptr[f] /\ Plugin(i)' = o
    <3>1. Plugin(i) = ptr[f]
      BY <2>2, PluginFound
    <3>2. k \in FindHandle(i)'
      BY <1>1
    <3>3. Plugin(i)' = ptr'[f]
      BY <1>0, <2>2, <3>2
    <3>4. QED
      BY <3>1, <3>3 DEF ManagerInv, StateOK, HandleType
  <2>5. P' = [P EXCEPT ![i] = o]
    BY <2>3, <2>4
  <2>6. CASE o = Null
    BY <2>5, <2>6 DEF Table!Next, Table!Empty
  <2>7. CASE o # Null
    <3>1. \A j \in Names : P[j] # o
      <4> SUFFICES ASSUME NEW j \in Names PROVE Plugin(j) # o
        OBVIOUS
      <4>1. CASE FindHandle(j) = {}
        BY <2>7, <4>1, PluginUnknown
      <4>2. CASE FindHandle(j) # {}
        BY <2>7, <4>2, PluginFound, FoundHandle
      <4>3. QED
        BY <4>1, <4>2
    <3>2. P[i] = Null
      BY <2>4, <2>7
    <3>3. Table!Fill(i)
      BY <2>5, <2>7, <3>1, <3>2 DEF Table!Fill
    <3>4. QED
      BY <3>3 DEF Table!Next
  <2>8. QED
    BY <2>6, <2>7
<1>5. CASE ~ \E i \in Names : \E k \in FindHandle(i) : handles[k] = f
  <2>1. \A i \in Names : Plugin(i)' = Plugin(i)
    BY <1>2, <1>3, <1>5
  <2>2. QED
    BY <2>1
<1>6. QED
  BY <1>4, <1>5

\* What is found depends on handles, ids and objects only.
LEMMA TableStutter ==
  ASSUME UNCHANGED <<handles, id, ptr>>
  PROVE  UNCHANGED [i \in Names |-> Plugin(i)]
BY DEF Plugin, FindPlugin, FindHandle

\* open fills at most one entry of the table, which was empty.
LEMMA OpenTable ==
  ASSUME ManagerInv, ManagerInv', UNCHANGED <<handles, id>>,
         NEW f \in Files, NEW thrown \in BOOLEAN, Open(f, thrown)
  PROVE  [Table!Next]_[i \in Names |-> Plugin(i)]
<1>1. CASE UNCHANGED ptr
  BY <1>1, TableStutter
<1>2. CASE ptr[f] = Null /\ \E o \in Objects \ Live : ptr' = [ptr EXCEPT ![f] = o]
  <2>1. PICK o \in Objects \ Live : ptr' = [ptr EXCEPT ![f] = o]
    BY <1>2
  <2>2. \A g \in Files : ptr[g] # o
    BY ManagerAssumption DEF ManagerAssumption, ManagerInv, StateOK, ObjectsHeld
  <2>3. QED
    BY <1>2, <2>1, <2>2, TableStep
<1>3. QED
  BY <1>1, <1>2 DEF Open, Create, handle

\* close empties at most one entry.
LEMMA CloseTable ==
  ASSUME ManagerInv, ManagerInv', UNCHANGED <<handles, id>>,
         NEW f \in Files, NEW crash \in BOOLEAN, Close(f, crash)
  PROVE  [Table!Next]_[i \in Names |-> Plugin(i)]
<1>1. CASE UNCHANGED ptr
  BY <1>1, TableStutter
<1>2. CASE ptr' = [ptr EXCEPT ![f] = Null]
  BY <1>2, TableStep
<1>3. QED
  BY <1>1, <1>2 DEF Close, handle

\* Every step of the manager is a step of the table or a stutter.
LEMMA ManagerTableStep ==
  ManagerInv /\ ManagerInv' /\ [ManagerNext]_managerVars =>
    [Table!Next]_[i \in Names |-> Plugin(i)]
<1> SUFFICES ASSUME ManagerInv, ManagerInv', [ManagerNext]_managerVars
             PROVE  [Table!Next]_[i \in Names |-> Plugin(i)]
  OBVIOUS
<1>1. CASE ReadPluginDir
  <2>1. \A f \in Files : ptr[f] = Null /\ ptr'[f] = Null
    BY <1>1 DEF ManagerInv, ControlOK, StateOK, HandleOK, ReadPluginDir
  <2>2. \A i : FindPlugin(i) = {}
    BY <2>1, FoundHandle DEF FindPlugin
  <2>3. \A i : \A k \in FindHandle(i)' : ptr'[handles'[k]] = Null
    <3>1. handles' \in Seq(Files)
      BY DEF ManagerInv, ControlOK
    <3>2. QED
      BY <2>1, <3>1 DEF FindHandle
  <2>4. \A i : FindPlugin(i)' = {}
    BY <2>3 DEF FindPlugin
  <2>5. QED
    BY <2>2, <2>4 DEF Plugin
<1>2. ASSUME NEW i \in Names, OpenById(i) PROVE [Table!Next]_[j \in Names |-> Plugin(j)]
  <2>1. CASE UNCHANGED handle
    BY <1>2, <2>1, TableStutter DEF OpenById, handle
  <2>2. CASE \E k \in FindHandle(i), thrown \in BOOLEAN : Open(handles[k], thrown)
    BY <1>2, <2>2, FoundHandle, OpenTable DEF OpenById
  <2>3. QED
    BY <1>2, <2>1, <2>2 DEF OpenById
<1>3. ASSUME NEW i \in Names, CloseById(i) PROVE [Table!Next]_[j \in Names |-> Plugin(j)]
  <2>1. CASE UNCHANGED handle
    BY <1>3, <2>1, TableStutter DEF CloseById, handle
  <2>2. CASE \E k \in FindHandle(i), crash \in BOOLEAN : Close(handles[k], crash)
    BY <1>3, <2>2, FoundHandle, CloseTable DEF CloseById
  <2>3. QED
    BY <1>3, <2>1, <2>2 DEF CloseById
<1>4. ASSUME position \in DOMAIN handles PROVE handles[position] \in Files
  BY <1>4 DEF ManagerInv, ControlOK
<1>5. CASE OpenAll
  <2>1. CASE position \in DOMAIN handles
    BY <1>4, <1>5, <2>1, OpenTable DEF OpenAll
  <2>2. CASE position \notin DOMAIN handles
    BY <1>5, <2>2, TableStutter DEF OpenAll, handle
  <2>3. QED
    BY <2>1, <2>2
<1>6. CASE Destruct
  BY <1>6, TableStutter DEF Destruct, handle
<1>7. CASE CloseAll
  <2>1. CASE UNCHANGED handle
    BY <1>7, <2>1, TableStutter DEF CloseAll, handle
  <2>2. CASE /\ position \in DOMAIN handles
             /\ \E thrown \in BOOLEAN : Open(handles[position], thrown)
    BY <1>4, <1>7, <2>2, OpenTable DEF CloseAll
  <2>3. QED
    BY <1>7, <2>1, <2>2 DEF CloseAll
<1>8. CASE UNCHANGED managerVars
  BY <1>8, TableStutter DEF managerVars, handle
<1>9. QED
  BY <1>1, <1>2, <1>3, <1>5, <1>6, <1>7, <1>8 DEF ManagerNext

\* At the start the table is empty.
LEMMA ManagerTableInit == ManagerInit => Table!Init
<1> SUFFICES ASSUME ManagerInit PROVE \A i \in Names : Plugin(i) = Null
  BY DEF Table!Init
<1>1. \A i : FindHandle(i) = {}
  BY DEF ManagerInit, FindHandle
<1>2. QED
  BY <1>1, PluginUnknown

\* By itself, without a window, the manager is a table of plugins: find never answers an
\* object for two ids, and never another object in the place of one (pluginmanager.cc).
THEOREM ManagerIsTable == ManagerSpec => TableImplemented
BY ManagerTableInit, ManagerTableStep, ManagerAlways, PTL
   DEF TableImplemented, Table!Spec, ManagerSpec
-----------------------------------------------------------------------------
(* The one PluginInfo.                                                     *)

\* A handle copied its id before any library was asked for one, and the PluginInfo names
\* the file that was read last.
InfoOK ==
  /\ \A f \in Files : id[f] = NoId
  /\ phase = "start" => handles = <<>> /\ info.id = NoId
  /\ info.file = IF handles = <<>> THEN Null ELSE handles[Len(handles)]

\* The manager starts without handles.
LEMMA InfoInit == ManagerInit => InfoOK
BY DEF ManagerInit, InfoOK

\* open and close leave the file of the PluginInfo alone.
LEMMA FileStays ==
  ASSUME info \in [file : Files \cup {Null}, id : Names], NEW f, NEW failed,
         Open(f, failed) \/ Close(f, failed)
  PROVE  info'.file = info.file
<1>1. \/ info' = info
      \/ info' = [info EXCEPT !.id = PluginId[info.file]]
  BY DEF Open, Close, handle
<1> QED BY <1>1

\* Every step but the reading of the directory leaves handles, ids and file alone.
LEMMA InfoStep == ManagerInv /\ InfoOK /\ [ManagerNext]_managerVars => InfoOK'
<1> SUFFICES ASSUME ManagerInv, InfoOK, [ManagerNext]_managerVars PROVE InfoOK'
  OBVIOUS
<1>1. info \in [file : Files \cup {Null}, id : Names] /\ phase \in Phases
  BY DEF ManagerInv, StateOK, HandleType, ControlOK
<1>2. CASE ReadPluginDir
  <2>1. PICK q \in Listings :
          /\ handles' = q
          /\ info' = IF q = <<>> THEN info ELSE [info EXCEPT !.file = q[Len(q)]]
          /\ id' = [f \in Files |-> info.id]
    BY <1>2 DEF ReadPluginDir
  <2>2. /\ phase = "start" /\ phase' = "open_all"
        /\ info.id = NoId /\ info.file = Null
    BY <1>2 DEF ReadPluginDir, InfoOK
  <2>3. info'.file = IF q = <<>> THEN Null ELSE q[Len(q)]
    BY <1>1, <2>1, <2>2
  <2> QED BY <2>1, <2>2, <2>3 DEF InfoOK
<1>3. ASSUME phase # "start" \/ phase' # "start", phase # "start",
             UNCHANGED <<handles, id>>, info'.file = info.file,
             phase' = phase \/ phase' \in {"failed", "run", "close_all", "ended"}
      PROVE  InfoOK'
  BY <1>3 DEF InfoOK
<1>4. ASSUME NEW i \in Names, OpenById(i) \/ CloseById(i) PROVE InfoOK'
  <2>1. info'.file = info.file
    BY <1>1, <1>4, FileStays DEF OpenById, CloseById, handle
  <2>2. phase = "run" /\ UNCHANGED <<handles, id>> /\ phase' \in {"run", "failed"}
    BY <1>4 DEF OpenById, CloseById, GoesOn
  <2> QED BY <1>3, <2>1, <2>2
<1>5. CASE OpenAll \/ CloseAll
  <2>1. info'.file = info.file
    BY <1>1, <1>5, FileStays DEF OpenAll, CloseAll, handle
  <2>2. /\ phase \in {"open_all", "close_all"} /\ UNCHANGED <<handles, id>>
        /\ phase' = phase \/ phase' \in {"failed", "run", "ended"}
    BY <1>5 DEF OpenAll, CloseAll, GoesOn
  <2> QED BY <1>3, <2>1, <2>2
<1>6. CASE Destruct
  BY <1>3, <1>6 DEF Destruct, handle
<1>7. CASE UNCHANGED managerVars
  BY <1>7 DEF managerVars, handle, InfoOK
<1> QED BY <1>2, <1>4, <1>5, <1>6, <1>7 DEF ManagerNext

\* Every object comes from the library whose file was read last.
OneLibrary ==
  \A o \in Live : handles # <<>> /\ made[o] = handles[Len(handles)]

\* No object is found under the id that its library answers.
NoneByItsId ==
  \A o \in Live : FindPlugin(PluginId[made[o]]) = {}

\* What InfoOK says of the objects.
LEMMA InfoObjects == ManagerInv /\ InfoOK => OneLibrary /\ NoneByItsId
<1> SUFFICES ASSUME ManagerInv, InfoOK, NEW o \in Live
             PROVE  /\ handles # <<>> /\ made[o] = handles[Len(handles)]
                    /\ FindPlugin(PluginId[made[o]]) = {}
  BY DEF OneLibrary, NoneByItsId
<1>1. PICK f \in Files : ptr[f] = o /\ o # Null
  BY DEF ManagerInv, StateOK, ObjectsHeld
<1>2. made[o] \in Files /\ made[o] = info.file /\ info.file # Null
  BY <1>1, ManagerAssumption DEF ManagerInv, StateOK, HandleType, HandleOK, Live
<1>3. handles # <<>> /\ made[o] = handles[Len(handles)]
  BY <1>2 DEF InfoOK
<1>4. PluginId[made[o]] # NoId
  BY <1>2, ManagerAssumption
<1>5. \A k \in DOMAIN handles : handles[k] \in Files
  BY DEF ManagerInv, ControlOK
<1>6. FindHandle(PluginId[made[o]]) = {}
  BY <1>4, <1>5 DEF FindHandle, InfoOK
<1> QED BY <1>3, <1>6 DEF FindPlugin
=============================================================================
