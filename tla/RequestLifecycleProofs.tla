------------------------ MODULE RequestLifecycleProofs ------------------------
(***************************************************************************)
(* The request pipeline implements the life cycle of RequestLifecycle, for *)
(* every value of the constants.  The refinement mapping is Stage; that a  *)
(* request is in one place only (RequestOnce) makes it well behaved.       *)
(***************************************************************************)
EXTENDS RequestSystemProofs

Places == TypeOK /\ RequestOnce

\* The place of a request determines its stage.
StageByPlace ==
  \A r \in Requests :
    /\ api[r] = NoSheet => Stage[r] = "new"
    /\ api[r] # NoSheet /\ r \notin handle => Stage[r] = "refused"
    /\ r \in Elements(pool) => Stage[r] = "queued"
    /\ r \in RunningSet => Stage[r] = "running"
    /\ r \in Elements(finishQueue) => Stage[r] = "finished"
    /\ r \in deleted => Stage[r] = "reclaimed"

\* In a well-typed state where each request is in one place, StageByPlace holds.
LEMMA PlaceStage == Places => StageByPlace
<1> SUFFICES ASSUME Places, NEW r \in Requests
             PROVE  /\ api[r] = NoSheet => Stage[r] = "new"
                    /\ api[r] # NoSheet /\ r \notin handle => Stage[r] = "refused"
                    /\ r \in Elements(pool) => Stage[r] = "queued"
                    /\ r \in RunningSet => Stage[r] = "running"
                    /\ r \in Elements(finishQueue) => Stage[r] = "finished"
                    /\ r \in deleted => Stage[r] = "reclaimed"
  BY DEF StageByPlace
<1>1. r \in handle => api[r] # NoSheet
  BY ConstantsAssumption DEF Places, TypeOK
<1>2. (\E w \in Workers : wreq[w] = r) <=> r \in RunningSet
  BY ConstantsAssumption DEF RunningSet
<1>3. /\ Elements(pool) \subseteq handle /\ RunningSet \subseteq handle
      /\ Elements(finishQueue) \subseteq handle /\ deleted \subseteq handle
  BY DEF Places, RequestOnce
<1> QED
  BY <1>1, <1>2, <1>3 DEF Places, RequestOnce, Stage

\* While a worker is idle, fewer requests are running than there are workers.
LEMMA FreeWorker ==
  ASSUME Places, NEW w \in Workers, wpc[w] = "idle"
  PROVE  Cardinality({q \in Requests : Stage[q] = "running"}) < Cardinality(Workers)
<1> DEFINE Busy == Workers \ {w}
           f == [r \in RunningSet |-> CHOOSE v \in Busy : wreq[v] = r]
<1>1. {q \in Requests : Stage[q] = "running"} = RunningSet
  <2>1. RunningSet \subseteq Requests
    BY DEF RunningSet, Places, TypeOK
  <2>2. ASSUME NEW q \in Requests, Stage[q] = "running" PROVE q \in RunningSet
    <3>1. q \in handle
      BY <2>2, PlaceStage DEF StageByPlace
    <3> QED BY <2>2, <3>1, PlaceStage DEF StageByPlace, Places, RequestOnce
  <2> QED BY <2>1, <2>2, PlaceStage DEF StageByPlace
<1>2. wreq[w] = NoRequest
  BY DEF Places, TypeOK
<1>3. \A r \in RunningSet : \E v \in Busy : wreq[v] = r
  BY <1>2 DEF RunningSet
<1>4. f \in [RunningSet -> Busy] /\ \A r \in RunningSet : wreq[f[r]] = r
  BY <1>3
<1>5. f \in Injection(RunningSet, Busy)
  BY <1>4 DEF Injection, IsInjective
<1>6. /\ IsFiniteSet(Busy) /\ Cardinality(Busy) = Cardinality(Workers) - 1
      /\ Cardinality(Workers) \in Nat
  BY ConstantsAssumption, FS_RemoveElement, FS_CardinalityType
<1>7. IsFiniteSet(RunningSet) /\ Cardinality(RunningSet) <= Cardinality(Busy)
  BY <1>5, <1>6, FS_Injection
<1>8. Cardinality(RunningSet) \in Nat
  BY <1>7, FS_CardinalityType
<1>9. Cardinality(RunningSet) < Cardinality(Workers)
  <2> HIDE DEF Busy
  <2> QED BY <1>6, <1>7, <1>8
<1> QED BY <1>1, <1>9, Zenon

-----------------------------------------------------------------------------
(* Every step of the pipeline is a step of the life cycle, or a stutter.   *)

\* Nothing about the places of the requests changes, and the process goes on or ends.
LEMMA StageStutter ==
  ASSUME UNCHANGED <<api, handle, deleted, wreq, pool>>, failure = "none"
  PROVE  [Lifecycle!Next]_(Lifecycle!lifecycleVars)
<1>1. Stage' = Stage
  BY DEF Stage, Elements
<1> QED
  BY <1>1 DEF Lifecycle!Next, Lifecycle!Halt, Lifecycle!lifecycleVars

\* Stage is a function on the requests.
LEMMA StageFunction == Stage = [r \in Requests |-> Stage[r]]
  BY DEF Stage

\* One request r changes its stage, in a step that does not end the process.
LEMMA StageMove ==
  ASSUME NEW r \in Requests, NEW from, NEW to,
         Stage[r] = from, Stage'[r] = to,
         \A q \in Requests \ {r} : Stage'[q] = Stage[q],
         failure = "none", failure' = "none"
  PROVE  Lifecycle!Move(r, from, to)
<1>1. Stage' = [q \in Requests |-> Stage'[q]]
  BY DEF Stage
<1>2. Stage' = [Stage EXCEPT ![r] = to]
  BY <1>1, StageFunction
<1> QED BY <1>2 DEF Lifecycle!Move

\* Main::request (eapi.cc:71-80) is Submit, or Refuse without a curl handle.
LEMMA PushRequestRefines ==
  ASSUME Places, Places', NEW s \in Sheets, PushRequest(s), failure = "none"
  PROVE  [Lifecycle!Next]_(Lifecycle!lifecycleVars)
<1>1. PICK r \in Fresh, ok \in BOOLEAN :
        /\ api' = [api EXCEPT ![r] = s]
        /\ handle' = IF ok THEN handle \cup {r} ELSE handle
        /\ pool' = IF ok THEN Append(pool, r) ELSE pool
        /\ UNCHANGED <<deleted, wreq, finishQueue, failure>>
  BY DEF PushRequest, queueVars
<1>2. /\ r \in Requests /\ api[r] = NoSheet /\ r \notin handle
      /\ api'[r] = s /\ s # NoSheet
  BY <1>1, ConstantsAssumption DEF Fresh, Places, TypeOK
<1>3. StageByPlace /\ StageByPlace'
  BY PlaceStage, PTL
<1>4. /\ \A q \in Requests \ {r} : api'[q] = api[q]
      /\ RunningSet' = RunningSet
      /\ \A q \in Requests \ {r} : (q \in handle' <=> q \in handle)
  BY <1>1, <1>2 DEF RunningSet, Places, TypeOK
<1>5. \A q \in Requests \ {r} : q \in Elements(pool') <=> q \in Elements(pool)
  <2>1. pool \in Seq(Requests)
    BY SeqWiden DEF Places, TypeOK
  <2> QED BY <1>1, <1>2, <2>1, AppendDistinct
<1>6. \A q \in Requests \ {r} : Stage'[q] = Stage[q]
  <2>1. TAKE q \in Requests \ {r}
  <2>2. CASE q \notin handle
    BY <1>3, <1>4, <2>2 DEF StageByPlace
  <2>3. CASE q \in handle
    <3>1. q \in Elements(pool) \cup RunningSet \cup Elements(finishQueue) \cup deleted
      BY <2>3 DEF Places, RequestOnce
    <3> QED BY <1>1, <1>3, <1>4, <1>5, <3>1 DEF StageByPlace
  <2> QED BY <2>2, <2>3
<1>7. CASE ok
  <2>1. r \in Elements(pool')
    <3>1. pool \in Seq(Requests)
      BY SeqWiden DEF Places, TypeOK
    <3> QED BY <1>1, <1>2, <1>7, <3>1, AppendDistinct
  <2>2. Stage[r] = "new" /\ Stage'[r] = "queued"
    BY <1>2, <1>3, <2>1 DEF StageByPlace
  <2> QED BY <1>1, <1>2, <1>6, <2>2, StageMove DEF Lifecycle!Next, Lifecycle!Submit
<1>8. CASE ~ok
  <2>1. Stage[r] = "new" /\ Stage'[r] = "refused"
    BY <1>1, <1>2, <1>3, <1>8 DEF StageByPlace
  <2> QED BY <1>1, <1>2, <1>6, <2>1, StageMove DEF Lifecycle!Next, Lifecycle!Refuse
<1> QED BY <1>7, <1>8

\* The stages of the requests whose place does not change.
LEMMA OtherStages ==
  ASSUME Places, Places', NEW r \in Requests, UNCHANGED <<api, handle>>,
         \A q \in handle \ {r} :
           /\ q \in Elements(pool) => q \in Elements(pool')
           /\ q \in RunningSet => q \in RunningSet'
           /\ q \in Elements(finishQueue) => q \in Elements(finishQueue')
           /\ q \in deleted => q \in deleted'
  PROVE  \A q \in Requests \ {r} : Stage'[q] = Stage[q]
<1>1. StageByPlace /\ StageByPlace'
  BY PlaceStage, PTL
<1>2. TAKE q \in Requests \ {r}
<1>3. CASE q \notin handle
  BY <1>1, <1>3 DEF StageByPlace
<1>4. CASE q \in handle
  <2>1. q \in Elements(pool) \cup RunningSet \cup Elements(finishQueue) \cup deleted
    BY <1>4 DEF Places, RequestOnce
  <2> QED BY <1>1, <1>4, <2>1 DEF StageByPlace
<1> QED BY <1>3, <1>4

\* A worker that starts a task is Start: it was idle, so a thread is free.
LEMMA TakeRequestRefines ==
  ASSUME Places, Places', NEW w \in Workers, TakeRequest(w)
  PROVE  Lifecycle!Next
<1> DEFINE r == Head(pool)
<1>1. /\ r \in Elements(pool) /\ r \in handle
      /\ Elements(Tail(pool)) = Elements(pool) \ {r}
  BY TailDistinct, ElementsOfSeq DEF Places, TypeOK, RequestOnce, TakeRequest
<1>2. /\ pool' = Tail(pool) /\ wreq' = [wreq EXCEPT ![w] = r]
      /\ failure = "none" /\ UNCHANGED <<api, handle, finishQueue, deleted, failure>>
  BY <1>1 DEF TakeRequest, requestVars, At
<1>3. wreq[w] = NoRequest /\ r \in Requests /\ r # NoRequest /\ wpc[w] = "idle"
  BY <1>1, ConstantsAssumption DEF TakeRequest, At, Places, TypeOK
<1>4. RunningSet' = RunningSet \cup {r}
  BY <1>2, <1>3 DEF RunningSet, Places, TypeOK
<1>5. Stage[r] = "queued" /\ Stage'[r] = "running"
  <2>1. StageByPlace /\ StageByPlace'
    BY PlaceStage, PTL
  <2> QED BY <2>1, <1>1, <1>3, <1>4 DEF StageByPlace
<1>6. \A q \in Requests \ {r} : Stage'[q] = Stage[q]
  <2>1. pool' = Tail(pool) /\ Elements(pool') = Elements(pool) \ {r}
    BY <1>1, <1>2
  <2>2. /\ UNCHANGED <<api, handle>>
        /\ \A q \in handle \ {r} :
             /\ q \in Elements(pool) => q \in Elements(pool')
             /\ q \in RunningSet => q \in RunningSet'
             /\ q \in Elements(finishQueue) => q \in Elements(finishQueue')
             /\ q \in deleted => q \in deleted'
    BY <1>2, <1>4, <2>1
  <2> HIDE DEF r
  <2> QED BY <1>3, <2>2, OtherStages
<1>7. Lifecycle!Move(r, "queued", "running")
  <2> HIDE DEF r
  <2> QED BY <1>2, <1>3, <1>5, <1>6, StageMove
<1>8. Lifecycle!Start(r)
  <2>1. Cardinality({q \in Requests : Stage[q] = "running"}) < Cardinality(Workers)
    BY <1>3, FreeWorker
  <2>2. Lifecycle!Cardinality({q \in Requests : Stage[q] = "running"})
          = Cardinality({q \in Requests : Stage[q] = "running"})
    BY Zenon DEF Lifecycle!Cardinality, Cardinality
  <2> QED BY <1>7, <2>1, <2>2, Zenon DEF Lifecycle!Start
<1> QED BY <1>3, <1>8 DEF Lifecycle!Next

\* push_finish_queue (request.cc:151-155) is Finish.
LEMMA EndPushRefines ==
  ASSUME Places, Places', NEW w \in Workers, EndPush(w)
  PROVE  Lifecycle!Next
<1> DEFINE r == wreq[w]
<1>1. r \in handle /\ r \in Requests /\ r # NoRequest /\ r \in RunningSet
  BY ConstantsAssumption DEF EndPush, At, Places, TypeOK, RunningSet
<1>2. /\ finishQueue' = Append(finishQueue, r) /\ wreq' = [wreq EXCEPT ![w] = NoRequest]
      /\ failure = "none" /\ UNCHANGED <<api, handle, pool, deleted, failure>>
  BY DEF EndPush, requestVars, At
<1>3. Elements(finishQueue') = Elements(finishQueue) \cup {r}
  BY <1>1, <1>2, AppendDistinct DEF Places, TypeOK, RequestOnce
<1>4. RunningSet' = RunningSet \ {r}
  BY <1>1, <1>2 DEF RunningSet, Places, RequestOnce, TypeOK
<1>5. Stage[r] = "running" /\ Stage'[r] = "finished"
  <2>1. StageByPlace /\ StageByPlace'
    BY PlaceStage, PTL
  <2> QED BY <2>1, <1>1, <1>3 DEF StageByPlace
<1>6. \A q \in Requests \ {r} : Stage'[q] = Stage[q]
  <2>1. /\ UNCHANGED <<api, handle>>
        /\ \A q \in handle \ {r} :
             /\ q \in Elements(pool) => q \in Elements(pool')
             /\ q \in RunningSet => q \in RunningSet'
             /\ q \in Elements(finishQueue) => q \in Elements(finishQueue')
             /\ q \in deleted => q \in deleted'
    BY <1>2, <1>3, <1>4
  <2> HIDE DEF r
  <2> QED BY <1>1, <2>1, OtherStages
<1>7. Lifecycle!Move(r, "running", "finished")
  <2> HIDE DEF r
  <2> QED BY <1>1, <1>2, <1>5, <1>6, StageMove
<1> QED BY <1>1, <1>7 DEF Lifecycle!Next, Lifecycle!Finish

\* request_finished (eapi.cc:82-88) is Reclaim, or HaltReclaiming when the unlock ends
\* the process, or Halt when the assertion of pop_finish_queue fails.
LEMMA PopFinishQueueRefines ==
  ASSUME Places, Places', PopFinishQueue
  PROVE  [Lifecycle!Next]_(Lifecycle!lifecycleVars)
<1> DEFINE r == Head(finishQueue)
<1>1. CASE finishQueue = <<>>
  <2>1. UNCHANGED <<api, handle, deleted, wreq, pool>> /\ failure = "none"
    BY <1>1 DEF PopFinishQueue, workerVars, MainAt
  <2> QED BY <2>1, StageStutter
<1>2. CASE finishQueue # <<>>
  <2>1. /\ r \in Elements(finishQueue) /\ r \in handle
        /\ Elements(Tail(finishQueue)) = Elements(finishQueue) \ {r}
    BY <1>2, TailDistinct, ElementsOfSeq DEF Places, TypeOK, RequestOnce
  <2>2. /\ finishQueue' = Tail(finishQueue) /\ deleted' = deleted \cup {r}
        /\ failure = "none" /\ failure' \in {"none", "unlock_free"}
        /\ UNCHANGED <<api, handle, pool, wreq>>
    BY <1>2 DEF PopFinishQueue, workerVars, MainAt, Unlock
  <2>3. r \in Requests
    BY <2>1 DEF Places, TypeOK
  <2>4. RunningSet' = RunningSet
    BY <2>2 DEF RunningSet
  <2>5. Stage[r] = "finished" /\ Stage'[r] = "reclaimed"
    <3>1. StageByPlace /\ StageByPlace'
      BY PlaceStage, PTL
    <3> QED BY <3>1, <2>1, <2>2, <2>3 DEF StageByPlace
  <2>6. \A q \in Requests \ {r} : Stage'[q] = Stage[q]
    <3>1. Elements(finishQueue') = Elements(finishQueue) \ {r}
      BY <2>1, <2>2
    <3>2. /\ UNCHANGED <<api, handle>>
          /\ \A q \in handle \ {r} :
               /\ q \in Elements(pool) => q \in Elements(pool')
               /\ q \in RunningSet => q \in RunningSet'
               /\ q \in Elements(finishQueue) => q \in Elements(finishQueue')
               /\ q \in deleted => q \in deleted'
      BY <2>2, <2>4, <3>1
    <3> HIDE DEF r
    <3> QED BY <2>3, <3>2, OtherStages
  <2>7. CASE failure' = "none"
    <3>1. Lifecycle!Move(r, "finished", "reclaimed")
      <4> HIDE DEF r
      <4> QED BY <2>2, <2>3, <2>5, <2>6, <2>7, StageMove
    <3> QED BY <2>3, <3>1 DEF Lifecycle!Next, Lifecycle!Reclaim
  <2>8. CASE failure' = "unlock_free"
    <3>1. Stage' = [Stage EXCEPT ![r] = "reclaimed"]
      <4>1. Stage' = [q \in Requests |-> Stage'[q]]
        BY DEF Stage
      <4> HIDE DEF r
      <4> QED BY <2>3, <2>5, <2>6, <4>1, StageFunction
    <3>2. Lifecycle!HaltReclaiming(r)
      BY <2>2, <2>5, <2>8, <3>1 DEF Lifecycle!HaltReclaiming
    <3> QED BY <2>3, <3>2 DEF Lifecycle!Next
  <2> QED BY <2>2, <2>7, <2>8
<1> QED BY <1>1, <1>2

\* Every other step leaves the requests where they are, and comes before the process
\* ends or changes nothing at all.
LEMMA QuietFrame ==
  ASSUME [Next]_vars
  PROVE  \/ \E s \in Sheets : DirectRequest(s)
         \/ UpdateRequest
         \/ PopFinishQueue
         \/ \E w \in Workers : TakeRequest(w) \/ EndPush(w)
         \/ UNCHANGED <<api, handle, deleted, wreq, pool>> /\ failure = "none"
         \/ UNCHANGED <<api, handle, deleted, wreq, pool, failure>>
  BY DEF Next, MainStep, ClientStep, WorkerStep, RunStep, Terminated, vars, sheetVars, requestVars,
         workerVars, queueVars, mainVars, GotoMain, EnterCall, TestStatus, ReadStatus,
         WriteStatus, ClearError, LockDocument, ReadDocument, NumFinishQueue,
         Shutdown, UpdateTryLock, CheckStatus, GetDocument, MainAt, At, MayCall,
         Expire, SetVerbose, Quit, Dispatch, LockSheet, PushDebug, EmitDebug,
         TransferFails, TransferEnds, LoadFails, RejectDocument, SetErrorStatus,
         AcceptDocument, SaveDocument, SaveFails, UnlockSheet, BeginPush, UseFreedSheet

\* Every step of the pipeline is a step of the life cycle, or a stutter.
LEMMA LifecycleStep ==
  Places /\ Places' /\ [Next]_vars => [Lifecycle!Next]_(Lifecycle!lifecycleVars)
<1> SUFFICES ASSUME Places, Places', [Next]_vars
             PROVE  [Lifecycle!Next]_(Lifecycle!lifecycleVars)
  OBVIOUS
<1>1. ASSUME NEW s \in Sheets, DirectRequest(s)
      PROVE  [Lifecycle!Next]_(Lifecycle!lifecycleVars)
  BY <1>1, PushRequestRefines DEF DirectRequest, MayCall, MainAt
<1>2. CASE UpdateRequest
  <2>1. mainSheet \in Sheets /\ PushRequest(mainSheet) /\ failure = "none"
    BY <1>2 DEF UpdateRequest, MainAt, Places, TypeOK, OnSheet
  <2> QED BY <2>1, PushRequestRefines
<1>3. CASE PopFinishQueue
  BY <1>3, PopFinishQueueRefines
<1>4. ASSUME NEW w \in Workers, TakeRequest(w) \/ EndPush(w)
      PROVE  [Lifecycle!Next]_(Lifecycle!lifecycleVars)
  BY <1>4, TakeRequestRefines, EndPushRefines
<1>5. CASE UNCHANGED <<api, handle, deleted, wreq, pool>> /\ failure = "none"
  BY <1>5, StageStutter
<1>6. CASE UNCHANGED <<api, handle, deleted, wreq, pool, failure>>
  <2>1. Stage' = Stage
    BY <1>6 DEF Stage, Elements
  <2> QED BY <1>6, <2>1 DEF Lifecycle!lifecycleVars
<1> QED BY <1>1, <1>2, <1>3, <1>4, <1>5, <1>6, QuietFrame

\* The pipeline implements the life cycle: whatever the threads do, each request goes
\* through its stages once and in order, and never more run than the pool has threads.
THEOREM PipelineImplementsLifecycle == Spec => LifecycleRefined
<1>1. Init => Lifecycle!Init
  <2>1. SUFFICES ASSUME Init PROVE Lifecycle!Init
    OBVIOUS
  <2>2. \A r \in Requests : Stage[r] = "new"
    <3>1. /\ api = [r \in Requests |-> NoSheet] /\ handle = {} /\ deleted = {}
          /\ wreq = [w \in Workers |-> NoRequest] /\ pool = <<>>
      BY <2>1 DEF Init
    <3>2. TAKE r \in Requests
    <3>3. /\ api[r] = NoSheet /\ r \notin deleted
          /\ ~\E w \in Workers : wreq[w] = r
      BY <3>1, ConstantsAssumption
    <3>4. r \notin Elements(pool)
      BY <3>1 DEF Elements
    <3> QED BY <3>3, <3>4 DEF Stage
  <2>3. Stage = [r \in Requests |-> "new"]
    BY <2>2, StageFunction
  <2> QED BY <2>1, <2>3 DEF Init, Lifecycle!Init
<1>2. TypeOK /\ RequestOnce /\ TypeOK' /\ RequestOnce' /\ [Next]_vars
        => [Lifecycle!Next]_(Lifecycle!lifecycleVars)
  BY LifecycleStep DEF Places
<1> QED
  BY <1>1, <1>2, TypeCorrect, RequestsOnce, PTL DEF Spec, LifecycleRefined, Lifecycle!Spec
==============================================================================
