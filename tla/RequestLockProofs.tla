-------------------------- MODULE RequestLockProofs --------------------------
(***************************************************************************)
(* More proofs, for every value of the constants: who may hold the mutex   *)
(* of a sheet and what an unlock of a free one comes from; why a request   *)
(* made by update() is never carried out, and what a sheet that is stuck   *)
(* in this way costs the program; what a reclaimed request used up; and    *)
(* that update() makes none for a sheet that is VALID from its cache and   *)
(* that nobody has requested.                                              *)
(***************************************************************************)
EXTENDS RequestSystemProofs

\* What LockStep keeps holds from the start on.
LEMMA LockAlways == Spec => []LockInv
<1>1. Init => LockInv
  BY DEF Init, LockInv, InSheet
<1> QED
  BY <1>1, LockStep, TypeCorrect, RequestsOnce, PTL DEF Spec

-----------------------------------------------------------------------------
(* HolderAtWork.                                                           *)

\* The steps that change a mutex, a request's sheet or who is in which request; no other
\* lets a worker leave its sheet, or the main thread its document.
LEMMA HolderFrame ==
  ASSUME TypeOK, [Next]_vars
  PROVE  \/ \E s \in Sheets : UpdateTryLock(s) \/ DirectRequest(s)
         \/ UpdateRequest \/ LockDocument \/ ReadDocument \/ PopFinishQueue
         \/ \E w \in Workers : \/ TakeRequest(w) \/ LockSheet(w) \/ UnlockSheet(w) \/ EndPush(w)
         \/ /\ UNCHANGED <<lock, api, wreq>>
            /\ \A w \in Workers : wpc[w] \in InSheet => wpc'[w] \in InSheet
            /\ mainPc = "read_document" => mainPc' = "read_document" /\ mainSheet' = mainSheet
<1>1. ASSUME NEW w \in Workers, WorkerStep(w),
             ~TakeRequest(w), ~LockSheet(w), ~UnlockSheet(w), ~EndPush(w)
      PROVE  /\ UNCHANGED <<lock, api, wreq, mainPc, mainSheet>>
             /\ \A v \in Workers : wpc[v] \in InSheet => wpc'[v] \in InSheet
  <2>1. /\ UNCHANGED <<lock, api, wreq, mainPc, mainSheet>>
        /\ \/ UNCHANGED wpc
           \/ \E pc \in InSheet : GotoWorker(w, pc)
           \/ wpc[w] = "finish" /\ GotoWorker(w, "push")
    BY <1>1 DEF WorkerStep, RunStep, sheetVars, requestVars, workerVars, mainVars, PushDebug,
           EmitDebug, TransferFails, TransferEnds, LoadFails, RejectDocument, SetErrorStatus,
           AcceptDocument, SaveDocument, SaveFails, BeginPush, UseFreedSheet, At, InSheet
  <2> QED BY <2>1 DEF GotoWorker, InSheet, TypeOK
<1>2. ASSUME MainStep \/ ClientStep \/ (\E d \in Dispatchers : Dispatch(d)) \/ Terminated
             \/ UNCHANGED vars,
             ~UpdateRequest, ~LockDocument, ~ReadDocument, ~PopFinishQueue,
             \A s \in Sheets : ~UpdateTryLock(s) /\ ~DirectRequest(s)
      PROVE  /\ UNCHANGED <<lock, api, wreq, wpc>>
             /\ mainPc = "read_document" => mainPc' = "read_document" /\ mainSheet' = mainSheet
  BY <1>2 DEF MainStep, ClientStep, Terminated, vars, sheetVars, requestVars,
         workerVars, mainVars, GotoMain, MoveMain, EnterCall, TestStatus, ReadStatus,
         WriteStatus, ClearError, NumFinishQueue, Shutdown, CheckStatus, GetDocument, Expire,
         SetVerbose, Quit, Dispatch, MainAt, MayCall
<1> QED BY <1>1, <1>2 DEF Next

\* Every step keeps HolderAtWork.
LEMMA HolderStep == TypeOK /\ HolderAtWork /\ [Next]_vars => HolderAtWork'
<1> SUFFICES ASSUME TypeOK, HolderAtWork, [Next]_vars PROVE HolderAtWork'
  OBVIOUS
<1> USE ConstantsAssumption DEF HolderAtWork, Sheet
<1>1. ASSUME NEW s \in Sheets, UpdateTryLock(s) PROVE HolderAtWork'
  BY <1>1 DEF UpdateTryLock, requestVars, workerVars, EnterCall, TypeOK, MayCall, MainAt
<1>2. ASSUME NEW s \in Sheets, PushRequest(s), mainPc # "read_document", GotoMain("loop")
      PROVE  HolderAtWork'
  <2>1. PICK r \in Fresh : api' = [api EXCEPT ![r] = s]
    BY <1>2 DEF PushRequest
  <2>2. UNCHANGED <<lock, wreq, wpc>>
    BY <1>2 DEF PushRequest, sheetVars
  <2>3. \A q \in handle : api'[q] = api[q]
    BY <2>1 DEF TypeOK, Fresh
  <2>4. \A w \in Workers : wpc[w] \in InSheet => wreq[w] \in handle
    BY DEF TypeOK, InSheet
  <2> QED BY <1>2, <2>2, <2>3, <2>4
<1>3. CASE LockDocument
  BY <1>3 DEF LockDocument, MainAt, requestVars, workerVars, GotoMain, MoveMain, TypeOK
<1>4. CASE ReadDocument
  BY <1>4 DEF ReadDocument, MainAt, requestVars, workerVars, GotoMain, MoveMain, TypeOK, Unlock,
              OnSheet
<1>5. CASE PopFinishQueue
  <2>1. UNCHANGED <<api, wpc, wreq>> /\ mainPc = "pop_finish_queue"
    BY <1>5 DEF PopFinishQueue, workerVars, MainAt
  <2>2. \/ UNCHANGED lock
        \/ lock' = [lock EXCEPT ![api[Head(finishQueue)]] = "free"]
    BY <1>5 DEF PopFinishQueue, Unlock
  <2> QED BY <2>1, <2>2 DEF TypeOK
<1>6. ASSUME NEW w \in Workers, TakeRequest(w) \/ EndPush(w) PROVE HolderAtWork'
  <2>1. /\ UNCHANGED <<lock, api, mainPc, mainSheet>>
        /\ wpc[w] \notin InSheet
        /\ \A v \in Workers \ {w} : wpc'[v] = wpc[v] /\ wreq'[v] = wreq[v]
    BY <1>6 DEF TakeRequest, EndPush, At, GotoWorker, requestVars, sheetVars, mainVars, InSheet,
                TypeOK
  <2> QED BY <2>1
<1>7. ASSUME NEW w \in Workers, LockSheet(w) PROVE HolderAtWork'
  BY <1>7 DEF LockSheet, At, GotoWorker, requestVars, mainVars, TypeOK, InSheet
<1>8. ASSUME NEW w \in Workers, UnlockSheet(w) PROVE HolderAtWork'
  BY <1>8 DEF UnlockSheet, At, GotoWorker, requestVars, mainVars, TypeOK, InSheet, Unlock
<1>9. CASE /\ UNCHANGED <<lock, api, wreq>>
           /\ \A w \in Workers : wpc[w] \in InSheet => wpc'[w] \in InSheet
           /\ mainPc = "read_document" => mainPc' = "read_document" /\ mainSheet' = mainSheet
  BY <1>9
<1>10. CASE UpdateRequest
  BY <1>2, <1>10 DEF UpdateRequest, MainAt, TypeOK, OnSheet
<1>11. ASSUME NEW s \in Sheets, DirectRequest(s) PROVE HolderAtWork'
  BY <1>2, <1>11 DEF DirectRequest, MayCall, MainAt
<1> QED BY <1>1, <1>3, <1>4, <1>5, <1>6, <1>7, <1>8, <1>9, <1>10, <1>11, HolderFrame

\* Whoever holds the mutex of a sheet is at work on that sheet and waits for no mutex, for
\* any number of sheets and threads.
THEOREM HoldersWork == Spec => []HolderAtWork
<1>1. Init => HolderAtWork
  BY ConstantsAssumption DEF Init, HolderAtWork
<1> QED
  BY <1>1, HolderStep, TypeCorrect, PTL DEF Spec

-----------------------------------------------------------------------------
(* FreeUnlockHasCause.                                                     *)

\* Only three steps unlock a mutex; the requests that are deleted stay deleted.
LEMMA UnlockFrame ==
  ASSUME [Next]_vars
  PROVE  /\ deleted \subseteq deleted'
         /\ failure' = "unlock_free" =>
              \/ failure = "unlock_free"
              \/ ReadDocument \/ PopFinishQueue \/ \E w \in Workers : UnlockSheet(w)
  BY DEF Next, MainStep, ClientStep, WorkerStep, RunStep, Terminated, vars, sheetVars, requestVars,
         workerVars, queueVars, mainVars, TestStatus, ReadStatus, WriteStatus, ClearError,
         UpdateRequest, DirectRequest, PushRequest, LockDocument, ReadDocument, NumFinishQueue,
         PopFinishQueue, Shutdown, UpdateTryLock, CheckStatus, GetDocument, Expire, SetVerbose,
         Quit, Dispatch, TakeRequest, LockSheet, PushDebug, EmitDebug, TransferFails,
         TransferEnds, LoadFails, RejectDocument, SetErrorStatus, AcceptDocument, SaveDocument,
         SaveFails, UnlockSheet, BeginPush, EndPush, UseFreedSheet

\* What is left when the process has ended.
FreeUnlock == failure = "unlock_free" => deleted # {}

\* While no request of its sheet is deleted, whoever is about to unlock a mutex owns it.
LEMMA OwnersUnlock ==
  ASSUME TypeOK, LockInv
  PROVE  /\ \A w \in Workers : wpc[w] = "unlock" /\ lock[Sheet(w)] # w => Reclaimed(Sheet(w))
         /\ mainPc = "read_document" /\ lock[mainSheet] # "document" => Reclaimed(mainSheet)
<1>1. ASSUME NEW w \in Workers, wpc[w] = "unlock", lock[Sheet(w)] # w
      PROVE  Reclaimed(Sheet(w))
  <2>1. wreq[w] \in handle
    BY <1>1 DEF TypeOK
  <2>2. Sheet(w) \in Sheets
    BY <2>1 DEF TypeOK, Sheet
  <2>3. deleted \subseteq Requests
    BY DEF TypeOK
  <2> QED BY <1>1, <2>2, <2>3 DEF LockInv, Reclaimed, InSheet
<1>2. ASSUME mainPc = "read_document", lock[mainSheet] # "document"
      PROVE  Reclaimed(mainSheet)
  <2>1. mainSheet \in Sheets
    BY <1>2 DEF TypeOK, OnSheet
  <2> QED BY <1>2, <2>1 DEF LockInv, Reclaimed
<1> QED BY <1>1, <1>2

\* A mutex that is unlocked while it is free is not its owner's.
LEMMA FreeUnlockStep ==
  TypeOK /\ LockInv /\ FreeUnlock /\ [Next]_vars => FreeUnlock'
<1> SUFFICES ASSUME TypeOK, LockInv, FreeUnlock, [Next]_vars,
                    failure' = "unlock_free", deleted = {}
             PROVE  deleted' # {}
  BY UnlockFrame DEF FreeUnlock
<1> USE ConstantsAssumption
<1>1. failure # "unlock_free"
  BY DEF FreeUnlock
<1>0. \A s \in Sheets : ~Reclaimed(s)
  BY DEF Reclaimed
<1>2. ~ReadDocument
  <2> SUFFICES ASSUME ReadDocument PROVE FALSE
    OBVIOUS
  <2>1. mainPc = "read_document" /\ mainSheet \in Sheets
    BY DEF ReadDocument, MainAt, TypeOK, OnSheet
  <2>2. lock[mainSheet] = "document"
    BY <1>0, <2>1, OwnersUnlock
  <2> QED BY <1>1, <2>2 DEF ReadDocument, Unlock
<1>3. ASSUME NEW w \in Workers PROVE ~UnlockSheet(w)
  <2> SUFFICES ASSUME UnlockSheet(w) PROVE FALSE
    OBVIOUS
  <2>1. wpc[w] = "unlock" /\ wreq[w] \in handle
    BY DEF UnlockSheet, At, TypeOK
  <2>2. Sheet(w) \in Sheets
    BY <2>1 DEF TypeOK, Sheet
  <2>3. lock[Sheet(w)] = w
    BY <1>0, <2>1, <2>2, OwnersUnlock
  <2> QED BY <1>1, <2>3 DEF UnlockSheet, Unlock
<1>4. CASE PopFinishQueue
  BY <1>1, <1>4 DEF PopFinishQueue
<1> QED BY <1>1, <1>2, <1>3, <1>4, UnlockFrame

\* Who unlocks a mutex it does not own, be it free or held by another, works on a sheet of
\* which a request has been reclaimed; the undefined unlock of a free mutex happens only
\* after a request was reclaimed.
THEOREM FreeUnlockCause == Spec => []FreeUnlockHasCause
<1>1. Init => FreeUnlock
  BY DEF Init, FreeUnlock
<1>2. TypeOK /\ LockInv /\ FreeUnlock => FreeUnlockHasCause
  BY OwnersUnlock DEF FreeUnlockHasCause, FreeUnlock
<1> QED
  BY <1>1, <1>2, FreeUnlockStep, LockAlways, TypeCorrect, PTL DEF Spec

-----------------------------------------------------------------------------
(* UpdateHangs.                                                            *)

\* The steps of the worker that do not concern Stuck: it is in no sheet, or stays where no
\* mutex is taken or given back.
LEMMA StuckFrame ==
  ASSUME TypeOK, [Next]_vars
  PROVE  \/ \E s \in Sheets : UpdateTryLock(s) \/ PushRequest(s)
         \/ LockDocument \/ ReadDocument \/ PopFinishQueue
         \/ \E w \in Workers : TakeRequest(w) \/ LockSheet(w) \/ UnlockSheet(w)
         \/ /\ UNCHANGED <<lock, api, handle, pool>>
            /\ \A w \in Workers : wpc[w] = "lock" => wpc'[w] = "lock" /\ wreq'[w] = wreq[w]
<1>1. ASSUME NEW w \in Workers, WorkerStep(w), ~TakeRequest(w), ~LockSheet(w), ~UnlockSheet(w)
      PROVE  /\ UNCHANGED <<lock, api, handle, pool>>
             /\ \A v \in Workers : wpc[v] = "lock" => wpc'[v] = "lock" /\ wreq'[v] = wreq[v]
  BY <1>1 DEF WorkerStep, RunStep, sheetVars, requestVars, workerVars, PushDebug, EmitDebug,
         TransferFails, TransferEnds, LoadFails, RejectDocument, SetErrorStatus, AcceptDocument,
         SaveDocument, SaveFails, BeginPush, EndPush, UseFreedSheet, At, GotoWorker, TypeOK
<1>2. ASSUME MainStep \/ ClientStep \/ (\E d \in Dispatchers : Dispatch(d)) \/ Terminated
             \/ UNCHANGED vars,
             ~LockDocument, ~ReadDocument, ~PopFinishQueue,
             \A s \in Sheets : ~UpdateTryLock(s) /\ ~PushRequest(s)
      PROVE  UNCHANGED <<lock, api, handle, pool, wpc, wreq>>
  BY <1>2 DEF MainStep, ClientStep, Terminated, vars, sheetVars, requestVars, workerVars,
         TestStatus, ReadStatus, WriteStatus, ClearError, NumFinishQueue, Shutdown, CheckStatus,
         GetDocument, Expire, SetVerbose, Quit, Dispatch, UpdateRequest, DirectRequest, MainAt,
         TypeOK, OnSheet
<1> QED BY <1>1, <1>2 DEF Next

\* None of the steps that give a mutex back can give back that of a stuck sheet.
LEMMA StuckStep ==
  ASSUME TypeOK, RequestOnce, LockInv, [Next]_vars, NEW s \in Sheets, Stuck(s)
  PROVE  Stuck(s)'
<1> USE ConstantsAssumption
<1>1. deleted \subseteq handle /\ \A r \in handle : r # NoRequest /\ api[r] \in Sheets
  BY DEF RequestOnce, TypeOK
<1>2. ASSUME NEW r \in handle, api[r] = s,
             r \in deleted \cup Elements(finishQueue) \/ \E w \in Workers : wreq[w] = r /\ wpc[w] # "lock"
      PROVE  FALSE
  <2>1. CASE r \in Elements(pool)
    BY <1>1, <1>2, <2>1 DEF RequestOnce, RunningSet
  <2>2. ASSUME NEW v \in Workers, wreq[v] = r, wpc[v] = "lock" PROVE FALSE
    BY <1>1, <1>2, <2>2 DEF RequestOnce, RunningSet
  <2> QED BY <1>2, <2>1, <2>2 DEF Stuck
<1>3. \A r \in deleted : api[r] # s
  BY <1>1, <1>2
<1>4. ASSUME NEW z \in Sheets, UpdateTryLock(z) PROVE Stuck(s)'
  BY <1>4 DEF Stuck, UpdateTryLock, requestVars, workerVars, TypeOK
<1>5. ASSUME NEW z \in Sheets, PushRequest(z) PROVE Stuck(s)'
  <2>1. PICK r \in Fresh, ok \in BOOLEAN :
          /\ api' = [api EXCEPT ![r] = z]
          /\ handle' = IF ok THEN handle \cup {r} ELSE handle
          /\ pool' = IF ok THEN Append(pool, r) ELSE pool
          /\ UNCHANGED <<lock, wpc, wreq>>
    BY <1>5 DEF PushRequest, sheetVars
  <2>2. /\ Elements(pool) \subseteq Elements(pool')
        /\ ok => r \in Elements(pool')
    <3>1. pool \in Seq(Requests) /\ r \in Requests
      BY SeqWiden DEF TypeOK, Fresh
    <3> QED BY <2>1, <3>1, AppendDistinct
  <2>3. \A q \in handle : api'[q] = api[q]
    BY <1>1, <2>1 DEF TypeOK, Fresh
  <2> QED BY <2>1, <2>2, <2>3 DEF Stuck
<1>6. CASE LockDocument
  BY <1>6 DEF Stuck, LockDocument, MainAt, requestVars, workerVars, TypeOK, OnSheet
<1>7. CASE ReadDocument
  <2>1. mainSheet # s
    BY <1>3, <1>7 DEF ReadDocument, MainAt, LockInv, Stuck
  <2> QED BY <1>7, <2>1 DEF Stuck, ReadDocument, MainAt, Unlock, requestVars, workerVars, TypeOK
<1>8. CASE PopFinishQueue
  <2>1. UNCHANGED <<api, handle, pool, wpc, wreq>>
    BY <1>8 DEF PopFinishQueue, workerVars
  <2>2. CASE finishQueue = <<>>
    BY <1>8, <2>1, <2>2 DEF PopFinishQueue, Stuck
  <2>3. CASE finishQueue # <<>>
    <3>1. Head(finishQueue) \in Elements(finishQueue) /\ Head(finishQueue) \in handle
      BY <2>3, TailDistinct, ElementsOfSeq DEF TypeOK, RequestOnce
    <3>2. api[Head(finishQueue)] # s
      BY <1>2, <3>1
    <3>3. lock' = [lock EXCEPT ![api[Head(finishQueue)]] = "free"]
      BY <1>8, <2>3 DEF PopFinishQueue, Unlock
    <3> QED BY <2>1, <3>2, <3>3 DEF Stuck, TypeOK
  <2> QED BY <2>2, <2>3
<1>9. ASSUME NEW w \in Workers, TakeRequest(w) PROVE Stuck(s)'
  <2>1. /\ pool' = Tail(pool) /\ UNCHANGED <<lock, api, handle>>
        /\ wpc' = [wpc EXCEPT ![w] = "lock"] /\ wreq' = [wreq EXCEPT ![w] = Head(pool)]
        /\ wpc[w] = "idle"
    BY <1>9 DEF TakeRequest, requestVars, GotoWorker, At
  <2>2. Elements(pool') = Elements(pool) \ {Head(pool)}
    BY <1>9, <2>1, TailDistinct DEF TakeRequest, TypeOK, RequestOnce
  <2> QED BY <2>1, <2>2 DEF Stuck, TypeOK
<1>10. ASSUME NEW w \in Workers, LockSheet(w) PROVE Stuck(s)'
  <2>1. Sheet(w) # s
    BY <1>10 DEF LockSheet, Stuck
  <2>2. /\ lock' = [lock EXCEPT ![Sheet(w)] = w] /\ UNCHANGED <<api, handle, pool, wreq>>
        /\ wpc' = [wpc EXCEPT ![w] = "transfer"]
    BY <1>10 DEF LockSheet, requestVars, GotoWorker
  <2> QED BY <2>1, <2>2 DEF Stuck, Sheet, TypeOK
<1>11. ASSUME NEW w \in Workers, UnlockSheet(w) PROVE Stuck(s)'
  <2>1. wpc[w] = "unlock" /\ wreq[w] \in handle
    BY <1>11 DEF UnlockSheet, At, TypeOK
  <2>2. Sheet(w) # s
    BY <1>2, <2>1 DEF Sheet
  <2>3. /\ lock' = [lock EXCEPT ![Sheet(w)] = "free"] /\ UNCHANGED <<api, handle, pool, wreq>>
        /\ wpc' = [wpc EXCEPT ![w] = "finish"]
    BY <1>11 DEF UnlockSheet, Unlock, requestVars, GotoWorker
  <2> QED BY <2>1, <2>2, <2>3 DEF Stuck, Sheet, TypeOK
<1>12. CASE /\ UNCHANGED <<lock, api, handle, pool>>
            /\ \A w \in Workers : wpc[w] = "lock" => wpc'[w] = "lock" /\ wreq'[w] = wreq[w]
  BY <1>12 DEF Stuck
<1> QED BY <1>4, <1>5, <1>6, <1>7, <1>8, <1>9, <1>10, <1>11, <1>12, StuckFrame

\* An update() of a sheet whose other requests have not got past the mutex is never carried
\* out: no step of any thread, of any number of them, gives the mutex back.
THEOREM UpdateNeverRuns == Spec => UpdateHangs
<1>1. TypeOK /\ RequestOnce /\ LockInv /\ [Next]_vars => \A s \in Sheets : Stuck(s) => Stuck(s)'
  BY StuckStep
<1> QED
  BY <1>1, LockAlways, RequestsOnce, TypeCorrect, PTL DEF Spec, UpdateHangs

\* So the sheet is lost to the program: from then on it is stuck for ever.
THEOREM StuckForEver == ASSUME NEW s \in Sheets PROVE Spec => [](Stuck(s) => []Stuck(s))
<1>1. TypeOK /\ RequestOnce /\ LockInv /\ [Next]_vars /\ Stuck(s) => Stuck(s)'
  BY StuckStep
<1> QED
  BY <1>1, LockAlways, RequestsOnce, TypeCorrect, PTL DEF Spec

-----------------------------------------------------------------------------
(* What a stuck sheet costs: its requests, a get_document that waits for   *)
(* it, and the end of the program.                                         *)

\* A request of a stuck sheet that Main::request has accepted.
Doomed(s, r) == Stuck(s) /\ r \in handle /\ api[r] = s

\* A request keeps its sheet and its handle.
LEMMA RequestStays ==
  ASSUME TypeOK, [Next]_vars, NEW r \in handle
  PROVE  r \in handle' /\ api'[r] = api[r]
<1>1. ASSUME NEW z \in Sheets, PushRequest(z) PROVE r \in handle' /\ api'[r] = api[r]
  BY <1>1, ConstantsAssumption DEF PushRequest, Fresh, TypeOK
<1>2. CASE UNCHANGED <<api, handle>>
  BY <1>2
<1>3. \/ \E z \in Sheets : PushRequest(z)
      \/ UNCHANGED <<api, handle>>
  <2>1. CASE UpdateRequest
    BY <2>1 DEF UpdateRequest, MainAt, TypeOK, OnSheet
  <2>2. ASSUME NEW z \in Sheets, DirectRequest(z) PROVE PushRequest(z)
    BY <2>2 DEF DirectRequest
  <2>3. ASSUME MainStep \/ ClientStep \/ (\E d \in Dispatchers : Dispatch(d)) \/ Terminated
               \/ UNCHANGED vars,
               ~UpdateRequest, \A z \in Sheets : ~DirectRequest(z)
        PROVE  UNCHANGED <<api, handle>>
    BY <2>3 DEF MainStep, ClientStep, Terminated, vars, requestVars, TestStatus, ReadStatus,
           WriteStatus, ClearError, LockDocument, ReadDocument, NumFinishQueue, PopFinishQueue,
           Shutdown, UpdateTryLock, CheckStatus, GetDocument, Expire, SetVerbose, Quit, Dispatch
  <2>4. ASSUME NEW w \in Workers, WorkerStep(w) PROVE UNCHANGED <<api, handle>>
    BY <2>4 DEF WorkerStep, RunStep, requestVars, TakeRequest, LockSheet, PushDebug, EmitDebug,
         TransferFails, TransferEnds, LoadFails, RejectDocument, SetErrorStatus, AcceptDocument,
         SaveDocument, SaveFails, UnlockSheet, BeginPush, EndPush, UseFreedSheet
  <2> QED BY <2>1, <2>2, <2>3, <2>4 DEF Next
<1> QED BY <1>1, <1>2, <1>3

\* A doomed request waits in the pool or at the mutex.
LEMMA DoomedStage ==
  ASSUME RequestOnce, NEW s \in Sheets, NEW r \in Requests, Doomed(s, r)
  PROVE  Stage[r] \in {"queued", "running"}
<1> USE ConstantsAssumption
<1>1. api[r] # NoSheet /\ r \in handle /\ r # NoRequest
  BY DEF Doomed
<1>2. r \in Elements(pool) \/ \E w \in Workers : wreq[w] = r
  BY DEF Doomed, Stuck
<1>3. r \notin deleted
  BY <1>1, <1>2 DEF RequestOnce, RunningSet
<1> QED BY <1>1, <1>2, <1>3 DEF Stage

\* A request on a sheet that is stuck never finishes, for any number of threads: no later
\* call or message helps it (apiinterface.cc:66-79, request.cc:122).
THEOREM StuckNeverFinishes ==
  ASSUME NEW s \in Sheets, NEW r \in Requests
  PROVE  Spec => [](Doomed(s, r) => [](Stage[r] \in {"queued", "running"}))
<1>1. TypeOK /\ RequestOnce /\ LockInv /\ [Next]_vars /\ Doomed(s, r) => Doomed(s, r)'
  <2> SUFFICES ASSUME TypeOK, RequestOnce, LockInv, [Next]_vars, Doomed(s, r)
               PROVE  Doomed(s, r)'
    OBVIOUS
  <2>1. Stuck(s)'
    BY StuckStep DEF Doomed
  <2>2. r \in handle' /\ api'[r] = s
    BY RequestStays DEF Doomed
  <2> QED BY <2>1, <2>2 DEF Doomed
<1>2. RequestOnce /\ Doomed(s, r) => Stage[r] \in {"queued", "running"}
  BY DoomedStage
<1> QED
  BY <1>1, <1>2, LockAlways, RequestsOnce, TypeCorrect, PTL DEF Spec

\* The main thread waits for the mutex of a stuck sheet.
WaitsForStuck(s) == Stuck(s) /\ mainPc = "lock_document" /\ mainSheet = s

\* A wait in get_document or in ~Main is only left by LockDocument and Shutdown.
LEMMA WaitFrame ==
  ASSUME [Next]_vars, mainPc \in {"lock_document", "exit_pool"}
  PROVE  LockDocument \/ Shutdown \/ UNCHANGED <<mainPc, mainSheet>>
<1>1. ASSUME NEW w \in Workers, WorkerStep(w) PROVE UNCHANGED <<mainPc, mainSheet>>
  BY <1>1 DEF WorkerStep, RunStep, mainVars, TakeRequest, LockSheet, PushDebug, EmitDebug,
         TransferFails, TransferEnds, LoadFails, RejectDocument, SetErrorStatus, AcceptDocument,
         SaveDocument, SaveFails, UnlockSheet, BeginPush, EndPush, UseFreedSheet
<1>2. ASSUME MainStep \/ ClientStep \/ (\E d \in Dispatchers : Dispatch(d)) \/ Terminated
             \/ UNCHANGED vars,
             ~LockDocument, ~Shutdown
      PROVE  UNCHANGED <<mainPc, mainSheet>>
  BY <1>2 DEF MainStep, ClientStep, Terminated, vars, mainVars, TestStatus, ReadStatus,
         WriteStatus, ClearError, UpdateRequest, ReadDocument, NumFinishQueue, PopFinishQueue,
         UpdateTryLock, CheckStatus, DirectRequest, GetDocument, Expire, SetVerbose, Quit,
         Dispatch, MainAt, MayCall
<1> QED BY <1>1, <1>2 DEF Next

\* get_document of a stuck sheet never returns, and with it the main loop stands still
\* (apiinterface.cc:220-221).
THEOREM StuckDocumentHangs ==
  ASSUME NEW s \in Sheets
  PROVE  Spec => [](WaitsForStuck(s) => [](mainPc = "lock_document"))
<1>1. TypeOK /\ RequestOnce /\ LockInv /\ [Next]_vars /\ WaitsForStuck(s) => WaitsForStuck(s)'
  <2> SUFFICES ASSUME TypeOK, RequestOnce, LockInv, [Next]_vars, WaitsForStuck(s)
               PROVE  WaitsForStuck(s)'
    OBVIOUS
  <2>1. Stuck(s)'
    BY StuckStep DEF WaitsForStuck
  <2>2. ~LockDocument /\ ~Shutdown
    BY DEF WaitsForStuck, Stuck, LockDocument, Shutdown, MainAt
  <2> QED BY <2>1, <2>2, WaitFrame DEF WaitsForStuck
<1>2. WaitsForStuck(s) => mainPc = "lock_document"
  BY DEF WaitsForStuck
<1> QED
  BY <1>1, <1>2, LockAlways, RequestsOnce, TypeCorrect, PTL DEF Spec

\* ~Main waits for a task that waits for the mutex of a stuck sheet.
ExitWaits(s, r) == Doomed(s, r) /\ mainPc = "exit_pool"

\* With a request on a stuck sheet ~Main never gets through ThreadPool::shutdown: the
\* program does not end by itself (eapi.cc:65-67).
THEOREM StuckExitHangs ==
  ASSUME NEW s \in Sheets, NEW r \in Requests
  PROVE  Spec => [](ExitWaits(s, r) => [](mainPc = "exit_pool"))
<1>1. TypeOK /\ RequestOnce /\ LockInv /\ [Next]_vars /\ ExitWaits(s, r) => ExitWaits(s, r)'
  <2> SUFFICES ASSUME TypeOK, RequestOnce, LockInv, [Next]_vars, ExitWaits(s, r)
               PROVE  ExitWaits(s, r)'
    OBVIOUS
  <2>1. Stuck(s)'
    BY StuckStep DEF ExitWaits, Doomed
  <2>2. r \in handle' /\ api'[r] = s
    BY RequestStays DEF ExitWaits, Doomed
  <2>3. ~LockDocument
    BY DEF ExitWaits, LockDocument, MainAt
  <2>4. ~Shutdown
    <3>1. r \in Elements(pool) \/ \E w \in Workers : wreq[w] = r /\ wpc[w] = "lock"
      BY DEF ExitWaits, Doomed, Stuck
    <3> QED BY <3>1 DEF Shutdown, Elements
  <2> QED BY <2>1, <2>2, <2>3, <2>4, WaitFrame DEF ExitWaits, Doomed
<1>2. ExitWaits(s, r) => mainPc = "exit_pool"
  BY DEF ExitWaits
<1> QED
  BY <1>1, <1>2, LockAlways, RequestsOnce, TypeCorrect, PTL DEF Spec

-----------------------------------------------------------------------------
(* ReclaimNeedsMessage.  Each emission of the debug dispatcher takes one   *)
(* message off its queue (DebugAccounted) and lets request_finished run    *)
(* once; no other step lets it run.                                        *)

\* How many calls of request_finished are under way.
Reclaiming == IF mainPc \in {"request_finished", "pop_finish_queue"} THEN 1 ELSE 0

ReclaimInv ==
  /\ IsFiniteSet(deleted)
  /\ Cardinality(deleted) + debugQueue + chatter + Reclaiming <= MaxDebug

\* The steps that move a message, an emission or a reclaimed request.
LEMMA ReclaimFrame ==
  ASSUME [Next]_vars
  PROVE  \/ \E w \in Workers : PushDebug(w)
         \/ \E d \in Dispatchers : Dispatch(d)
         \/ NumFinishQueue \/ PopFinishQueue
         \/ UNCHANGED <<deleted, debugQueue, chatter>> /\ Reclaiming' = Reclaiming
<1>1. ASSUME NEW w \in Workers, WorkerStep(w), ~PushDebug(w)
      PROVE  UNCHANGED <<deleted, debugQueue, chatter, mainPc>>
  BY <1>1 DEF WorkerStep, RunStep, requestVars, queueVars, mainVars, TakeRequest, LockSheet,
         EmitDebug, TransferFails, TransferEnds, LoadFails, RejectDocument, SetErrorStatus,
         AcceptDocument, SaveDocument, SaveFails, UnlockSheet, BeginPush, EndPush, UseFreedSheet
<1>2. ASSUME MainStep, ~NumFinishQueue, ~PopFinishQueue
      PROVE  UNCHANGED <<deleted, debugQueue, chatter>> /\ Reclaiming' = Reclaiming
  BY <1>2 DEF MainStep, requestVars, queueVars, TestStatus, ReadStatus, WriteStatus, ClearError,
         UpdateRequest, PushRequest, LockDocument, ReadDocument, Shutdown, MainAt, GotoMain,
         MoveMain, AfterCheckStatus, Reclaiming
<1>3. ASSUME ClientStep \/ Terminated \/ UNCHANGED vars
      PROVE  UNCHANGED <<deleted, debugQueue, chatter>> /\ Reclaiming' = Reclaiming
  BY <1>3 DEF ClientStep, Terminated, vars, requestVars, queueVars, mainVars, UpdateTryLock,
         CheckStatus, DirectRequest, PushRequest, GetDocument, Expire, SetVerbose, Quit, MayCall,
         MainAt, EnterCall, GotoMain, MoveMain, Reclaiming
<1>4. ASSUME UNCHANGED mainPc PROVE Reclaiming' = Reclaiming
  BY <1>4 DEF Reclaiming
<1> QED BY <1>1, <1>2, <1>3, <1>4 DEF Next

\* Every step keeps the account of messages and reclaimed requests.
LEMMA ReclaimStep ==
  TypeOK /\ RequestOnce /\ DebugAccounted /\ ReclaimInv /\ [Next]_vars => ReclaimInv'
<1> SUFFICES ASSUME TypeOK, RequestOnce, DebugAccounted, ReclaimInv, [Next]_vars PROVE ReclaimInv'
  OBVIOUS
<1>1. /\ Cardinality(deleted) \in Nat /\ debugQueue \in Nat /\ chatter \in Nat
      /\ MaxDebug \in Nat /\ Reclaiming \in {0, 1}
  BY FS_CardinalityType, ConstantsAssumption DEF ReclaimInv, TypeOK, Reclaiming
<1>2. ASSUME NEW w \in Workers, PushDebug(w) PROVE ReclaimInv'
  <2>1. debugQueue' = debugQueue + 1 /\ chatter' = chatter - 1 /\ deleted' = deleted
        /\ Reclaiming' = Reclaiming
    BY <1>2 DEF PushDebug, requestVars, mainVars, Reclaiming
  <2> QED BY <1>1, <2>1 DEF ReclaimInv
<1>3. ASSUME NEW d \in Dispatchers, Dispatch(d) PROVE ReclaimInv'
  <2>1. chatter' = chatter /\ deleted' = deleted /\ Reclaiming = 0
    BY <1>3 DEF Dispatch, requestVars, MainAt, Reclaiming
  <2>2. CASE d = "debug"
    <3>1. debugQueue > 0
      <4>1. pending["debug"] > 0 /\ pending["debug"] \in Nat
        BY <1>3, <2>2 DEF Dispatch, TypeOK, Dispatchers
      <4>2. debugQueue = pending["debug"] + Cardinality(Emitting)
        BY DEF DebugAccounted, Emitting
      <4> QED BY <4>1, <4>2, EmittingFinite
    <3>2. debugQueue' = debugQueue - 1
      BY <1>3, <2>2, <3>1 DEF Dispatch, SignalDebug
    <3>3. Reclaiming' \in {0, 1}
      BY DEF Reclaiming
    <3> QED BY <1>1, <2>1, <3>2, <3>3 DEF ReclaimInv
  <2>3. CASE d # "debug"
    <3>1. debugQueue' = debugQueue /\ Reclaiming' = 0
      BY <1>3, <2>3 DEF Dispatch, SignalDebug, SignalFinished, GotoMain, MoveMain, Reclaiming
    <3> QED BY <1>1, <2>1, <3>1 DEF ReclaimInv
  <2> QED BY <2>2, <2>3
<1>4. CASE NumFinishQueue
  <2>1. UNCHANGED <<deleted, debugQueue, chatter>> /\ Reclaiming = 1 /\ Reclaiming' \in {0, 1}
    BY <1>4 DEF NumFinishQueue, MainAt, requestVars, queueVars, Reclaiming
  <2> QED BY <1>1, <2>1 DEF ReclaimInv
<1>5. CASE PopFinishQueue
  <2>1. Reclaiming = 1 /\ Reclaiming' = 0
    BY <1>5 DEF PopFinishQueue, MainAt, GotoMain, MoveMain, Reclaiming
  <2>2. CASE finishQueue = <<>>
    <3>1. UNCHANGED <<deleted, debugQueue, chatter>>
      BY <1>5, <2>2 DEF PopFinishQueue, queueVars
    <3> QED BY <1>1, <2>1, <3>1 DEF ReclaimInv
  <2>3. CASE finishQueue # <<>>
    <3>1. Head(finishQueue) \notin deleted
      BY <2>3, TailDistinct DEF TypeOK, RequestOnce
    <3>2. deleted' = deleted \cup {Head(finishQueue)}
      BY <1>5, <2>3 DEF PopFinishQueue
    <3>3. IsFiniteSet(deleted') /\ Cardinality(deleted') = Cardinality(deleted) + 1
      BY <3>1, <3>2, FS_AddElement DEF ReclaimInv
    <3>4. PICK n \in {0, 1} : debugQueue' = debugQueue + n /\ chatter' = chatter - n
      BY <1>5, <2>3 DEF PopFinishQueue
    <3> QED BY <1>1, <2>1, <3>3, <3>4 DEF ReclaimInv
  <2> QED BY <2>2, <2>3
<1>6. CASE UNCHANGED <<deleted, debugQueue, chatter>> /\ Reclaiming' = Reclaiming
  BY <1>6 DEF ReclaimInv
<1> QED BY <1>2, <1>3, <1>4, <1>5, <1>6, ReclaimFrame

\* No request is reclaimed without a debug message of its own, for any number of requests
\* and threads: the finish dispatcher reclaims none.
THEOREM ReclaimByMessage == Spec => []ReclaimNeedsMessage
<1>1. Init => ReclaimInv
  <2> SUFFICES ASSUME Init PROVE ReclaimInv
    OBVIOUS
  <2>1. deleted = {} /\ debugQueue = 0 /\ chatter = MaxDebug /\ Reclaiming = 0
    BY DEF Init, Reclaiming
  <2> QED BY <2>1, FS_EmptySet, ConstantsAssumption DEF ReclaimInv
<1>2. TypeOK /\ ReclaimInv => ReclaimNeedsMessage
  <2> SUFFICES ASSUME TypeOK, ReclaimInv PROVE ReclaimNeedsMessage
    OBVIOUS
  <2>1. /\ Cardinality(deleted) \in Nat /\ debugQueue \in Nat /\ chatter \in Nat
        /\ MaxDebug \in Nat /\ Reclaiming \in {0, 1}
    BY FS_CardinalityType, ConstantsAssumption DEF ReclaimInv, TypeOK, Reclaiming
  <2> QED BY <2>1 DEF ReclaimInv, ReclaimNeedsMessage
<1> QED
  BY <1>1, <1>2, ReclaimStep, TypeCorrect, RequestsOnce, DebugIsAccounted, PTL DEF Spec

-----------------------------------------------------------------------------
(* UpdateRefusesValid.                                                     *)

NoRequests(s) == \A r \in Requests : api[r] # s

\* What the cache left on a sheet that nobody requested: if it is VALID it has no error,
\* and check_status only reads it, adds CACHED, and lets no update() go on.
QuietInv ==
  \A s \in Sheets : NoRequests(s) =>
    /\ "VALID" \in status[s] => ~error[s] /\ "ERROR" \notin status[s]
    /\ mainSheet = s =>
         /\ mainPc \in {"clear_error", "request"} => "VALID" \notin status[s]
         /\ mainPc \in {"read_status", "write_status"} => "VALID" \in status[s]
         /\ mainPc = "write_status" => mainSeen = status[s]

\* check_status never finds that a document is out of date.
LEMMA NeverOutdated == \A entry \in CachedUntil : Freshness(entry) = "CACHED"
  BY DEF CachedUntil, Freshness, GetDatetime

\* A worker only writes to the sheet of its request, which has one then.
LEMMA QuietFrame ==
  ASSUME TypeOK, NEW w \in Workers, WorkerStep(w), NEW s \in Sheets, NoRequests(s)
  PROVE  /\ status'[s] = status[s] /\ error'[s] = error[s]
         /\ UNCHANGED <<api, mainPc, mainSheet, mainSeen>>
<1>1. UNCHANGED <<api, mainPc, mainSheet, mainSeen>>
  BY DEF WorkerStep, RunStep, requestVars, mainVars, TakeRequest, LockSheet, PushDebug, EmitDebug,
         TransferFails, TransferEnds, LoadFails, RejectDocument, SetErrorStatus, AcceptDocument,
         SaveDocument, SaveFails, UnlockSheet, BeginPush, EndPush, UseFreedSheet
<1>2. CASE TakeRequest(w)
  <2>1. Head(pool) \in handle
    BY <1>2, TailDistinct, ElementsOfSeq DEF TakeRequest, TypeOK
  <2> QED BY <1>1, <1>2, <2>1 DEF TakeRequest
<1>3. CASE ~TakeRequest(w)
  <2>1. \/ UNCHANGED <<status, error>>
        \/ /\ wpc[w] # "idle"
           /\ status' = [status EXCEPT ![Sheet(w)] = status'[Sheet(w)]] \/ UNCHANGED status
           /\ error' = [error EXCEPT ![Sheet(w)] = error'[Sheet(w)]] \/ UNCHANGED error
    <3>1. CASE TransferFails(w) \/ LoadFails(w)
      BY <3>1 DEF TransferFails, LoadFails, At, TypeOK
    <3>2. CASE RejectDocument(w) \/ SaveFails(w)
      BY <3>2 DEF RejectDocument, SaveFails, At, TypeOK
    <3>3. CASE SetErrorStatus(w) \/ AcceptDocument(w)
      BY <3>3 DEF SetErrorStatus, AcceptDocument, At, TypeOK
    <3>4. CASE \/ LockSheet(w) \/ PushDebug(w) \/ EmitDebug(w) \/ TransferEnds(w)
               \/ SaveDocument(w) \/ UnlockSheet(w) \/ BeginPush(w) \/ EndPush(w)
               \/ UseFreedSheet(w)
      BY <3>4 DEF LockSheet, PushDebug, EmitDebug, TransferEnds, SaveDocument, UnlockSheet,
             BeginPush, EndPush, UseFreedSheet, sheetVars
    <3> QED BY <1>3, <3>1, <3>2, <3>3, <3>4 DEF WorkerStep, RunStep
  <2>2. wpc[w] # "idle" => Sheet(w) # s
    BY DEF TypeOK, Sheet, NoRequests
  <2> QED BY <1>1, <2>1, <2>2 DEF TypeOK
<1> QED BY <1>2, <1>3

\* Every step keeps QuietInv.
LEMMA QuietStep == TypeOK /\ QuietInv /\ [Next]_vars => QuietInv'
<1> SUFFICES ASSUME TypeOK, QuietInv, [Next]_vars, NEW s \in Sheets, NoRequests(s)'
             PROVE  /\ "VALID" \in status'[s] => ~error'[s] /\ "ERROR" \notin status'[s]
                    /\ mainSheet' = s =>
                         /\ mainPc' \in {"clear_error", "request"} => "VALID" \notin status'[s]
                         /\ mainPc' \in {"read_status", "write_status"} => "VALID" \in status'[s]
                         /\ mainPc' = "write_status" => mainSeen' = status'[s]
  BY DEF QuietInv
<1> DEFINE Goal == /\ "VALID" \in status'[s] => ~error'[s] /\ "ERROR" \notin status'[s]
                   /\ mainSheet' = s =>
                        /\ mainPc' \in {"clear_error", "request"} => "VALID" \notin status'[s]
                        /\ mainPc' \in {"read_status", "write_status"} => "VALID" \in status'[s]
                        /\ mainPc' = "write_status" => mainSeen' = status'[s]
<1>1. api \in [Requests -> Sheets \cup {NoSheet}]
  BY DEF TypeOK
<1>2. CASE \E w \in Workers : WorkerStep(w)
  <2>1. PICK w \in Workers : WorkerStep(w)
    BY <1>2
  <2>2. UNCHANGED api
    BY <2>1 DEF WorkerStep, RunStep, requestVars, TakeRequest, LockSheet, PushDebug, EmitDebug,
         TransferFails, TransferEnds, LoadFails, RejectDocument, SetErrorStatus, AcceptDocument,
         SaveDocument, SaveFails, UnlockSheet, BeginPush, EndPush, UseFreedSheet
  <2>3. NoRequests(s)
    BY <2>2 DEF NoRequests
  <2>4. QED
    BY <2>1, <2>3, QuietFrame DEF QuietInv
<1>3. ASSUME NEW z \in Sheets, PushRequest(z), GotoMain("loop") PROVE Goal
  <2>1. NoRequests(s) /\ UNCHANGED <<status, error>> /\ mainPc' = "loop"
    BY <1>1, <1>3, ConstantsAssumption
       DEF PushRequest, NoRequests, Fresh, sheetVars, GotoMain, MoveMain
  <2> QED BY <2>1 DEF QuietInv
<1>4. CASE TestStatus
  BY <1>4 DEF TestStatus, MainAt, GotoMain, MoveMain, AfterCheckStatus, requestVars, sheetVars,
              QuietInv, NoRequests
<1>5. CASE ReadStatus
  BY <1>5 DEF ReadStatus, MainAt, MoveMain, requestVars, sheetVars, QuietInv, NoRequests
<1>6. CASE WriteStatus
  <2>1. /\ NoRequests(s) /\ UNCHANGED error
        /\ mainSheet \in Sheets /\ Freshness(cachedUntil[mainSheet]) = "CACHED"
    BY <1>6, NeverOutdated DEF WriteStatus, MainAt, requestVars, NoRequests, TypeOK, OnSheet
  <2>2. /\ status' = [status EXCEPT ![mainSheet] = mainSeen \cup {"CACHED"}]
        /\ mainPc' = "loop" /\ mainPc = "write_status"
    BY <1>6, <2>1 DEF WriteStatus, MainAt, MoveMain, AfterCheckStatus
  <2> QED BY <2>1, <2>2 DEF QuietInv, TypeOK
<1>7. CASE ClearError
  <2>1. /\ NoRequests(s) /\ UNCHANGED <<status, mainSheet>> /\ mainPc = "clear_error"
        /\ error' = [error EXCEPT ![mainSheet] = FALSE] /\ mainPc' = "request"
    BY <1>7 DEF ClearError, MainAt, requestVars, NoRequests, GotoMain, MoveMain
  <2> QED BY <2>1 DEF QuietInv, TypeOK
<1>8. CASE UpdateRequest
  BY <1>3, <1>8 DEF UpdateRequest, MainAt, TypeOK, OnSheet
<1>9. CASE \/ LockDocument \/ ReadDocument \/ NumFinishQueue \/ PopFinishQueue \/ Shutdown
  BY <1>9 DEF LockDocument, ReadDocument, NumFinishQueue, PopFinishQueue, Shutdown, GotoMain,
         MoveMain, requestVars, sheetVars, QuietInv, NoRequests
<1>10. ASSUME NEW z \in Sheets,
              UpdateTryLock(z) \/ CheckStatus(z) \/ GetDocument(z) PROVE Goal
  BY <1>10 DEF UpdateTryLock, CheckStatus, GetDocument, EnterCall, requestVars, sheetVars,
               QuietInv, NoRequests
<1>11. ASSUME NEW z \in Sheets, Expire(z) PROVE Goal
  BY <1>11 DEF Expire, requestVars, mainVars, QuietInv, NoRequests
<1>12. CASE SetVerbose \/ Quit \/ \E d \in Dispatchers : Dispatch(d)
  BY <1>12 DEF SetVerbose, Quit, Dispatch, GotoMain, MoveMain, requestVars, sheetVars,
               QuietInv, NoRequests
<1>13. CASE Terminated \/ UNCHANGED vars
  BY <1>13 DEF Terminated, vars, requestVars, sheetVars, mainVars, QuietInv, NoRequests
<1>14. ASSUME NEW z \in Sheets, DirectRequest(z) PROVE Goal
  BY <1>3, <1>14 DEF DirectRequest
<1> QED BY <1>2, <1>4, <1>5, <1>6, <1>7, <1>8, <1>9, <1>10, <1>11, <1>12, <1>13, <1>14
        DEF Next, MainStep, ClientStep

\* The cache leaves no VALID sheet with an error.
LEMMA QuietInit == Init => QuietInv
<1> SUFFICES ASSUME Init, NEW s \in Sheets
             PROVE  "VALID" \in status[s] => ~error[s] /\ "ERROR" \notin status[s]
  BY DEF Init, QuietInv
<1>1. PICK made \in [Sheets -> CacheOutcomes] :
        /\ status = [z \in Sheets |-> made[z].status]
        /\ error = [z \in Sheets |-> made[z].error]
  BY DEF Init
<1>2. made[s] \in CacheOutcomes /\ status[s] = made[s].status /\ error[s] = made[s].error
  BY <1>1
<1>3. RejectedStatus({}) = {"ERROR"}
  BY DEF RejectedStatus, VRemove
<1>4. CASE made[s] = [status |-> AcceptedStatus, error |-> FALSE]
  BY <1>2, <1>4 DEF AcceptedStatus
<1>5. ASSUME NEW st \in {{}, RejectedStatus({})}, NEW e \in BOOLEAN,
             made[s] = [status |-> st, error |-> e]
      PROVE  "VALID" \notin status[s]
  BY <1>2, <1>3, <1>5
<1> QED BY <1>2, <1>4, <1>5 DEF CacheOutcomes

\* As long as nobody has requested a sheet that is VALID from its cache, update() does not
\* get as far as a request of it.
THEOREM UpdateOnlyUncached == Spec => []UpdateRefusesValid
<1>1. QuietInv => UpdateRefusesValid
  BY DEF QuietInv, UpdateRefusesValid, NoRequests
<1> QED
  BY <1>1, QuietInit, QuietStep, TypeCorrect, PTL DEF Spec
=============================================================================
