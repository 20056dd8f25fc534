------------------------- MODULE RequestSystemProofs -------------------------
(* Proofs, for every value of the constants, about the request pipeline.   *)
EXTENDS RequestSystemProperties, FiniteSetTheorems, TLAPS

\* A sequence over a set is one over any larger set.
LEMMA SeqWiden == ASSUME NEW S, NEW T, S \subseteq T, NEW q \in Seq(S) PROVE q \in Seq(T)
OBVIOUS

\* Appending a member of a set to a sequence over it stays in the set.
LEMMA AppendSeq == ASSUME NEW S, NEW q \in Seq(S), NEW e \in S PROVE Append(q, e) \in Seq(S)
OBVIOUS

\* The program starts well typed.
LEMMA InitType == Init => TypeOK
<1> SUFFICES ASSUME Init PROVE TypeOK
  OBVIOUS
<1>1. status \in [Sheets -> SUBSET StatusFlags] /\ error \in [Sheets -> BOOLEAN]
  <2>1. \A c \in CacheOutcomes : c.status \in SUBSET StatusFlags /\ c.error \in BOOLEAN
    <3>1. RejectedStatus({}) = {"ERROR"}
      BY DEF RejectedStatus, VRemove
    <3>2. TAKE c \in CacheOutcomes
    <3>3. CASE c = [status |-> AcceptedStatus, error |-> FALSE]
      BY <3>3 DEF AcceptedStatus, StatusFlags
    <3>4. ASSUME NEW st \in {{}, RejectedStatus({})}, NEW e \in BOOLEAN,
                 c = [status |-> st, error |-> e]
          PROVE  c.status \in SUBSET StatusFlags /\ c.error \in BOOLEAN
      BY <3>1, <3>4 DEF StatusFlags
    <3> QED BY <3>2, <3>3, <3>4 DEF CacheOutcomes
  <2>2. PICK made \in [Sheets -> CacheOutcomes] :
          /\ status = [s \in Sheets |-> made[s].status]
          /\ error = [s \in Sheets |-> made[s].error]
    BY DEF Init
  <2>3. \A s \in Sheets : made[s] \in CacheOutcomes
    BY <2>2
  <2> QED BY <2>1, <2>2, <2>3
<1>2. pool \in Seq(handle) /\ finishQueue \in Seq(handle)
  BY DEF Init
<1>3. wpc \in [Workers -> WorkerPcs] /\ wreq \in [Workers -> handle \cup {NoRequest}]
  BY DEF Init, WorkerPcs
<1>4. \A w \in Workers : wpc[w] = "idle" <=> wreq[w] = NoRequest
  BY DEF Init
<1>5. pending \in [Dispatchers -> Nat] /\ debugQueue \in Nat /\ chatter \in Nat
  BY ConstantsAssumption DEF Init
<1> QED
  BY <1>1, <1>2, <1>3, <1>4, <1>5 DEF Init, TypeOK, MainPcs, OnSheet, Failures

\* Main::request allocates one more Request and may hand it to the pool.
LEMMA PushRequestType ==
  ASSUME TypeOK, NEW s \in Sheets, PushRequest(s), GotoMain("loop") PROVE TypeOK'
<1> USE ConstantsAssumption
        DEF TypeOK, sheetVars, queueVars, MoveMain, GotoMain, MainPcs, OnSheet, ClientCalls
<1>1. PICK r \in Fresh, ok \in BOOLEAN :
        /\ api' = [api EXCEPT ![r] = s]
        /\ handle' = IF ok THEN handle \cup {r} ELSE handle
        /\ loud' = IF verbose THEN loud \cup {r} ELSE loud
        /\ pool' = IF ok THEN Append(pool, r) ELSE pool
        /\ UNCHANGED <<sheetVars, deleted, wpc, wreq, queueVars, verbose, sheetsFreed, failure>>
  BY DEF PushRequest
<1>2. r \in Requests /\ handle \subseteq handle' /\ handle' \subseteq Requests /\ loud' \subseteq Requests
  BY <1>1 DEF Fresh
<1>3. api' \in [Requests -> Sheets \cup {NoSheet}] /\ \A q \in handle' : api'[q] \in Sheets
  BY <1>1, <1>2
<1>4. pool' \in Seq(handle') /\ finishQueue' \in Seq(handle')
  <2>1. pool \in Seq(handle') /\ finishQueue \in Seq(handle')
    BY <1>2, SeqWiden
  <2>2. CASE ok
    <3>1. r \in handle' /\ pool' = Append(pool, r)
      BY <1>1, <2>2
    <3>2. Append(pool, r) \in Seq(handle')
      BY <2>1, <3>1, AppendSeq
    <3> QED BY <1>1, <2>1, <3>1, <3>2
  <2>3. CASE ~ok
    BY <1>1, <2>1, <2>3
  <2> QED BY <2>2, <2>3
<1>5. wreq' \in [Workers -> handle' \cup {NoRequest}]
  BY <1>1, <1>2
<1> QED
  BY <1>1, <1>2, <1>3, <1>4, <1>5

\* Every step of every thread keeps the state well typed: one case per action.
THEOREM TypeStep == TypeOK /\ [Next]_vars => TypeOK'
<1> SUFFICES ASSUME TypeOK, [Next]_vars PROVE TypeOK'
  OBVIOUS
<1> USE ConstantsAssumption, SeqWiden
        DEF TypeOK, sheetVars, requestVars, workerVars, queueVars, mainVars, vars,
            MainAt, At, MoveMain, GotoMain, GotoWorker, MainPcs, WorkerPcs, OnSheet,
            ClientCalls, Failures, Sheet
<1>1. CASE TestStatus
  BY <1>1 DEF TestStatus, AfterCheckStatus
<1>2. CASE ReadStatus
  BY <1>2 DEF ReadStatus
<1>3. CASE WriteStatus
  BY <1>3 DEF WriteStatus, AfterCheckStatus, Freshness, GetDatetime, CachedUntil, StatusFlags
<1>4. CASE ClearError
  BY <1>4 DEF ClearError
<1>5. CASE UpdateRequest
  BY <1>5, PushRequestType DEF UpdateRequest
<1>6. CASE LockDocument
  BY <1>6 DEF LockDocument
<1>7. CASE ReadDocument
  BY <1>7 DEF ReadDocument, Unlock
<1>8. CASE NumFinishQueue
  BY <1>8 DEF NumFinishQueue, FinishLocked
<1>9. CASE PopFinishQueue
  <2>1. CASE finishQueue = <<>>
    BY <1>9, <2>1 DEF PopFinishQueue
  <2>2. CASE finishQueue # <<>>
    <3>1. Head(finishQueue) \in handle /\ Tail(finishQueue) \in Seq(handle)
      BY <2>2
    <3>2. PICK n \in IF MayChatter(Head(finishQueue)) THEN {0, 1} ELSE {0} :
            /\ debugQueue' = debugQueue + n
            /\ pending' = [pending EXCEPT !["debug"] = @ + n]
            /\ chatter' = chatter - n
      BY <1>9, <2>2 DEF PopFinishQueue
    <3>3. debugQueue' \in Nat /\ pending' \in [Dispatchers -> Nat] /\ chatter' \in Nat
      BY <3>2 DEF MayChatter, Dispatchers
    <3>4. /\ finishQueue' = Tail(finishQueue)
          /\ deleted' = deleted \cup {Head(finishQueue)}
          /\ Unlock(api[Head(finishQueue)])
          /\ GotoMain("loop")
          /\ UNCHANGED <<status, error, cachedUntil, api, handle, loud, workerVars, verbose,
                         sheetsFreed>>
      BY <1>9, <2>2 DEF PopFinishQueue
    <3>5. lock' \in [Sheets -> {"free", "update", "document"} \cup Workers]
      BY <3>4 DEF Unlock
    <3>6. failure' \in Failures
      BY <3>4 DEF Unlock
    <3> QED
      BY <3>1, <3>3, <3>4, <3>5, <3>6
  <2> QED BY <2>1, <2>2
<1>10. CASE Shutdown
  BY <1>10 DEF Shutdown
<1>11. ASSUME NEW s \in Sheets, UpdateTryLock(s) PROVE TypeOK'
  BY <1>11 DEF UpdateTryLock, MayCall, EnterCall, Fresh
<1>12. ASSUME NEW s \in Sheets, CheckStatus(s) PROVE TypeOK'
  BY <1>12 DEF CheckStatus, MayCall, EnterCall
<1>13. ASSUME NEW s \in Sheets, DirectRequest(s) PROVE TypeOK'
  BY <1>13, PushRequestType DEF DirectRequest
<1>14. ASSUME NEW s \in Sheets, GetDocument(s) PROVE TypeOK'
  BY <1>14 DEF GetDocument, MayCall, EnterCall
<1>15. ASSUME NEW s \in Sheets, Expire(s) PROVE TypeOK'
  BY <1>15 DEF Expire, CachedUntil
<1>16. CASE SetVerbose
  BY <1>16 DEF SetVerbose, MayCall
<1>17. CASE Quit
  BY <1>17 DEF Quit
<1>18. ASSUME NEW d \in Dispatchers, Dispatch(d) PROVE TypeOK'
  BY <1>18 DEF Dispatch, Dispatchers, SignalDebug, SignalFinished
<1>19. ASSUME NEW w \in Workers, TakeRequest(w) PROVE TypeOK'
  BY <1>19 DEF TakeRequest, Dispatchers
<1>20. ASSUME NEW w \in Workers, LockSheet(w) PROVE TypeOK'
  BY <1>20 DEF LockSheet
<1>21. ASSUME NEW w \in Workers, PushDebug(w) PROVE TypeOK'
  BY <1>21 DEF PushDebug, MayChatter
<1>22. ASSUME NEW w \in Workers, EmitDebug(w) PROVE TypeOK'
  BY <1>22 DEF EmitDebug, Dispatchers
<1>23. ASSUME NEW w \in Workers, TransferFails(w) PROVE TypeOK'
  BY <1>23 DEF TransferFails
<1>24. ASSUME NEW w \in Workers, TransferEnds(w) PROVE TypeOK'
  BY <1>24 DEF TransferEnds
<1>25. ASSUME NEW w \in Workers, LoadFails(w) PROVE TypeOK'
  BY <1>25 DEF LoadFails
<1>26. ASSUME NEW w \in Workers, RejectDocument(w) PROVE TypeOK'
  BY <1>26 DEF RejectDocument
<1>27. ASSUME NEW w \in Workers, SetErrorStatus(w) PROVE TypeOK'
  BY <1>27 DEF SetErrorStatus, RejectedStatus, VRemove, StatusFlags
<1>28. ASSUME NEW w \in Workers, AcceptDocument(w) PROVE TypeOK'
  BY <1>28 DEF AcceptDocument, AcceptedStatus, StatusFlags
<1>29. ASSUME NEW w \in Workers, SaveDocument(w) PROVE TypeOK'
  BY <1>29 DEF SaveDocument
<1>30. ASSUME NEW w \in Workers, SaveFails(w) PROVE TypeOK'
  BY <1>30 DEF SaveFails
<1>31. ASSUME NEW w \in Workers, UnlockSheet(w) PROVE TypeOK'
  BY <1>31 DEF UnlockSheet, Unlock
<1>32. ASSUME NEW w \in Workers, BeginPush(w) PROVE TypeOK'
  BY <1>32 DEF BeginPush, FinishLocked
<1>33. ASSUME NEW w \in Workers, EndPush(w) PROVE TypeOK'
  BY <1>33 DEF EndPush, Dispatchers
<1>34. ASSUME NEW w \in Workers, UseFreedSheet(w) PROVE TypeOK'
  BY <1>34 DEF UseFreedSheet
<1>35. CASE Terminated \/ UNCHANGED vars
  BY <1>35 DEF Terminated
<1> QED
  BY <1>1, <1>2, <1>3, <1>4, <1>5, <1>6, <1>7, <1>8, <1>9, <1>10, <1>11, <1>12, <1>13, <1>14, <1>15, <1>16, <1>17, <1>18, <1>19, <1>20, <1>21, <1>22, <1>23, <1>24, <1>25, <1>26, <1>27, <1>28, <1>29, <1>30, <1>31, <1>32, <1>33, <1>34, <1>35 DEF Next, MainStep, ClientStep, WorkerStep, RunStep

-----------------------------------------------------------------------------
(* RequestOnce.                                                            *)

\* Appending adds one element, and a new one leaves a sequence free of repetitions.
LEMMA AppendDistinct ==
  ASSUME NEW S, NEW q \in Seq(S), NEW e \in S
  PROVE  /\ Elements(Append(q, e)) = Elements(q) \cup {e}
         /\ Distinct(q) /\ e \notin Elements(q) => Distinct(Append(q, e))
<1>1. /\ DOMAIN Append(q, e) = 1 .. Len(q) + 1
      /\ \A i \in 1 .. Len(q) : Append(q, e)[i] = q[i]
      /\ Append(q, e)[Len(q) + 1] = e
      /\ DOMAIN q = 1 .. Len(q) /\ Len(q) \in Nat
  OBVIOUS
<1>2. Elements(Append(q, e)) = Elements(q) \cup {e}
  BY <1>1 DEF Elements
<1>3. ASSUME Distinct(q), e \notin Elements(q) PROVE Distinct(Append(q, e))
  BY <1>1, <1>3 DEF Elements, Distinct
<1> QED BY <1>2, <1>3

\* Without repetitions, taking the head off a sequence removes exactly that element.
LEMMA TailDistinct ==
  ASSUME NEW S, NEW q \in Seq(S), q # <<>>, Distinct(q)
  PROVE  /\ Head(q) \in Elements(q)
         /\ Elements(Tail(q)) = Elements(q) \ {Head(q)}
         /\ Distinct(Tail(q))
<1>1. /\ DOMAIN q = 1 .. Len(q) /\ Len(q) \in Nat \ {0}
      /\ Head(q) = q[1]
      /\ DOMAIN Tail(q) = 1 .. Len(q) - 1
      /\ \A i \in 1 .. Len(q) - 1 : Tail(q)[i] = q[i + 1]
  OBVIOUS
<1>2. Head(q) \in Elements(q)
  BY <1>1 DEF Elements
<1>3. Elements(Tail(q)) \subseteq Elements(q) \ {Head(q)}
  BY <1>1 DEF Elements, Distinct
<1>4. ASSUME NEW x \in Elements(q) \ {Head(q)} PROVE x \in Elements(Tail(q))
  <2>1. PICK i \in 1 .. Len(q) : x = q[i] /\ i # 1
    BY <1>1 DEF Elements
  <2>2. i - 1 \in 1 .. Len(q) - 1 /\ x = Tail(q)[i - 1]
    BY <1>1, <2>1
  <2> QED BY <1>1, <2>2 DEF Elements
<1>5. Distinct(Tail(q))
  BY <1>1 DEF Distinct
<1> QED BY <1>2, <1>3, <1>4, <1>5

\* What the sequences hold are accepted requests.
LEMMA ElementsOfSeq == ASSUME NEW S, NEW q \in Seq(S) PROVE Elements(q) \subseteq S
  BY DEF Elements

\* The only steps that change where a request is.
LEMMA PlaceFrame ==
  ASSUME [Next]_vars
  PROVE  \/ \E s \in Sheets : PushRequest(s)
         \/ PushRequest(mainSheet) /\ MainAt("request")
         \/ PopFinishQueue
         \/ \E w \in Workers : TakeRequest(w) \/ EndPush(w)
         \/ UNCHANGED <<pool, wreq, finishQueue, deleted, handle>>
  BY DEF Next, MainStep, ClientStep, WorkerStep, RunStep, Terminated, vars, sheetVars, requestVars,
         workerVars, queueVars, mainVars, GotoMain, EnterCall, TestStatus, ReadStatus,
         WriteStatus, ClearError, UpdateRequest, LockDocument, ReadDocument, NumFinishQueue,
         Shutdown, UpdateTryLock, CheckStatus, DirectRequest, GetDocument,
         Expire, SetVerbose, Quit, Dispatch, LockSheet, PushDebug, EmitDebug,
         TransferFails, TransferEnds, LoadFails, RejectDocument, SetErrorStatus,
         AcceptDocument, SaveDocument, SaveFails, UnlockSheet, BeginPush, UseFreedSheet

\* Main::request (eapi.cc:71-80) puts a new request in one place.
LEMMA PushRequestOnce ==
  ASSUME TypeOK, RequestOnce, NEW s \in Sheets, PushRequest(s) PROVE RequestOnce'
<1>1. PICK r \in Fresh, ok \in BOOLEAN :
        /\ handle' = IF ok THEN handle \cup {r} ELSE handle
        /\ pool' = IF ok THEN Append(pool, r) ELSE pool
        /\ UNCHANGED <<wreq, finishQueue, deleted>>
  BY DEF PushRequest, queueVars
<1>2. r \in Requests /\ r \notin handle /\ r # NoRequest
  BY ConstantsAssumption DEF Fresh, TypeOK
<1>3. CASE ~ok
  BY <1>1, <1>3 DEF RequestOnce, RunningSet
<1>4. CASE ok
  <2>1. pool \in Seq(Requests)
    BY SeqWiden DEF TypeOK
  <2>2. r \notin Elements(pool) \cup RunningSet \cup Elements(finishQueue) \cup deleted
    BY <1>2 DEF RequestOnce
  <2>3. Elements(pool') = Elements(pool) \cup {r} /\ Distinct(pool')
    BY <1>1, <1>2, <1>4, <2>1, <2>2, AppendDistinct DEF RequestOnce
  <2> QED BY <1>1, <1>4, <2>2, <2>3 DEF RequestOnce, RunningSet
<1> QED BY <1>3, <1>4

\* Starting a task moves a request from the pool to an idle worker's hands.
LEMMA TakeRequestOnce ==
  ASSUME TypeOK, RequestOnce, NEW w \in Workers, TakeRequest(w) PROVE RequestOnce'
<1> DEFINE r == Head(pool)
<1>1. /\ r \in Elements(pool) /\ r \in handle /\ r # NoRequest
      /\ Elements(Tail(pool)) = Elements(pool) \ {r} /\ Distinct(Tail(pool))
  BY TailDistinct, ElementsOfSeq, ConstantsAssumption DEF TypeOK, RequestOnce, TakeRequest
<1>2. /\ pool' = Tail(pool) /\ wreq' = [wreq EXCEPT ![w] = r]
      /\ UNCHANGED <<finishQueue, deleted, handle>>
  BY <1>1 DEF TakeRequest, requestVars
<1>3. wreq[w] = NoRequest /\ wreq \in [Workers -> handle \cup {NoRequest}]
  BY DEF TakeRequest, At, TypeOK
<1>4. RunningSet' = RunningSet \cup {r} /\ r \notin RunningSet
  BY <1>1, <1>2, <1>3 DEF RunningSet, RequestOnce
<1>5. \A u, v \in Workers : wreq'[u] = wreq'[v] /\ wreq'[u] # NoRequest => u = v
  BY <1>2, <1>3, <1>4 DEF RunningSet, RequestOnce
<1> QED BY <1>1, <1>2, <1>4, <1>5 DEF RequestOnce

\* push_finish_queue (request.cc:151-155) moves a request out of its worker's hands.
LEMMA EndPushOnce ==
  ASSUME TypeOK, RequestOnce, NEW w \in Workers, EndPush(w) PROVE RequestOnce'
<1> DEFINE r == wreq[w]
<1>1. r \in handle /\ r # NoRequest /\ r \in RunningSet
  BY ConstantsAssumption DEF EndPush, At, TypeOK, RunningSet
<1>2. /\ finishQueue' = Append(finishQueue, r) /\ wreq' = [wreq EXCEPT ![w] = NoRequest]
      /\ UNCHANGED <<pool, deleted, handle>>
  BY DEF EndPush, requestVars
<1>3. Elements(finishQueue') = Elements(finishQueue) \cup {r} /\ Distinct(finishQueue')
  BY <1>1, <1>2, AppendDistinct DEF TypeOK, RequestOnce
<1>4. RunningSet' = RunningSet \ {r}
  BY <1>1, <1>2 DEF RunningSet, RequestOnce, TypeOK
<1>5. \A u, v \in Workers : wreq'[u] = wreq'[v] /\ wreq'[u] # NoRequest => u = v
  BY <1>2 DEF RequestOnce, TypeOK
<1> QED BY <1>1, <1>2, <1>3, <1>4, <1>5 DEF RequestOnce

\* request_finished (eapi.cc:82-88) moves a request from the finish queue to the deleted ones.
LEMMA PopFinishQueueOnce ==
  ASSUME TypeOK, RequestOnce, PopFinishQueue PROVE RequestOnce'
<1>1. CASE finishQueue = <<>>
  BY <1>1 DEF PopFinishQueue, RequestOnce, RunningSet, queueVars, workerVars
<1>2. CASE finishQueue # <<>>
  <2>1. /\ Head(finishQueue) \in Elements(finishQueue)
        /\ Elements(Tail(finishQueue)) = Elements(finishQueue) \ {Head(finishQueue)}
        /\ Distinct(Tail(finishQueue))
    BY <1>2, TailDistinct DEF TypeOK, RequestOnce
  <2>2. /\ finishQueue' = Tail(finishQueue) /\ deleted' = deleted \cup {Head(finishQueue)}
        /\ UNCHANGED <<pool, wreq, handle>>
    BY <1>2 DEF PopFinishQueue, workerVars
  <2> QED BY <2>1, <2>2 DEF RequestOnce, RunningSet
<1> QED BY <1>1, <1>2

\* No step loses or doubles a request.
LEMMA RequestOnceStep == TypeOK /\ RequestOnce /\ [Next]_vars => RequestOnce'
<1> SUFFICES ASSUME TypeOK, RequestOnce, [Next]_vars PROVE RequestOnce'
  OBVIOUS
<1>1. ASSUME NEW s \in Sheets, PushRequest(s) PROVE RequestOnce'
  BY <1>1, PushRequestOnce
<1>2. CASE PushRequest(mainSheet) /\ MainAt("request")
  BY <1>2, PushRequestOnce DEF TypeOK, MainAt, OnSheet
<1>3. CASE PopFinishQueue
  BY <1>3, PopFinishQueueOnce
<1>4. ASSUME NEW w \in Workers, TakeRequest(w) \/ EndPush(w) PROVE RequestOnce'
  BY <1>4, TakeRequestOnce, EndPushOnce
<1>5. CASE UNCHANGED <<pool, wreq, finishQueue, deleted, handle>>
  BY <1>5 DEF RequestOnce, RunningSet
<1> QED BY <1>1, <1>2, <1>3, <1>4, <1>5, PlaceFrame

\* The state of the pipeline is always of the type TypeOK gives it.
THEOREM TypeCorrect == Spec => []TypeOK
  BY InitType, TypeStep, PTL DEF Spec

\* Every accepted request (eapi.cc:71-80) is always in one place, and there once.
THEOREM RequestsOnce == Spec => []RequestOnce
<1>1. Init => RequestOnce
  BY DEF Init, RequestOnce, RunningSet, Elements, Distinct
<1> QED
  BY <1>1, RequestOnceStep, TypeCorrect, PTL DEF Spec

-----------------------------------------------------------------------------
(* ErrorExcludesValid.  The status that check_status holds in a register    *)
(* between its read and its write obeys the same rule as the one in memory. *)

ErrorInv ==
  /\ ErrorExcludesValid
  /\ ~({"VALID", "ERROR"} \subseteq mainSeen)

\* The only steps that write m_status or read it to write it back.
LEMMA StatusFrame ==
  ASSUME [Next]_vars
  PROVE  \/ ReadStatus \/ WriteStatus
         \/ \E w \in Workers : SetErrorStatus(w) \/ AcceptDocument(w)
         \/ UNCHANGED <<status, mainSeen>>
  BY DEF Next, MainStep, ClientStep, WorkerStep, RunStep, Terminated, vars, sheetVars, requestVars,
         workerVars, queueVars, mainVars, GotoMain, EnterCall, TestStatus, ClearError,
         UpdateRequest, PushRequest, LockDocument, ReadDocument, NumFinishQueue,
         PopFinishQueue, Shutdown, UpdateTryLock, CheckStatus, DirectRequest, GetDocument,
         Expire, SetVerbose, Quit, Dispatch, TakeRequest, LockSheet, PushDebug, EmitDebug,
         TransferFails, TransferEnds, LoadFails, RejectDocument, SaveDocument, SaveFails,
         UnlockSheet, BeginPush, EndPush, UseFreedSheet

\* parse_cache leaves no sheet both VALID and in ERROR.
LEMMA ErrorInit == Init => ErrorInv
<1> SUFFICES ASSUME Init PROVE ErrorInv
  OBVIOUS
<1>1. \A c \in CacheOutcomes : ~({"VALID", "ERROR"} \subseteq c.status)
  <2>1. RejectedStatus({}) = {"ERROR"}
    BY DEF RejectedStatus, VRemove
  <2>2. TAKE c \in CacheOutcomes
  <2>3. CASE c = [status |-> AcceptedStatus, error |-> FALSE]
    BY <2>3 DEF AcceptedStatus
  <2>4. ASSUME NEW st \in {{}, RejectedStatus({})}, NEW e \in BOOLEAN,
               c = [status |-> st, error |-> e]
        PROVE  ~({"VALID", "ERROR"} \subseteq c.status)
    BY <2>1, <2>4
  <2> QED BY <2>2, <2>3, <2>4 DEF CacheOutcomes
<1>2. PICK made \in [Sheets -> CacheOutcomes] : status = [s \in Sheets |-> made[s].status]
  BY DEF Init
<1>3. \A s \in Sheets : made[s] \in CacheOutcomes
  BY <1>2
<1>4. ErrorExcludesValid
  BY <1>1, <1>2, <1>3 DEF ErrorExcludesValid
<1> QED BY <1>4 DEF ErrorInv, Init

\* No step makes a status, in memory or in a register, both VALID and ERROR.
LEMMA ErrorStep == TypeOK /\ ErrorInv /\ [Next]_vars => ErrorInv'
<1> SUFFICES ASSUME TypeOK, ErrorInv, [Next]_vars PROVE ErrorInv'
  OBVIOUS
<1> USE DEF ErrorInv, ErrorExcludesValid
<1>1. CASE ReadStatus
  BY <1>1 DEF ReadStatus, MainAt, sheetVars, TypeOK, OnSheet
<1>2. CASE WriteStatus
  <2>1. Freshness(cachedUntil[mainSheet]) \in {"OUTDATED", "CACHED"}
    BY DEF Freshness
  <2> QED BY <1>2, <2>1 DEF WriteStatus, TypeOK
<1>3. ASSUME NEW w \in Workers, SetErrorStatus(w) PROVE ErrorInv'
  BY <1>3 DEF SetErrorStatus, RejectedStatus, VRemove, mainVars, TypeOK
<1>4. ASSUME NEW w \in Workers, AcceptDocument(w) PROVE ErrorInv'
  BY <1>4 DEF AcceptDocument, AcceptedStatus, mainVars, TypeOK
<1>5. CASE UNCHANGED <<status, mainSeen>>
  BY <1>5
<1> QED BY <1>1, <1>2, <1>3, <1>4, <1>5, StatusFrame

\* A sheet is never VALID and in ERROR: the parser and check_status may lose one
\* another's change of m_status, but never mix them into a contradiction.
THEOREM ErrorNeverValid == Spec => []ErrorExcludesValid
<1>1. ErrorInv => ErrorExcludesValid
  BY DEF ErrorInv
<1> QED
  BY <1>1, ErrorInit, ErrorStep, TypeCorrect, PTL DEF Spec
-----------------------------------------------------------------------------
(* PopFindsRequest.  Only the main thread takes requests off the finish    *)
(* queue.  If it saw some, or read the length while a worker was pushing,  *)
(* then the queue is not empty, or will not be once that worker has gone.  *)

PopInv ==
  /\ PopFindsRequest
  /\ mainPc = "pop_finish_queue" => finishQueue # <<>> \/ FinishLocked

\* A worker that is not pushing does not release the finish queue's mutex.
LEMMA StaysLocked ==
  ASSUME TypeOK, NEW w \in Workers, NEW pc, GotoWorker(w, pc), wpc[w] # "push", FinishLocked
  PROVE  FinishLocked'
  BY DEF TypeOK, GotoWorker, FinishLocked

\* The other steps neither shorten the finish queue, nor reach pop_finish_queue, nor
\* let a worker out of push_finish_queue.
LEMMA PopFrame ==
  ASSUME TypeOK, [Next]_vars
  PROVE  \/ NumFinishQueue \/ PopFinishQueue
         \/ \E w \in Workers : TakeRequest(w) \/ EndPush(w)
         \/ /\ UNCHANGED finishQueue /\ (FinishLocked => FinishLocked')
            /\ failure' = "pop_finish_queue" => failure = "pop_finish_queue"
            /\ mainPc' = "pop_finish_queue" => mainPc = "pop_finish_queue"
<1>1. ASSUME NEW w \in Workers, WorkerStep(w), ~TakeRequest(w), ~EndPush(w)
      PROVE  /\ UNCHANGED <<finishQueue, mainPc>>
             /\ failure' = "pop_finish_queue" => failure = "pop_finish_queue"
             /\ \/ UNCHANGED wpc
                \/ wpc[w] # "push" /\ \E pc \in WorkerPcs : GotoWorker(w, pc)
  BY <1>1 DEF WorkerStep, RunStep, sheetVars, requestVars, workerVars, queueVars, mainVars, LockSheet,
         PushDebug, EmitDebug, TransferFails, TransferEnds, LoadFails, RejectDocument,
         SetErrorStatus, AcceptDocument, SaveDocument, SaveFails, UnlockSheet, BeginPush,
         UseFreedSheet, At, Unlock, WorkerPcs
<1>2. ASSUME NEW w \in Workers, WorkerStep(w), ~TakeRequest(w), ~EndPush(w), FinishLocked
      PROVE  FinishLocked'
  BY <1>1, <1>2, StaysLocked DEF FinishLocked
<1>3. ASSUME MainStep \/ ClientStep \/ (\E d \in Dispatchers : Dispatch(d)) \/ Terminated
             \/ UNCHANGED vars,
             ~NumFinishQueue, ~PopFinishQueue
      PROVE  /\ UNCHANGED <<finishQueue, wpc>>
             /\ failure' = "pop_finish_queue" => failure = "pop_finish_queue"
             /\ mainPc' = "pop_finish_queue" => mainPc = "pop_finish_queue"
  BY <1>3 DEF MainStep, ClientStep, Terminated, vars, sheetVars, requestVars,
         workerVars, queueVars, mainVars, GotoMain, MoveMain, EnterCall, TestStatus,
         ReadStatus, WriteStatus, ClearError, UpdateRequest, PushRequest, LockDocument,
         ReadDocument, Shutdown, UpdateTryLock, CheckStatus, DirectRequest, GetDocument,
         Expire, SetVerbose, Quit, Dispatch, Unlock, AfterCheckStatus
<1> QED BY <1>1, <1>2, <1>3 DEF Next, FinishLocked

\* Every step keeps PopInv.
LEMMA PopStep == TypeOK /\ PopInv /\ [Next]_vars => PopInv'
<1> SUFFICES ASSUME TypeOK, PopInv, [Next]_vars PROVE PopInv'
  OBVIOUS
<1> USE DEF PopInv, PopFindsRequest
<1>1. CASE NumFinishQueue
  BY <1>1 DEF NumFinishQueue, MainAt, GotoMain, MoveMain, queueVars, workerVars, FinishLocked
<1>2. CASE PopFinishQueue
  BY <1>2 DEF PopFinishQueue, MainAt, GotoMain, MoveMain, Unlock
<1>3. ASSUME NEW w \in Workers, TakeRequest(w) \/ EndPush(w) PROVE PopInv'
  <2>1. CASE TakeRequest(w)
    BY <1>3, <2>1, StaysLocked DEF TakeRequest, At, mainVars
  <2>2. CASE EndPush(w)
    BY <1>3, <2>2 DEF EndPush
  <2> QED BY <1>3, <2>1, <2>2
<1>4. CASE /\ UNCHANGED finishQueue /\ (FinishLocked => FinishLocked')
           /\ failure' = "pop_finish_queue" => failure = "pop_finish_queue"
           /\ mainPc' = "pop_finish_queue" => mainPc = "pop_finish_queue"
  BY <1>4
<1> QED BY <1>1, <1>2, <1>3, <1>4, PopFrame

\* The assertion of pop_finish_queue never fails.
THEOREM PopAssertion == Spec => []PopFindsRequest
<1>1. Init => PopInv
  BY DEF Init, PopInv, PopFindsRequest
<1>2. PopInv => PopFindsRequest
  BY DEF PopInv
<1> QED
  BY <1>1, <1>2, PopStep, TypeCorrect, PTL DEF Spec

-----------------------------------------------------------------------------
(* ExitDrained.                                                            *)

ExitInv == mainPc = "exited" => pool = <<>> /\ \A w \in Workers : wpc[w] = "idle"

\* After ThreadPool::shutdown no worker has anything to do, and nothing gives it a task.
LEMMA ExitStep == ExitInv /\ [Next]_vars => ExitInv'
<1> SUFFICES ASSUME ExitInv, [Next]_vars PROVE ExitInv'
  OBVIOUS
<1>1. ASSUME NEW w \in Workers, WorkerStep(w) PROVE ExitInv'
  <2>1. UNCHANGED mainPc /\ (wpc[w] # "idle" \/ pool # <<>>)
    BY <1>1 DEF WorkerStep, RunStep, mainVars, TakeRequest, LockSheet, PushDebug, EmitDebug,
         TransferFails, TransferEnds, LoadFails, RejectDocument, SetErrorStatus,
         AcceptDocument, SaveDocument, SaveFails, UnlockSheet, BeginPush, EndPush,
         UseFreedSheet, At
  <2> QED BY <2>1 DEF ExitInv
<1>2. CASE Shutdown
  BY <1>2 DEF Shutdown, ExitInv, workerVars
<1>3. ASSUME MainStep \/ ClientStep \/ (\E d \in Dispatchers : Dispatch(d)) \/ Terminated
             \/ UNCHANGED vars,
             ~Shutdown
      PROVE  mainPc' = "exited" => mainPc = "exited" /\ UNCHANGED <<pool, wpc>>
  BY <1>3 DEF MainStep, ClientStep, Terminated, vars, workerVars, mainVars, GotoMain,
         MoveMain, EnterCall, TestStatus, ReadStatus, WriteStatus, ClearError, UpdateRequest,
         LockDocument, ReadDocument, NumFinishQueue, PopFinishQueue, UpdateTryLock,
         CheckStatus, DirectRequest, GetDocument, Expire, SetVerbose, Quit, Dispatch,
         AfterCheckStatus, MainAt, MayCall
<1> QED BY <1>1, <1>2, <1>3 DEF Next, ExitInv

\* When ~Main has deleted the queues' mutexes, every accepted request has been pushed.
THEOREM ExitIsDrained == Spec => []ExitDrained
<1>1. Init => ExitInv
  BY DEF Init, ExitInv
<1>2. TypeOK /\ RequestOnce /\ ExitInv => ExitDrained
  BY DEF TypeOK, RequestOnce, RunningSet, ExitInv, ExitDrained, Elements
<1> QED
  BY <1>1, <1>2, ExitStep, TypeCorrect, RequestsOnce, PTL DEF Spec
-----------------------------------------------------------------------------
(* SheetExclusive.  As long as nobody but the owner unlocks a sheet, who    *)
(* works on it owns its mutex; only ~Request unlocks for somebody else.     *)

LockInv ==
  \A s \in Sheets : (\A r \in deleted : api[r] # s) =>
    /\ \A w \in Workers : wpc[w] \in InSheet /\ Sheet(w) = s => lock[s] = w
    /\ mainPc = "read_document" /\ mainSheet = s => lock[s] = "document"

\* The only steps that take or release a sheet's mutex, or change who is at work on a sheet.
LEMMA LockFrame ==
  ASSUME TypeOK, [Next]_vars
  PROVE  \/ \E s \in Sheets : UpdateTryLock(s)
         \/ UpdateRequest \/ \E s \in Sheets : DirectRequest(s)
         \/ LockDocument \/ ReadDocument \/ PopFinishQueue
         \/ \E w \in Workers : \/ TakeRequest(w) \/ LockSheet(w) \/ UnlockSheet(w) \/ EndPush(w)
         \/ /\ UNCHANGED <<lock, api, deleted, wreq>>
            /\ \A w \in Workers : wpc'[w] \in InSheet => wpc[w] \in InSheet
            /\ mainPc' = "read_document" => mainPc = "read_document" /\ mainSheet' = mainSheet
<1>1. ASSUME NEW w \in Workers, WorkerStep(w),
             ~TakeRequest(w), ~LockSheet(w), ~UnlockSheet(w), ~EndPush(w)
      PROVE  /\ UNCHANGED <<lock, api, deleted, wreq, mainPc, mainSheet>>
             /\ \/ UNCHANGED wpc
                \/ wpc[w] \in InSheet /\ \E pc \in WorkerPcs : GotoWorker(w, pc)
                \/ GotoWorker(w, "push")
  BY <1>1 DEF WorkerStep, RunStep, sheetVars, requestVars, workerVars, mainVars, PushDebug, EmitDebug,
         TransferFails, TransferEnds, LoadFails, RejectDocument, SetErrorStatus,
         AcceptDocument, SaveDocument, SaveFails, BeginPush, UseFreedSheet, At, WorkerPcs,
         InSheet
<1>2. ASSUME NEW w \in Workers, WorkerStep(w),
             ~TakeRequest(w), ~LockSheet(w), ~UnlockSheet(w), ~EndPush(w)
      PROVE  \A v \in Workers : wpc'[v] \in InSheet => wpc[v] \in InSheet
  BY <1>1, <1>2 DEF GotoWorker, InSheet, TypeOK
<1>3. ASSUME MainStep \/ ClientStep \/ (\E d \in Dispatchers : Dispatch(d)) \/ Terminated
             \/ UNCHANGED vars,
             ~UpdateRequest, ~LockDocument, ~ReadDocument, ~PopFinishQueue,
             \A s \in Sheets : ~UpdateTryLock(s) /\ ~DirectRequest(s)
      PROVE  /\ UNCHANGED <<lock, api, deleted, wreq, wpc>>
             /\ mainPc' = "read_document" => mainPc = "read_document" /\ mainSheet' = mainSheet
  BY <1>3 DEF MainStep, ClientStep, Terminated, vars, sheetVars, requestVars,
         workerVars, mainVars, GotoMain, MoveMain, EnterCall, TestStatus, ReadStatus,
         WriteStatus, ClearError, NumFinishQueue, Shutdown, CheckStatus, GetDocument, Expire,
         SetVerbose, Quit, Dispatch, AfterCheckStatus
<1> QED BY <1>1, <1>2, <1>3 DEF Next

\* Every step keeps LockInv: who works on a sheet owns its mutex, until ~Request unlocks it.
LEMMA LockStep == TypeOK /\ RequestOnce /\ LockInv /\ [Next]_vars => LockInv'
<1> SUFFICES ASSUME TypeOK, RequestOnce, LockInv, [Next]_vars PROVE LockInv'
  OBVIOUS
<1>1. deleted \subseteq handle /\ \A r \in handle : r # NoRequest /\ api[r] # NoSheet
  BY ConstantsAssumption DEF RequestOnce, TypeOK
<1>2. ASSUME NEW s \in Sheets, UpdateTryLock(s) PROVE LockInv'
  BY <1>2, ConstantsAssumption
     DEF UpdateTryLock, LockInv, Sheet, requestVars, workerVars, EnterCall, TypeOK, InSheet
<1>3. ASSUME NEW s \in Sheets, PushRequest(s), GotoMain("loop") PROVE LockInv'
  <2>1. PICK r \in Fresh : api' = [api EXCEPT ![r] = s]
    BY <1>3 DEF PushRequest
  <2>2. UNCHANGED <<lock, deleted, wreq, wpc>> /\ mainPc' = "loop"
    BY <1>3 DEF PushRequest, sheetVars, GotoMain, MoveMain
  <2>3. r \in Requests /\ r \notin handle
    BY <1>1, <2>1 DEF Fresh
  <2>4. \A q \in handle : api'[q] = api[q]
    BY <2>1, <2>3 DEF TypeOK
  <2>5. \A w \in Workers : wpc[w] \in InSheet => wreq[w] \in handle
    BY DEF TypeOK, InSheet
  <2> QED BY <1>1, <2>2, <2>4, <2>5 DEF LockInv, Sheet
<1>4. CASE LockDocument
  BY <1>4, ConstantsAssumption
     DEF LockDocument, MainAt, LockInv, Sheet, requestVars, workerVars, GotoMain, MoveMain,
         TypeOK, InSheet, OnSheet
<1>5. CASE ReadDocument
  BY <1>5, ConstantsAssumption
     DEF ReadDocument, MainAt, LockInv, Sheet, requestVars, workerVars, GotoMain, MoveMain,
         TypeOK, InSheet, OnSheet, Unlock
<1>6. CASE PopFinishQueue
  <2>1. UNCHANGED <<api, wpc, wreq>> /\ mainPc' = "loop"
    BY <1>6 DEF PopFinishQueue, workerVars, GotoMain, MoveMain
  <2>2. CASE finishQueue = <<>>
    BY <1>6, <2>1, <2>2 DEF PopFinishQueue, LockInv, Sheet
  <2>3. CASE finishQueue # <<>>
    <3>1. /\ deleted' = deleted \cup {Head(finishQueue)}
          /\ lock' = [lock EXCEPT ![api[Head(finishQueue)]] = "free"]
      BY <1>6, <2>3 DEF PopFinishQueue, Unlock
    <3> QED BY <2>1, <3>1 DEF LockInv, Sheet, TypeOK
  <2> QED BY <2>2, <2>3
<1>7. ASSUME NEW w \in Workers, TakeRequest(w) \/ EndPush(w) PROVE LockInv'
  <2>1. /\ UNCHANGED <<lock, api, deleted, mainPc, mainSheet>>
        /\ wpc' = [wpc EXCEPT ![w] = wpc'[w]] /\ wpc'[w] \notin InSheet
        /\ wreq' = [wreq EXCEPT ![w] = wreq'[w]]
    BY <1>7 DEF TakeRequest, EndPush, GotoWorker, requestVars, sheetVars, mainVars, InSheet,
                TypeOK
  <2> QED BY <2>1 DEF LockInv, Sheet, TypeOK
<1>8. ASSUME NEW w \in Workers, LockSheet(w) PROVE LockInv'
  BY <1>8, ConstantsAssumption
     DEF LockSheet, At, GotoWorker, LockInv, Sheet, requestVars, mainVars, TypeOK, InSheet
<1>9. ASSUME NEW w \in Workers, UnlockSheet(w) PROVE LockInv'
  BY <1>9, ConstantsAssumption
     DEF UnlockSheet, At, GotoWorker, LockInv, Sheet, requestVars, mainVars, TypeOK, InSheet,
         Unlock
<1>10. CASE /\ UNCHANGED <<lock, api, deleted, wreq>>
            /\ \A w \in Workers : wpc'[w] \in InSheet => wpc[w] \in InSheet
            /\ mainPc' = "read_document" => mainPc = "read_document" /\ mainSheet' = mainSheet
  BY <1>10 DEF LockInv, Sheet
<1>11. CASE UpdateRequest
  BY <1>3, <1>11 DEF UpdateRequest, MainAt, TypeOK, OnSheet
<1> QED BY <1>2, <1>3, <1>4, <1>5, <1>6, <1>7, <1>8, <1>9, <1>10, <1>11, LockFrame
        DEF DirectRequest

\* Until a request of the sheet has been reclaimed, the sheet's mutex keeps workers and
\* get_document apart.
THEOREM SheetIsExclusive == Spec => []SheetExclusive
<1>1. Init => LockInv
  BY DEF Init, LockInv, InSheet
<1>2. TypeOK /\ LockInv => SheetExclusive
  BY ConstantsAssumption DEF TypeOK, LockInv, SheetExclusive
<1> QED
  BY <1>1, <1>2, LockStep, TypeCorrect, RequestsOnce, PTL DEF Spec

-----------------------------------------------------------------------------
(* DebugAccounted.                                                         *)

Emitting == {w \in Workers : wpc[w] = "emit"}

\* The workers between a push and an emit can be counted.
LEMMA EmittingFinite == IsFiniteSet(Emitting) /\ Cardinality(Emitting) \in Nat
<1>1. IsFiniteSet(Emitting)
  BY ConstantsAssumption, FS_Subset DEF Emitting
<1> QED BY <1>1, FS_CardinalityType

\* The only steps that touch the debug messages or their emissions.
LEMMA DebugFrame ==
  ASSUME TypeOK, [Next]_vars
  PROVE  \/ \E w \in Workers : PushDebug(w) \/ EmitDebug(w)
         \/ \E d \in Dispatchers : Dispatch(d)
         \/ PopFinishQueue
         \/ debugQueue' = debugQueue /\ pending'["debug"] = pending["debug"] /\ Emitting' = Emitting
<1>1. ASSUME NEW w \in Workers, WorkerStep(w), ~PushDebug(w), ~EmitDebug(w)
      PROVE  /\ debugQueue' = debugQueue /\ pending'["debug"] = pending["debug"]
             /\ \/ UNCHANGED wpc
                \/ wpc[w] # "emit" /\ \E pc \in WorkerPcs \ {"emit"} : GotoWorker(w, pc)
  BY <1>1 DEF WorkerStep, RunStep, sheetVars, requestVars, workerVars, queueVars, mainVars,
         TakeRequest, LockSheet, TransferFails, TransferEnds, LoadFails, RejectDocument,
         SetErrorStatus, AcceptDocument, SaveDocument, SaveFails, UnlockSheet, BeginPush,
         EndPush, UseFreedSheet, At, WorkerPcs, TypeOK, Dispatchers
<1>2. ASSUME NEW w \in Workers, WorkerStep(w), ~PushDebug(w), ~EmitDebug(w)
      PROVE  Emitting' = Emitting
  BY <1>1, <1>2 DEF Emitting, GotoWorker, TypeOK
<1>3. ASSUME MainStep \/ ClientStep \/ Terminated \/ UNCHANGED vars, ~PopFinishQueue
      PROVE  UNCHANGED <<debugQueue, pending, wpc>>
  BY <1>3 DEF MainStep, ClientStep, Terminated, vars, queueVars, workerVars, TestStatus,
         ReadStatus, WriteStatus, ClearError, UpdateRequest, PushRequest, LockDocument,
         ReadDocument, NumFinishQueue, Shutdown, UpdateTryLock, CheckStatus, DirectRequest,
         GetDocument, Expire, SetVerbose, Quit
<1>4. ASSUME UNCHANGED wpc PROVE Emitting' = Emitting
  BY <1>4 DEF Emitting
<1> QED BY <1>1, <1>2, <1>3, <1>4 DEF Next

\* Every step keeps the count of debug messages.
LEMMA DebugStep == TypeOK /\ DebugAccounted /\ [Next]_vars => DebugAccounted'
<1> SUFFICES ASSUME TypeOK, DebugAccounted, [Next]_vars PROVE DebugAccounted'
  OBVIOUS
<1>1. debugQueue = pending["debug"] + Cardinality(Emitting)
  BY DEF DebugAccounted, Emitting
<1>2. SUFFICES debugQueue' = pending'["debug"] + Cardinality(Emitting')
  BY DEF DebugAccounted, Emitting
<1>3. /\ IsFiniteSet(Emitting) /\ Cardinality(Emitting) \in Nat
      /\ debugQueue \in Nat /\ pending["debug"] \in Nat
  BY EmittingFinite DEF TypeOK, Dispatchers
<1>4. ASSUME NEW w \in Workers, PushDebug(w)
      PROVE  debugQueue' = pending'["debug"] + Cardinality(Emitting')
  <2>1. debugQueue' = debugQueue + 1 /\ pending' = pending /\ w \notin Emitting
    BY <1>4 DEF PushDebug, At, Emitting
  <2>2. Emitting' = Emitting \cup {w}
    BY <1>4 DEF PushDebug, GotoWorker, Emitting, TypeOK
  <2>3. Cardinality(Emitting') = Cardinality(Emitting) + 1
    BY <1>3, <2>1, <2>2, FS_AddElement
  <2> QED BY <1>1, <1>3, <2>1, <2>3
<1>5. ASSUME NEW w \in Workers, EmitDebug(w)
      PROVE  debugQueue' = pending'["debug"] + Cardinality(Emitting')
  <2>1. debugQueue' = debugQueue /\ pending'["debug"] = pending["debug"] + 1 /\ w \in Emitting
    BY <1>5 DEF EmitDebug, At, Emitting, TypeOK, Dispatchers
  <2>2. Emitting' = Emitting \ {w}
    BY <1>5 DEF EmitDebug, GotoWorker, Emitting, TypeOK
  <2>3. Cardinality(Emitting') = Cardinality(Emitting) - 1
    BY <1>3, <2>1, <2>2, FS_RemoveElement
  <2> QED BY <1>1, <1>3, <2>1, <2>3
<1>6. ASSUME NEW d \in Dispatchers, Dispatch(d)
      PROVE  debugQueue' = pending'["debug"] + Cardinality(Emitting')
  <2>1. Emitting' = Emitting
    BY <1>6 DEF Dispatch, workerVars, Emitting
  <2>2. CASE d = "debug"
    <3>1. pending["debug"] > 0 /\ pending'["debug"] = pending["debug"] - 1
      BY <1>6, <2>2 DEF Dispatch, TypeOK, Dispatchers
    <3>2. debugQueue' = debugQueue - 1
      BY <1>1, <1>3, <1>6, <2>2, <3>1 DEF Dispatch, SignalDebug
    <3> QED BY <1>1, <1>3, <2>1, <3>1, <3>2
  <2>3. CASE d # "debug"
    <3>1. pending'["debug"] = pending["debug"] /\ debugQueue' = debugQueue
      BY <1>6, <2>3 DEF Dispatch, TypeOK, Dispatchers, SignalDebug
    <3> QED BY <1>1, <2>1, <3>1
  <2> QED BY <2>2, <2>3
<1>7. CASE PopFinishQueue
  <2>1. Emitting' = Emitting
    BY <1>7 DEF PopFinishQueue, workerVars, Emitting
  <2>2. PICK n \in {0, 1} : debugQueue' = debugQueue + n /\ pending'["debug"] = pending["debug"] + n
    <3>1. CASE finishQueue = <<>>
      BY <1>3, <1>7, <3>1 DEF PopFinishQueue, queueVars
    <3>2. CASE finishQueue # <<>>
      <4>1. PICK n \in {0, 1} :
              debugQueue' = debugQueue + n /\ pending' = [pending EXCEPT !["debug"] = @ + n]
        BY <1>7, <3>2 DEF PopFinishQueue
      <4> QED BY <4>1 DEF TypeOK, Dispatchers
    <3> QED BY <3>1, <3>2
  <2> QED BY <1>1, <1>3, <2>1, <2>2
<1>8. CASE debugQueue' = debugQueue /\ pending'["debug"] = pending["debug"] /\ Emitting' = Emitting
  BY <1>1, <1>8
<1> QED BY <1>4, <1>5, <1>6, <1>7, <1>8, DebugFrame

\* No debug message is stranded: each is matched by an undelivered emission or by a
\* worker about to emit.
THEOREM DebugIsAccounted == Spec => []DebugAccounted
<1>1. Init => DebugAccounted
  <2>1. SUFFICES ASSUME Init PROVE DebugAccounted
    OBVIOUS
  <2>2. {w \in Workers : wpc[w] = "emit"} = {} /\ debugQueue = 0 /\ pending["debug"] = 0
    BY <2>1 DEF Init, Dispatchers
  <2> QED BY <2>2, FS_EmptySet DEF DebugAccounted
<1> QED
  BY <1>1, DebugStep, TypeCorrect, PTL DEF Spec
=============================================================================
