---------------------------- MODULE RequestSystem ----------------------------
(***************************************************************************)
(* The asynchronous request pipeline of the EAPI library: the main thread, *)
(* which runs the GLib main loop and calls the library, the thread pool of *)
(* EAPI::Main, the per-sheet mutex of APIInterface, and the two queues and *)
(* dispatchers by which Request talks back to the main thread.             *)
(*                                                                         *)
(* A step is what one thread does between two points at which another      *)
(* thread can observe or disturb it.  Sheets exist from the start; the     *)
(* registry that creates them is another component.                        *)
(***************************************************************************)
EXTENDS SheetStatus, Naturals, Sequences, FiniteSets

CONSTANTS
  Sheets,    \* the APIInterface objects
  Requests,  \* the Request objects that can ever be allocated: a bound
  Workers,   \* the threads of the pool (NUM_MAX_THREADS of them)
  Calls,     \* the library calls that the client makes: a subset of ClientCalls
  MaxDebug,  \* how many debug messages curl produces in all: a bound
  NoSheet, NoRequest

ClientCalls == {"update", "request", "check_status", "get_document", "set_verbose"}

ASSUME ConstantsAssumption ==
  /\ NoSheet \notin Sheets /\ NoRequest \notin Requests
  /\ Calls \subseteq ClientCalls
  /\ MaxDebug \in Nat /\ IsFiniteSet(Workers)
  /\ \A w \in Workers : w \notin {"free", "update", "document"}

VARIABLES
  lock,        \* APIInterface::lock_: "free" or who locked it
  status,      \* APIInterface::m_status
  error,       \* whether APIInterface::m_error is non-empty
  cachedUntil, \* the "cachedUntil" entry of APIInterface::m_value_map
  api,         \* Request::m_api, NoSheet before the object is allocated
  handle,      \* the requests whose m_curl is not NULL
  loud,        \* the requests whose m_verbose is set
  deleted,     \* the requests that have been deleted
  verbose,     \* Main::verbose_
  pool,        \* the tasks of Main::m_thread_pool that no worker has taken
  wpc, wreq,   \* what a worker is about to do, and the Request whose run() it is in
  finishQueue, \* Request::m_finish_queue
  debugQueue,  \* the length of Request::m_debug_queue
  pending,     \* emissions that a dispatcher has not delivered yet
  chatter,     \* debug messages curl may still produce
  mainPc, mainCall, mainSheet, mainSeen,
               \* what the main thread is about to do, for which call and sheet,
               \* and the status it has read
  sheetsFreed, \* the static Destructor of the sheet list has run
  failure      \* "none", or what ended the process

sheetVars == <<lock, status, error, cachedUntil>>
requestVars == <<api, handle, loud, deleted>>
workerVars == <<pool, wpc, wreq>>
queueVars == <<finishQueue, debugQueue, pending, chatter>>
mainVars == <<mainPc, mainCall, mainSheet, mainSeen, verbose, sheetsFreed>>
vars == <<sheetVars, requestVars, workerVars, queueVars, mainVars, failure>>
-----------------------------------------------------------------------------
(* Helpers.                                                                *)

Dispatchers == {"debug", "finish"}

\* A name X_Y is a mutant of X: the definition with a plausible bug Y, which the
\* properties are shown to notice.  Nothing else uses it.

\* The dispatcher that a slot of Main::Main is connected to: both accessors of
\* Request return *debug_dispatcher.
SignalDebug == "debug"
SignalFinished == "debug"

\* A Request object that has not been allocated yet.
Fresh == {r \in Requests : api[r] = NoSheet}

\* The finish-queue mutex is held by a worker inside push_finish_queue.
FinishLocked == \E w \in Workers : wpc[w] = "push"

\* Glib::Mutex::unlock.  Nothing checks the owner; unlocking a free mutex is
\* undefined, and GLib either ignores it or ends the process.
Unlock_Forgotten(s) == UNCHANGED <<lock, failure>>
Unlock(s) ==
  /\ lock' = [lock EXCEPT ![s] = "free"]
  /\ \/ failure' = failure
     \/ lock[s] = "free" /\ failure' = "unlock_free"

\* curl reports one debug message from the thread that runs handle r.
MayChatter(r) == r \in loud /\ chatter > 0

\* The main thread goes on with pc; back in the loop it is in no call.
MoveMain(pc) ==
  /\ mainPc' = pc
  /\ mainCall' = IF pc = "loop" THEN "none" ELSE mainCall
  /\ mainSheet' = IF pc = "loop" THEN NoSheet ELSE mainSheet

GotoMain(pc) == MoveMain(pc) /\ UNCHANGED mainSeen

EnterCall(c, s, pc) ==
  mainPc' = pc /\ mainCall' = c /\ mainSheet' = s /\ UNCHANGED mainSeen

\* The main thread, or worker w, is about to do pc; nobody is once the process ended.
MainAt(pc) == failure = "none" /\ mainPc = pc
At(w, pc) == failure = "none" /\ wpc[w] = pc

GotoWorker(w, pc) == wpc' = [wpc EXCEPT ![w] = pc]
-----------------------------------------------------------------------------
(* Start of the program: EAPI::Main::init has run, the sheets have parsed  *)
(* their cache files, and no request was made.                             *)

Init ==
  /\ lock = [s \in Sheets |-> "free"]
  /\ \E made \in [Sheets -> CacheOutcomes] :
       /\ status = [s \in Sheets |-> made[s].status]
       /\ error = [s \in Sheets |-> made[s].error]
  /\ cachedUntil \in [Sheets -> CachedUntil]
  /\ api = [r \in Requests |-> NoSheet]
  /\ handle = {} /\ loud = {} /\ deleted = {}
  /\ verbose = TRUE
  /\ pool = <<>>
  /\ wpc = [w \in Workers |-> "idle"] /\ wreq = [w \in Workers |-> NoRequest]
  /\ finishQueue = <<>> /\ debugQueue = 0
  /\ pending = [d \in Dispatchers |-> 0]
  /\ chatter = MaxDebug
  /\ mainPc = "loop" /\ mainCall = "none" /\ mainSheet = NoSheet /\ mainSeen = {}
  /\ sheetsFreed = FALSE
  /\ failure = "none"
-----------------------------------------------------------------------------
(* Main thread: the calls of the client.                                   *)

\* The main thread is back in its loop and may start call c.
MayCall(c) == MainAt("loop") /\ c \in Calls

\* APIInterface::update, up to its check_status.  When the trylock fails it
\* throws "A update is already running!" and changes nothing.
UpdateTryLock(s) ==
  /\ MayCall("update") /\ Fresh # {}
  /\ lock[s] = "free"
  /\ lock' = [lock EXCEPT ![s] = "update"]
  /\ EnterCall("update", s, "test_status")
  /\ UNCHANGED <<status, error, cachedUntil, requestVars, workerVars, queueVars,
                 verbose, sheetsFreed, failure>>

\* A client calls check_status on its own.
CheckStatus(s) ==
  /\ MayCall("check_status")
  /\ EnterCall("check_status", s, "test_status")
  /\ UNCHANGED <<sheetVars, requestVars, workerVars, queueVars, verbose, sheetsFreed, failure>>

AfterCheckStatus_NoThrow(st) == IF mainCall = "update" THEN "clear_error" ELSE "loop"

\* Where check_status returns to: update() throws NotOutdatedException, still
\* holding the lock, when the CACHED flag is set, and goes on otherwise.
AfterCheckStatus(st) ==
  IF mainCall = "update" /\ "CACHED" \notin st THEN "clear_error" ELSE "loop"

\* check_status reads m_error and m_status: with an error it asserts that the
\* flags agree and returns, and it goes on with a VALID sheet.  What it reads of
\* the two while a worker writes them is read in one step here.
TestStatus ==
  LET s == mainSheet  st == status[mainSheet] IN
  /\ MainAt("test_status")
  /\ IF error[s] \/ "ERROR" \in st
     THEN /\ failure' = IF "VALID" \in st \/ "ERROR" \notin st
                        THEN "check_status" ELSE failure
          /\ GotoMain(AfterCheckStatus(st))
     ELSE /\ GotoMain(IF "VALID" \in st THEN "read_status" ELSE AfterCheckStatus(st))
          /\ UNCHANGED failure
  /\ UNCHANGED <<sheetVars, requestVars, workerVars, queueVars, verbose, sheetsFreed>>

\* m_status |= flag is a read and a write, which no lock joins: a worker may
\* change the status in between, and its change is then lost.  The caller gets what
\* was written; the code reads m_status once more to return it.
ReadStatus ==
  /\ MainAt("read_status")
  /\ MoveMain("write_status")
  /\ mainSeen' = status[mainSheet]
  /\ UNCHANGED <<sheetVars, requestVars, workerVars, queueVars, verbose, sheetsFreed, failure>>

WriteStatus ==
  LET st == mainSeen \cup {Freshness(cachedUntil[mainSheet])} IN
  /\ MainAt("write_status")
  /\ status' = [status EXCEPT ![mainSheet] = st]
  /\ MoveMain(AfterCheckStatus(st))
  /\ mainSeen' = {}
  /\ UNCHANGED <<lock, error, cachedUntil, requestVars, workerVars, queueVars,
                 verbose, sheetsFreed, failure>>

\* update() goes on: it forgets the last error.
ClearError ==
  /\ MainAt("clear_error")
  /\ error' = [error EXCEPT ![mainSheet] = FALSE]
  /\ GotoMain("request")
  /\ UNCHANGED <<lock, status, cachedUntil, requestVars, workerVars, queueVars,
                 verbose, sheetsFreed, failure>>

\* Main::request(s): a Request is allocated, and handed to the thread pool if curl
\* gave it a handle.  Otherwise the call throws and the object is left behind.
PushRequest_Unchecked(s) ==
  \E r \in Fresh, ok \in BOOLEAN :
    /\ api' = [api EXCEPT ![r] = s]
    /\ handle' = IF ok THEN handle \cup {r} ELSE handle
    /\ loud' = IF verbose THEN loud \cup {r} ELSE loud
    /\ pool' = Append(pool, r)
    /\ UNCHANGED <<sheetVars, deleted, wpc, wreq, queueVars, verbose, sheetsFreed, failure>>

PushRequest(s) ==
  \E r \in Fresh, ok \in BOOLEAN :
    /\ api' = [api EXCEPT ![r] = s]
    /\ handle' = IF ok THEN handle \cup {r} ELSE handle
    /\ loud' = IF verbose THEN loud \cup {r} ELSE loud
    /\ pool' = IF ok THEN Append(pool, r) ELSE pool
    /\ UNCHANGED <<sheetVars, deleted, wpc, wreq, queueVars, verbose, sheetsFreed, failure>>

\* The call at the end of update().
UpdateRequest == MainAt("request") /\ PushRequest(mainSheet) /\ GotoMain("loop")

\* A client calls the public EAPI::Main::request, without the lock.
DirectRequest(s) == MayCall("request") /\ PushRequest(s) /\ GotoMain("loop")

\* APIInterface::get_document: the main thread waits for the sheet's lock, copies
\* the document and gives the lock back.
GetDocument(s) ==
  /\ MayCall("get_document")
  /\ EnterCall("get_document", s, "lock_document")
  /\ UNCHANGED <<sheetVars, requestVars, workerVars, queueVars, verbose, sheetsFreed, failure>>

LockDocument ==
  /\ MainAt("lock_document")
  /\ lock[mainSheet] = "free"
  /\ lock' = [lock EXCEPT ![mainSheet] = "document"]
  /\ GotoMain("read_document")
  /\ UNCHANGED <<status, error, cachedUntil, requestVars, workerVars, queueVars,
                 verbose, sheetsFreed, failure>>

ReadDocument ==
  /\ MainAt("read_document")
  /\ Unlock(mainSheet)
  /\ GotoMain("loop")
  /\ UNCHANGED <<status, error, cachedUntil, requestVars, workerVars, queueVars,
                 verbose, sheetsFreed>>

\* Main::set_verbose: requests made from now on report to the debug queue or do not.
SetVerbose ==
  /\ MayCall("set_verbose")
  /\ verbose' = ~verbose
  /\ UNCHANGED <<sheetVars, requestVars, workerVars, queueVars, mainPc, mainCall,
                 mainSheet, mainSeen, sheetsFreed, failure>>

\* Time passes, and the data of a sheet is no longer up to date.
Expire(s) ==
  /\ failure = "none"
  /\ cachedUntil[s] = "future"
  /\ cachedUntil' = [cachedUntil EXCEPT ![s] = "past"]
  /\ UNCHANGED <<lock, status, error, requestVars, workerVars, queueVars, mainVars, failure>>
-----------------------------------------------------------------------------
(* Main thread: the slots of EAPI::Main, run by the main loop.             *)

\* A dispatcher delivers one emission.  curl_debug_recieved takes one message off
\* the debug queue if there is one; request_finished is called after it.
Dispatch(d) ==
  /\ MainAt("loop")
  /\ pending[d] > 0
  /\ pending' = [pending EXCEPT ![d] = @ - 1]
  /\ debugQueue' = IF SignalDebug = d /\ debugQueue > 0 THEN debugQueue - 1 ELSE debugQueue
  /\ GotoMain(IF SignalFinished = d THEN "request_finished" ELSE "loop")
  /\ UNCHANGED <<sheetVars, requestVars, workerVars, finishQueue, chatter, verbose,
                 sheetsFreed, failure>>

\* request_finished asks num_finish_queue, which takes the mutex of the OTHER queue:
\* while a worker pushes, the size it reads is arbitrary.
NumFinishQueue ==
  /\ MainAt("request_finished")
  /\ \E some \in IF FinishLocked THEN BOOLEAN ELSE {finishQueue # <<>>} :
       GotoMain(IF some THEN "pop_finish_queue" ELSE "loop")
  /\ UNCHANGED <<sheetVars, requestVars, workerVars, queueVars, verbose, sheetsFreed, failure>>

\* pop_finish_queue, under its mutex, asserts that there is a Request; the main thread
\* then deletes it: ~Request unlocks the sheet and cleans up the handle, on which
\* curl may report once more, from this thread.
PopFinishQueue_NoMutex ==
  /\ MainAt("pop_finish_queue")
  /\ IF finishQueue = <<>>
     THEN /\ failure' = "pop_finish_queue"
          /\ UNCHANGED <<lock, finishQueue, deleted>>
     ELSE /\ finishQueue' = Tail(finishQueue)
          /\ deleted' = deleted \cup {Head(finishQueue)}
          /\ Unlock(api[Head(finishQueue)])
  /\ GotoMain("loop")
  /\ UNCHANGED <<status, error, cachedUntil, api, handle, loud, workerVars, debugQueue,
                 pending, chatter, verbose, sheetsFreed>>

PopFinishQueue ==
  LET r == Head(finishQueue) IN
  /\ MainAt("pop_finish_queue") /\ ~FinishLocked
  /\ IF finishQueue = <<>>
     THEN /\ failure' = "pop_finish_queue"
          /\ UNCHANGED <<lock, deleted, queueVars>>
     ELSE /\ finishQueue' = Tail(finishQueue)
          /\ deleted' = deleted \cup {r}
          /\ Unlock(api[r])
          /\ \E n \in IF MayChatter(r) THEN {0, 1} ELSE {0} :
               /\ debugQueue' = debugQueue + n
               /\ pending' = [pending EXCEPT !["debug"] = @ + n]
               /\ chatter' = chatter - n
  /\ GotoMain("loop")
  /\ UNCHANGED <<status, error, cachedUntil, api, handle, loud, workerVars, verbose, sheetsFreed>>
-----------------------------------------------------------------------------
(* Main thread: the end of the program.  The static objects are destroyed  *)
(* in the reverse of the order they were built in: the sheets of the       *)
(* registry (APIObject::Destructor) go before EAPI::Main.                  *)

Quit ==
  /\ MainAt("loop")
  /\ GotoMain("exit_pool")
  /\ sheetsFreed' = TRUE
  /\ UNCHANGED <<sheetVars, requestVars, workerVars, queueVars, verbose, failure>>

\* ~Main: ThreadPool::shutdown lets every task finish, then the queues' mutexes and
\* dispatchers are deleted.
Shutdown_NotWaiting ==
  /\ MainAt("exit_pool")
  /\ pool = <<>>
  /\ GotoMain("exited")
  /\ UNCHANGED <<sheetVars, requestVars, workerVars, queueVars, verbose, sheetsFreed, failure>>

Shutdown ==
  /\ MainAt("exit_pool")
  /\ pool = <<>> /\ \A w \in Workers : wpc[w] = "idle"
  /\ GotoMain("exited")
  /\ UNCHANGED <<sheetVars, requestVars, workerVars, queueVars, verbose, sheetsFreed, failure>>
-----------------------------------------------------------------------------
(* A worker of the thread pool: Request::run.                              *)

\* The sheet that worker w works on.
Sheet(w) == api[wreq[w]]

\* A worker starts the oldest task.  run() would report an invalid request and then
\* carry on with it; Main::request lets none through.
TakeRequest_PushesFirst(w) ==
  LET r == Head(pool) IN
  /\ At(w, "idle") /\ pool # <<>>
  /\ pool' = Tail(pool)
  /\ wreq' = [wreq EXCEPT ![w] = r]
  /\ GotoWorker(w, "lock")
  /\ finishQueue' = Append(finishQueue, r)
  /\ pending' = [pending EXCEPT !["finish"] = @ + 1]
  /\ UNCHANGED <<sheetVars, requestVars, debugQueue, chatter, mainVars, failure>>

TakeRequest(w) ==
  LET r == Head(pool) IN
  /\ At(w, "idle") /\ pool # <<>>
  /\ pool' = Tail(pool)
  /\ wreq' = [wreq EXCEPT ![w] = r]
  /\ GotoWorker(w, "lock")
  /\ IF r \in handle
     THEN UNCHANGED <<error, finishQueue, pending>>
     ELSE /\ error' = [error EXCEPT ![api[r]] = TRUE]
          /\ finishQueue' = Append(finishQueue, r)
          /\ pending' = [pending EXCEPT !["finish"] = @ + 1]
  /\ UNCHANGED <<lock, status, cachedUntil, requestVars, debugQueue, chatter, mainVars, failure>>

\* do_curl waits for the sheet's mutex.
LockSheet_Try(w) ==
  /\ At(w, "lock")
  /\ lock' = [lock EXCEPT ![Sheet(w)] = IF @ = "free" THEN w ELSE @]
  /\ GotoWorker(w, "transfer")
  /\ UNCHANGED <<status, error, cachedUntil, requestVars, pool, wreq, queueVars, mainVars, failure>>

LockSheet(w) ==
  /\ At(w, "lock")
  /\ lock[Sheet(w)] = "free"
  /\ lock' = [lock EXCEPT ![Sheet(w)] = w]
  /\ GotoWorker(w, "transfer")
  /\ UNCHANGED <<status, error, cachedUntil, requestVars, pool, wreq, queueVars, mainVars, failure>>

\* curl reports during the transfer: the message goes to the queue under its mutex,
\* the dispatcher is told afterwards, without it.
PushDebug(w) ==
  /\ At(w, "transfer") /\ MayChatter(wreq[w])
  /\ debugQueue' = debugQueue + 1
  /\ chatter' = chatter - 1
  /\ GotoWorker(w, "emit")
  /\ UNCHANGED <<sheetVars, requestVars, pool, wreq, finishQueue, pending, mainVars, failure>>

EmitDebug_Lost(w) ==
  /\ At(w, "emit")
  /\ GotoWorker(w, "transfer")
  /\ UNCHANGED <<sheetVars, requestVars, pool, wreq, queueVars, mainVars, failure>>

EmitDebug_Twice(w) ==
  /\ At(w, "emit")
  /\ pending' = [pending EXCEPT !["debug"] = @ + 2]
  /\ GotoWorker(w, "transfer")
  /\ UNCHANGED <<sheetVars, requestVars, pool, wreq, finishQueue, debugQueue, chatter,
                 mainVars, failure>>

EmitDebug(w) ==
  /\ At(w, "emit")
  /\ pending' = [pending EXCEPT !["debug"] = @ + 1]
  /\ GotoWorker(w, "transfer")
  /\ UNCHANGED <<sheetVars, requestVars, pool, wreq, finishQueue, debugQueue, chatter,
                 mainVars, failure>>

\* curl_easy_perform returns; after a failure do_curl sets m_error and nothing else.
TransferFails_EarlyReturn(w) ==
  /\ At(w, "transfer")
  /\ error' = [error EXCEPT ![Sheet(w)] = TRUE]
  /\ GotoWorker(w, "finish")
  /\ UNCHANGED <<lock, status, cachedUntil, requestVars, pool, wreq, queueVars, mainVars, failure>>

TransferFails(w) ==
  /\ At(w, "transfer")
  /\ error' = [error EXCEPT ![Sheet(w)] = TRUE]
  /\ GotoWorker(w, "unlock")
  /\ UNCHANGED <<lock, status, cachedUntil, requestVars, pool, wreq, queueVars, mainVars, failure>>

TransferEnds(w) ==
  /\ At(w, "transfer") /\ wreq[w] \in handle
  /\ GotoWorker(w, "parse")
  /\ UNCHANGED <<sheetVars, requestVars, pool, wreq, queueVars, mainVars, failure>>

\* parse_stringstream: pugixml refuses the text; m_status is not touched.
LoadFails(w) ==
  /\ At(w, "parse")
  /\ error' = [error EXCEPT ![Sheet(w)] = TRUE]
  /\ GotoWorker(w, "unlock")
  /\ UNCHANGED <<lock, status, cachedUntil, requestVars, pool, wreq, queueVars, mainVars, failure>>

\* parse_xml_document: not an API result, or an error result, whose text may be
\* empty.  m_error is written first and m_status after it.
RejectDocument(w) ==
  /\ At(w, "parse")
  /\ \E text \in BOOLEAN : error' = [error EXCEPT ![Sheet(w)] = text]
  /\ GotoWorker(w, "reject")
  /\ UNCHANGED <<lock, status, cachedUntil, requestVars, pool, wreq, queueVars, mainVars, failure>>

SetErrorStatus(w) ==
  /\ At(w, "reject")
  /\ status' = [status EXCEPT ![Sheet(w)] = RejectedStatus(@)]
  /\ GotoWorker(w, "unlock")
  /\ UNCHANGED <<lock, error, cachedUntil, requestVars, pool, wreq, queueVars, mainVars, failure>>

\* A result: the dates are stored and the status is VALID.  m_error stays as it was.
\* Left out are a date out of range, which ustring_to_datetime throws on, and a
\* parse_result that answers false, as that of no sheet does.
AcceptDocument(w) ==
  /\ At(w, "parse")
  /\ \E until \in CachedUntil : cachedUntil' = [cachedUntil EXCEPT ![Sheet(w)] = until]
  /\ status' = [status EXCEPT ![Sheet(w)] = AcceptedStatus]
  /\ GotoWorker(w, "save")
  /\ UNCHANGED <<lock, error, requestVars, pool, wreq, queueVars, mainVars, failure>>

\* The document is written to the cache; whether save_file worked is not looked at.
SaveDocument(w) ==
  /\ At(w, "save")
  /\ GotoWorker(w, "unlock")
  /\ UNCHANGED <<sheetVars, requestVars, pool, wreq, queueVars, mainVars, failure>>

\* The cache directory cannot be made: m_error is set on a sheet that stays VALID, or
\* Gio throws, and no handler on a pool thread catches that.
SaveFails(w) ==
  /\ At(w, "save")
  /\ \/ error' = [error EXCEPT ![Sheet(w)] = TRUE] /\ GotoWorker(w, "unlock") /\ UNCHANGED failure
     \/ failure' = "exception" /\ UNCHANGED <<error, wpc>>
  /\ UNCHANGED <<lock, status, cachedUntil, requestVars, pool, wreq, queueVars, mainVars>>

UnlockSheet(w) ==
  /\ At(w, "unlock")
  /\ Unlock(Sheet(w))
  /\ GotoWorker(w, "finish")
  /\ UNCHANGED <<status, error, cachedUntil, requestVars, pool, wreq, queueVars, mainVars>>

\* push_finish_queue takes the finish queue's mutex, ...
BeginPush(w) ==
  /\ At(w, "finish") /\ ~FinishLocked
  /\ GotoWorker(w, "push")
  /\ UNCHANGED <<sheetVars, requestVars, pool, wreq, queueVars, mainVars, failure>>

\* ... appends the request, emits, and gives the mutex back; run() is over.
EndPush(w) ==
  /\ At(w, "push")
  /\ finishQueue' = Append(finishQueue, wreq[w])
  /\ pending' = [pending EXCEPT !["finish"] = @ + 1]
  /\ GotoWorker(w, "idle")
  /\ wreq' = [wreq EXCEPT ![w] = NoRequest]
  /\ UNCHANGED <<sheetVars, requestVars, pool, debugQueue, chatter, mainVars, failure>>

\* The sheet has been deleted under a running request, and the memory is gone.  That it
\* still reads as before is the worker's other steps.
UseFreedSheet(w) ==
  /\ failure = "none" /\ sheetsFreed
  /\ wpc[w] \in {"lock", "transfer", "parse", "reject", "save", "unlock"}
  /\ failure' = "freed_sheet"
  /\ UNCHANGED <<sheetVars, requestVars, workerVars, queueVars, mainVars>>
-----------------------------------------------------------------------------
\* The steps the main thread takes inside a call or a slot.
MainStep ==
  \/ TestStatus \/ ReadStatus \/ WriteStatus \/ ClearError \/ UpdateRequest
  \/ LockDocument \/ ReadDocument
  \/ NumFinishQueue \/ PopFinishQueue
  \/ Shutdown

\* The steps the environment starts: the client's calls, time, the user quitting.
ClientStep ==
  \/ \E s \in Sheets : \/ UpdateTryLock(s) \/ CheckStatus(s) \/ DirectRequest(s)
                       \/ GetDocument(s) \/ Expire(s)
  \/ SetVerbose
  \/ Quit

\* The steps of Request::run on a pool thread.
RunStep(w) ==
  \/ TakeRequest(w) \/ LockSheet(w)
  \/ PushDebug(w) \/ EmitDebug(w) \/ TransferFails(w) \/ TransferEnds(w)
  \/ LoadFails(w) \/ RejectDocument(w) \/ SetErrorStatus(w) \/ AcceptDocument(w)
  \/ SaveDocument(w) \/ SaveFails(w)
  \/ UnlockSheet(w) \/ BeginPush(w) \/ EndPush(w)

WorkerStep(w) == RunStep(w) \/ UseFreedSheet(w)

\* Nothing runs once main has returned or the process was ended.
Terminated == (mainPc = "exited" \/ failure # "none") /\ UNCHANGED vars

Next ==
  \/ MainStep
  \/ ClientStep
  \/ \E d \in Dispatchers : Dispatch(d)
  \/ \E w \in Workers : WorkerStep(w)
  \/ Terminated

Spec == Init /\ [][Next]_vars

(***************************************************************************)
(* Fairness.  A thread that can go on does (the transfer ends: the server  *)
(* answers or the connection breaks).  A thread waiting for a mutex that   *)
(* is given back again and again gets it in the end.  The main loop serves *)
(* every source that is ready in each iteration, so a dispatcher that is   *)
(* ready whenever the loop is reached is served, whatever else the client  *)
(* does in between: strong fairness.                                       *)
(***************************************************************************)
Fairness ==
  /\ SF_vars(MainStep)
  /\ \A d \in Dispatchers : SF_vars(Dispatch(d))
  /\ \A w \in Workers : SF_vars(RunStep(w))

FairSpec == Spec /\ Fairness
=============================================================================
