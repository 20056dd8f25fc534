----------------------- MODULE RequestSystemProperties -----------------------
(***************************************************************************)
(* What the request pipeline of RequestSystem is meant to guarantee.  The  *)
(* runs check these on small instances; RequestSystemProofs proves some of *)
(* them for every value of the constants.                                  *)
(***************************************************************************)
EXTENDS RequestSystem

Elements(q) == {q[i] : i \in DOMAIN q}
Distinct(q) == \A i, j \in DOMAIN q : q[i] = q[j] => i = j

MainPcs == {"loop", "test_status", "read_status", "write_status", "clear_error",
            "request", "lock_document", "read_document", "request_finished",
            "pop_finish_queue", "exit_pool", "exited"}

WorkerPcs == {"idle", "lock", "transfer", "emit", "parse", "reject", "save", "unlock",
              "finish", "push"}

Failures == {"none", "check_status", "pop_finish_queue", "unlock_free", "exception",
             "freed_sheet"}

\* The program counters that are inside a call on mainSheet.
OnSheet == {"test_status", "read_status", "write_status", "clear_error", "request",
            "lock_document", "read_document"}

\* The type invariant.
TypeOK ==
  /\ lock \in [Sheets -> {"free", "update", "document"} \cup Workers]
  /\ status \in [Sheets -> SUBSET StatusFlags]
  /\ error \in [Sheets -> BOOLEAN]
  /\ cachedUntil \in [Sheets -> CachedUntil]
  /\ api \in [Requests -> Sheets \cup {NoSheet}]
  /\ handle \in SUBSET Requests /\ loud \in SUBSET Requests /\ deleted \in SUBSET Requests
  /\ \A r \in handle : api[r] \in Sheets
  /\ verbose \in BOOLEAN
  /\ pool \in Seq(handle) /\ finishQueue \in Seq(handle)
  /\ wpc \in [Workers -> WorkerPcs]
  /\ wreq \in [Workers -> handle \cup {NoRequest}]
  /\ \A w \in Workers : wpc[w] = "idle" <=> wreq[w] = NoRequest
  /\ debugQueue \in Nat /\ pending \in [Dispatchers -> Nat] /\ chatter \in Nat
  /\ mainPc \in MainPcs /\ mainCall \in ClientCalls \cup {"none"}
  /\ mainSheet \in Sheets \cup {NoSheet}
  /\ mainPc \in OnSheet => mainSheet \in Sheets
  /\ mainSeen \in SUBSET StatusFlags
  /\ sheetsFreed \in BOOLEAN
  /\ failure \in Failures
-----------------------------------------------------------------------------
(* Safety.                                                                 *)

RunningSet == {wreq[w] : w \in Workers} \ {NoRequest}

\* Every request that Main::request accepted (eapi.cc:71-80) is in one place and
\* there once: the pool's queue, the hands of one worker, the finish queue, or
\* deleted.  None is lost, run twice, pushed twice or deleted twice.
RequestOnce ==
  /\ Distinct(pool) /\ Distinct(finishQueue)
  /\ \A v, w \in Workers : wreq[v] = wreq[w] /\ wreq[v] # NoRequest => v = w
  /\ Elements(pool) \cap (RunningSet \cup Elements(finishQueue) \cup deleted) = {}
  /\ RunningSet \cap (Elements(finishQueue) \cup deleted) = {}
  /\ Elements(finishQueue) \cap deleted = {}
  /\ handle = Elements(pool) \cup RunningSet \cup Elements(finishQueue) \cup deleted

\* The assertion of pop_finish_queue (request.cc:145) never fails, although
\* num_finish_queue guards the queue's length with the other queue's mutex.
PopFindsRequest == failure # "pop_finish_queue"

\* Every debug message has its emission: it is on its way to the main loop, or a
\* worker is between the push and the emit of curl_debug_callback (request.cc:45-46).
\* No message is stranded in the queue.
DebugAccounted ==
  debugQueue = pending["debug"] + Cardinality({w \in Workers : wpc[w] = "emit"})

\* A sheet is never VALID and in ERROR (apiinterface.cc:45, 154, 162, 177), whatever
\* check_status on the main thread and the parser on a worker do to the flags.
ErrorExcludesValid ==
  \A s \in Sheets : ~({"VALID", "ERROR"} \subseteq status[s])

\* Until the first request of a sheet has been reclaimed (and ~Request has unlocked a
\* mutex that is not its own), the sheet's mutex works: one worker at most transfers
\* to and parses a sheet, and never while get_document reads it (request.cc:122-130,
\* apiinterface.cc:221).
InSheet == {"transfer", "emit", "parse", "reject", "save", "unlock"}

SheetExclusive ==
  \A s \in Sheets : (\A r \in deleted : api[r] # s) =>
    /\ \A v, w \in Workers :
         /\ wpc[v] \in InSheet /\ Sheet(v) = s
         /\ wpc[w] \in InSheet /\ Sheet(w) = s
         => v = w
    /\ mainPc = "read_document" /\ mainSheet = s =>
         \A w \in Workers : wpc[w] \in InSheet => Sheet(w) # s

\* Whoever holds the mutex of a sheet is at work on that sheet, and waits for no mutex
\* itself (request.cc:122-130, apiinterface.cc:221-223): threads that wait for each other
\* there are none.  This goes on after ~Request has unlocked the mutex for another.
HolderAtWork ==
  \A s \in Sheets :
    /\ \A w \in Workers : lock[s] = w => wpc[w] \in InSheet /\ Sheet(w) = s
    /\ lock[s] = "document" => mainPc = "read_document" /\ mainSheet = s

\* A worker at the end of do_curl (request.cc:130), or get_document (apiinterface.cc:223),
\* that unlocks a mutex it does not own does so in consequence of ~Request (request.cc:67):
\* a request of this sheet has been reclaimed.  So no mutex that is free is unlocked before
\* the first request is deleted.
Reclaimed(s) == \E r \in deleted : api[r] = s

FreeUnlockHasCause ==
  /\ \A w \in Workers : wpc[w] = "unlock" /\ lock[Sheet(w)] # w => Reclaimed(Sheet(w))
  /\ mainPc = "read_document" /\ lock[mainSheet] # "document" => Reclaimed(mainSheet)
  /\ failure = "unlock_free" => deleted # {}

\* update() (apiinterface.cc:66-79) makes no request for a sheet that is VALID from its
\* cache and that nobody has requested yet: check_status takes what came from the cache for
\* current for ever, expired or not.
UpdateRefusesValid ==
  \A s \in Sheets :
    "VALID" \in status[s] /\ (\A r \in Requests : api[r] # s)
      => ~(mainPc \in {"clear_error", "request"} /\ mainSheet = s)

\* Once update() holds the mutex of a sheet (apiinterface.cc:66) of which no request is
\* past waiting for it (request.cc:122), this never changes: nothing that any thread does
\* lets a request of that sheet be carried out.
Stuck(s) ==
  /\ lock[s] = "update"
  /\ \A r \in handle : api[r] = s =>
       r \in Elements(pool) \/ \E w \in Workers : wreq[w] = r /\ wpc[w] = "lock"

UpdateHangs == [][\A s \in Sheets : Stuck(s) => Stuck(s)']_vars

\* Main::request_finished is connected to the dispatcher of the debug messages
\* (request.h:103-106): every request that was ever reclaimed has used up a message of its
\* own.  When nothing is verbose the requests are kept for ever.
ReclaimNeedsMessage == Cardinality(deleted) + debugQueue + chatter <= MaxDebug

\* ~Main (eapi.cc:65-69) deletes the mutexes and dispatchers only after every accepted
\* request has been pushed to the finish queue: no worker can still need them.
ExitDrained ==
  mainPc = "exited" => handle = Elements(finishQueue) \cup deleted

\* The pipeline implements the life cycle of RequestLifecycle.
Stage == [r \in Requests |->
  CASE api[r] = NoSheet -> "new"
    [] api[r] # NoSheet /\ r \notin handle -> "refused"
    [] r \in deleted -> "reclaimed"
    [] \E w \in Workers : wreq[w] = r -> "running"
    [] r \in Elements(pool) -> "queued"
    [] OTHER -> "finished"]

Lifecycle == INSTANCE RequestLifecycle WITH
  Threads <- Cardinality(Workers), stage <- Stage, halted <- (failure # "none")

LifecycleRefined == Lifecycle!Spec
-----------------------------------------------------------------------------
(* Liveness, under FairSpec.                                               *)

\* A request handed to the pool gets to the finish queue (request.h:58), if the
\* process lives.
RequestsFinish ==
  \A r \in Requests : Stage[r] = "queued" ~> Stage[r] \in {"finished", "reclaimed"} \/ failure # "none"

\* get_document (apiinterface.cc:220-226) returns: the lock it waits for is given back
\* by the workers.
DocumentReturned == mainPc = "lock_document" ~> mainPc = "loop" \/ failure # "none"

\* Once the program ends, ~Main (eapi.cc:65-69) gets through ThreadPool::shutdown.
ShutdownCompletes == mainPc = "exit_pool" ~> mainPc = "exited" \/ failure # "none"

\* The debug messages are all delivered while the program runs (eapi.cc:94-104).
DebugDelivered == debugQueue > 0 ~> debugQueue = 0 \/ sheetsFreed \/ failure # "none"
-----------------------------------------------------------------------------
(* What the sources say and the code does not do.                          *)

\* "Notifies EAPI::Main that the Request is finished" (request.h:103): a finished
\* request is reclaimed by Main::request_finished, if the program goes on running.
FinishNotified ==
  \A r \in Requests : Stage[r] = "finished" ~> Stage[r] = "reclaimed" \/ sheetsFreed \/ failure # "none"

\* The assertions of check_status (apiinterface.cc:45-46): with an error on the sheet
\* the status has no VALID flag and has the ERROR flag.
StatusAssertions == failure # "check_status"

\* "A update is already running!" (apiinterface.cc:67) is what update() says when the
\* sheet's mutex is taken by an update: then there is one, in its call or in a request
\* that is not finished.  (Requests without a curl handle are left aside.)
BusyMeansRunning ==
  \A s \in Sheets : lock[s] = "update" /\ (\A r \in Requests \ Fresh : r \in handle) =>
    \/ mainPc \in OnSheet /\ mainCall = "update" /\ mainSheet = s
    \/ \E r \in handle : api[r] = s /\ Stage[r] \in {"queued", "running"}

\* CACHED is documented as "no new version available" (types.h:44): check_status does
\* not raise it on a sheet whose data has expired.
CachedMeansCurrent ==
  [][\A s \in Sheets : cachedUntil[s] = "past" =>
       ("CACHED" \in status'[s] => "CACHED" \in status[s])]_vars
=============================================================================
