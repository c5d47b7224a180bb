---------------------------- MODULE RequestCycle ----------------------------
(***************************************************************************)
(* The life of a request in one Apache child, src/mod_R.c:                 *)
(* AP_hook_request_handler, SetUpRequest, TearDownRequest and what they    *)
(* call.  A child runs one R interpreter.  Under a threaded MPM several    *)
(* worker threads of the child enter the hook concurrently and MR_mutex    *)
(* serialises them from SetUpRequest to TearDownRequest; under prefork     *)
(* there is one thread and no mutex.  The globals MR_Request, MR_BBin,     *)
(* MR_BBout, MR_BBerr and the working directory of the process are shared  *)
(* by the threads.                                                         *)
(*                                                                         *)
(* A request_rec is identified with the thread that serves it.  Output is  *)
(* abstracted to the set of threads whose R code wrote it, which is what   *)
(* isolation tells apart.  How a directive is turned into expressions and  *)
(* environments is the subject of HandlerCache.                            *)
(***************************************************************************)
EXTENDS Integers

CONSTANTS Threads,        \* worker threads of the child
          Threaded,       \* ap_mpm_query(AP_MPMQ_IS_THREADED): is there an MR_mutex
          Dirs,           \* directories the process can be in
          Home,           \* the directory the child was started in
          UserCodes,      \* HTTP codes R code passes to setStatus() or returns
          InfoExecFails,  \* calls of RApacheInfo in which an EXEC may fail
          Null            \* the NULL pointer

InfoCalls == {"r-info", "nested"}

ASSUME RequestCycleAssumption ==
  /\ Threaded \in BOOLEAN
  /\ ~Threaded => \A s, t \in Threads : s = t
  /\ Home \in Dirs
  /\ UserCodes \subseteq 100..599
  /\ InfoExecFails \subseteq InfoCalls

\* NULL is no thread, no brigade, no string and no status.
ASSUME NullAssumption ==
  /\ Null \notin Threads
  /\ \A bb \in SUBSET Threads : bb # Null
  /\ \A d \in Dirs, t \in Threads, l \in BOOLEAN :
       [dir |-> d, pool |-> t, live |-> l] # Null
  /\ \A i \in -2..599 : i # Null

VARIABLES
  child,    \* "up", or how the process ended: "exited" by exit(-1), "crashed"
  mutex,    \* the thread that locked MR_mutex, or Null
  MR_r,     \* MR_Request.r
  oldwd,    \* MR_Request.oldwd: the directory named, the pool the string lives in
  BBin,     \* MR_BBin: Null, or the thread whose R code created it
  BBout,    \* MR_BBout: Null, or the threads whose output it buffers
  BBerr,    \* MR_BBerr: Null, or the threads whose messages it buffers
  cwd,      \* working directory of the process
  pc,       \* where each thread is in AP_hook_request_handler
  req,      \* the request each thread serves
  flush,    \* the argument of the TearDownRequest under way
  cont,     \* where that TearDownRequest returns to
  ret,      \* the value the hook returns
  status,   \* r->status
  wire,     \* status line sent to the client, Null while none was sent
  sent,     \* whose output was sent to the client
  failed    \* RApacheResponseError was called while serving the request

shared == <<mutex, MR_r, oldwd, BBin, BBout, BBerr, cwd>>
local  == <<pc, req, flush, cont, ret>>
client == <<status, wire, sent, failed>>
vars   == <<child, shared, local, client>>

OK       == 0
DECLINED == -1
DONE     == -2
HTTP_OK  == 200
HTTP_INTERNAL_SERVER_ERROR == 500

\* Integers an R handler can return: the constants of the rapache environment.
IntResults == {OK, DECLINED, DONE} \cup UserCodes
Statuses == IntResults \cup {HTTP_OK, HTTP_INTERNAL_SERVER_ERROR}

\* file: the directive names a file; func: it names a function or code to eval.
\* Only r-handler and r-script look at the directive.
Handlers == {"r-handler", "r-script", "r-info", "other"}
Requests == [handler : Handlers, file : BOOLEAN, func : BOOLEAN]
NoRequest == [handler |-> "other", file |-> FALSE, func |-> FALSE]
Incoming == {rq \in Requests :
               IF rq.handler \in {"r-handler", "r-script"}
               THEN rq.file \/ rq.func ELSE ~rq.file /\ ~rq.func}

Evaluating == {"evalfile", "evalexpr"}
\* Program points between SetUpRequest and the end of TearDownRequest.
Locked == {"info", "refresh", "file", "expr", "value", "td_cwd", "td_rest"}
          \cup Evaluating
PCs == {"idle", "lock", "return", "returnint", "done"} \cup Locked

InRegion(t) == pc[t] \in Locked

Each(v) == [t \in Threads |-> v]

\* A child that init_R has just prepared.
Init ==
  /\ child = "up"
  /\ mutex = Null /\ MR_r = Null /\ oldwd = Null
  /\ BBin = Null /\ BBout = Null /\ BBerr = Null
  /\ cwd = Home
  /\ pc = Each("idle") /\ req = Each(NoRequest)
  /\ flush = Each(FALSE) /\ cont = Each("return") /\ ret = Each(OK)
  /\ status = Each(HTTP_OK) /\ wire = Each(Null)
  /\ sent = Each({}) /\ failed = Each(FALSE)

-----------------------------------------------------------------------------
(* Helpers.                                                                *)

At(t, label) == child = "up" /\ pc[t] = label
Goto(t, label) == pc' = [pc EXCEPT ![t] = label]

\* The process dereferences NULL, or calls exit(-1).
Die(how) == child' = how /\ UNCHANGED <<shared, local, client>>

\* RApacheError(msg) called by thread t; ap_log_rerror reads MR_Request.r.
Buffered(bb, t) == (IF bb = Null THEN {} ELSE bb) \cup {t}

\* The hook is about to call TearDownRequest(f) and then go on at label c.
CallTearDown(t, f, c) ==
  /\ Goto(t, "td_cwd")
  /\ flush' = [flush EXCEPT ![t] = f]
  /\ cont' = [cont EXCEPT ![t] = c]

\* Mutant: the return value is not set.
RApacheResponseError_NoCode(t) ==
  /\ failed' = [failed EXCEPT ![t] = TRUE]
  /\ CallTearDown(t, FALSE, "return")
  /\ UNCHANGED ret

\* return RApacheResponseError(...)
RApacheResponseError(t) ==
  /\ failed' = [failed EXCEPT ![t] = TRUE]
  /\ ret' = [ret EXCEPT ![t] = HTTP_INTERNAL_SERVER_ERROR]
  /\ CallTearDown(t, FALSE, "return")

-----------------------------------------------------------------------------
(* Entry of the hook.  MR_Request.oldwd is written before r->handler is    *)
(* looked at and before the mutex is taken.                                *)

NewRequest(t, rq) ==
  /\ At(t, "idle")
  /\ req' = [req EXCEPT ![t] = rq]
  /\ UNCHANGED <<child, mutex, MR_r, BBin, BBout, BBerr, cwd, flush, cont, client>>

\* Mutant: the hook goes on when it cannot read the working directory.
HookNoCwd_Proceeds(t, rq) ==
  /\ NewRequest(t, rq)
  /\ Goto(t, "lock")
  /\ UNCHANGED <<oldwd, ret>>

HookNoCwd(t, rq) ==
  /\ NewRequest(t, rq)
  /\ ret' = [ret EXCEPT ![t] = HTTP_INTERNAL_SERVER_ERROR]
  /\ Goto(t, "done")
  /\ UNCHANGED oldwd

HookEnter(t, rq) ==
  /\ NewRequest(t, rq)
  /\ oldwd' = [dir |-> cwd, pool |-> t, live |-> TRUE]
  /\ IF rq.handler = "other"
     THEN ret' = [ret EXCEPT ![t] = DECLINED] /\ Goto(t, "done")
     ELSE Goto(t, "lock") /\ UNCHANGED ret

-----------------------------------------------------------------------------
(* SetUpRequest                                                            *)

MutexError(t) ==
  /\ At(t, "lock") /\ Threaded
  /\ ret' = [ret EXCEPT ![t] = HTTP_INTERNAL_SERVER_ERROR]
  /\ Goto(t, "done")
  /\ UNCHANGED <<child, shared, req, flush, cont, client>>

\* Mutant: the mutex is tried and not waited for.
Acquire_TryLock(t) ==
  /\ At(t, "lock")
  /\ mutex' = IF Threaded THEN t ELSE mutex
  /\ MR_r' = t
  /\ BBin' = Null

\* apr_thread_mutex_lock, then MR_Request.r and MR_BBin.
Acquire(t) ==
  /\ At(t, "lock")
  /\ Threaded => mutex = Null
  /\ mutex' = IF Threaded THEN t ELSE mutex
  /\ MR_r' = t
  /\ BBin' = Null

SetUpRequest(t) ==
  /\ Acquire(t)
  /\ BBout' = {}
  /\ Goto(t, IF req[t].handler = "r-info" THEN "info" ELSE "refresh")
  /\ UNCHANGED <<child, oldwd, BBerr, cwd, req, flush, cont, ret, client>>

\* Mutant: the error path of SetUpRequest forgets TearDownRequest(0).
SetUpFails_NoTearDown(t) ==
  /\ Acquire(t)
  /\ \/ BBout' = Null
     \/ req[t].handler # "r-info" /\ BBout' = {}
  /\ BBerr' = Buffered(BBerr, t)
  /\ ret' = [ret EXCEPT ![t] = HTTP_INTERNAL_SERVER_ERROR]
  /\ Goto(t, "return")
  /\ UNCHANGED <<child, oldwd, cwd, req, flush, cont, client>>

\* No MR_BBout, or GetHandlerFromRequest found no usable directive.
SetUpFails(t) ==
  /\ Acquire(t)
  /\ \/ BBout' = Null
     \/ req[t].handler # "r-info" /\ BBout' = {}
  /\ BBerr' = Buffered(BBerr, t)
  /\ ret' = [ret EXCEPT ![t] = HTTP_INTERNAL_SERVER_ERROR]
  /\ CallTearDown(t, FALSE, "return")
  /\ UNCHANGED <<child, oldwd, cwd, req, client>>

-----------------------------------------------------------------------------
(* r-info.  When an EXEC fails RApacheInfo itself returns through          *)
(* RApacheResponseError, and the hook then tears down a second time.       *)

RApacheInfo(t) ==
  /\ At(t, "info") /\ MR_r # Null /\ BBout # Null
  /\ BBout' = BBout \cup {t}
  /\ ret' = [ret EXCEPT ![t] = DONE]
  /\ CallTearDown(t, TRUE, "return")
  /\ UNCHANGED <<child, mutex, MR_r, oldwd, BBin, BBerr, cwd, req, client>>

RApacheInfoFails(t) ==
  /\ At(t, "info") /\ MR_r # Null /\ "r-info" \in InfoExecFails
  /\ ret' = [ret EXCEPT ![t] = HTTP_INTERNAL_SERVER_ERROR]
  /\ failed' = [failed EXCEPT ![t] = TRUE]
  /\ CallTearDown(t, FALSE, "again")
  /\ UNCHANGED <<child, shared, req, status, wire, sent>>

-----------------------------------------------------------------------------
(* r-handler and r-script                                                  *)

RefreshRApacheEnv(t) ==
  /\ At(t, "refresh")
  /\ Goto(t, IF req[t].file THEN "file" ELSE "expr")
  /\ UNCHANGED <<child, shared, req, flush, cont, ret, client>>

RefreshExits(t) == At(t, "refresh") /\ Die("exited")

\* apr_filepath_set(h->directive->dirname) fails.
ChdirFails(t) ==
  /\ At(t, "file")
  /\ RApacheResponseError(t)
  /\ UNCHANGED <<child, shared, req, status, wire, sent>>

\* apr_filepath_set, then PrepareFileExprs; the file is evaluated when it was
\* parsed anew or when the directive names nothing else to evaluate.
PrepareFile(t, d) ==
  /\ At(t, "file")
  /\ cwd' = d
  /\ \/ Goto(t, "evalfile")
     \/ req[t].func /\ Goto(t, "expr")
  /\ UNCHANGED <<child, mutex, MR_r, oldwd, BBin, BBout, BBerr,
                 req, flush, cont, ret, client>>

\* PrepareFileExprs returns 0: apr_stat or parse() failed, with a message.
PrepareFileFails(t, d) ==
  /\ At(t, "file")
  /\ cwd' = d
  /\ BBerr' = IF MR_r = Null THEN BBerr ELSE Buffered(BBerr, t)
  /\ RApacheResponseError(t)
  /\ UNCHANGED <<child, mutex, MR_r, oldwd, BBin, BBout, req, status, wire, sent>>

\* PrepareHandlerExpr; for r-script it also changes to the script's directory,
\* ignoring a failure to do so.
PrepareHandlerExpr(t, d) ==
  /\ At(t, "expr")
  /\ d = cwd \/ req[t].handler = "r-script"
  /\ cwd' = d
  /\ Goto(t, "evalexpr")
  /\ UNCHANGED <<child, mutex, MR_r, oldwd, BBin, BBout, BBerr,
                 req, flush, cont, ret, client>>

\* A parse error (no message), or "Cannot find function", whose text is
\* allocated from MR_Request.r->pool.
HandlerParseFails(t) ==
  /\ At(t, "expr")
  /\ RApacheResponseError(t)
  /\ UNCHANGED <<child, shared, req, status, wire, sent>>

FunctionNotFound(t) ==
  /\ At(t, "expr") /\ req[t].file /\ MR_r # Null
  /\ BBerr' = Buffered(BBerr, t)
  /\ RApacheResponseError(t)
  /\ UNCHANGED <<child, mutex, MR_r, oldwd, BBin, BBout, cwd,
                 req, status, wire, sent>>

-----------------------------------------------------------------------------
(* What R code does while EvalExprs runs it.  Every callback and .Call     *)
(* looks at MR_Request.r first; with NULL it writes to stderr or returns.  *)

InR(t) == child = "up" /\ pc[t] \in Evaluating

\* WriteConsoleEx(buf, size, 0) and sendBin: append to MR_BBout.
WriteOutput(t) ==
  /\ InR(t) /\ MR_r # Null /\ BBout # Null
  /\ BBout' = BBout \cup {t}
  /\ UNCHANGED <<child, mutex, MR_r, oldwd, BBin, BBerr, cwd, local, client>>

\* WriteConsoleEx(buf, size, 1), ShowMessage, and warnings of the .Calls.
WriteError(t) ==
  /\ InR(t) /\ MR_r # Null
  /\ BBerr' = Buffered(BBerr, t)
  /\ UNCHANGED <<child, mutex, MR_r, oldwd, BBin, BBout, cwd, local, client>>

\* ReadConsole and receiveBin: create MR_BBin on the first read.
ReadBody(t) ==
  /\ InR(t) /\ MR_r # Null
  /\ BBin' = IF BBin = Null THEN t ELSE BBin
  /\ UNCHANGED <<child, mutex, MR_r, oldwd, BBout, BBerr, cwd, local, client>>

RApache_setStatus(t, code) ==
  /\ InR(t) /\ MR_r # Null
  /\ status' = [status EXCEPT ![MR_r] = code]
  /\ UNCHANGED <<child, shared, local, wire, sent, failed>>

\* R's own setwd().
SetWd(t, d) ==
  /\ InR(t)
  /\ cwd' = d
  /\ UNCHANGED <<child, mutex, MR_r, oldwd, BBin, BBout, BBerr, local, client>>

\* RApacheInfo() called from R.  If an EXEC fails, RApacheResponseError tears
\* the request down, its return value is dropped and the R code carries on.
RApache_RApacheInfo(t) ==
  /\ InR(t) /\ MR_r # Null /\ "nested" \in InfoExecFails
  /\ failed' = [failed EXCEPT ![t] = TRUE]
  /\ CallTearDown(t, FALSE, pc[t])
  /\ UNCHANGED <<child, shared, req, ret, status, wire, sent>>

EvalEnds(t) ==
  /\ InR(t)
  /\ Goto(t, IF pc[t] = "evalfile" /\ req[t].func THEN "expr" ELSE "value")
  /\ UNCHANGED <<child, shared, req, flush, cont, ret, client>>

\* evalError: PrintTraceback writes to MR_BBerr if there is a request.
EvalFails(t) ==
  /\ InR(t)
  /\ BBerr' = IF MR_r = Null THEN BBerr ELSE Buffered(BBerr, t)
  /\ RApacheResponseError(t)
  /\ UNCHANGED <<child, mutex, MR_r, oldwd, BBin, BBout, cwd,
                 req, status, wire, sent>>

-----------------------------------------------------------------------------
(* The value of the last expression.                                       *)

IntegerValue(t, v) ==
  /\ At(t, "value")
  /\ ret' = [ret EXCEPT ![t] = v]
  /\ CallTearDown(t, TRUE, "returnint")
  /\ UNCHANGED <<child, shared, req, client>>

OtherValue(t) ==
  /\ At(t, "value")
  /\ ret' = [ret EXCEPT ![t] = DONE]
  /\ CallTearDown(t, TRUE, "return")
  /\ UNCHANGED <<child, shared, req, client>>

\* A 'try-error': RApacheError logs through MR_Request.r before it buffers.
TryErrorValue(t) ==
  /\ At(t, "value") /\ MR_r # Null
  /\ BBerr' = Buffered(BBerr, t)
  /\ RApacheResponseError(t)
  /\ UNCHANGED <<child, mutex, MR_r, oldwd, BBin, BBout, cwd,
                 req, status, wire, sent>>

-----------------------------------------------------------------------------
(* TearDownRequest.  The working directory is a step of its own: between   *)
(* it and the bzero of MR_Request another thread may enter the hook.       *)

TearDownCwd(t) ==
  /\ At(t, "td_cwd")
  /\ \/ oldwd = Null /\ UNCHANGED cwd
     \/ oldwd # Null /\ oldwd.live /\ cwd' = oldwd.dir
     \/ oldwd # Null /\ ~oldwd.live /\ cwd' \in Dirs   \* freed memory is read
  /\ Goto(t, "td_rest")
  /\ UNCHANGED <<child, mutex, MR_r, oldwd, BBin, BBout, BBerr,
                 req, flush, cont, ret, client>>

\* The brigades are written to the client and to the log of MR_Request.r.
MustFlush(t) == flush[t] /\ BBout # Null /\ BBout # {}

FlushOutput(t) ==
  IF MustFlush(t)
  THEN /\ sent' = [sent EXCEPT ![MR_r] = @ \cup BBout]
       /\ wire' = [wire EXCEPT ![MR_r] = IF @ = Null THEN status[MR_r] ELSE @]
  ELSE UNCHANGED <<sent, wire>>

\* bzero(&MR_Request), the brigades are destroyed, the mutex is unlocked.
ClearGlobals ==
  /\ MR_r' = Null /\ oldwd' = Null
  /\ BBin' = Null /\ BBout' = Null /\ BBerr' = Null
  /\ mutex' = Null

TearDownRest(t) ==
  /\ At(t, "td_rest")
  /\ MR_r # Null \/ (BBerr = Null /\ ~MustFlush(t))
  /\ FlushOutput(t)
  /\ ClearGlobals
  /\ IF cont[t] = "again"
     THEN CallTearDown(t, TRUE, "return")
     ELSE /\ Goto(t, cont[t])
          /\ flush' = [flush EXCEPT ![t] = FALSE]
          /\ cont' = [cont EXCEPT ![t] = "return"]
  /\ UNCHANGED <<child, cwd, req, ret, status, failed>>

-----------------------------------------------------------------------------
(* Every place that uses MR_Request.r or a brigade without a NULL check.   *)

UsesNull(t) ==
  \/ pc[t] = "info" /\ (MR_r = Null \/ BBout = Null)      \* ap_set_content_type, PUTS
  \/ pc[t] \in {"file", "value"} /\ MR_r = Null           \* RApacheError
  \/ pc[t] = "expr" /\ req[t].file /\ MR_r = Null         \* MR_Request.r->pool
  \/ pc[t] \in Evaluating /\ MR_r # Null /\ BBout = Null  \* apr_brigade_write
  \/ pc[t] \in Evaluating /\ MR_r = Null                  \* ReadRequestBody's log
  \/ pc[t] = "td_rest" /\ MR_r = Null /\ (BBerr # Null \/ MustFlush(t))

NullDereference(t) == child = "up" /\ UsesNull(t) /\ Die("crashed")

-----------------------------------------------------------------------------
(* Return from the hook.  Apache then completes the response and destroys  *)
(* r->pool.                                                                *)

Return(t) ==
  /\ child = "up" /\ pc[t] \in {"return", "returnint"}
  /\ status' = IF pc[t] = "returnint" /\ ret[t] # OK
               THEN [status EXCEPT ![t] = ret[t]] ELSE status
  /\ Goto(t, "done")
  /\ UNCHANGED <<child, shared, req, flush, cont, ret, wire, sent, failed>>

DestroyPool(t) ==
  /\ At(t, "done")
  /\ oldwd' = IF oldwd # Null /\ oldwd.pool = t
              THEN [dir |-> oldwd.dir, pool |-> t, live |-> FALSE] ELSE oldwd
  /\ Goto(t, "idle")
  /\ req' = [req EXCEPT ![t] = NoRequest]
  /\ ret' = [ret EXCEPT ![t] = OK]
  /\ status' = [status EXCEPT ![t] = HTTP_OK]
  /\ wire' = [wire EXCEPT ![t] = Null]
  /\ sent' = [sent EXCEPT ![t] = {}]
  /\ failed' = [failed EXCEPT ![t] = FALSE]
  /\ UNCHANGED <<child, mutex, MR_r, BBin, BBout, BBerr, cwd, flush, cont>>

\* The parent process replaces a child that ended.
Respawn ==
  /\ child # "up"
  /\ child' = "up"
  /\ ClearGlobals
  /\ cwd' = Home
  /\ pc' = Each("idle") /\ req' = Each(NoRequest)
  /\ flush' = Each(FALSE) /\ cont' = Each("return") /\ ret' = Each(OK)
  /\ status' = Each(HTTP_OK) /\ wire' = Each(Null)
  /\ sent' = Each({}) /\ failed' = Each(FALSE)

RCode(t) ==
  \/ WriteOutput(t) \/ WriteError(t) \/ ReadBody(t)
  \/ RApache_RApacheInfo(t)
  \/ \E code \in UserCodes : RApache_setStatus(t, code)
  \/ \E d \in Dirs : SetWd(t, d)

Finishing(t) == EvalEnds(t) \/ EvalFails(t)

Hook(t) ==
  \/ SetUpFails(t) \/ SetUpRequest(t)
  \/ RApacheInfo(t) \/ RApacheInfoFails(t)
  \/ RefreshRApacheEnv(t) \/ RefreshExits(t)
  \/ ChdirFails(t)
  \/ \E d \in Dirs : PrepareFile(t, d) \/ PrepareFileFails(t, d)
  \/ \E d \in Dirs : PrepareHandlerExpr(t, d)
  \/ HandlerParseFails(t) \/ FunctionNotFound(t)
  \/ Finishing(t)
  \/ \E v \in IntResults : IntegerValue(t, v)
  \/ OtherValue(t) \/ TryErrorValue(t)
  \/ TearDownCwd(t) \/ TearDownRest(t)
  \/ NullDereference(t)
  \/ Return(t) \/ DestroyPool(t)

Next ==
  \/ \E t \in Threads :
       \/ \E rq \in Incoming : HookEnter(t, rq) \/ HookNoCwd(t, rq)
       \/ MutexError(t)
       \/ Hook(t)
       \/ RCode(t)
  \/ Respawn

Spec == Init /\ [][Next]_vars

\* A thread that can go on in the hook does, and R code that EvalExprs runs comes to
\* an end.  No thread is promised the mutex: Acquire is fair only if it stays free.
FairSpec == Spec /\ \A t \in Threads : WF_vars(Hook(t))

-----------------------------------------------------------------------------
(* Properties                                                              *)

OldWd == [dir : Dirs, pool : Threads, live : BOOLEAN]
Brigade == SUBSET Threads

\* The type of every variable.
TypeOK ==
  /\ child \in {"up", "exited", "crashed"}
  /\ mutex \in Threads \cup {Null}
  /\ MR_r \in Threads \cup {Null}
  /\ oldwd = Null \/ oldwd \in OldWd
  /\ BBin \in Threads \cup {Null}
  /\ BBout = Null \/ BBout \in Brigade
  /\ BBerr = Null \/ BBerr \in Brigade
  /\ cwd \in Dirs
  /\ pc \in [Threads -> PCs]
  /\ req \in [Threads -> Requests]
  /\ flush \in [Threads -> BOOLEAN]
  /\ cont \in [Threads -> {"return", "returnint", "again"} \cup Evaluating]
  /\ ret \in [Threads -> Statuses]
  /\ status \in [Threads -> Statuses]
  /\ wire \in [Threads -> Statuses \cup {Null}]
  /\ sent \in [Threads -> Brigade]
  /\ failed \in [Threads -> BOOLEAN]

\* R is never entered by two threads: at most one is between SetUpRequest and
\* the end of its TearDownRequest.
MutualExclusion == \A s, t \in Threads : InRegion(s) /\ InRegion(t) => s = t

\* While R code runs for a request, the callbacks and .Calls act on that request.
OwnRequest == \A t \in Threads : pc[t] \in Evaluating => MR_r = t

\* A client is only ever sent output that the R code of its own request wrote.
OutputIsolation == \A t \in Threads : sent[t] \subseteq {t}

\* Between requests nothing of the last one is left in the globals, on any path
\* through the hook: the brigades are gone and the mutex is free.
CleanBetweenRequests ==
  (child = "up" /\ \A t \in Threads : ~InRegion(t)) =>
    /\ MR_r = Null /\ mutex = Null
    /\ BBin = Null /\ BBout = Null /\ BBerr = Null

\* Between requests the process is back in the directory it was started in,
\* whatever the hook and the R code (setwd) changed it to.
CwdRestored ==
  (child = "up" /\ \A t \in Threads : ~InRegion(t)) => cwd = Home

\* TearDownRequest never reads the saved directory name after the pool it was
\* allocated from was destroyed.
OldwdAlive ==
  \A t \in Threads : At(t, "td_cwd") /\ oldwd # Null => oldwd.live

\* A request that failed sends none of the output it had buffered.
ErrorsDiscardOutput ==
  \A t \in Threads : pc[t] = "done" /\ failed[t] => sent[t] = {}

\* RApacheResponseError makes the hook return HTTP_INTERNAL_SERVER_ERROR.
ErrorsReturn500 ==
  \A t \in Threads :
    pc[t] = "done" /\ failed[t] => ret[t] = HTTP_INTERNAL_SERVER_ERROR

\* A failed request is answered by an error and by nothing else, whichever of the
\* hook's early returns it took (RApacheResponseError).
ErrorsAnswered == ErrorsDiscardOutput /\ ErrorsReturn500

\* When R returns an HTTP code, that is the status the client is sent.
ReturnedStatusSent ==
  \A t \in Threads :
    pc[t] = "done" /\ ret[t] \in UserCodes /\ wire[t] # Null => wire[t] = ret[t]

\* A thread that locked MR_mutex gives it up again, whichever way its request goes:
\* every early return of the hook passes through TearDownRequest, so that the
\* requests that wait for R do not wait for ever.
MutexReleased == \A t \in Threads : mutex = t ~> (mutex # t \/ child # "up")

=============================================================================
