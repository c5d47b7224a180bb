------------------------- MODULE RequestCycleProofs -------------------------
(***************************************************************************)
(* Theorems about RequestCycle, for any number of threads, directories and *)
(* status codes.                                                           *)
(***************************************************************************)
EXTENDS RequestCycle, TLAPS

USE DEF OK, DECLINED, DONE, HTTP_OK, HTTP_INTERNAL_SERVER_ERROR

\* A new child has the types of TypeOK.
LEMMA InitType == Init => TypeOK
  BY RequestCycleAssumption DEF Init, TypeOK, Each, PCs, NoRequest, Requests,
     Handlers, Brigade, Statuses, IntResults

\* Every step of the hook, of R code and of the server keeps them.
LEMMA NextType == TypeOK /\ [Next]_vars => TypeOK'
<1> SUFFICES ASSUME TypeOK, [Next]_vars PROVE TypeOK'
  OBVIOUS
<1> USE RequestCycleAssumption
<1> USE DEF TypeOK, Goto, At, PCs, Evaluating, Locked, CallTearDown, Statuses,
        IntResults, shared, local, client, Brigade, OldWd
<1>1. ASSUME NEW t \in Threads, NEW rq \in Incoming, HookEnter(t, rq)
     PROVE  TypeOK'
  BY <1>1 DEF HookEnter, NewRequest, Incoming
<1>2. ASSUME NEW t \in Threads, NEW rq \in Incoming, HookNoCwd(t, rq)
     PROVE  TypeOK'
  BY <1>2 DEF HookNoCwd, NewRequest, Incoming
<1>3. ASSUME NEW t \in Threads, MutexError(t)
     PROVE  TypeOK'
  BY <1>3 DEF MutexError
<1>4. ASSUME NEW t \in Threads, SetUpRequest(t)
     PROVE  TypeOK'
  BY <1>4 DEF SetUpRequest, Acquire
<1>5. ASSUME NEW t \in Threads, SetUpFails(t)
     PROVE  TypeOK'
  BY <1>5 DEF SetUpFails, Acquire, Buffered
<1>6. ASSUME NEW t \in Threads, RApacheInfo(t)
     PROVE  TypeOK'
  BY <1>6 DEF RApacheInfo
<1>7. ASSUME NEW t \in Threads, RApacheInfoFails(t)
     PROVE  TypeOK'
  BY <1>7 DEF RApacheInfoFails
<1>8. ASSUME NEW t \in Threads, RefreshRApacheEnv(t) \/ RefreshExits(t)
     PROVE  TypeOK'
  BY <1>8 DEF RefreshRApacheEnv, RefreshExits, Die
<1>9. ASSUME NEW t \in Threads, ChdirFails(t)
     PROVE  TypeOK'
  BY <1>9 DEF ChdirFails, RApacheResponseError
<1>10. ASSUME NEW t \in Threads, NEW d \in Dirs, PrepareFile(t, d)
     PROVE  TypeOK'
  BY <1>10 DEF PrepareFile
<1>11. ASSUME NEW t \in Threads, NEW d \in Dirs, PrepareFileFails(t, d)
     PROVE  TypeOK'
  BY <1>11 DEF PrepareFileFails, RApacheResponseError, Buffered
<1>12. ASSUME NEW t \in Threads, NEW d \in Dirs, PrepareHandlerExpr(t, d)
     PROVE  TypeOK'
  BY <1>12 DEF PrepareHandlerExpr
<1>13. ASSUME NEW t \in Threads, HandlerParseFails(t)
     PROVE  TypeOK'
  BY <1>13 DEF HandlerParseFails, RApacheResponseError
<1>14. ASSUME NEW t \in Threads, FunctionNotFound(t)
     PROVE  TypeOK'
  BY <1>14 DEF FunctionNotFound, RApacheResponseError, Buffered
<1>15. ASSUME NEW t \in Threads, EvalEnds(t)
     PROVE  TypeOK'
  BY <1>15 DEF EvalEnds
<1>16. ASSUME NEW t \in Threads, EvalFails(t)
     PROVE  TypeOK'
  BY <1>16 DEF EvalFails, InR, RApacheResponseError, Buffered
<1>17. ASSUME NEW t \in Threads, NEW v \in IntResults, IntegerValue(t, v)
     PROVE  TypeOK'
  BY <1>17 DEF IntegerValue
<1>18. ASSUME NEW t \in Threads, OtherValue(t)
     PROVE  TypeOK'
  BY <1>18 DEF OtherValue
<1>19. ASSUME NEW t \in Threads, TryErrorValue(t)
     PROVE  TypeOK'
  BY <1>19 DEF TryErrorValue, RApacheResponseError, Buffered
<1>20. ASSUME NEW t \in Threads, TearDownCwd(t)
     PROVE  TypeOK'
  BY <1>20 DEF TearDownCwd
<1>21. ASSUME NEW t \in Threads, TearDownRest(t)
     PROVE  TypeOK'
  <2>1. sent' \in [Threads -> Brigade] /\ wire' \in [Threads -> Statuses \cup {Null}]
    BY <1>21 DEF TearDownRest, FlushOutput, MustFlush
  <2>2. pc' \in [Threads -> PCs] /\ flush' \in [Threads -> BOOLEAN]
        /\ cont' \in [Threads -> {"return", "returnint", "again"} \cup Evaluating]
    <3>1. CASE cont[t] = "again"
      <4>1. CallTearDown(t, TRUE, "return")
        BY <1>21, <3>1, Zenon DEF TearDownRest
      <4> QED
        BY <4>1
    <3>2. CASE cont[t] # "again"
      <4>1. /\ Goto(t, cont[t])
            /\ flush' = [flush EXCEPT ![t] = FALSE]
            /\ cont' = [cont EXCEPT ![t] = "return"]
        BY <1>21, <3>2, Zenon DEF TearDownRest
      <4>2. cont[t] \in PCs
        BY <3>2
      <4> QED
        BY <4>1, <4>2
    <3> QED
      BY <3>1, <3>2
  <2> QED
    BY <2>1, <2>2, <1>21 DEF TearDownRest, ClearGlobals
<1>22. ASSUME NEW t \in Threads, NullDereference(t)
     PROVE  TypeOK'
  BY <1>22 DEF NullDereference, Die
<1>23. ASSUME NEW t \in Threads, Return(t)
     PROVE  TypeOK'
  BY <1>23 DEF Return
<1>24. ASSUME NEW t \in Threads, DestroyPool(t)
     PROVE  TypeOK'
  BY <1>24 DEF DestroyPool, NoRequest, Requests, Handlers
<1>25. ASSUME NEW t \in Threads, WriteOutput(t)
     PROVE  TypeOK'
  BY <1>25 DEF WriteOutput
<1>26. ASSUME NEW t \in Threads, WriteError(t)
     PROVE  TypeOK'
  BY <1>26 DEF WriteError, Buffered
<1>27. ASSUME NEW t \in Threads, ReadBody(t)
     PROVE  TypeOK'
  BY <1>27 DEF ReadBody
<1>28. ASSUME NEW t \in Threads, RApache_RApacheInfo(t)
     PROVE  TypeOK'
  BY <1>28 DEF RApache_RApacheInfo, InR
<1>29. ASSUME NEW t \in Threads, NEW code \in UserCodes, RApache_setStatus(t, code)
     PROVE  TypeOK'
  BY <1>29 DEF RApache_setStatus
<1>30. ASSUME NEW t \in Threads, NEW d \in Dirs, SetWd(t, d)
     PROVE  TypeOK'
  BY <1>30 DEF SetWd
<1>31. ASSUME Respawn
     PROVE  TypeOK'
  BY <1>31 DEF Respawn, ClearGlobals, Each, NoRequest, Requests, Handlers
<1>32. ASSUME UNCHANGED vars
     PROVE  TypeOK'
  BY <1>32 DEF vars
<1> HIDE DEF TypeOK, Goto, At, PCs, Evaluating, Locked, CallTearDown, Statuses,
        IntResults, shared, local, client, Brigade, OldWd
<1> QED
  BY <1>1, <1>2, <1>3, <1>4, <1>5, <1>6, <1>7, <1>8, <1>9, <1>10, <1>11,
     <1>12, <1>13, <1>14, <1>15, <1>16, <1>17, <1>18, <1>19, <1>20,
     <1>21, <1>22, <1>23, <1>24, <1>25, <1>26, <1>27, <1>28, <1>29,
     <1>30, <1>31, <1>32
  DEF Next, Hook, RCode, Finishing

\* Type correctness of the request cycle: every program point, return value
\* and status the hook can reach is one of those TypeOK lists.
THEOREM TypeCorrect == Spec => []TypeOK
  BY InitType, NextType, PTL DEF Spec

-----------------------------------------------------------------------------
(* The inductive invariant behind mutual exclusion.  A thread is between   *)
(* SetUpRequest and the end of TearDownRequest exactly while it owns the   *)
(* globals: MR_Request.r is its request, it holds the mutex if there is    *)
(* one, and what is buffered is its own.  Without the converse (nobody     *)
(* there, nothing in the globals) the step that takes the mutex would not  *)
(* be known to find the region empty.                                      *)

TearingDown == {"td_cwd", "td_rest"}

Owns(t) ==
  /\ MR_r = t
  /\ Threaded => mutex = t
  /\ BBout = Null \/ BBout \subseteq {t}
  /\ pc[t] \notin TearingDown => BBout # Null

Idle == MR_r = Null /\ mutex = Null /\ BBin = Null /\ BBout = Null /\ BBerr = Null

LockInv ==
  /\ ~Threaded => mutex = Null
  /\ \A t \in Threads : InRegion(t) => Owns(t)
  /\ (\A t \in Threads : ~InRegion(t)) => Idle
  /\ \A t \in Threads : cont[t] \in {"return", "returnint"}
  /\ \A t \in Threads : sent[t] \subseteq {t}

\* A step of a thread that stays between SetUpRequest and the end of
\* TearDownRequest: it may add to its own output and move on, no more.
StaysInRegion(t) ==
  /\ InRegion(t)
  /\ \E l \in Locked : /\ pc' = [pc EXCEPT ![t] = l]
                       /\ pc[t] \in TearingDown => l \in TearingDown
  /\ BBout' = BBout \/ (BBout # Null /\ BBout' = BBout \cup {t})
  /\ cont' = cont \/ \E c \in {"return", "returnint"} : cont' = [cont EXCEPT ![t] = c]
  /\ UNCHANGED <<MR_r, mutex, sent>>

\* Such a step keeps the ownership of the globals.
LEMMA StaysInRegionLock ==
  ASSUME TypeOK, LockInv, NEW t \in Threads, StaysInRegion(t)
  PROVE  LockInv'
<1>1. PICK l \in Locked : /\ pc' = [pc EXCEPT ![t] = l]
                          /\ pc[t] \in TearingDown => l \in TearingDown
  BY DEF StaysInRegion
<1>2. \A s \in Threads : InRegion(s)' <=> InRegion(s)
  BY <1>1 DEF StaysInRegion, InRegion, TypeOK
<1>3. \A s \in Threads : InRegion(s) => s = t
  BY DEF StaysInRegion, LockInv, Owns
<1>4. Owns(t)'
  <2>1. BBout' = Null \/ BBout' \subseteq {t}
    BY DEF StaysInRegion, LockInv, Owns
  <2>2. (pc'[t] \notin TearingDown) => BBout' # Null
    <3> SUFFICES ASSUME pc'[t] \notin TearingDown PROVE BBout' # Null
      OBVIOUS
    <3>1. pc[t] \notin TearingDown
      BY <1>1 DEF TypeOK
    <3>2. BBout # Null /\ BBout \in SUBSET Threads
      BY <3>1 DEF StaysInRegion, LockInv, Owns, TypeOK, Brigade
    <3> QED
      BY <3>2, NullAssumption DEF StaysInRegion
  <2> QED
    BY <2>1, <2>2 DEF StaysInRegion, LockInv, Owns
<1>5. \A s \in Threads : cont'[s] \in {"return", "returnint"}
  BY DEF StaysInRegion, LockInv, TypeOK
<1> QED
  BY <1>2, <1>3, <1>4, <1>5 DEF StaysInRegion, LockInv

\* A step outside the region that leaves the globals it protects alone.
StaysOutside ==
  /\ \A t \in Threads : pc'[t] # pc[t] => ~InRegion(t) /\ ~InRegion(t)'
  /\ sent' = sent \/ \E t \in Threads : sent' = [sent EXCEPT ![t] = {}]
  /\ UNCHANGED <<MR_r, mutex, BBin, BBout, BBerr, cont>>

\* Such a step keeps it too.
LEMMA StaysOutsideLock ==
  ASSUME TypeOK, LockInv, StaysOutside
  PROVE  LockInv'
<1>1. \A s \in Threads : InRegion(s)' <=> InRegion(s)
  BY DEF StaysOutside, InRegion
<1>2. \A s \in Threads : InRegion(s) => pc'[s] = pc[s]
  BY DEF StaysOutside
<1>3. \A s \in Threads : InRegion(s) => Owns(s)'
  BY <1>2 DEF LockInv, StaysOutside, Owns
<1>4. Idle => Idle'
  BY DEF Idle, StaysOutside
<1>5. \A s \in Threads : sent'[s] \subseteq {s}
  BY DEF LockInv, StaysOutside, TypeOK
<1> QED
  BY <1>1, <1>3, <1>4, <1>5 DEF LockInv, StaysOutside

\* A new child owns nothing.
LEMMA InitLock == Init => LockInv
  BY DEF Init, LockInv, Each, InRegion, Idle, Locked, Evaluating

\* Every step keeps LockInv when no EXEC of RApacheInfo fails.
LEMMA NextLock ==
  ASSUME InfoExecFails = {}, TypeOK, LockInv, [Next]_vars
  PROVE  LockInv'
<1> USE DEF At, Goto, shared, local, client
<1>1. ASSUME NEW t \in Threads, NEW rq \in Incoming, HookEnter(t, rq)
     PROVE  LockInv'
  <2> StaysOutside
    BY <1>1
    DEF StaysOutside, InRegion, Locked, Evaluating, TypeOK, HookEnter,
        NewRequest
  <2> QED
    BY StaysOutsideLock
<1>2. ASSUME NEW t \in Threads, NEW rq \in Incoming, HookNoCwd(t, rq)
     PROVE  LockInv'
  <2> StaysOutside
    BY <1>2
    DEF StaysOutside, InRegion, Locked, Evaluating, TypeOK, HookNoCwd,
        NewRequest
  <2> QED
    BY StaysOutsideLock
<1>3. ASSUME NEW t \in Threads, MutexError(t)
     PROVE  LockInv'
  <2> StaysOutside
    BY <1>3 DEF StaysOutside, InRegion, Locked, Evaluating, TypeOK, MutexError
  <2> QED
    BY StaysOutsideLock
<1>4. ASSUME NEW t \in Threads, Return(t)
     PROVE  LockInv'
  <2> StaysOutside
    BY <1>4 DEF StaysOutside, InRegion, Locked, Evaluating, TypeOK, Return
  <2> QED
    BY StaysOutsideLock
<1>5. ASSUME NEW t \in Threads, DestroyPool(t)
     PROVE  LockInv'
  <2> StaysOutside
    BY <1>5 DEF StaysOutside, InRegion, Locked, Evaluating, TypeOK, DestroyPool
  <2> QED
    BY StaysOutsideLock
<1>6. ASSUME NEW t \in Threads, RefreshExits(t) \/ NullDereference(t)
     PROVE  LockInv'
  <2> StaysOutside
    BY <1>6
    DEF StaysOutside, InRegion, Locked, Evaluating, TypeOK, RefreshExits,
        NullDereference, Die
  <2> QED
    BY StaysOutsideLock
<1>7. ASSUME UNCHANGED vars
     PROVE  LockInv'
  <2> StaysOutside
    BY <1>7 DEF StaysOutside, InRegion, Locked, Evaluating, TypeOK, vars
  <2> QED
    BY StaysOutsideLock
<1>8. ASSUME NEW t \in Threads, RApacheInfo(t)
     PROVE  LockInv'
  <2> StaysInRegion(t)
    BY <1>8
    DEF StaysInRegion, InRegion, Locked, Evaluating, TearingDown, TypeOK,
        RApacheInfo, CallTearDown
  <2> QED
    BY StaysInRegionLock
<1>9. ASSUME NEW t \in Threads, RApacheInfoFails(t)
     PROVE  LockInv'
  BY <1>9 DEF RApacheInfoFails
<1>10. ASSUME NEW t \in Threads, RefreshRApacheEnv(t)
     PROVE  LockInv'
  <2> StaysInRegion(t)
    BY <1>10
    DEF StaysInRegion, InRegion, Locked, Evaluating, TearingDown, TypeOK,
        RefreshRApacheEnv
  <2> QED
    BY StaysInRegionLock
<1>11. ASSUME NEW t \in Threads, ChdirFails(t)
     PROVE  LockInv'
  <2> StaysInRegion(t)
    BY <1>11
    DEF StaysInRegion, InRegion, Locked, Evaluating, TearingDown, TypeOK,
        ChdirFails, RApacheResponseError, CallTearDown
  <2> QED
    BY StaysInRegionLock
<1>12. ASSUME NEW t \in Threads, NEW d \in Dirs, PrepareFile(t, d)
     PROVE  LockInv'
  <2> StaysInRegion(t)
    BY <1>12
    DEF StaysInRegion, InRegion, Locked, Evaluating, TearingDown, TypeOK,
        PrepareFile
  <2> QED
    BY StaysInRegionLock
<1>13. ASSUME NEW t \in Threads, NEW d \in Dirs, PrepareFileFails(t, d)
     PROVE  LockInv'
  <2> StaysInRegion(t)
    BY <1>13
    DEF StaysInRegion, InRegion, Locked, Evaluating, TearingDown, TypeOK,
        PrepareFileFails, RApacheResponseError, CallTearDown
  <2> QED
    BY StaysInRegionLock
<1>14. ASSUME NEW t \in Threads, NEW d \in Dirs, PrepareHandlerExpr(t, d)
     PROVE  LockInv'
  <2> StaysInRegion(t)
    BY <1>14
    DEF StaysInRegion, InRegion, Locked, Evaluating, TearingDown, TypeOK,
        PrepareHandlerExpr
  <2> QED
    BY StaysInRegionLock
<1>15. ASSUME NEW t \in Threads, HandlerParseFails(t)
     PROVE  LockInv'
  <2> StaysInRegion(t)
    BY <1>15
    DEF StaysInRegion, InRegion, Locked, Evaluating, TearingDown, TypeOK,
        HandlerParseFails, RApacheResponseError, CallTearDown
  <2> QED
    BY StaysInRegionLock
<1>16. ASSUME NEW t \in Threads, FunctionNotFound(t)
     PROVE  LockInv'
  <2> StaysInRegion(t)
    BY <1>16
    DEF StaysInRegion, InRegion, Locked, Evaluating, TearingDown, TypeOK,
        FunctionNotFound, RApacheResponseError, CallTearDown
  <2> QED
    BY StaysInRegionLock
<1>17. ASSUME NEW t \in Threads, EvalEnds(t)
     PROVE  LockInv'
  <2> StaysInRegion(t)
    BY <1>17
    DEF StaysInRegion, InRegion, Locked, Evaluating, TearingDown, TypeOK,
        EvalEnds, InR
  <2> QED
    BY StaysInRegionLock
<1>18. ASSUME NEW t \in Threads, EvalFails(t)
     PROVE  LockInv'
  <2> StaysInRegion(t)
    BY <1>18
    DEF StaysInRegion, InRegion, Locked, Evaluating, TearingDown, TypeOK,
        EvalFails, InR, RApacheResponseError, CallTearDown
  <2> QED
    BY StaysInRegionLock
<1>19. ASSUME NEW t \in Threads, NEW v \in IntResults, IntegerValue(t, v)
     PROVE  LockInv'
  <2> StaysInRegion(t)
    BY <1>19
    DEF StaysInRegion, InRegion, Locked, Evaluating, TearingDown, TypeOK,
        IntegerValue, CallTearDown
  <2> QED
    BY StaysInRegionLock
<1>20. ASSUME NEW t \in Threads, OtherValue(t)
     PROVE  LockInv'
  <2> StaysInRegion(t)
    BY <1>20
    DEF StaysInRegion, InRegion, Locked, Evaluating, TearingDown, TypeOK,
        OtherValue, CallTearDown
  <2> QED
    BY StaysInRegionLock
<1>21. ASSUME NEW t \in Threads, TryErrorValue(t)
     PROVE  LockInv'
  <2> StaysInRegion(t)
    BY <1>21
    DEF StaysInRegion, InRegion, Locked, Evaluating, TearingDown, TypeOK,
        TryErrorValue, RApacheResponseError, CallTearDown
  <2> QED
    BY StaysInRegionLock
<1>22. ASSUME NEW t \in Threads, TearDownCwd(t)
     PROVE  LockInv'
  <2> StaysInRegion(t)
    BY <1>22
    DEF StaysInRegion, InRegion, Locked, Evaluating, TearingDown, TypeOK,
        TearDownCwd
  <2> QED
    BY StaysInRegionLock
<1>23. ASSUME NEW t \in Threads, WriteOutput(t)
     PROVE  LockInv'
  <2> StaysInRegion(t)
    BY <1>23
    DEF StaysInRegion, InRegion, Locked, Evaluating, TearingDown, TypeOK,
        WriteOutput, InR
  <2> QED
    BY StaysInRegionLock
<1>24. ASSUME NEW t \in Threads, WriteError(t)
     PROVE  LockInv'
  <2> StaysInRegion(t)
    BY <1>24
    DEF StaysInRegion, InRegion, Locked, Evaluating, TearingDown, TypeOK,
        WriteError, InR
  <2> QED
    BY StaysInRegionLock
<1>25. ASSUME NEW t \in Threads, ReadBody(t)
     PROVE  LockInv'
  <2> StaysInRegion(t)
    BY <1>25
    DEF StaysInRegion, InRegion, Locked, Evaluating, TearingDown, TypeOK,
        ReadBody, InR
  <2> QED
    BY StaysInRegionLock
<1>26. ASSUME NEW t \in Threads, RApache_RApacheInfo(t)
     PROVE  LockInv'
  BY <1>26 DEF RApache_RApacheInfo
<1>27. ASSUME NEW t \in Threads, NEW code \in UserCodes, RApache_setStatus(t, code)
     PROVE  LockInv'
  <2> StaysInRegion(t)
    BY <1>27
    DEF StaysInRegion, InRegion, Locked, Evaluating, TearingDown, TypeOK,
        RApache_setStatus, InR
  <2> QED
    BY StaysInRegionLock
<1>28. ASSUME NEW t \in Threads, NEW d \in Dirs, SetWd(t, d)
     PROVE  LockInv'
  <2> StaysInRegion(t)
    BY <1>28
    DEF StaysInRegion, InRegion, Locked, Evaluating, TearingDown, TypeOK,
        SetWd, InR
  <2> QED
    BY StaysInRegionLock
<1>29. ASSUME NEW t \in Threads, SetUpRequest(t) \/ SetUpFails(t)
     PROVE  LockInv'
  <2>1. Acquire(t)
    BY <1>29 DEF SetUpRequest, SetUpFails
  <2>2. \A s \in Threads : ~InRegion(s)
    BY <2>1, RequestCycleAssumption, NullAssumption
    DEF Acquire, LockInv, Owns, InRegion, Locked, Evaluating
  <2>3. PICK l \in Locked : /\ pc' = [pc EXCEPT ![t] = l]
                            /\ l \in TearingDown \/ BBout' # Null
    <3>1. {} # Null
      BY NullAssumption
    <3> QED
      BY <1>29, <3>1
      DEF SetUpRequest, SetUpFails, CallTearDown, TearingDown, Locked,
          Evaluating
  <2>4. InRegion(t)' /\ \A s \in Threads : InRegion(s)' => s = t
    BY <2>2, <2>3 DEF InRegion, TypeOK
  <2>5. Owns(t)'
    BY <1>29, <2>1, <2>3 DEF Owns, Acquire, SetUpRequest, SetUpFails, TypeOK
  <2>6. \A s \in Threads : cont'[s] \in {"return", "returnint"}
    BY <1>29 DEF SetUpRequest, SetUpFails, CallTearDown, LockInv, TypeOK
  <2>7. ~Threaded => mutex' = Null
    BY <2>1 DEF Acquire, LockInv
  <2>8. sent' = sent
    BY <1>29 DEF SetUpRequest, SetUpFails
  <2> QED
    BY <2>4, <2>5, <2>6, <2>7, <2>8 DEF LockInv
<1>30. ASSUME NEW t \in Threads, TearDownRest(t)
     PROVE  LockInv'
  <2>1. MR_r = t /\ \A s \in Threads : InRegion(s) => s = t
    BY <1>30 DEF TearDownRest, InRegion, Locked, LockInv, Owns
  <2>2. cont[t] \in {"return", "returnint"}
    BY DEF LockInv
  <2>3. /\ pc' = [pc EXCEPT ![t] = cont[t]]
        /\ cont' = [cont EXCEPT ![t] = "return"]
    BY <1>30, <2>2, Zenon DEF TearDownRest
  <2>4. \A s \in Threads : ~InRegion(s)'
    BY <2>1, <2>2, <2>3 DEF InRegion, TypeOK, Locked, Evaluating
  <2>5. Idle'
    BY <1>30 DEF TearDownRest, ClearGlobals, Idle
  <2>6. \A s \in Threads : sent'[s] \subseteq {s}
    <3>1. CASE MustFlush(t)
      <4>1. BBout \subseteq {t} /\ sent' = [sent EXCEPT ![t] = @ \cup BBout]
        BY <1>30, <2>1, <3>1
        DEF TearDownRest, FlushOutput, MustFlush, InRegion, Locked, LockInv, Owns
      <4> QED
        BY <4>1 DEF LockInv, TypeOK
    <3>2. CASE ~MustFlush(t)
      BY <1>30, <3>2 DEF TearDownRest, FlushOutput, LockInv
    <3> QED
      BY <3>1, <3>2
  <2>7. \A s \in Threads : cont'[s] \in {"return", "returnint"}
    BY <2>3 DEF LockInv, TypeOK
  <2> QED
    BY <2>4, <2>5, <2>6, <2>7 DEF LockInv, Idle
<1>31. ASSUME Respawn PROVE LockInv'
  BY <1>31
  DEF Respawn, ClearGlobals, LockInv, Each, InRegion, Idle, Locked, Evaluating
<1> HIDE DEF At, Goto, shared, local, client
<1> QED
  BY <1>1, <1>2, <1>3, <1>4, <1>5, <1>6, <1>7, <1>8, <1>9, <1>10, <1>11,
     <1>12, <1>13, <1>14, <1>15, <1>16, <1>17, <1>18, <1>19, <1>20,
     <1>21, <1>22, <1>23, <1>24, <1>25, <1>26, <1>27, <1>28, <1>29,
     <1>30, <1>31
  DEF Next, Hook, RCode, Finishing

\* The globals belong to the thread between SetUpRequest and the end of
\* TearDownRequest, and to nobody when there is none.
THEOREM LockCorrect ==
  ASSUME InfoExecFails = {}
  PROVE  Spec => [](TypeOK /\ LockInv)
<1>1. Init => TypeOK /\ LockInv
  BY InitType, InitLock
<1>2. TypeOK /\ LockInv /\ [Next]_vars => (TypeOK /\ LockInv)'
  BY NextType, NextLock
<1> QED
  BY <1>1, <1>2, PTL DEF Spec

\* Mutual exclusion, for any number of threads, as long as no EXEC of
\* RApacheInfo fails: MR_mutex admits one thread between SetUpRequest and the
\* end of TearDownRequest.
THEOREM MutualExclusionCorrect ==
  ASSUME InfoExecFails = {}
  PROVE  Spec => []MutualExclusion
<1>1. LockInv => MutualExclusion
  BY DEF LockInv, Owns, MutualExclusion
<1> QED
  BY <1>1, LockCorrect, PTL

\* Under the same condition the callbacks and .Calls act on the request whose
\* R code runs.
THEOREM OwnRequestCorrect ==
  ASSUME InfoExecFails = {}
  PROVE  Spec => []OwnRequest
<1>1. LockInv => OwnRequest
  BY DEF LockInv, Owns, OwnRequest, InRegion, Locked
<1> QED
  BY <1>1, LockCorrect, PTL

\* Under the same condition no client is sent another request's output.
THEOREM OutputIsolationCorrect ==
  ASSUME InfoExecFails = {}
  PROVE  Spec => []OutputIsolation
<1>1. LockInv => OutputIsolation
  BY DEF LockInv, OutputIsolation
<1> QED
  BY <1>1, LockCorrect, PTL

\* Under the same condition every path through the hook, error paths included,
\* leaves clean globals and a free mutex.
THEOREM CleanBetweenRequestsCorrect ==
  ASSUME InfoExecFails = {}
  PROVE  Spec => []CleanBetweenRequests
<1>1. LockInv => CleanBetweenRequests
  BY DEF LockInv, CleanBetweenRequests, Idle
<1> QED
  BY <1>1, LockCorrect, PTL

-----------------------------------------------------------------------------
(* Failed requests.                                                        *)

\* A failed request is on its way out with code 500 and has sent nothing; no
\* request has sent anything before its tear-down.
FailInv ==
  \A t \in Threads :
    /\ failed[t] => /\ pc[t] \in TearingDown \cup {"return", "done"}
                    /\ ret[t] = HTTP_INTERNAL_SERVER_ERROR
                    /\ sent[t] = {}
                    /\ ~flush[t] /\ cont[t] = "return"
    /\ pc[t] \in {"idle", "lock"} \cup Locked => sent[t] = {}

\* The part of the type invariant that the step needs.
FailTypes ==
  /\ pc \in [Threads -> PCs] /\ ret \in [Threads -> Statuses]
  /\ sent \in [Threads -> Brigade] /\ failed \in [Threads -> BOOLEAN]
  /\ flush \in [Threads -> BOOLEAN]
  /\ cont \in [Threads -> {"return", "returnint", "again"} \cup Evaluating]

\* A new child has served no request.
LEMMA InitFail == Init => FailInv
  BY DEF Init, FailInv, Each

\* Every step keeps FailInv.  LockInv is needed where TearDownRequest sends
\* the output to MR_Request.r: it must be the thread's own request.
LEMMA NextFail ==
  ASSUME InfoExecFails = {}, TypeOK, LockInv, FailInv, [Next]_vars
  PROVE  FailInv'
<1>a. FailTypes
  BY DEF TypeOK, FailTypes
<1> USE DEF At, Goto, shared, local, client
<1>1. ASSUME NEW t \in Threads, NEW rq \in Incoming, HookEnter(t, rq)
     PROVE  FailInv'
  BY <1>1, <1>a
  DEF FailInv, FailTypes, TearingDown, Locked, Evaluating, HookEnter,
      NewRequest
<1>2. ASSUME NEW t \in Threads, NEW rq \in Incoming, HookNoCwd(t, rq)
     PROVE  FailInv'
  BY <1>2, <1>a
  DEF FailInv, FailTypes, TearingDown, Locked, Evaluating, HookNoCwd,
      NewRequest
<1>3. ASSUME NEW t \in Threads, MutexError(t)
     PROVE  FailInv'
  BY <1>3, <1>a
  DEF FailInv, FailTypes, TearingDown, Locked, Evaluating, MutexError
<1>4. ASSUME NEW t \in Threads, SetUpRequest(t)
     PROVE  FailInv'
  BY <1>4, <1>a
  DEF FailInv, FailTypes, TearingDown, Locked, Evaluating, SetUpRequest,
      Acquire
<1>5. ASSUME NEW t \in Threads, SetUpFails(t)
     PROVE  FailInv'
  BY <1>5, <1>a
  DEF FailInv, FailTypes, TearingDown, Locked, Evaluating, SetUpFails,
      Acquire, CallTearDown
<1>6. ASSUME NEW t \in Threads, RApacheInfo(t)
     PROVE  FailInv'
  BY <1>6, <1>a
  DEF FailInv, FailTypes, TearingDown, Locked, Evaluating, RApacheInfo,
      CallTearDown
<1>7. ASSUME NEW t \in Threads, RApacheInfoFails(t)
     PROVE  FailInv'
  BY <1>7, <1>a
  DEF FailInv, FailTypes, TearingDown, Locked, Evaluating, RApacheInfoFails
<1>8. ASSUME NEW t \in Threads, RefreshRApacheEnv(t)
     PROVE  FailInv'
  BY <1>8, <1>a
  DEF FailInv, FailTypes, TearingDown, Locked, Evaluating, RefreshRApacheEnv
<1>9. ASSUME NEW t \in Threads, RefreshExits(t) \/ NullDereference(t)
     PROVE  FailInv'
  BY <1>9, <1>a
  DEF FailInv, FailTypes, TearingDown, Locked, Evaluating, RefreshExits,
      NullDereference, Die
<1>10. ASSUME NEW t \in Threads, ChdirFails(t)
     PROVE  FailInv'
  BY <1>10, <1>a
  DEF FailInv, FailTypes, TearingDown, Locked, Evaluating, ChdirFails,
      RApacheResponseError, CallTearDown
<1>11. ASSUME NEW t \in Threads, NEW d \in Dirs, PrepareFile(t, d)
     PROVE  FailInv'
  BY <1>11, <1>a
  DEF FailInv, FailTypes, TearingDown, Locked, Evaluating, PrepareFile
<1>12. ASSUME NEW t \in Threads, NEW d \in Dirs, PrepareFileFails(t, d)
     PROVE  FailInv'
  BY <1>12, <1>a
  DEF FailInv, FailTypes, TearingDown, Locked, Evaluating, PrepareFileFails,
      RApacheResponseError, CallTearDown
<1>13. ASSUME NEW t \in Threads, NEW d \in Dirs, PrepareHandlerExpr(t, d)
     PROVE  FailInv'
  BY <1>13, <1>a
  DEF FailInv, FailTypes, TearingDown, Locked, Evaluating, PrepareHandlerExpr
<1>14. ASSUME NEW t \in Threads, HandlerParseFails(t)
     PROVE  FailInv'
  BY <1>14, <1>a
  DEF FailInv, FailTypes, TearingDown, Locked, Evaluating, HandlerParseFails,
      RApacheResponseError, CallTearDown
<1>15. ASSUME NEW t \in Threads, FunctionNotFound(t)
     PROVE  FailInv'
  BY <1>15, <1>a
  DEF FailInv, FailTypes, TearingDown, Locked, Evaluating, FunctionNotFound,
      RApacheResponseError, CallTearDown
<1>16. ASSUME NEW t \in Threads, EvalEnds(t)
     PROVE  FailInv'
  BY <1>16, <1>a
  DEF FailInv, FailTypes, TearingDown, Locked, Evaluating, EvalEnds, InR
<1>17. ASSUME NEW t \in Threads, EvalFails(t)
     PROVE  FailInv'
  BY <1>17, <1>a
  DEF FailInv, FailTypes, TearingDown, Locked, Evaluating, EvalFails, InR,
      RApacheResponseError, CallTearDown
<1>18. ASSUME NEW t \in Threads, NEW v \in IntResults, IntegerValue(t, v)
     PROVE  FailInv'
  BY <1>18, <1>a
  DEF FailInv, FailTypes, TearingDown, Locked, Evaluating, IntegerValue,
      CallTearDown
<1>19. ASSUME NEW t \in Threads, OtherValue(t)
     PROVE  FailInv'
  BY <1>19, <1>a
  DEF FailInv, FailTypes, TearingDown, Locked, Evaluating, OtherValue,
      CallTearDown
<1>20. ASSUME NEW t \in Threads, TryErrorValue(t)
     PROVE  FailInv'
  BY <1>20, <1>a
  DEF FailInv, FailTypes, TearingDown, Locked, Evaluating, TryErrorValue,
      RApacheResponseError, CallTearDown
<1>21. ASSUME NEW t \in Threads, TearDownCwd(t)
     PROVE  FailInv'
  BY <1>21, <1>a
  DEF FailInv, FailTypes, TearingDown, Locked, Evaluating, TearDownCwd
<1>22. ASSUME NEW t \in Threads, WriteOutput(t)
     PROVE  FailInv'
  BY <1>22, <1>a
  DEF FailInv, FailTypes, TearingDown, Locked, Evaluating, WriteOutput, InR
<1>23. ASSUME NEW t \in Threads, WriteError(t)
     PROVE  FailInv'
  BY <1>23, <1>a
  DEF FailInv, FailTypes, TearingDown, Locked, Evaluating, WriteError, InR
<1>24. ASSUME NEW t \in Threads, ReadBody(t)
     PROVE  FailInv'
  BY <1>24, <1>a
  DEF FailInv, FailTypes, TearingDown, Locked, Evaluating, ReadBody, InR
<1>25. ASSUME NEW t \in Threads, RApache_RApacheInfo(t)
     PROVE  FailInv'
  BY <1>25, <1>a
  DEF FailInv, FailTypes, TearingDown, Locked, Evaluating, RApache_RApacheInfo
<1>26. ASSUME NEW t \in Threads, NEW code \in UserCodes, RApache_setStatus(t, code)
     PROVE  FailInv'
  BY <1>26, <1>a
  DEF FailInv, FailTypes, TearingDown, Locked, Evaluating, RApache_setStatus,
      InR
<1>27. ASSUME NEW t \in Threads, NEW d \in Dirs, SetWd(t, d)
     PROVE  FailInv'
  BY <1>27, <1>a
  DEF FailInv, FailTypes, TearingDown, Locked, Evaluating, SetWd, InR
<1>28. ASSUME NEW t \in Threads, Return(t)
     PROVE  FailInv'
  BY <1>28, <1>a
  DEF FailInv, FailTypes, TearingDown, Locked, Evaluating, Return
<1>29. ASSUME NEW t \in Threads, DestroyPool(t)
     PROVE  FailInv'
  BY <1>29, <1>a
  DEF FailInv, FailTypes, TearingDown, Locked, Evaluating, DestroyPool
<1>30. ASSUME NEW t \in Threads, TearDownRest(t)
     PROVE  FailInv'
  <2>1. MR_r = t
    BY <1>30 DEF TearDownRest, InRegion, Locked, LockInv, Owns
  <2>2. cont[t] \in {"return", "returnint"}
    BY DEF LockInv
  <2>3. /\ pc' = [pc EXCEPT ![t] = cont[t]]
        /\ flush' = [flush EXCEPT ![t] = FALSE]
        /\ cont' = [cont EXCEPT ![t] = "return"]
    BY <1>30, <2>2, Zenon DEF TearDownRest
  <2>4. \A s \in Threads : s # t \/ ~flush[t] => sent'[s] = sent[s]
    BY <1>30, <2>1, <1>a DEF TearDownRest, FlushOutput, MustFlush, FailTypes
  <2>5. failed' = failed /\ ret' = ret
    BY <1>30 DEF TearDownRest
  <2> QED
    BY <2>2, <2>3, <2>4, <2>5, <1>30, <1>a
    DEF FailInv, FailTypes, TearingDown, Locked, Evaluating
<1>31. ASSUME Respawn PROVE FailInv'
  BY <1>31 DEF Respawn, FailInv, Each
<1>32. ASSUME UNCHANGED vars PROVE FailInv'
  BY <1>32 DEF vars, FailInv
<1> HIDE DEF At, Goto, shared, local, client
<1> QED
  BY <1>1, <1>2, <1>3, <1>4, <1>5, <1>6, <1>7, <1>8, <1>9, <1>10, <1>11,
     <1>12, <1>13, <1>14, <1>15, <1>16, <1>17, <1>18, <1>19, <1>20,
     <1>21, <1>22, <1>23, <1>24, <1>25, <1>26, <1>27, <1>28, <1>29,
     <1>30, <1>31, <1>32
  DEF Next, Hook, RCode, Finishing

\* Hence FailInv is an invariant.
LEMMA FailCorrect ==
  ASSUME InfoExecFails = {}
  PROVE  Spec => []FailInv
<1>1. TypeOK /\ LockInv /\ FailInv /\ [Next]_vars => FailInv'
  BY NextFail
<1> QED
  BY <1>1, InitFail, LockCorrect, PTL DEF Spec

\* Unless an EXEC of RApacheInfo fails, nothing of the output buffered before
\* an error reaches the client.
THEOREM ErrorsDiscardOutputCorrect ==
  ASSUME InfoExecFails = {}
  PROVE  Spec => []ErrorsDiscardOutput
<1>1. FailInv => ErrorsDiscardOutput
  BY DEF FailInv, ErrorsDiscardOutput
<1> QED
  BY <1>1, FailCorrect, PTL

\* Under the same condition every error makes the hook return 500.
THEOREM ErrorsReturn500Correct ==
  ASSUME InfoExecFails = {}
  PROVE  Spec => []ErrorsReturn500
<1>1. FailInv => ErrorsReturn500
  BY DEF FailInv, ErrorsReturn500
<1> QED
  BY <1>1, FailCorrect, PTL

\* Both together: a failed request is answered by an error and by nothing else.
THEOREM ErrorsAnsweredCorrect ==
  ASSUME InfoExecFails = {}
  PROVE  Spec => []ErrorsAnswered
<1>1. ErrorsDiscardOutput /\ ErrorsReturn500 => ErrorsAnswered
  BY DEF ErrorsAnswered
<1> QED
  BY <1>1, ErrorsDiscardOutputCorrect, ErrorsReturn500Correct, PTL

-----------------------------------------------------------------------------
(* The working directory under prefork, where a thread cannot be           *)
(* overtaken between saving the directory and restoring it.                *)

Saved(t) == [dir |-> Home, pool |-> t, live |-> TRUE]

\* The saved name is the one this request stored, and the process is where it
\* started unless the request is between SetUpRequest and the restoring step.
CwdInv ==
  /\ \A t \in Threads :
       /\ pc[t] \in {"lock"} \cup (Locked \ TearingDown) => oldwd = Saved(t)
       /\ pc[t] = "td_cwd" => oldwd = Saved(t) \/ (oldwd = Null /\ cwd = Home)
       /\ cont[t] \notin Evaluating
  /\ (\A t \in Threads : pc[t] \notin Locked \ {"td_rest"}) => cwd = Home

CwdTypes ==
  /\ pc \in [Threads -> PCs]
  /\ cont \in [Threads -> {"return", "returnint", "again"} \cup Evaluating]

\* A new child is in its own directory.
LEMMA InitCwd == Init => CwdInv
  BY DEF Init, CwdInv, Each, Locked, Evaluating

\* Every step of a prefork child keeps CwdInv; <1>b is where it is needed that
\* no other thread can enter the hook.
LEMMA NextCwd ==
  ASSUME ~Threaded, "nested" \notin InfoExecFails, TypeOK, CwdInv, [Next]_vars
  PROVE  CwdInv'
<1>a. CwdTypes
  BY DEF TypeOK, CwdTypes
<1>b. \A s, t \in Threads : s = t
  BY RequestCycleAssumption
<1> USE DEF At, Goto, shared, local, client
<1>1. ASSUME NEW t \in Threads, NEW rq \in Incoming, HookEnter(t, rq)
     PROVE  CwdInv'
  BY <1>1, <1>a, <1>b
  DEF CwdInv, CwdTypes, TearingDown, Locked, Evaluating, HookEnter,
      NewRequest, Saved
<1>2. ASSUME NEW t \in Threads, NEW rq \in Incoming, HookNoCwd(t, rq)
     PROVE  CwdInv'
  BY <1>2, <1>a, <1>b
  DEF CwdInv, CwdTypes, TearingDown, Locked, Evaluating, HookNoCwd, NewRequest
<1>3. ASSUME NEW t \in Threads, MutexError(t)
     PROVE  CwdInv'
  BY <1>3, <1>a, <1>b
  DEF CwdInv, CwdTypes, TearingDown, Locked, Evaluating, MutexError
<1>4. ASSUME NEW t \in Threads, SetUpRequest(t)
     PROVE  CwdInv'
  BY <1>4, <1>a, <1>b
  DEF CwdInv, CwdTypes, TearingDown, Locked, Evaluating, SetUpRequest,
      Acquire, Saved
<1>5. ASSUME NEW t \in Threads, SetUpFails(t)
     PROVE  CwdInv'
  BY <1>5, <1>a, <1>b
  DEF CwdInv, CwdTypes, TearingDown, Locked, Evaluating, SetUpFails, Acquire,
      CallTearDown
<1>6. ASSUME NEW t \in Threads, RApacheInfo(t)
     PROVE  CwdInv'
  BY <1>6, <1>a, <1>b
  DEF CwdInv, CwdTypes, TearingDown, Locked, Evaluating, RApacheInfo,
      CallTearDown
<1>7. ASSUME NEW t \in Threads, RApacheInfoFails(t)
     PROVE  CwdInv'
  BY <1>7, <1>a, <1>b
  DEF CwdInv, CwdTypes, TearingDown, Locked, Evaluating, RApacheInfoFails,
      CallTearDown
<1>8. ASSUME NEW t \in Threads, RefreshRApacheEnv(t)
     PROVE  CwdInv'
  BY <1>8, <1>a, <1>b
  DEF CwdInv, CwdTypes, TearingDown, Locked, Evaluating, RefreshRApacheEnv
<1>9. ASSUME NEW t \in Threads, RefreshExits(t) \/ NullDereference(t)
     PROVE  CwdInv'
  BY <1>9, <1>a, <1>b
  DEF CwdInv, CwdTypes, TearingDown, Locked, Evaluating, RefreshExits,
      NullDereference, Die
<1>10. ASSUME NEW t \in Threads, ChdirFails(t)
     PROVE  CwdInv'
  BY <1>10, <1>a, <1>b
  DEF CwdInv, CwdTypes, TearingDown, Locked, Evaluating, ChdirFails,
      RApacheResponseError, CallTearDown
<1>11. ASSUME NEW t \in Threads, NEW d \in Dirs, PrepareFile(t, d)
     PROVE  CwdInv'
  BY <1>11, <1>a, <1>b
  DEF CwdInv, CwdTypes, TearingDown, Locked, Evaluating, PrepareFile
<1>12. ASSUME NEW t \in Threads, NEW d \in Dirs, PrepareFileFails(t, d)
     PROVE  CwdInv'
  BY <1>12, <1>a, <1>b
  DEF CwdInv, CwdTypes, TearingDown, Locked, Evaluating, PrepareFileFails,
      RApacheResponseError, CallTearDown
<1>13. ASSUME NEW t \in Threads, NEW d \in Dirs, PrepareHandlerExpr(t, d)
     PROVE  CwdInv'
  BY <1>13, <1>a, <1>b
  DEF CwdInv, CwdTypes, TearingDown, Locked, Evaluating, PrepareHandlerExpr
<1>14. ASSUME NEW t \in Threads, HandlerParseFails(t)
     PROVE  CwdInv'
  BY <1>14, <1>a, <1>b
  DEF CwdInv, CwdTypes, TearingDown, Locked, Evaluating, HandlerParseFails,
      RApacheResponseError, CallTearDown
<1>15. ASSUME NEW t \in Threads, FunctionNotFound(t)
     PROVE  CwdInv'
  BY <1>15, <1>a, <1>b
  DEF CwdInv, CwdTypes, TearingDown, Locked, Evaluating, FunctionNotFound,
      RApacheResponseError, CallTearDown
<1>16. ASSUME NEW t \in Threads, EvalEnds(t)
     PROVE  CwdInv'
  BY <1>16, <1>a, <1>b
  DEF CwdInv, CwdTypes, TearingDown, Locked, Evaluating, EvalEnds, InR
<1>17. ASSUME NEW t \in Threads, EvalFails(t)
     PROVE  CwdInv'
  BY <1>17, <1>a, <1>b
  DEF CwdInv, CwdTypes, TearingDown, Locked, Evaluating, EvalFails, InR,
      RApacheResponseError, CallTearDown
<1>18. ASSUME NEW t \in Threads, NEW v \in IntResults, IntegerValue(t, v)
     PROVE  CwdInv'
  BY <1>18, <1>a, <1>b
  DEF CwdInv, CwdTypes, TearingDown, Locked, Evaluating, IntegerValue,
      CallTearDown
<1>19. ASSUME NEW t \in Threads, OtherValue(t)
     PROVE  CwdInv'
  BY <1>19, <1>a, <1>b
  DEF CwdInv, CwdTypes, TearingDown, Locked, Evaluating, OtherValue,
      CallTearDown
<1>20. ASSUME NEW t \in Threads, TryErrorValue(t)
     PROVE  CwdInv'
  BY <1>20, <1>a, <1>b
  DEF CwdInv, CwdTypes, TearingDown, Locked, Evaluating, TryErrorValue,
      RApacheResponseError, CallTearDown
<1>21. ASSUME NEW t \in Threads, TearDownCwd(t)
     PROVE  CwdInv'
  <2>1. cwd' = Home
    <3>1. oldwd = Saved(t) \/ (oldwd = Null /\ cwd = Home)
      BY <1>21 DEF TearDownCwd, CwdInv
    <3>2. Saved(t) # Null
      BY NullAssumption, RequestCycleAssumption DEF Saved
    <3>3. Saved(t).live = TRUE /\ Saved(t).dir = Home
      BY DEF Saved
    <3> QED
      BY <1>21, <3>1, <3>2, <3>3 DEF TearDownCwd
  <2> QED
    BY <1>21, <2>1, <1>a, <1>b
    DEF TearDownCwd, CwdInv, CwdTypes, TearingDown, Locked, Evaluating
<1>22. ASSUME NEW t \in Threads, WriteOutput(t)
     PROVE  CwdInv'
  BY <1>22, <1>a, <1>b
  DEF CwdInv, CwdTypes, TearingDown, Locked, Evaluating, WriteOutput, InR
<1>23. ASSUME NEW t \in Threads, WriteError(t)
     PROVE  CwdInv'
  BY <1>23, <1>a, <1>b
  DEF CwdInv, CwdTypes, TearingDown, Locked, Evaluating, WriteError, InR
<1>24. ASSUME NEW t \in Threads, ReadBody(t)
     PROVE  CwdInv'
  BY <1>24, <1>a, <1>b
  DEF CwdInv, CwdTypes, TearingDown, Locked, Evaluating, ReadBody, InR
<1>25. ASSUME NEW t \in Threads, RApache_RApacheInfo(t)
     PROVE  CwdInv'
  BY <1>25, <1>a, <1>b
  DEF CwdInv, CwdTypes, TearingDown, Locked, Evaluating, RApache_RApacheInfo
<1>26. ASSUME NEW t \in Threads, NEW code \in UserCodes, RApache_setStatus(t, code)
     PROVE  CwdInv'
  BY <1>26, <1>a, <1>b
  DEF CwdInv, CwdTypes, TearingDown, Locked, Evaluating, RApache_setStatus,
      InR
<1>27. ASSUME NEW t \in Threads, NEW d \in Dirs, SetWd(t, d)
     PROVE  CwdInv'
  BY <1>27, <1>a, <1>b
  DEF CwdInv, CwdTypes, TearingDown, Locked, Evaluating, SetWd, InR
<1>28. ASSUME NEW t \in Threads, Return(t)
     PROVE  CwdInv'
  BY <1>28, <1>a, <1>b
  DEF CwdInv, CwdTypes, TearingDown, Locked, Evaluating, Return
<1>29. ASSUME NEW t \in Threads, DestroyPool(t)
     PROVE  CwdInv'
  BY <1>29, <1>a, <1>b
  DEF CwdInv, CwdTypes, TearingDown, Locked, Evaluating, DestroyPool
<1>30. ASSUME NEW t \in Threads, TearDownRest(t)
     PROVE  CwdInv'
  <2>1. cwd' = Home /\ oldwd' = Null
    BY <1>30, <1>b DEF TearDownRest, ClearGlobals, CwdInv, Locked, Evaluating
  <2>2. \/ pc' = [pc EXCEPT ![t] = "td_cwd"]
        \/ pc' = [pc EXCEPT ![t] = cont[t]] /\ cont[t] # "again"
    BY <1>30, Zenon DEF TearDownRest, CallTearDown
  <2>3. cont' = [cont EXCEPT ![t] = "return"]
    BY <1>30, Zenon DEF TearDownRest, CallTearDown
  <2> QED
    BY <2>1, <2>2, <2>3, <1>a, <1>b
    DEF CwdInv, CwdTypes, TearingDown, Locked, Evaluating
<1>31. ASSUME Respawn PROVE CwdInv'
  BY <1>31 DEF Respawn, CwdInv, Each, Locked, Evaluating
<1>32. ASSUME UNCHANGED vars PROVE CwdInv'
  BY <1>32 DEF vars, CwdInv, Saved
<1> HIDE DEF At, Goto, shared, local, client
<1> QED
  BY <1>1, <1>2, <1>3, <1>4, <1>5, <1>6, <1>7, <1>8, <1>9, <1>10, <1>11,
     <1>12, <1>13, <1>14, <1>15, <1>16, <1>17, <1>18, <1>19, <1>20,
     <1>21, <1>22, <1>23, <1>24, <1>25, <1>26, <1>27, <1>28, <1>29,
     <1>30, <1>31, <1>32
  DEF Next, Hook, RCode, Finishing

\* Hence CwdInv is an invariant.
LEMMA CwdCorrect ==
  ASSUME ~Threaded, "nested" \notin InfoExecFails
  PROVE  Spec => []CwdInv
<1>1. TypeOK /\ CwdInv /\ [Next]_vars => CwdInv'
  BY NextCwd
<1> QED
  BY <1>1, InitCwd, TypeCorrect, PTL DEF Spec

\* Under prefork, and unless RApacheInfo() fails inside R code, the child is in
\* its own directory again after every request, whatever R code did.
THEOREM CwdRestoredCorrect ==
  ASSUME ~Threaded, "nested" \notin InfoExecFails
  PROVE  Spec => []CwdRestored
<1>1. CwdInv => CwdRestored
  BY DEF CwdInv, CwdRestored, InRegion
<1> QED
  BY <1>1, CwdCorrect, PTL

\* Under the same conditions the name TearDownRequest restores is one of a live
\* pool.
THEOREM OldwdAliveCorrect ==
  ASSUME ~Threaded, "nested" \notin InfoExecFails
  PROVE  Spec => []OldwdAlive
<1>1. CwdInv => OldwdAlive
  BY DEF CwdInv, OldwdAlive, Saved, At
<1> QED
  BY <1>1, CwdCorrect, PTL

=============================================================================
