-------------------------- MODULE DownloaderProofs --------------------------
(***************************************************************************)
(* Proofs about Downloader, for every file length, any set of tasks and    *)
(* callers, and any number of permits and retries.                         *)
(***************************************************************************)
EXTENDS Downloader, FiniteSetTheorems, TLAPS

-----------------------------------------------------------------------------
(* Types.                                                                  *)

\* Inside a call the current chunk is a chunk of the file.
CallerInRange == \A p \in Callers : cpc[p] # "idle" => cur[p] \in Chunks

\* A task that sleeps before a retry has a retry left.
RetryLeft == \A t \in Tasks : tpc[t] = "backoff" => attempt[t] < MaxRetries

Typed == TypeOK /\ CallerInRange /\ RetryLeft

\* The initial values have their types.
LEMMA TypedInit == Init => Typed
  BY ChunksAssumption, RetriesAssumption, PermitsAssumption
     DEF Init, Typed, TypeOK, CallerInRange, RetryLeft, PermitsOf, RegistryOK,
         StorageOK, TasksOK, CallersOK, Chunks, Lanes, Slot, TaskPC, CallerPC,
         Methods

\* A step of a task keeps the task variables in their types.
LEMMA TaskStepTyped ==
  ASSUME TypeOK, RetryLeft, NEW t \in Tasks,
         Acquire(t) \/ FetchAnswer(t) \/ TaskStep(t)
  PROVE  TasksOK' /\ RetryLeft'
<1> USE RetriesAssumption, ChunksAssumption
    DEF TypeOK, TasksOK, RetryLeft, TaskPC, InFlight, Working, Goto, taskVars
<1>1. CASE Acquire(t)
  BY <1>1 DEF Acquire
<1>2. CASE FetchAnswer(t)
  BY <1>2 DEF FetchAnswer, FetchOk, FetchWrongLength, FetchAuthRejected,
              FetchError
<1>3. CASE TaskCheckShutdown(t) \/ GiveUpAcquire(t) \/ StartAttempt(t)
           \/ CheckFetched(t)
  BY <1>3 DEF TaskCheckShutdown, GiveUpAcquire, StartAttempt, CheckFetched
<1>4. CASE Retry(t)
  BY <1>4 DEF Retry
<1>5. CASE WriteData(t) \/ MarkChunk(t) \/ Release(t)
  BY <1>5 DEF WriteData, MarkChunk, Release
<1>6. CASE Notify(t) \/ ClearToken(t)
  BY <1>6 DEF Notify, ClearToken
<1>7. CASE ClearNotifier(t)
  BY <1>7 DEF ClearNotifier, Chunks, Lanes
<1> QED BY <1>1, <1>2, <1>3, <1>4, <1>5, <1>6, <1>7 DEF TaskStep

\* Returning from start_download keeps the caller in type: the next chunk of
\* a range is below its end.
LEMMA ReturnTyped ==
  ASSUME CallersOK, CallerInRange, NEW p \in Callers, cpc[p] # "idle",
         ReturnFromStart(p), UNCHANGED <<op, upto, answer>>,
         handle' \in [Callers -> Slot]
  PROVE  CallersOK' /\ CallerInRange'
<1> USE ChunksAssumption DEF CallersOK, CallerInRange
<1>1. cur[p] \in 0 .. TotalChunks - 1 /\ upto[p] \in 0 .. TotalChunks
  BY DEF Chunks
<1>2. cur' \in [Callers -> 0 .. TotalChunks]
  BY <1>1 DEF ReturnFromStart
<1>3. cpc' \in [Callers -> CallerPC]
  BY DEF ReturnFromStart, CallerPC, Starting
<1>4. CallerInRange'
  <2>1. ASSUME NEW q \in Callers, q # p PROVE cpc'[q] = cpc[q] /\ cur'[q] = cur[q]
    BY <2>1 DEF ReturnFromStart
  <2>2. cpc'[p] # "idle" => cur'[p] \in Chunks
    BY <1>1 DEF ReturnFromStart, Chunks
  <2> QED BY <2>1, <2>2
<1> QED BY <1>2, <1>3, <1>4

\* A step of a caller inside the downloader keeps its own variables in type.
LEMMA CallerStepTyped ==
  ASSUME TypeOK, CallerInRange, NEW p \in Callers, CallerStep(p)
  PROVE  CallersOK' /\ CallerInRange'
<1> CallersOK /\ RegistryOK
  BY DEF TypeOK
<1>1. CASE CheckShutdown(p)
  <2>1. CASE shutdown_token
    BY <1>1, <2>1, ReturnTyped DEF CheckShutdown, CallersOK
  <2>2. CASE ~shutdown_token
    BY <1>1, <2>2 DEF CheckShutdown, CallersOK, CallerInRange, CallerPC,
                      Starting
  <2> QED BY <2>1, <2>2
<1>2. CASE CheckCache(p)
  <2>1. CASE has_chunk(cur[p])
    BY <1>2, <2>1, ReturnTyped DEF CheckCache, CallersOK
  <2>2. CASE ~has_chunk(cur[p])
    BY <1>2, <2>2 DEF CheckCache, CallersOK, CallerInRange, CallerPC, Starting
  <2> QED BY <2>1, <2>2
<1>3. CASE Claim(p)
  <2>1. CASE cancel_tokens[cur[p]] # NoTask
    BY <1>3, <2>1, ReturnTyped DEF Claim, CallersOK
  <2>2. CASE cancel_tokens[cur[p]] = NoTask
    BY <1>3, <2>2 DEF Claim, Fresh, CallersOK, CallerInRange, CallerPC,
                      Starting, Slot
  <2> QED BY <2>1, <2>2
<1>4. CASE Publish(p)
  <2>1. handle' \in [Callers -> Slot]
    BY <1>4 DEF Publish, CallersOK, Slot
  <2> QED BY <1>4, <2>1, ReturnTyped DEF Publish
<1> USE DEF CallersOK, RegistryOK, CallerInRange, CallerPC, Starting
<1>5. CASE LookupNotifier(p)
  BY <1>5 DEF LookupNotifier
<1>6. CASE Arm(p)
  BY <1>6 DEF Arm
<1>7. CASE Recheck(p)
  BY <1>7 DEF Recheck, Slot
<1> QED BY <1>1, <1>2, <1>3, <1>4, <1>5, <1>6, <1>7 DEF CallerStep

\* A step of a caller inside the downloader touches the registry and the task
\* it claims or spawns, nothing else, and keeps them in type.
LEMMA CallerStepFrame ==
  ASSUME TypeOK, CallerInRange, RetryLeft, NEW p \in Callers, CallerStep(p)
  PROVE  RegistryOK' /\ TasksOK' /\ RetryLeft' /\ StorageOK'
<1> USE DEF TypeOK, RegistryOK, TasksOK, RetryLeft, CallerInRange, StorageOK,
            CallersOK, Slot, TaskPC, InFlight, Working, CallerPC, Starting,
            registry, taskVars, cache, slots
<1>1. CASE CheckShutdown(p)
  BY <1>1 DEF CheckShutdown
<1>2. CASE CheckCache(p)
  BY <1>2 DEF CheckCache
<1>3. CASE Claim(p)
  <2>1. RegistryOK' /\ StorageOK'
    BY <1>3 DEF Claim, Fresh
  <2>2. TasksOK' /\ RetryLeft'
    BY <1>3 DEF Claim, Fresh, Lanes, LaneOf
  <2> QED BY <2>1, <2>2
<1>4. CASE Publish(p)
  <2>1. RegistryOK' /\ StorageOK'
    BY <1>4 DEF Publish
  <2>2. TasksOK' /\ RetryLeft'
    BY <1>4 DEF Publish
  <2> QED BY <2>1, <2>2
<1>5. CASE LookupNotifier(p)
  BY <1>5 DEF LookupNotifier
<1>6. CASE Arm(p)
  BY <1>6 DEF Arm
<1>7. CASE Recheck(p)
  BY <1>7 DEF Recheck
<1> QED BY <1>1, <1>2, <1>3, <1>4, <1>5, <1>6, <1>7 DEF CallerStep

\* A step of a task keeps everything but the task variables in type.
LEMMA TaskStepFrame ==
  ASSUME TypeOK, CallerInRange, NEW t \in Tasks,
         Acquire(t) \/ FetchAnswer(t) \/ TaskStep(t)
  PROVE  RegistryOK' /\ StorageOK' /\ CallersOK' /\ CallerInRange'
<1> USE DEF TypeOK, RegistryOK, TasksOK, StorageOK, CallersOK, CallerInRange,
            registry, cache, slots, callVars
<1>1. CASE Acquire(t)
  BY <1>1 DEF Acquire, Lanes
<1>2. CASE FetchAnswer(t)
  BY <1>2 DEF FetchAnswer, FetchOk, FetchWrongLength, FetchAuthRejected,
              FetchError
<1>3. CASE TaskCheckShutdown(t) \/ GiveUpAcquire(t) \/ StartAttempt(t)
           \/ CheckFetched(t) \/ Retry(t)
  BY <1>3 DEF TaskCheckShutdown, GiveUpAcquire, StartAttempt, CheckFetched,
              Retry
<1>4. CASE WriteData(t) \/ MarkChunk(t)
  BY <1>4 DEF WriteData, MarkChunk
<1>5. CASE Release(t)
  BY <1>5 DEF Release, Lanes
<1>6. CASE Notify(t)
  BY <1>6 DEF Notify, CallerPC
<1>7. CASE ClearToken(t) \/ ClearNotifier(t)
  BY <1>7 DEF ClearToken, ClearNotifier, Slot
<1> QED BY <1>1, <1>2, <1>3, <1>4, <1>5, <1>6, <1>7 DEF TaskStep

\* Calls, seeks and the shutdown keep every variable in type.
LEMMA EnvironmentTyped ==
  ASSUME Typed, Environment
  PROVE  Typed'
<1> USE ChunksAssumption
    DEF Typed, TypeOK, RegistryOK, TasksOK, StorageOK, CallersOK,
        CallerInRange, RetryLeft, registry, cache, slots, callVars, taskVars
<1>1. ASSUME NEW p \in Callers, NEW m \in Methods, NEW s \in Chunks,
             NEW e \in 1 .. TotalChunks, Call(p, m, s, e)
      PROVE  Typed'
  <2>1. UNCHANGED <<registry, shutting, cache, slots, taskVars>>
    BY <1>1 DEF Call
  <2>2. CallersOK'
    <3>1. cur' \in [Callers -> 0 .. TotalChunks]
      BY <1>1 DEF Call, Chunks
    <3>2. upto' \in [Callers -> 0 .. TotalChunks]
      BY <1>1 DEF Call
    <3>3. op' \in [Callers -> Methods] /\ handle' \in [Callers -> Slot]
      BY <1>1 DEF Call
    <3>4. /\ cpc' \in [Callers -> CallerPC]
          /\ answer' \in [Callers -> {"none", "true", "false"}]
      BY <1>1 DEF Call, CallerPC, Starting
    <3> QED BY <3>1, <3>2, <3>3, <3>4
  <2>3. CallerInRange'
    BY <1>1 DEF Call
  <2> QED BY <2>1, <2>2, <2>3
<1>2. ASSUME NEW s \in Chunks, AbortOutsideWindow(s, s + WindowChunks)
      PROVE  Typed'
  BY <1>2 DEF AbortOutsideWindow
<1>3. CASE BeginShutdown
  BY <1>3 DEF BeginShutdown
<1>4. CASE EndShutdown
  BY <1>4 DEF EndShutdown
<1> QED BY <1>1, <1>2, <1>3, <1>4 DEF Environment

\* Every step keeps the types.
LEMMA TypedStep == Typed /\ [Next]_vars => Typed'
<1> SUFFICES ASSUME Typed, [Next]_vars
             PROVE  Typed'
  OBVIOUS
<1>1. CASE Environment
  BY <1>1, EnvironmentTyped
<1>2. ASSUME NEW p \in Callers, CallerStep(p)
      PROVE  Typed'
  BY <1>2, CallerStepTyped, CallerStepFrame DEF Typed, TypeOK
<1>3. ASSUME NEW t \in Tasks, Acquire(t) \/ FetchAnswer(t) \/ TaskStep(t)
      PROVE  Typed'
  BY <1>3, TaskStepTyped, TaskStepFrame DEF Typed, TypeOK
<1>4. CASE UNCHANGED vars
  BY <1>4 DEF vars, registry, cache, slots, taskVars, callVars, Typed, TypeOK,
              RegistryOK, TasksOK, StorageOK, CallersOK, CallerInRange,
              RetryLeft
<1> QED BY <1>1, <1>2, <1>3, <1>4 DEF Next

\* Every reachable state of the downloader is well typed, in particular no
\* task makes more than MaxRetries + 1 attempts and no caller leaves the file.
THEOREM TypeCorrect == Spec => []TypeOK
<1>1. Spec => []Typed
  BY TypedInit, TypedStep, PTL DEF Spec
<1>2. Typed => TypeOK
  BY DEF Typed
<1> QED BY <1>1, <1>2, PTL

-----------------------------------------------------------------------------
(* The kinds of steps.  An invariant about the registry, the semaphores or *)
(* the cache is disturbed by a few of them only.                           *)

\* A caller that has claimed a task keeps it in hand, and none is added.
HandsKept ==
    \A p \in Callers :
        cpc'[p] = "publish" => cpc[p] = "publish" /\ handle'[p] = handle[p]

\* Steps that change nothing but the callers' own variables.
CallersOnly ==
    UNCHANGED <<registry, shutting, cache, slots, taskVars>> /\ HandsKept

\* Caller p claims its chunk for the fresh task t.
Claims(p, t) ==
    /\ Claim(p)
    /\ t \in Fresh /\ cpc[p] = "claim" /\ cancel_tokens[cur[p]] = NoTask
    /\ cancel_tokens' = [cancel_tokens EXCEPT ![cur[p]] = t]
    /\ tpc' = [tpc EXCEPT ![t] = "claimed"]
    /\ tchunk' = [tchunk EXCEPT ![t] = cur[p]]
    /\ tlane' = [tlane EXCEPT ![t] = LaneOf(op[p])]
    /\ handle' = [handle EXCEPT ![p] = t]
    /\ cpc' = [cpc EXCEPT ![p] = "publish"]

\* Steps that cancel tokens or begin the shutdown.
Cancels ==
    \/ \E s \in Chunks : AbortOutsideWindow(s, s + WindowChunks)
    \/ BeginShutdown
    \/ EndShutdown

\* Steps of a task that move it on and touch no shared state but the waiters.
Moves(t) ==
    \/ TaskCheckShutdown(t) \/ GiveUpAcquire(t) \/ StartAttempt(t)
    \/ FetchAnswer(t) \/ Retry(t) \/ CheckFetched(t) \/ Notify(t)

Stores(t) == WriteData(t) \/ MarkChunk(t)

\* Every step is of one of these kinds.
LEMMA StepKinds ==
  ASSUME TypeOK, [Next]_vars
  PROVE  \/ CallersOnly
         \/ \E p \in Callers : Publish(p) \/ \E t \in Tasks : Claims(p, t)
         \/ Cancels
         \/ \E t \in Tasks : \/ Acquire(t) \/ Release(t) \/ Moves(t)
                             \/ Stores(t) \/ ClearToken(t) \/ ClearNotifier(t)
<1> USE DEF TypeOK, CallersOK
<1>1. CASE Environment
  BY <1>1 DEF Environment, Call, CallersOnly, Cancels, HandsKept
<1>2. ASSUME NEW p \in Callers, CallerStep(p)
      PROVE  \/ CallersOnly \/ Publish(p) \/ \E t \in Tasks : Claims(p, t)
  <2>1. CASE Claim(p)
    <3>1. CASE cancel_tokens[cur[p]] # NoTask
      BY <2>1, <3>1 DEF Claim, CallersOnly, registry, HandsKept,
                        ReturnFromStart
    <3>2. CASE cancel_tokens[cur[p]] = NoTask
      BY <2>1, <3>2 DEF Claim, Claims, Fresh
    <3> QED BY <3>1, <3>2
  <2>2. CASE CheckShutdown(p) \/ CheckCache(p)
    BY <2>2 DEF CheckShutdown, CheckCache, CallersOnly, HandsKept,
                ReturnFromStart
  <2>3. CASE LookupNotifier(p) \/ Arm(p) \/ Recheck(p)
    BY <2>3 DEF LookupNotifier, Arm, Recheck, CallersOnly, HandsKept
  <2> QED BY <1>2, <2>1, <2>2, <2>3 DEF CallerStep
<1>3. ASSUME NEW t \in Tasks, Acquire(t) \/ FetchAnswer(t) \/ TaskStep(t)
      PROVE  \/ Acquire(t) \/ Release(t) \/ Moves(t) \/ Stores(t)
             \/ ClearToken(t) \/ ClearNotifier(t)
  BY <1>3 DEF TaskStep, Moves, Stores
<1>4. CASE UNCHANGED vars
  BY <1>4 DEF vars, CallersOnly, HandsKept, callVars
<1> QED BY <1>1, <1>2, <1>3, <1>4 DEF Next

\* What the steps that only move a task on leave alone, and where they lead.
LEMMA MovesFrame ==
  ASSUME TypeOK, NEW t \in Tasks, Moves(t)
  PROVE  /\ UNCHANGED <<registry, shutting, cache, slots, tchunk, tlane,
                        cancelled>>
         /\ HandsKept
         /\ \E to \in TaskPC : tpc' = [tpc EXCEPT ![t] = to]
         /\ tpc[t] \in {"spawned", "acquiring", "notify"} =>
               tpc'[t] \in {"acquiring", "notify", "clear_token"}
         /\ tpc[t] \in {"spawned", "acquiring", "notify"} \cup Working
         /\ tpc[t] \in Working => tpc'[t] \in Working
         /\ tpc[t] # "marking" /\ tpc'[t] # "marking"
<1> USE DEF TypeOK, TasksOK, Goto, TaskPC, InFlight, Working, HandsKept,
            callVars
<1>1. CASE TaskCheckShutdown(t) \/ GiveUpAcquire(t) \/ StartAttempt(t)
  BY <1>1 DEF TaskCheckShutdown, GiveUpAcquire, StartAttempt
<1>2. CASE FetchAnswer(t)
  BY <1>2 DEF FetchAnswer, FetchOk, FetchWrongLength, FetchAuthRejected,
              FetchError
<1>3. CASE Retry(t) \/ CheckFetched(t) \/ Notify(t)
  BY <1>3 DEF Retry, CheckFetched, Notify
<1> QED BY <1>1, <1>2, <1>3 DEF Moves

-----------------------------------------------------------------------------
(* One live download per chunk.                                            *)

\* A slot holds exactly the token of the task that is in flight for it.
Owner ==
    \A c \in Chunks, t \in Tasks :
        cancel_tokens[c] = t <=> tpc[t] \in InFlight /\ tchunk[t] = c

\* Between its claim and its publication a caller alone holds the task.
Publishing ==
    \A p \in Callers : cpc[p] = "publish" =>
        /\ handle[p] \in Tasks /\ tpc[handle[p]] = "claimed"
        /\ \A q \in Callers : cpc[q] = "publish" /\ handle[q] = handle[p]
                              => q = p

OwnerInv == Typed /\ Owner /\ Publishing

LEMMA OwnerInit == Init => OwnerInv
  BY TypedInit, TasksAssumption
     DEF Init, OwnerInv, Owner, Publishing, InFlight, Working

\* The claim is the only way into a slot and the owner's cleanup the only way
\* out; in between the owner stays in flight.
LEMMA OwnerStep == OwnerInv /\ [Next]_vars => OwnerInv'
<1> SUFFICES ASSUME OwnerInv, [Next]_vars
             PROVE  (Owner /\ Publishing)'
  BY TypedStep DEF OwnerInv
<1> TypeOK /\ Owner /\ Publishing /\ CallerInRange /\ RegistryOK /\ TasksOK
    /\ CallersOK
  BY DEF OwnerInv, Typed, TypeOK
<1> USE TasksAssumption
    DEF Owner, Publishing, HandsKept, registry, taskVars
<1>1. CASE CallersOnly
  BY <1>1 DEF CallersOnly
<1>2. ASSUME NEW p \in Callers, NEW t \in Tasks, Claims(p, t)
      PROVE  (Owner /\ Publishing)'
  <2> cur[p] \in Chunks /\ tpc[t] = "unborn"
    BY <1>2 DEF Claims, CallerInRange, Fresh
  <2>1. Owner'
    BY <1>2 DEF Claims, RegistryOK, TasksOK, InFlight, Working
  <2>2. Publishing'
    BY <1>2 DEF Claims, CallersOK, TasksOK
  <2> QED BY <2>1, <2>2
<1>3. ASSUME NEW p \in Callers, Publish(p)
      PROVE  (Owner /\ Publishing)'
  <2>1. handle[p] \in Tasks /\ tpc[handle[p]] = "claimed"
    BY <1>3 DEF Publish
  <2>2. Owner'
    BY <1>3, <2>1 DEF Publish, TasksOK, InFlight
  <2>3. \A q \in Callers : cpc'[q] = "publish" =>
           q # p /\ cpc[q] = "publish" /\ handle'[q] = handle[q]
    BY <1>3 DEF Publish, ReturnFromStart, CallersOK
  <2>4. Publishing'
    BY <1>3, <2>1, <2>3 DEF Publish, TasksOK
  <2> QED BY <2>2, <2>4
<1>4. CASE Cancels
  BY <1>4 DEF Cancels, AbortOutsideWindow, BeginShutdown, EndShutdown,
              callVars
<1>5. ASSUME NEW t \in Tasks, Acquire(t) \/ Release(t) \/ Stores(t)
      PROVE  (Owner /\ Publishing)'
  BY <1>5 DEF Acquire, Release, Stores, WriteData, MarkChunk, Goto, callVars,
              TasksOK, InFlight, Working
<1>6. ASSUME NEW t \in Tasks, Moves(t)
      PROVE  (Owner /\ Publishing)'
  <2>1. Owner'
    BY <1>6, MovesFrame DEF TasksOK, InFlight, Working
  <2>2. Publishing'
    BY <1>6, MovesFrame DEF TasksOK, Working
  <2> QED BY <2>1, <2>2
<1>7. ASSUME NEW t \in Tasks, ClearToken(t)
      PROVE  (Owner /\ Publishing)'
  BY <1>7 DEF ClearToken, Goto, callVars, RegistryOK, TasksOK, InFlight,
              Working
<1>8. ASSUME NEW t \in Tasks, ClearNotifier(t)
      PROVE  (Owner /\ Publishing)'
  BY <1>8 DEF ClearNotifier, Goto, callVars, TasksOK, InFlight, Working
<1> QED BY <1>1, <1>2, <1>3, <1>4, <1>5, <1>6, <1>7, <1>8, StepKinds

\* No interleaving of calls, retries, seeks and cleanups makes two live
\* downloads of one chunk.
THEOREM OneDownloadPerChunk == Spec => []SingleDownload
<1>1. Spec => []OwnerInv
  BY OwnerInit, OwnerStep, PTL DEF Spec
<1>2. OwnerInv => SingleDownload
  BY DEF OwnerInv, Owner, SingleDownload, Typed, TypeOK, TasksOK
<1> QED BY <1>1, <1>2, PTL

-----------------------------------------------------------------------------
(* Shutdown.                                                               *)

\* Once shutdown() returned, a task that still waits for or holds a permit
\* has its token cancelled: it was spawned before the shutdown token was
\* set, so its own token was registered when shutdown() went through them.
Drained ==
    shutting = "done" =>
        \A t \in Tasks : tpc[t] \in Working \cup {"acquiring"} => cancelled[t]

ShutdownInv == OwnerInv /\ Drained

LEMMA ShutdownInit == Init => ShutdownInv
  BY OwnerInit DEF Init, ShutdownInv, Drained

LEMMA ShutdownStep == ShutdownInv /\ [Next]_vars => ShutdownInv'
<1> SUFFICES ASSUME ShutdownInv, [Next]_vars
             PROVE  Drained'
  BY OwnerStep DEF ShutdownInv
<1> TypeOK /\ Owner /\ Drained /\ TasksOK
  BY DEF ShutdownInv, OwnerInv, Typed, TypeOK
<1> USE DEF Drained, TasksOK, taskVars
<1>1. CASE CallersOnly
  BY <1>1 DEF CallersOnly
<1>2. ASSUME NEW p \in Callers, NEW t \in Tasks, Claims(p, t)
      PROVE  Drained'
  BY <1>2 DEF Claims, Claim, Working
<1>3. ASSUME NEW p \in Callers, Publish(p)
      PROVE  Drained'
  BY <1>3 DEF Publish, Working
<1>4. CASE Cancels
  <2>1. CASE EndShutdown
    <3>1. ASSUME NEW t \in Tasks, tpc[t] \in Working \cup {"acquiring"}
          PROVE  \E c \in Chunks : cancel_tokens[c] = t
      <4>1. tpc[t] \in InFlight /\ tchunk[t] \in Chunks
        BY <3>1 DEF InFlight
      <4> QED BY <4>1 DEF Owner
    <3> QED BY <2>1, <3>1 DEF EndShutdown
  <2>2. CASE BeginShutdown
    BY <2>2 DEF BeginShutdown
  <2>3. ASSUME NEW s \in Chunks, AbortOutsideWindow(s, s + WindowChunks)
        PROVE  Drained'
    BY <2>3 DEF AbortOutsideWindow
  <2> QED BY <1>4, <2>1, <2>2, <2>3 DEF Cancels
<1>5. ASSUME NEW t \in Tasks, Acquire(t) \/ Release(t) \/ Stores(t)
      PROVE  Drained'
  BY <1>5 DEF Acquire, Release, Stores, WriteData, MarkChunk, Goto, Working
<1>6. ASSUME NEW t \in Tasks, Moves(t)
      PROVE  Drained'
  <2>1. CASE TaskCheckShutdown(t)
    BY <2>1 DEF TaskCheckShutdown, Goto, shutdown_token, Working
  <2>2. CASE ~TaskCheckShutdown(t)
    <3>1. tpc[t] \in Working \cup {"acquiring"}
             \/ tpc'[t] \notin Working \cup {"acquiring"}
      BY <1>6, <2>2 DEF Moves, GiveUpAcquire, StartAttempt, FetchAnswer,
            FetchOk, FetchWrongLength, FetchAuthRejected, FetchError, Retry,
            CheckFetched, Notify, Goto, Working
    <3> QED BY <1>6, <3>1, MovesFrame
  <2> QED BY <2>1, <2>2
<1>7. ASSUME NEW t \in Tasks, ClearToken(t) \/ ClearNotifier(t)
      PROVE  Drained'
  BY <1>7 DEF ClearToken, ClearNotifier, Goto, Working
<1> QED BY <1>1, <1>2, <1>3, <1>4, <1>5, <1>6, <1>7, StepKinds

\* A token is looked at before every request, so a drained task sends none.
LEMMA NoFetchStep ==
  ASSUME ShutdownInv, [Next]_vars, shutting = "done", NEW t \in Tasks,
         tpc'[t] = "fetching"
  PROVE  tpc[t] = "fetching"
<1> TypeOK /\ Drained /\ TasksOK /\ Publishing
  BY DEF ShutdownInv, OwnerInv, Typed, TypeOK
<1> USE DEF TasksOK, taskVars
<1>1. CASE CallersOnly \/ Cancels
  BY <1>1 DEF CallersOnly, Cancels, AbortOutsideWindow, BeginShutdown,
              EndShutdown
<1>2. ASSUME NEW p \in Callers, NEW u \in Tasks, Claims(p, u) \/ Publish(p)
      PROVE  tpc[t] = "fetching"
  BY <1>2 DEF Claims, Publish
<1>3. ASSUME NEW u \in Tasks, Acquire(u) \/ Release(u) \/ Stores(u)
             \/ ClearToken(u) \/ ClearNotifier(u)
      PROVE  tpc[t] = "fetching"
  BY <1>3 DEF Acquire, Release, Stores, WriteData, MarkChunk, ClearToken,
              ClearNotifier, Goto
<1>4. ASSUME NEW u \in Tasks, Moves(u)
      PROVE  tpc[t] = "fetching"
  <2>1. CASE StartAttempt(u)
    BY <2>1 DEF StartAttempt, Goto, Drained, Working
  <2>2. CASE ~StartAttempt(u)
    BY <1>4, <2>2 DEF Moves, TaskCheckShutdown, GiveUpAcquire, FetchAnswer,
          FetchOk, FetchWrongLength, FetchAuthRejected, FetchError, Retry,
          CheckFetched, Notify, Goto
  <2> QED BY <2>1, <2>2
<1> QED BY <1>1, <1>2, <1>3, <1>4, StepKinds

\* After shutdown() returned no range request is sent, whichever step the
\* tasks and the callers had reached.
THEOREM ShutdownStopsFetches == Spec => NoFetchAfterShutdown
<1>1. ShutdownInv /\ [Next]_vars =>
        [shutting = "done" =>
           \A t \in Tasks : tpc'[t] = "fetching" => tpc[t] = "fetching"]_vars
  BY NoFetchStep
<1> QED BY <1>1, ShutdownInit, ShutdownStep, PTL DEF Spec, NoFetchAfterShutdown

-----------------------------------------------------------------------------
(* Semaphores.                                                             *)

HoldersFinite == \A l \in Lanes : IsFiniteSet(Holders(l))

PermitInv == OwnerInv /\ HoldersFinite /\ LanesBalanced

\* The two semaphores start full, with no holder.
LEMMA PermitInit == Init => PermitInv
<1> SUFFICES ASSUME Init PROVE HoldersFinite /\ LanesBalanced
  BY OwnerInit DEF PermitInv
<1>1. \A l \in Lanes : Holders(l) = {}
  BY DEF Init, Holders, Working
<1>2. \A l \in Lanes : permits[l] = PermitsOf(l) /\ PermitsOf(l) \in Nat
  BY PermitsAssumption DEF Init, PermitsOf
<1> QED BY <1>1, <1>2, FS_EmptySet DEF HoldersFinite, LanesBalanced

\* A step that changes neither the semaphores nor who holds a permit.
LEMMA SameHolders ==
  ASSUME HoldersFinite, LanesBalanced, permits' = permits,
         \A t \in Tasks : /\ tpc'[t] \in Working <=> tpc[t] \in Working
                          /\ tpc[t] \in Working => tlane'[t] = tlane[t]
  PROVE  (HoldersFinite /\ LanesBalanced)'
<1>1. \A l \in Lanes : Holders(l)' = Holders(l)
  BY DEF Holders
<1> QED BY <1>1 DEF HoldersFinite, LanesBalanced, PermitsOf

\* A permit leaves its semaphore with the task that acquires it and comes
\* back when the task releases it.
LEMMA PermitStep == PermitInv /\ [Next]_vars => PermitInv'
<1> SUFFICES ASSUME PermitInv, [Next]_vars
             PROVE  (HoldersFinite /\ LanesBalanced)'
  BY OwnerStep DEF PermitInv
<1> TypeOK /\ HoldersFinite /\ LanesBalanced /\ TasksOK /\ StorageOK
    /\ Publishing
  BY DEF PermitInv, OwnerInv, Typed, TypeOK
<1> USE DEF TasksOK, slots, taskVars
<1>1. CASE CallersOnly
  BY <1>1, SameHolders DEF CallersOnly
<1>2. ASSUME NEW p \in Callers, NEW t \in Tasks, Claims(p, t)
      PROVE  (HoldersFinite /\ LanesBalanced)'
  <2>1. permits' = permits
    BY <1>2 DEF Claims, Claim
  <2>2. \A u \in Tasks : /\ tpc'[u] \in Working <=> tpc[u] \in Working
                         /\ tpc[u] \in Working => tlane'[u] = tlane[u]
    BY <1>2 DEF Claims, Fresh, Working
  <2> QED BY <2>1, <2>2, SameHolders
<1>3. ASSUME NEW p \in Callers, Publish(p)
      PROVE  (HoldersFinite /\ LanesBalanced)'
  <2>1. permits' = permits /\ tlane' = tlane
    BY <1>3 DEF Publish
  <2>2. \A u \in Tasks : tpc'[u] \in Working <=> tpc[u] \in Working
    BY <1>3 DEF Publish, Publishing, Working
  <2> QED BY <2>1, <2>2, SameHolders
<1>4. CASE Cancels
  <2>1. UNCHANGED <<permits, tpc, tlane>>
    BY <1>4 DEF Cancels, AbortOutsideWindow, BeginShutdown, EndShutdown
  <2> QED BY <2>1, SameHolders
<1>5. ASSUME NEW t \in Tasks, Acquire(t)
      PROVE  (HoldersFinite /\ LanesBalanced)'
  <2> PICK k \in Lanes : k = tlane[t]
    OBVIOUS
  <2>1. /\ Holders(k)' = Holders(k) \cup {t}
        /\ t \notin Holders(k)
        /\ \A l \in Lanes \ {k} : Holders(l)' = Holders(l)
    BY <1>5 DEF Acquire, Goto, Holders, Working
  <2>2. /\ permits'[k] = permits[k] - 1 /\ permits[k] > 0
        /\ \A l \in Lanes \ {k} : permits'[l] = permits[l]
    BY <1>5 DEF Acquire, StorageOK
  <2>3. /\ IsFiniteSet(Holders(k)')
        /\ Cardinality(Holders(k)') = Cardinality(Holders(k)) + 1
    <3>1. IsFiniteSet(Holders(k))
      BY DEF HoldersFinite
    <3>2. /\ IsFiniteSet(Holders(k) \cup {t})
          /\ Cardinality(Holders(k) \cup {t}) = Cardinality(Holders(k)) + 1
      BY <2>1, <3>1, FS_AddElement
    <3> QED BY <2>1, <3>2
  <2>4. \A l \in Lanes : /\ Cardinality(Holders(l)) \in Nat
                         /\ permits[l] \in Int /\ PermitsOf(l) \in Int
    BY FS_CardinalityType, PermitsAssumption
       DEF HoldersFinite, StorageOK, PermitsOf
  <2>5. HoldersFinite'
    BY <2>1, <2>3 DEF HoldersFinite
  <2>6. LanesBalanced'
    <3>1. permits'[k] >= 0 /\ permits'[k] + Cardinality(Holders(k)') = PermitsOf(k)
      BY <2>2, <2>3, <2>4 DEF LanesBalanced
    <3>2. ASSUME NEW l \in Lanes \ {k}
          PROVE  permits'[l] >= 0 /\ permits'[l] + Cardinality(Holders(l)') = PermitsOf(l)
      BY <2>1, <2>2 DEF LanesBalanced
    <3> QED BY <3>1, <3>2 DEF LanesBalanced, PermitsOf
  <2> QED BY <2>5, <2>6
<1>6. ASSUME NEW t \in Tasks, Release(t)
      PROVE  (HoldersFinite /\ LanesBalanced)'
  <2> PICK k \in Lanes : k = tlane[t]
    OBVIOUS
  <2>1. /\ Holders(k)' = Holders(k) \ {t}
        /\ t \in Holders(k)
        /\ \A l \in Lanes \ {k} : Holders(l)' = Holders(l)
    BY <1>6 DEF Release, Goto, Holders, Working
  <2>2. /\ permits'[k] = permits[k] + 1
        /\ \A l \in Lanes \ {k} : permits'[l] = permits[l]
    BY <1>6 DEF Release, StorageOK
  <2>3. /\ IsFiniteSet(Holders(k)')
        /\ Cardinality(Holders(k)') = Cardinality(Holders(k)) - 1
    <3>1. IsFiniteSet(Holders(k))
      BY DEF HoldersFinite
    <3>2. /\ IsFiniteSet(Holders(k) \ {t})
          /\ Cardinality(Holders(k) \ {t}) = Cardinality(Holders(k)) - 1
      BY <2>1, <3>1, FS_RemoveElement
    <3> QED BY <2>1, <3>2
  <2>4. \A l \in Lanes : /\ Cardinality(Holders(l)) \in Nat
                         /\ permits[l] \in Int /\ PermitsOf(l) \in Int
    BY FS_CardinalityType, PermitsAssumption
       DEF HoldersFinite, StorageOK, PermitsOf
  <2>5. HoldersFinite'
    BY <2>1, <2>3 DEF HoldersFinite
  <2>6. LanesBalanced'
    <3>1. permits'[k] >= 0 /\ permits'[k] + Cardinality(Holders(k)') = PermitsOf(k)
      BY <2>2, <2>3, <2>4 DEF LanesBalanced
    <3>2. ASSUME NEW l \in Lanes \ {k}
          PROVE  permits'[l] >= 0 /\ permits'[l] + Cardinality(Holders(l)') = PermitsOf(l)
      BY <2>1, <2>2 DEF LanesBalanced
    <3> QED BY <3>1, <3>2 DEF LanesBalanced, PermitsOf
  <2> QED BY <2>5, <2>6
<1>7. ASSUME NEW t \in Tasks, Moves(t)
      PROVE  (HoldersFinite /\ LanesBalanced)'
  <2>1. permits' = permits /\ tlane' = tlane
    BY <1>7, MovesFrame
  <2>2. \A u \in Tasks : tpc'[u] \in Working <=> tpc[u] \in Working
    BY <1>7, MovesFrame DEF Working
  <2> QED BY <2>1, <2>2, SameHolders
<1>8. ASSUME NEW t \in Tasks, Stores(t) \/ ClearToken(t) \/ ClearNotifier(t)
      PROVE  (HoldersFinite /\ LanesBalanced)'
  <2>1. permits' = permits
    BY <1>8 DEF Stores, WriteData, MarkChunk, ClearToken, ClearNotifier
  <2>2. \A u \in Tasks : /\ tpc'[u] \in Working <=> tpc[u] \in Working
                         /\ tpc[u] \in Working => tlane'[u] = tlane[u]
    BY <1>8 DEF Stores, WriteData, MarkChunk, ClearToken, ClearNotifier, Goto,
                Working
  <2> QED BY <2>1, <2>2, SameHolders
<1> QED BY <1>1, <1>2, <1>3, <1>4, <1>5, <1>6, <1>7, <1>8, StepKinds

-----------------------------------------------------------------------------
(* The worker gauge.                                                       *)

Workers == {t \in Tasks : tpc[t] \in Working}

GaugeInv == OwnerInv /\ IsFiniteSet(Workers) /\ WorkersBalanced

\* The gauge goes up with the task that acquires a permit and down with the one
\* that releases it; no other step changes it or the set of workers.
LEMMA GaugeStep == GaugeInv /\ [Next]_vars => GaugeInv'
<1> SUFFICES ASSUME GaugeInv, [Next]_vars
             PROVE  IsFiniteSet(Workers)' /\ WorkersBalanced'
  BY OwnerStep DEF GaugeInv
<1> TypeOK /\ TasksOK /\ StorageOK /\ Publishing /\ IsFiniteSet(Workers)
    /\ active_workers = Cardinality(Workers)
  BY DEF GaugeInv, OwnerInv, Typed, TypeOK, WorkersBalanced, Workers
<1> USE DEF TasksOK, slots, taskVars
<1>1. ASSUME active_workers' = active_workers,
             \A t \in Tasks : tpc'[t] \in Working <=> tpc[t] \in Working
      PROVE  IsFiniteSet(Workers)' /\ WorkersBalanced'
  <2>1. Workers' = Workers
    BY <1>1 DEF Workers
  <2> QED BY <1>1, <2>1 DEF WorkersBalanced, Workers
<1>2. CASE CallersOnly
  BY <1>1, <1>2 DEF CallersOnly
<1>3. ASSUME NEW p \in Callers, Publish(p) \/ \E t \in Tasks : Claims(p, t)
      PROVE  IsFiniteSet(Workers)' /\ WorkersBalanced'
  <2>1. active_workers' = active_workers
    BY <1>3 DEF Publish, Claims, Claim
  <2>2. \A u \in Tasks : tpc'[u] \in Working <=> tpc[u] \in Working
    BY <1>3 DEF Publish, Publishing, Claims, Fresh, Working
  <2> QED BY <1>1, <2>1, <2>2
<1>4. CASE Cancels
  <2>1. UNCHANGED <<active_workers, tpc>>
    BY <1>4 DEF Cancels, AbortOutsideWindow, BeginShutdown, EndShutdown
  <2> QED BY <1>1, <2>1
<1>5. ASSUME NEW t \in Tasks, Acquire(t)
      PROVE  IsFiniteSet(Workers)' /\ WorkersBalanced'
  <2>1. Workers' = Workers \cup {t} /\ t \notin Workers
    BY <1>5 DEF Acquire, Goto, Workers, Working
  <2>2. active_workers' = active_workers + 1
    BY <1>5 DEF Acquire
  <2>3. /\ IsFiniteSet(Workers \cup {t})
        /\ Cardinality(Workers \cup {t}) = Cardinality(Workers) + 1
    BY <2>1, FS_AddElement
  <2> QED BY <2>1, <2>2, <2>3 DEF WorkersBalanced, Workers
<1>6. ASSUME NEW t \in Tasks, Release(t)
      PROVE  IsFiniteSet(Workers)' /\ WorkersBalanced'
  <2>1. Workers' = Workers \ {t} /\ t \in Workers
    BY <1>6 DEF Release, Goto, Workers, Working
  <2>2. active_workers' = active_workers - 1
    BY <1>6 DEF Release
  <2>3. IsFiniteSet(Workers \ {t}) /\ Cardinality(Workers \ {t}) = Cardinality(Workers) - 1
    BY <2>1, FS_RemoveElement
  <2> QED BY <2>1, <2>2, <2>3 DEF WorkersBalanced, Workers
<1>7. ASSUME NEW t \in Tasks, Moves(t)
      PROVE  IsFiniteSet(Workers)' /\ WorkersBalanced'
  <2>1. active_workers' = active_workers
    BY <1>7, MovesFrame
  <2>2. \A u \in Tasks : tpc'[u] \in Working <=> tpc[u] \in Working
    BY <1>7, MovesFrame DEF Working
  <2> QED BY <1>1, <2>1, <2>2
<1>8. ASSUME NEW t \in Tasks, Stores(t) \/ ClearToken(t) \/ ClearNotifier(t)
      PROVE  IsFiniteSet(Workers)' /\ WorkersBalanced'
  <2>1. active_workers' = active_workers
    BY <1>8 DEF Stores, WriteData, MarkChunk, ClearToken, ClearNotifier
  <2>2. \A u \in Tasks : tpc'[u] \in Working <=> tpc[u] \in Working
    BY <1>8 DEF Stores, WriteData, MarkChunk, ClearToken, ClearNotifier, Goto, Working
  <2> QED BY <1>1, <2>1, <2>2
<1> QED BY <1>2, <1>3, <1>4, <1>5, <1>6, <1>7, <1>8, StepKinds

LEMMA GaugeInit == Init => GaugeInv
<1> SUFFICES ASSUME Init PROVE IsFiniteSet(Workers) /\ WorkersBalanced
  BY OwnerInit DEF GaugeInv
<1>1. Workers = {}
  BY DEF Init, Workers, Working
<1> QED BY <1>1, FS_EmptySet DEF Init, WorkersBalanced, Workers

\* Neither lane ever lends more permits than it has, and none is lost, on any
\* path through a download; and the gauge of StatsCollector counts the tasks that
\* hold one.
THEOREM PermitsNeverLeak == Spec => []PermitsConserved
<1>1. PermitInv /\ GaugeInv => PermitsConserved
  BY DEF PermitInv, GaugeInv, PermitsConserved
<1> QED BY <1>1, PermitInit, PermitStep, GaugeInit, GaugeStep, PTL DEF Spec

-----------------------------------------------------------------------------
(* The cache.                                                              *)

\* A bit is set only after the bytes are in the file.
BitsHaveData ==
    /\ bitmap \subseteq mmap
    /\ \A t \in Tasks : tpc[t] = "marking" => tchunk[t] \in mmap

\* An affirmative answer was read off the bitmap.
AnswersCached ==
    \A p \in Callers :
        op[p] = "wait_for_chunk" /\ answer[p] = "true" => cur[p] \in bitmap

CacheInv == Typed /\ BitsHaveData /\ AnswersCached /\ CachedCountExact

LEMMA CacheInit == Init => CacheInv
  BY TypedInit, FS_EmptySet
     DEF Init, CacheInv, BitsHaveData, AnswersCached, CachedCountExact

\* Of the callers' steps only the two that give an answer touch the answers,
\* and both look at the bitmap for it.
LEMMA AnswersStep ==
  ASSUME TypeOK, AnswersCached, [Next]_vars, bitmap \subseteq bitmap'
  PROVE  AnswersCached'
<1> CallersOK
  BY DEF TypeOK
<1> USE DEF AnswersCached, CallersOK, callVars, has_chunk, ReturnFromStart
<1>1. ASSUME NEW p \in Callers, NEW m \in Methods, NEW s \in Chunks,
             NEW e \in 1 .. TotalChunks, Call(p, m, s, e)
      PROVE  AnswersCached'
  BY <1>1 DEF Call
<1>2. ASSUME NEW p \in Callers, CheckShutdown(p) \/ CheckCache(p)
      PROVE  AnswersCached'
  BY <1>2 DEF CheckShutdown, CheckCache
<1>3. ASSUME NEW p \in Callers, Claim(p)
      PROVE  AnswersCached'
  BY <1>3 DEF Claim
<1>4. ASSUME NEW p \in Callers, Publish(p)
      PROVE  AnswersCached'
  BY <1>4 DEF Publish
<1>5. ASSUME NEW p \in Callers, LookupNotifier(p) \/ Arm(p)
      PROVE  AnswersCached'
  BY <1>5 DEF LookupNotifier, Arm
<1>6. ASSUME NEW p \in Callers, Recheck(p)
      PROVE  AnswersCached'
  BY <1>6 DEF Recheck
<1>7. CASE UNCHANGED <<op, cur, answer>>
  BY <1>7
<1>8. CASE Cancels
  BY <1>7, <1>8 DEF Cancels, AbortOutsideWindow, BeginShutdown, EndShutdown
<1>9. ASSUME NEW t \in Tasks, Acquire(t) \/ FetchAnswer(t) \/ TaskStep(t)
      PROVE  AnswersCached'
  BY <1>7, <1>9 DEF Acquire, FetchAnswer, FetchOk, FetchWrongLength,
        FetchAuthRejected, FetchError, TaskStep, TaskCheckShutdown,
        GiveUpAcquire, StartAttempt, Retry, CheckFetched, WriteData,
        MarkChunk, Release, Notify, ClearToken, ClearNotifier
<1>10. CASE UNCHANGED vars
  BY <1>7, <1>10 DEF vars
<1> QED BY <1>1, <1>2, <1>3, <1>4, <1>5, <1>6, <1>8, <1>9, <1>10
           DEF Next, Environment, CallerStep, Cancels

\* put_chunk writes, then marks, then counts a bit that was not set before.
LEMMA CacheStep == CacheInv /\ [Next]_vars => CacheInv'
<1> SUFFICES ASSUME CacheInv, [Next]_vars
             PROVE  (BitsHaveData /\ AnswersCached /\ CachedCountExact)'
  BY TypedStep DEF CacheInv
<1> TypeOK /\ TasksOK /\ StorageOK /\ BitsHaveData /\ AnswersCached
    /\ CachedCountExact
  BY DEF CacheInv, Typed, TypeOK
<1> USE DEF TasksOK, BitsHaveData, CachedCountExact, cache, taskVars
<1>1. CASE UNCHANGED cache
  <2>1. AnswersCached' /\ CachedCountExact'
    BY <1>1, AnswersStep
  <2>2. BitsHaveData'
    <3>1. CASE CallersOnly \/ Cancels
      BY <1>1, <3>1 DEF CallersOnly, Cancels, AbortOutsideWindow,
                        BeginShutdown, EndShutdown
    <3>2. ASSUME NEW p \in Callers, NEW t \in Tasks, Claims(p, t)
          PROVE  BitsHaveData'
      BY <1>1, <3>2 DEF Claims, Fresh
    <3>3. ASSUME NEW p \in Callers, Publish(p)
          PROVE  BitsHaveData'
      BY <1>1, <3>3 DEF Publish
    <3>4. ASSUME NEW t \in Tasks, Moves(t)
          PROVE  BitsHaveData'
      BY <1>1, <3>4, MovesFrame
    <3>5. ASSUME NEW t \in Tasks, Acquire(t) \/ Release(t) \/ ClearToken(t)
                 \/ ClearNotifier(t)
          PROVE  BitsHaveData'
      BY <1>1, <3>5 DEF Acquire, Release, ClearToken, ClearNotifier, Goto
    <3>6. ASSUME NEW t \in Tasks, Stores(t)
          PROVE  BitsHaveData'
      BY <1>1, <3>6 DEF Stores, WriteData, MarkChunk, Goto
    <3> QED BY <3>1, <3>2, <3>3, <3>4, <3>5, <3>6, StepKinds
  <2> QED BY <2>1, <2>2
<1>2. ASSUME NEW t \in Tasks, WriteData(t)
      PROVE  (BitsHaveData /\ AnswersCached /\ CachedCountExact)'
  BY <1>2, AnswersStep DEF WriteData, Goto
<1>3. ASSUME NEW t \in Tasks, MarkChunk(t)
      PROVE  (BitsHaveData /\ AnswersCached /\ CachedCountExact)'
  <2>1. AnswersCached'
    BY <1>3, AnswersStep DEF MarkChunk
  <2>2. BitsHaveData'
    BY <1>3 DEF MarkChunk, Goto
  <2>3. IsFiniteSet(bitmap)
    <3>1. IsFiniteSet(Chunks)
      BY ChunksAssumption, FS_Interval DEF Chunks
    <3>2. bitmap \in SUBSET Chunks
      BY DEF StorageOK
    <3> QED BY <3>1, <3>2, FS_Subset
  <2>4. Cardinality(bitmap \cup {tchunk[t]})
           = IF tchunk[t] \in bitmap THEN Cardinality(bitmap)
             ELSE Cardinality(bitmap) + 1
    BY <2>3, FS_AddElement
  <2>5. CachedCountExact'
    BY <1>3, <2>4 DEF MarkChunk
  <2> QED BY <2>1, <2>2, <2>5
<1>4. ASSUME NEW t \in Tasks, Acquire(t) \/ Release(t) \/ Moves(t)
             \/ ClearToken(t) \/ ClearNotifier(t)
      PROVE  UNCHANGED cache
  BY <1>4, MovesFrame DEF Acquire, Release, ClearToken, ClearNotifier
<1>5. ASSUME NEW p \in Callers, NEW t \in Tasks, Publish(p) \/ Claims(p, t)
      PROVE  UNCHANGED cache
  BY <1>5 DEF Publish, Claims, Claim
<1>6. ASSUME NEW p \in Callers, Publish(p)
      PROVE  UNCHANGED cache
  BY <1>6 DEF Publish
<1>7. CASE CallersOnly \/ Cancels
  BY <1>1, <1>7 DEF CallersOnly, Cancels, AbortOutsideWindow, BeginShutdown,
                    EndShutdown
<1> QED BY <1>1, <1>2, <1>3, <1>4, <1>5, <1>6, <1>7, StepKinds DEF Stores

LEMMA CacheAlways == Spec => []CacheInv
  BY CacheInit, CacheStep, PTL DEF Spec

\* A wait_for_chunk that answered true finds the bytes in the file.
THEOREM AnswersAreBacked == Spec => []AnswerHasData
<1>1. CacheInv => AnswerHasData
  BY DEF CacheInv, AnswersCached, BitsHaveData, AnswerHasData
<1> QED BY <1>1, CacheAlways, PTL

\* The cached_bytes counter counts every complete chunk once.
THEOREM CountIsExact == Spec => []CachedCountExact
<1>1. CacheInv => CachedCountExact
  BY DEF CacheInv
<1> QED BY <1>1, CacheAlways, PTL

-----------------------------------------------------------------------------
(* Refinement.                                                             *)

\* No more chunks are being fetched than permits are lent, and while a permit
\* is left there is room for one more fetch.
LEMMA FetchingBelowCapacity ==
  ASSUME PermitInv, NEW k \in Lanes, permits[k] > 0
  PROVE  Cardinality(Fetching) < UrgentPermits + BackgroundPermits
<1> DEFINE U == Holders("urgent")
           B == Holders("background")
           W == {t \in Tasks : tpc[t] \in Working}
<1> TasksOK /\ StorageOK /\ HoldersFinite /\ LanesBalanced
  BY DEF PermitInv, OwnerInv, Typed, TypeOK
<1>1. IsFiniteSet(U) /\ IsFiniteSet(B) /\ W = U \cup B
  BY DEF HoldersFinite, Lanes, Holders, TasksOK
<1>2. U \cap B = {}
  BY DEF Holders
<1> HIDE DEF U, B, W
<1>3. Cardinality(U) \in Nat /\ Cardinality(B) \in Nat
  BY <1>1, FS_CardinalityType
<1>4. IsFiniteSet(W) /\ Cardinality(W) = Cardinality(U) + Cardinality(B)
  <2>1. IsFiniteSet(U \cup B) /\ Cardinality(U \cup B)
           = Cardinality(U) + Cardinality(B) - Cardinality(U \cap B)
    BY <1>1, FS_Union
  <2>2. Cardinality(U \cap B) = 0
    BY <1>2, FS_EmptySet
  <2> QED BY <1>1, <1>3, <2>1, <2>2
<1>5. Cardinality(W) < UrgentPermits + BackgroundPermits
  <2>1. /\ permits["urgent"] >= 0 /\ permits["background"] >= 0
        /\ permits["urgent"] + Cardinality(U) = UrgentPermits
        /\ permits["background"] + Cardinality(B) = BackgroundPermits
        /\ permits["urgent"] \in Int /\ permits["background"] \in Int
    BY DEF LanesBalanced, Lanes, PermitsOf, StorageOK, U, B
  <2>2. permits["urgent"] > 0 \/ permits["background"] > 0
    BY DEF Lanes
  <2> QED BY <1>3, <1>4, <2>1, <2>2, PermitsAssumption
<1>6. Cardinality(Fetching) <= Cardinality(W) /\ Cardinality(Fetching) \in Nat
  <2> DEFINE f == [t \in W |-> tchunk[t]]
  <2>1. f \in Surjection(W, Fetching)
    BY DEF Surjection, Fetching, W
  <2>2. IsFiniteSet(Fetching) /\ Cardinality(Fetching) <= Cardinality(W)
    BY <1>4, <2>1, FS_Surjection
  <2> QED BY <2>2, FS_CardinalityType
<1>7. Cardinality(W) \in Nat
  BY <1>4, FS_CardinalityType
<1> QED BY <1>5, <1>6, <1>7, PermitsAssumption

\* What the store's fetching set is, before and after a step, only depends on
\* which tasks hold a permit.
LEMMA SameFetching ==
  ASSUME \A t \in Tasks : /\ tpc'[t] \in Working <=> tpc[t] \in Working
                          /\ tpc[t] \in Working => tchunk'[t] = tchunk[t]
  PROVE  Fetching' = Fetching
  BY DEF Fetching

\* Every step of the downloader is a step of the store or leaves it alone.
LEMMA StoreStep ==
  ASSUME PermitInv, [Next]_vars
  PROVE  [Store!Next]_(Store!storeVars)
<1> TypeOK /\ TasksOK /\ RegistryOK /\ Owner /\ Publishing /\ CallerInRange
  BY DEF PermitInv, OwnerInv, Typed, TypeOK
<1> DEFINE Same == UNCHANGED <<Claimed, Fetching, bitmap>>
<1>0. ASSUME Same PROVE [Store!Next]_(Store!storeVars)
  BY <1>0 DEF Store!storeVars
<1> USE DEF registry, cache, taskVars, TasksOK
<1>1. CASE CallersOnly
  BY <1>0, <1>1 DEF CallersOnly, Claimed, Fetching
<1>2. ASSUME NEW p \in Callers, NEW t \in Tasks, Claims(p, t)
      PROVE  [Store!Next]_(Store!storeVars)
  <2>1. cur[p] \in Store!File /\ cur[p] \in Chunks
    BY <1>2 DEF Claims, CallerInRange, Store!File, Chunks
  <2>2. Fetching' = Fetching
    <3>1. \A u \in Tasks : /\ tpc'[u] \in Working <=> tpc[u] \in Working
                           /\ tpc[u] \in Working => tchunk'[u] = tchunk[u]
      BY <1>2 DEF Claims, Fresh, Working
    <3> QED BY <3>1, SameFetching
  <2>3. bitmap' = bitmap
    BY <1>2 DEF Claims, Claim
  <2>4. cur[p] \notin Claimed /\ Claimed' = Claimed \cup {cur[p]}
    BY <1>2, <2>1, TasksAssumption DEF Claims, Claimed, RegistryOK
  <2> QED BY <2>1, <2>2, <2>3, <2>4
             DEF Store!Next, Store!ClaimChunk
<1>3. ASSUME NEW p \in Callers, Publish(p)
      PROVE  [Store!Next]_(Store!storeVars)
  <2>1. Fetching' = Fetching
    <3>1. \A u \in Tasks : /\ tpc'[u] \in Working <=> tpc[u] \in Working
                           /\ tpc[u] \in Working => tchunk'[u] = tchunk[u]
      BY <1>3 DEF Publish, Publishing, Working
    <3> QED BY <3>1, SameFetching
  <2>2. Claimed' = Claimed /\ bitmap' = bitmap
    BY <1>3 DEF Publish, Claimed
  <2> QED BY <1>0, <2>1, <2>2
<1>4. CASE Cancels
  <2>1. UNCHANGED <<cancel_tokens, tpc, tchunk, bitmap>>
    BY <1>4 DEF Cancels, AbortOutsideWindow, BeginShutdown, EndShutdown
  <2> QED BY <1>0, <2>1 DEF Claimed, Fetching
<1>5. ASSUME NEW t \in Tasks, Acquire(t)
      PROVE  [Store!Next]_(Store!storeVars)
  <2> PICK c \in Chunks : c = tchunk[t]
    OBVIOUS
  <2>1. c \in Claimed /\ c \in Store!File
    BY <1>5, TasksAssumption
       DEF Acquire, Goto, Owner, InFlight, Claimed, Store!File, Chunks
  <2>2. c \notin Fetching
    BY <1>5 DEF Acquire, Goto, Owner, InFlight, Working, Fetching
  <2>3. Cardinality(Fetching) < UrgentPermits + BackgroundPermits
    BY <1>5, FetchingBelowCapacity DEF Acquire
  <2>4. Fetching' = Fetching \cup {c}
    BY <1>5 DEF Acquire, Goto, Fetching, Working
  <2>5. Claimed' = Claimed /\ bitmap' = bitmap
    BY <1>5 DEF Acquire, Claimed
  <2>6. Store!StartFetch(c)
    BY <2>1, <2>2, <2>3, <2>4, <2>5 DEF Store!StartFetch, Store!Cardinality, Cardinality
  <2> QED BY <2>1, <2>6 DEF Store!Next
<1>6. ASSUME NEW t \in Tasks, Release(t)
      PROVE  [Store!Next]_(Store!storeVars)
  <2> PICK c \in Chunks : c = tchunk[t]
    OBVIOUS
  <2>1. c \in Fetching /\ c \in Store!File
    BY <1>6 DEF Release, Goto, Fetching, Working, Store!File, Chunks
  <2>2. \A u \in Tasks : tpc[u] \in Working /\ tchunk[u] = c => u = t
    BY <1>6 DEF Release, Goto, Owner, InFlight, Working
  <2>3. Fetching' = Fetching \ {c}
    BY <1>6, <2>2 DEF Release, Goto, Fetching, Working
  <2>4. Claimed' = Claimed /\ bitmap' = bitmap
    BY <1>6 DEF Release, Claimed
  <2> QED BY <2>1, <2>3, <2>4 DEF Store!Next, Store!StopFetch
<1>7. ASSUME NEW t \in Tasks, Moves(t)
      PROVE  [Store!Next]_(Store!storeVars)
  <2>1. UNCHANGED <<cancel_tokens, tchunk, bitmap>>
    BY <1>7, MovesFrame
  <2>2. \A u \in Tasks : tpc'[u] \in Working <=> tpc[u] \in Working
    BY <1>7, MovesFrame DEF Working
  <2>3. Fetching' = Fetching
    BY <2>1, <2>2, SameFetching
  <2> QED BY <1>0, <2>1, <2>3 DEF Claimed
<1>8. ASSUME NEW t \in Tasks, Stores(t)
      PROVE  [Store!Next]_(Store!storeVars)
  <2>1. Fetching' = Fetching
    <3>1. \A u \in Tasks : /\ tpc'[u] \in Working <=> tpc[u] \in Working
                           /\ tpc[u] \in Working => tchunk'[u] = tchunk[u]
      BY <1>8 DEF Stores, WriteData, MarkChunk, Goto, Working
    <3> QED BY <3>1, SameFetching
  <2>2. Claimed' = Claimed
    BY <1>8 DEF Stores, WriteData, MarkChunk, Claimed
  <2>3. CASE WriteData(t)
    BY <1>0, <2>1, <2>2, <2>3 DEF WriteData
  <2>4. CASE MarkChunk(t)
    <3> PICK c \in Chunks : c = tchunk[t]
      OBVIOUS
    <3>1. c \in Fetching /\ c \in Store!File /\ bitmap' = bitmap \cup {c}
      BY <2>4 DEF MarkChunk, Goto, Fetching, Working, Store!File, Chunks
    <3> QED BY <2>1, <2>2, <3>1 DEF Store!Next, Store!StoreChunk
  <2> QED BY <1>8, <2>3, <2>4 DEF Stores
<1>9. ASSUME NEW t \in Tasks, ClearToken(t)
      PROVE  [Store!Next]_(Store!storeVars)
  <2> PICK c \in Chunks : c = tchunk[t]
    OBVIOUS
  <2>1. c \in Claimed /\ c \in Store!File
    BY <1>9, TasksAssumption
       DEF ClearToken, Goto, Owner, InFlight, Claimed, Store!File, Chunks
  <2>2. c \notin Fetching
    BY <1>9 DEF ClearToken, Goto, Owner, InFlight, Working, Fetching
  <2>3. Claimed' = Claimed \ {c}
    BY <1>9 DEF ClearToken, Claimed, RegistryOK
  <2>4. Fetching' = Fetching
    <3>1. \A u \in Tasks : /\ tpc'[u] \in Working <=> tpc[u] \in Working
                           /\ tpc[u] \in Working => tchunk'[u] = tchunk[u]
      BY <1>9 DEF ClearToken, Goto, Working
    <3> QED BY <3>1, SameFetching
  <2>5. bitmap' = bitmap
    BY <1>9 DEF ClearToken
  <2> QED BY <2>1, <2>2, <2>3, <2>4, <2>5 DEF Store!Next, Store!FreeChunk
<1>10. ASSUME NEW t \in Tasks, ClearNotifier(t)
      PROVE  [Store!Next]_(Store!storeVars)
  <2>1. \A u \in Tasks : /\ tpc'[u] \in Working <=> tpc[u] \in Working
                         /\ tpc[u] \in Working => tchunk'[u] = tchunk[u]
    BY <1>10 DEF ClearNotifier, Goto, Working
  <2>2. Fetching' = Fetching
    BY <2>1, SameFetching
  <2>3. Claimed' = Claimed /\ bitmap' = bitmap
    BY <1>10 DEF ClearNotifier, Claimed
  <2> QED BY <1>0, <2>2, <2>3
<1> QED BY <1>1, <1>2, <1>3, <1>4, <1>5, <1>6, <1>7, <1>8, <1>9, <1>10,
           StepKinds

\* The downloader implements ChunkStore: seen through its slots, its permits
\* and its bitmap it claims, fetches, stores and frees chunks as specified.
THEOREM Refinement == Spec => ImplementsChunkStore
<1>1. Init => Store!Init
  BY DEF Init, Store!Init, Claimed, Fetching, Working
<1>2. PermitInv /\ [Next]_vars => [Store!Next]_(Store!storeVars)
  BY StoreStep
<1> QED BY <1>1, <1>2, PermitInit, PermitStep, PTL
           DEF Spec, ImplementsChunkStore, Store!Spec

-----------------------------------------------------------------------------
(* The slots that the requests see.                                        *)

\* A task that has not been claimed has not been cancelled.
Unmarked == \A t \in Fresh : ~cancelled[t]

SlotsInv == OwnerInv /\ Unmarked

LEMMA UnmarkedStep == SlotsInv /\ [Next]_vars => SlotsInv'
<1> SUFFICES ASSUME OwnerInv, Unmarked, [Next]_vars
             PROVE  Unmarked'
  BY OwnerStep DEF SlotsInv
<1> TypeOK /\ TasksOK /\ Owner
  BY DEF OwnerInv, Typed, TypeOK
<1> USE DEF Unmarked, Fresh, TasksOK, taskVars
<1>1. CASE CallersOnly
  BY <1>1 DEF CallersOnly
<1>2. ASSUME NEW p \in Callers, NEW t \in Tasks, Claims(p, t)
      PROVE  Unmarked'
  BY <1>2 DEF Claims, Claim
<1>3. ASSUME NEW p \in Callers, Publish(p)
      PROVE  Unmarked'
  BY <1>3 DEF Publish
<1>4. CASE Cancels
  <2>1. tpc' = tpc /\ \A t \in Tasks : cancelled'[t] =>
                        cancelled[t] \/ \E c \in Chunks : cancel_tokens[c] = t
    BY <1>4 DEF Cancels, AbortOutsideWindow, BeginShutdown, EndShutdown
  <2> QED BY <2>1 DEF Owner, InFlight, Working
<1>5. ASSUME NEW t \in Tasks, Acquire(t) \/ Release(t) \/ Stores(t) \/ ClearToken(t)
      PROVE  Unmarked'
  BY <1>5 DEF Acquire, Release, Stores, WriteData, MarkChunk, ClearToken, Goto
<1>6. ASSUME NEW t \in Tasks, Moves(t)
      PROVE  Unmarked'
  BY <1>6 DEF Moves, TaskCheckShutdown, GiveUpAcquire, StartAttempt, FetchAnswer, FetchOk,
              FetchWrongLength, FetchAuthRejected, FetchError, Retry, CheckFetched, Notify, Goto
<1>7. ASSUME NEW t \in Tasks, ClearNotifier(t)
      PROVE  Unmarked'
  BY <1>7 DEF ClearNotifier, Goto
<1> QED BY <1>1, <1>2, <1>3, <1>4, <1>5, <1>6, <1>7, StepKinds

\* The slots do not change as long as each holds the same token in the same state.
LEMMA SameSlots ==
  ASSUME \A c \in Chunks :
           /\ cancel_tokens'[c] = cancel_tokens[c]
           /\ cancel_tokens[c] # NoTask =>
                (cancelled'[cancel_tokens[c]] <=> cancelled[cancel_tokens[c]])
  PROVE  SlotView' = SlotView
BY DEF SlotView, SlotOf

\* A cancellation hits what runs outside of its window and, because a token is in one
\* slot only, nothing else.
LEMMA CancelsOutside ==
  ASSUME RegistryOK, TasksOK, Owner, NEW window \in SUBSET Chunks,
         \A a, b \in window : a .. b \subseteq window,
         UNCHANGED <<cancel_tokens, bitmap>>,
         \A t \in Tasks : cancelled'[t] <=>
           cancelled[t] \/ \E c \in Chunks \ window : cancel_tokens[c] = t
  PROVE  Slots!Cancel(window)
<1>1. ASSUME NEW c \in Chunks
      PROVE  SlotOf(c)' = IF SlotOf(c) = "running" /\ c \notin window
                          THEN "cancelled" ELSE SlotOf(c)
  <2>1. CASE cancel_tokens[c] = NoTask
    BY <2>1 DEF SlotOf
  <2>2. CASE cancel_tokens[c] # NoTask
    <3> PICK t \in Tasks : cancel_tokens[c] = t
      BY <2>2 DEF RegistryOK, Slot
    <3>1. \A d \in Chunks : cancel_tokens[d] = t => d = c
      BY DEF Owner
    <3>2. cancelled'[t] <=> cancelled[t] \/ c \notin window
      BY <3>1
    <3> QED BY <2>2, <3>2 DEF SlotOf
  <2> QED BY <2>1, <2>2
<1> HIDE DEF SlotOf
<1>2. SlotView' = [c \in Chunks |-> IF SlotView[c] = "running" /\ c \notin window
                                    THEN "cancelled" ELSE SlotView[c]]
  BY <1>1 DEF SlotView
<1>3. DOMAIN SlotView = Chunks
  BY DEF SlotView
<1> QED BY <1>2, <1>3 DEF Slots!Cancel, Slots!Chunks

LEMMA SlotsStep ==
  ASSUME SlotsInv, [Next]_vars
  PROVE  [Slots!Next]_(Slots!slotVars)
<1> TypeOK /\ TasksOK /\ RegistryOK /\ Owner /\ Unmarked /\ CallerInRange
  BY DEF SlotsInv, OwnerInv, Typed, TypeOK
<1>0. ASSUME SlotView' = SlotView, bitmap' = bitmap PROVE [Slots!Next]_(Slots!slotVars)
  BY <1>0 DEF Slots!slotVars
<1>d. /\ Slots!Chunks = Chunks
      /\ Slots!Free = {c \in Chunks : cancel_tokens[c] = NoTask}
  BY DEF Slots!Chunks, Slots!Free, SlotView, SlotOf
<1> USE DEF registry, cache, taskVars
<1>1. ASSUME UNCHANGED <<cancel_tokens, cancelled, bitmap>>
      PROVE  [Slots!Next]_(Slots!slotVars)
  BY <1>0, <1>1, SameSlots
<1>2. ASSUME NEW p \in Callers, NEW t \in Tasks, Claims(p, t)
      PROVE  [Slots!Next]_(Slots!slotVars)
  <2> PICK c \in Chunks : c = cur[p]
    BY <1>2 DEF Claims, CallerInRange
  <2>1. /\ cancel_tokens[c] = NoTask /\ ~cancelled[t]
        /\ cancel_tokens' = [cancel_tokens EXCEPT ![c] = t]
        /\ cancelled' = cancelled /\ bitmap' = bitmap
    BY <1>2 DEF Claims, Claim, Unmarked
  <2>2. SlotOf(c)' = "running"
    BY <2>1, TasksAssumption DEF SlotOf, RegistryOK
  <2>3. \A d \in Chunks \ {c} : SlotOf(d)' = SlotOf(d)
    BY <2>1 DEF SlotOf, RegistryOK
  <2>4. SlotView' = [d \in Chunks |-> IF d \in {c} THEN "running" ELSE SlotView[d]]
    BY <2>2, <2>3 DEF SlotView
  <2>5. Slots!Start({c})
    BY <1>d, <2>1, <2>4 DEF Slots!Start
  <2>6. {c} \in SUBSET Slots!Free
    BY <1>d, <2>1
  <2> QED BY <2>5, <2>6 DEF Slots!Next
<1>3. ASSUME NEW window \in SUBSET Chunks, Slots!Cancel(window)
      PROVE  [Slots!Next]_(Slots!slotVars)
  BY <1>d, <1>3 DEF Slots!Next
<1>4. CASE Cancels
  <2>1. CASE BeginShutdown
    BY <1>1, <2>1 DEF BeginShutdown
  <2>2. CASE EndShutdown
    <3>1. Chunks \ {} = Chunks /\ UNCHANGED <<cancel_tokens, bitmap>>
      BY <2>2 DEF EndShutdown
    <3>2. Slots!Cancel({})
      BY <2>2, <3>1, CancelsOutside DEF EndShutdown
    <3> QED BY <1>3, <3>2
  <2>3. ASSUME NEW s \in Chunks, AbortOutsideWindow(s, s + WindowChunks)
        PROVE  [Slots!Next]_(Slots!slotVars)
    <3> DEFINE window == Chunks \cap (s .. (s + WindowChunks) - 1)
    <3>1. \A a, b \in window : a .. b \subseteq window
      BY WindowAssumption, ChunksAssumption DEF Chunks
    <3>2. Chunks \ window = Chunks \ (s .. (s + WindowChunks) - 1)
      OBVIOUS
    <3>3. window \in SUBSET Chunks
      OBVIOUS
    <3> HIDE DEF window
    <3>4. UNCHANGED <<cancel_tokens, bitmap>>
      BY <2>3 DEF AbortOutsideWindow
    <3>5. \A t \in Tasks : cancelled'[t] <=>
            cancelled[t] \/ \E c \in Chunks \ window : cancel_tokens[c] = t
      <4> DEFINE out == Chunks \ (s .. (s + WindowChunks) - 1)
      <4>1. cancelled' = [t \in Tasks |-> \/ cancelled[t]
                                          \/ \E c \in out : cancel_tokens[c] = t]
        BY <2>3, Zenon DEF AbortOutsideWindow
      <4>2. out = Chunks \ window
        BY <3>2
      <4> HIDE DEF out
      <4> QED BY <4>1, <4>2
    <3>6. Slots!Cancel(window)
      BY <3>1, <3>3, <3>4, <3>5, CancelsOutside
    <3> QED BY <1>3, <3>3, <3>6
  <2> QED BY <1>4, <2>1, <2>2, <2>3 DEF Cancels
<1>5. ASSUME NEW t \in Tasks, Stores(t)
      PROVE  [Slots!Next]_(Slots!slotVars)
  <2>1. UNCHANGED <<cancel_tokens, cancelled>>
    BY <1>5 DEF Stores, WriteData, MarkChunk
  <2>2. CASE WriteData(t)
    BY <1>1, <2>1, <2>2 DEF WriteData
  <2>3. CASE MarkChunk(t)
    <3> PICK c \in Chunks : c = tchunk[t]
      BY DEF TasksOK
    <3>1. cancel_tokens[c] = t
      BY <2>3 DEF MarkChunk, Goto, Owner, InFlight, Working
    <3>2. c \in Slots!Chunks \ Slots!Free
      BY <1>d, <3>1, TasksAssumption
    <3>3. SlotView' = SlotView /\ bitmap' = bitmap \cup {c}
      BY <2>1, <2>3, SameSlots DEF MarkChunk
    <3> QED BY <3>2, <3>3 DEF Slots!Next, Slots!Store
  <2> QED BY <1>5, <2>2, <2>3 DEF Stores
<1>6. ASSUME NEW t \in Tasks, ClearToken(t)
      PROVE  [Slots!Next]_(Slots!slotVars)
  <2> PICK c \in Chunks : c = tchunk[t]
    BY DEF TasksOK
  <2>1. cancel_tokens[c] = t
    BY <1>6 DEF ClearToken, Goto, Owner, InFlight, Working
  <2>2. /\ cancel_tokens' = [cancel_tokens EXCEPT ![c] = NoTask]
        /\ cancelled' = cancelled /\ bitmap' = bitmap
    BY <1>6 DEF ClearToken
  <2>3. SlotOf(c)' = "free" /\ \A d \in Chunks \ {c} : SlotOf(d)' = SlotOf(d)
    BY <2>2 DEF SlotOf, RegistryOK
  <2>4. SlotView' = [SlotView EXCEPT ![c] = "free"]
    BY <2>3 DEF SlotView
  <2>5. c \in Slots!Chunks \ Slots!Free
    BY <1>d, <2>1, TasksAssumption
  <2> QED BY <2>2, <2>4, <2>5 DEF Slots!Next, Slots!End
<1>7. ASSUME NEW t \in Tasks, ClearNotifier(t)
      PROVE  [Slots!Next]_(Slots!slotVars)
  <2>1. \A c \in Chunks : cancel_tokens[c] # t
    BY <1>7 DEF ClearNotifier, Goto, Owner, InFlight, Working
  <2>2. UNCHANGED <<cancel_tokens, bitmap>> /\ \A u \in Tasks \ {t} : cancelled'[u] = cancelled[u]
    BY <1>7 DEF ClearNotifier, TasksOK
  <2>3. \A c \in Chunks : cancel_tokens[c] # NoTask => cancel_tokens[c] \in Tasks \ {t}
    BY <2>1 DEF RegistryOK, Slot
  <2>4. SlotView' = SlotView
    BY <2>2, <2>3, SameSlots
  <2> QED BY <1>0, <2>2, <2>4
<1>8. CASE CallersOnly
  BY <1>1, <1>8 DEF CallersOnly
<1>9. ASSUME NEW p \in Callers, Publish(p)
      PROVE  [Slots!Next]_(Slots!slotVars)
  BY <1>1, <1>9 DEF Publish
<1>10. ASSUME NEW t \in Tasks, Acquire(t) \/ Release(t)
       PROVE  [Slots!Next]_(Slots!slotVars)
  BY <1>1, <1>10 DEF Acquire, Release
<1>11. ASSUME NEW t \in Tasks, Moves(t)
       PROVE  [Slots!Next]_(Slots!slotVars)
  BY <1>1, <1>11, MovesFrame
<1> QED BY <1>2, <1>4, <1>5, <1>6, <1>7, <1>8, <1>9, <1>10, <1>11, StepKinds

\* The downloader implements DownloadSlots, which the requests of module StreamSession
\* take for it (SlotsAreUsed of StreamSessionProofs): through all claims, retries, seeks,
\* shutdowns and clean-ups a slot goes from free to running, perhaps to cancelled, and
\* back to free with the end of that one download.
THEOREM SlotsRefinement == Spec => ImplementsSlots
<1>1. Init => SlotsInv
  <2>1. Init => Unmarked
    BY DEF Init, Unmarked, Fresh
  <2> QED BY <2>1, OwnerInit DEF SlotsInv
<1>2. Init => Slots!Init
  BY DEF Init, Slots!Init, Slots!Chunks, SlotView, SlotOf
<1>3. SlotsInv /\ [Next]_vars => [Slots!Next]_(Slots!slotVars)
  BY SlotsStep
<1> QED BY <1>1, <1>2, <1>3, UnmarkedStep, PTL DEF Spec, ImplementsSlots, Slots!Spec

=============================================================================
