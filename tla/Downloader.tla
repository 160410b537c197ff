----------------------------- MODULE Downloader -----------------------------
(***************************************************************************)
(* The multi-connection chunk downloader of one proxy session              *)
(* (rust/src/engine/downloader.rs) over its disk cache                     *)
(* (rust/src/engine/cache.rs).                                             *)
(*                                                                         *)
(* Callers are the threads that use the downloader: HTTP stream tasks,     *)
(* request handlers and the warmup task.  Every start_download that claims *)
(* a chunk creates one cancel token, one notifier and one spawned task; a  *)
(* member of Tasks names all three, so cancel_tokens[c] = t says "slot c   *)
(* holds the token made for task t".                                       *)
(*                                                                         *)
(* One action is one critical section or one read of shared state: what    *)
(* the code does between two of them, no other thread can see.             *)
(***************************************************************************)
EXTENDS Integers, FiniteSets

CONSTANTS
    TotalChunks,        \* number of chunks of the media file
    Tasks,              \* names of download tasks; finite in a TLC run
    Callers,            \* threads that call the downloader
    NoTask,             \* an empty slot (Rust's None)
    UrgentPermits,      \* permits of urgent_semaphore (2 in the code)
    BackgroundPermits,  \* permits of background_semaphore
    MaxRetries,         \* retries after the first attempt (3 in the code)
    WindowChunks        \* chunks kept by a seek (32 in the code)

ASSUME ChunksAssumption == TotalChunks \in Nat \ {0}
ASSUME TasksAssumption == NoTask \notin Tasks
ASSUME PermitsAssumption ==
    /\ UrgentPermits \in Nat \ {0}
    /\ BackgroundPermits \in Nat \ {0}
ASSUME RetriesAssumption == MaxRetries \in Nat
ASSUME WindowAssumption == WindowChunks \in Nat \ {0}

VARIABLES
    cancel_tokens,      \* chunk -> task whose token is registered
    chunk_notifiers,    \* chunk -> task whose notifier is registered
    shutting,           \* progress of shutdown(): "no", "cancelling", "done"
    permits,            \* permits left in each semaphore
    bitmap,             \* chunks marked complete
    mmap,               \* chunks whose bytes are in the mapped file
    cached_chunks,      \* the cached_bytes counter, in chunks
    active_workers,     \* StatsCollector's worker gauge
    tpc,                \* task -> where it is
    tchunk,             \* task -> its chunk
    tlane,              \* task -> the semaphore it was given
    attempt,            \* task -> number of the fetch attempt
    cancelled,          \* task -> its token is cancelled
    cpc,                \* caller -> where it is
    op,                 \* caller -> the method it runs
    cur, upto,          \* caller -> current chunk, end of the range
    handle,             \* caller -> the notifier it cloned
    answer              \* caller -> what its last wait_for_chunk returned

registry == <<cancel_tokens, chunk_notifiers>>
cache    == <<bitmap, mmap, cached_chunks>>
slots    == <<permits, active_workers>>
taskVars == <<tpc, tchunk, tlane, attempt, cancelled>>
callVars == <<cpc, op, cur, upto, handle, answer>>
vars == <<registry, shutting, cache, slots, taskVars, callVars>>

-----------------------------------------------------------------------------
Chunks == 0 .. TotalChunks - 1
Lanes == {"urgent", "background"}
Slot == Tasks \cup {NoTask}

PermitsOf(lane) == IF lane = "urgent" THEN UrgentPermits ELSE BackgroundPermits

\* A task that holds a semaphore permit.
Working == {"attempt", "fetching", "fetched", "writing", "marking", "backoff",
            "release"}
\* A task whose token is registered: from the claim to its own cleanup.
InFlight == Working \cup {"claimed", "spawned", "acquiring", "notify",
                          "clear_token"}
TaskPC == InFlight \cup {"unborn", "clear_notifier", "ended"}

Starting == {"check_shutdown", "check_cache", "claim", "publish"}
CallerPC == Starting \cup {"idle", "lookup", "arm", "waiting", "recheck"}

\* One range method with a bound, wait_for_chunk with a single chunk.
Methods == {"prefetch_range", "start_urgent_prefetch", "wait_for_chunk"}
LaneOf(m) == IF m = "start_urgent_prefetch" THEN "urgent" ELSE "background"

shutdown_token == shutting # "no"
has_chunk(c) == c \in bitmap

Fresh == {t \in Tasks : tpc[t] = "unborn"}

-----------------------------------------------------------------------------
Init ==
    /\ cancel_tokens = [c \in Chunks |-> NoTask]
    /\ chunk_notifiers = [c \in Chunks |-> NoTask]
    /\ shutting = "no"
    /\ permits = [l \in Lanes |-> PermitsOf(l)]
    /\ bitmap = {} /\ mmap = {} /\ cached_chunks = 0
    /\ active_workers = 0
    /\ tpc = [t \in Tasks |-> "unborn"]
    /\ tchunk = [t \in Tasks |-> 0]
    /\ tlane = [t \in Tasks |-> "background"]
    /\ attempt = [t \in Tasks |-> 0]
    /\ cancelled = [t \in Tasks |-> FALSE]
    /\ cpc = [p \in Callers |-> "idle"]
    /\ op = [p \in Callers |-> "wait_for_chunk"]
    /\ cur = [p \in Callers |-> 0]
    /\ upto = [p \in Callers |-> 0]
    /\ handle = [p \in Callers |-> NoTask]
    /\ answer = [p \in Callers |-> "none"]

-----------------------------------------------------------------------------
(* The callers.                                                            *)

\* Downloads the running calls may still start: <<caller, chunk>> pairs.
Reserved == {r \in Callers \X Chunks :
                /\ cpc[r[1]] \in Starting
                /\ cur[r[1]] <= r[2] /\ r[2] < upto[r[1]]}

\* Bound of the model: a call begins only when the task names left cover
\* every download the running calls may start, so that no claim ever blocks.
Room(n) == Cardinality(Reserved) + n <= Cardinality(Fresh)

\* A call enters the downloader.  wait_for_chunk first looks in the cache.
Call(p, m, s, e) ==
    /\ cpc[p] = "idle"
    /\ s < e
    /\ m = "wait_for_chunk" => e = s + 1
    /\ Room(e - s)
    /\ op' = [op EXCEPT ![p] = m]
    /\ cur' = [cur EXCEPT ![p] = s]
    /\ upto' = [upto EXCEPT ![p] = e]
    /\ IF m = "wait_for_chunk" /\ has_chunk(s)
       THEN /\ answer' = [answer EXCEPT ![p] = "true"]
            /\ UNCHANGED cpc
       ELSE /\ answer' = [answer EXCEPT ![p] = "none"]
            /\ cpc' = [cpc EXCEPT ![p] = "check_shutdown"]
    /\ UNCHANGED <<registry, shutting, cache, slots, taskVars, handle>>

\* start_download returned: the next chunk of a range, or on with the wait.
\* handle is the task just claimed only inside start_download.
ReturnFromStart(p) ==
    IF op[p] = "wait_for_chunk"
    THEN /\ cpc' = [cpc EXCEPT ![p] = "lookup"]
         /\ UNCHANGED cur
    ELSE /\ cur' = [cur EXCEPT ![p] = @ + 1]
         /\ cpc' = [cpc EXCEPT ![p] = IF cur[p] + 1 < upto[p]
                                      THEN "check_shutdown" ELSE "idle"]

\* Don't start new work if shutdown has been requested.
CheckShutdown(p) ==
    /\ cpc[p] = "check_shutdown"
    /\ IF shutdown_token
       THEN ReturnFromStart(p)
       ELSE cpc' = [cpc EXCEPT ![p] = "check_cache"] /\ UNCHANGED cur
    /\ UNCHANGED <<registry, shutting, cache, slots, taskVars, op, upto,
                   handle, answer>>

\* Already cached: nothing to do.
CheckCache(p) ==
    /\ cpc[p] = "check_cache"
    /\ IF has_chunk(cur[p])
       THEN ReturnFromStart(p)
       ELSE cpc' = [cpc EXCEPT ![p] = "claim"] /\ UNCHANGED cur
    /\ UNCHANGED <<registry, shutting, cache, slots, taskVars, op, upto,
                   handle, answer>>

\* Mutant of Claim: the look and the registration are not under one lock.
Claim_Unchecked(p) ==
    /\ cpc[p] = "claim"
    /\ \E t \in Fresh :
          /\ cancel_tokens' = [cancel_tokens EXCEPT ![cur[p]] = t]
          /\ tpc' = [tpc EXCEPT ![t] = "claimed"]
          /\ tchunk' = [tchunk EXCEPT ![t] = cur[p]]
          /\ tlane' = [tlane EXCEPT ![t] = LaneOf(op[p])]
          /\ handle' = [handle EXCEPT ![p] = t]
    /\ cpc' = [cpc EXCEPT ![p] = "publish"]
    /\ UNCHANGED <<attempt, cancelled, cur, chunk_notifiers, shutting, cache,
                   slots, op, upto, answer>>

\* Both looks at cancel_tokens and the registration under the second lock;
\* a caller the first look turns away is one the second would turn away.
Claim(p) ==
    /\ cpc[p] = "claim"
    /\ \/ /\ cancel_tokens[cur[p]] # NoTask
          /\ ReturnFromStart(p)
          /\ UNCHANGED <<cancel_tokens, taskVars, handle>>
       \/ /\ cancel_tokens[cur[p]] = NoTask
          /\ \E t \in Fresh :
                /\ cancel_tokens' = [cancel_tokens EXCEPT ![cur[p]] = t]
                /\ tpc' = [tpc EXCEPT ![t] = "claimed"]
                /\ tchunk' = [tchunk EXCEPT ![t] = cur[p]]
                /\ tlane' = [tlane EXCEPT ![t] = LaneOf(op[p])]
                /\ handle' = [handle EXCEPT ![p] = t]
          /\ cpc' = [cpc EXCEPT ![p] = "publish"]
          /\ UNCHANGED <<attempt, cancelled, cur>>
    /\ UNCHANGED <<chunk_notifiers, shutting, cache, slots, op, upto, answer>>

\* Register the notifier, then spawn the task.
Publish(p) ==
    /\ cpc[p] = "publish"
    /\ chunk_notifiers' = [chunk_notifiers EXCEPT ![cur[p]] = handle[p]]
    /\ tpc' = [tpc EXCEPT ![handle[p]] = "spawned"]
    /\ handle' = [handle EXCEPT ![p] = NoTask]
    /\ ReturnFromStart(p)
    /\ UNCHANGED <<cancel_tokens, shutting, cache, slots, tchunk, tlane,
                   attempt, cancelled, op, upto, answer>>

\* wait_for_chunk clones the notifier under the lock; with none it goes
\* straight to the final look.
LookupNotifier(p) ==
    /\ cpc[p] = "lookup"
    /\ handle' = [handle EXCEPT ![p] = chunk_notifiers[cur[p]]]
    /\ cpc' = [cpc EXCEPT ![p] = IF chunk_notifiers[cur[p]] = NoTask
                                 THEN "recheck" ELSE "arm"]
    /\ UNCHANGED <<registry, shutting, cache, slots, taskVars, op, cur, upto,
                   answer>>

\* notify.notified(): from here on a notify_waiters reaches the caller.
Arm(p) ==
    /\ cpc[p] = "arm"
    /\ cpc' = [cpc EXCEPT ![p] = "waiting"]
    /\ UNCHANGED <<registry, shutting, cache, slots, taskVars, op, cur, upto,
                   handle, answer>>

\* Mutant of Recheck: being notified is taken for success.
Recheck_Trusting(p) ==
    /\ cpc[p] = "recheck"
    /\ answer' = [answer EXCEPT ![p] = "true"]
    /\ handle' = [handle EXCEPT ![p] = NoTask]
    /\ cpc' = [cpc EXCEPT ![p] = "idle"]
    /\ UNCHANGED <<registry, shutting, cache, slots, taskVars, op, cur, upto>>

\* The final has_chunk is the answer.
Recheck(p) ==
    /\ cpc[p] = "recheck"
    /\ answer' = [answer EXCEPT ![p] = IF has_chunk(cur[p]) THEN "true"
                                       ELSE "false"]
    /\ handle' = [handle EXCEPT ![p] = NoTask]
    /\ cpc' = [cpc EXCEPT ![p] = "idle"]
    /\ UNCHANGED <<registry, shutting, cache, slots, taskVars, op, cur, upto>>

-----------------------------------------------------------------------------
(* Seek and shutdown.                                                      *)

\* Mutant of AbortOutsideWindow: it empties the slots it cancels at once.
AbortOutsideWindow_Frees(s, e) ==
    LET out == Chunks \ (s .. e - 1)
    IN  /\ cancelled' = [t \in Tasks |->
                            cancelled[t] \/ \E c \in out : cancel_tokens[c] = t]
        /\ cancel_tokens' = [c \in Chunks |->
                                IF c \in out THEN NoTask ELSE cancel_tokens[c]]
        /\ UNCHANGED <<chunk_notifiers, shutting, cache, slots, tpc, tchunk,
                       tlane, attempt, callVars>>

\* Cancel every registered token outside [s, e), under one lock.  The slots
\* stay occupied until the cancelled tasks clean up.
AbortOutsideWindow(s, e) ==
    /\ cancelled' = [t \in Tasks |->
                        \/ cancelled[t]
                        \/ \E c \in Chunks \ (s .. e - 1) :
                              cancel_tokens[c] = t]
    /\ UNCHANGED <<registry, shutting, cache, slots, tpc, tchunk, tlane,
                   attempt, callVars>>

\* shutdown(): first the shutdown token ...
BeginShutdown ==
    /\ shutting = "no"
    /\ shutting' = "cancelling"
    /\ UNCHANGED <<registry, cache, slots, taskVars, callVars>>

\* ... then, under the lock, every registered token.
EndShutdown ==
    /\ shutting = "cancelling"
    /\ shutting' = "done"
    /\ cancelled' = [t \in Tasks |->
                        cancelled[t] \/ \E c \in Chunks : cancel_tokens[c] = t]
    /\ UNCHANGED <<registry, cache, slots, tpc, tchunk, tlane, attempt,
                   callVars>>

-----------------------------------------------------------------------------
(* The download task.                                                      *)

Goto(t, from, to) ==
    /\ tpc[t] = from
    /\ tpc' = [tpc EXCEPT ![t] = to]

\* Mutant of TaskCheckShutdown: the spawned task does not look.
TaskCheckShutdown_Dropped(t) ==
    /\ Goto(t, "spawned", "acquiring")
    /\ UNCHANGED <<registry, shutting, cache, slots, tchunk, tlane, attempt,
                   cancelled, callVars>>

\* Skip the download when shutdown came first.
TaskCheckShutdown(t) ==
    /\ Goto(t, "spawned", IF shutdown_token THEN "notify" ELSE "acquiring")
    /\ UNCHANGED <<registry, shutting, cache, slots, tchunk, tlane, attempt,
                   cancelled, callVars>>

\* select!: a permit ...
Acquire(t) ==
    /\ Goto(t, "acquiring", "attempt")
    /\ permits[tlane[t]] > 0
    /\ permits' = [permits EXCEPT ![tlane[t]] = @ - 1]
    /\ active_workers' = active_workers + 1
    /\ UNCHANGED <<registry, shutting, cache, tchunk, tlane, attempt,
                   cancelled, callVars>>

\* ... or the shutdown; when both are ready select! takes either.
GiveUpAcquire(t) ==
    /\ Goto(t, "acquiring", "notify")
    /\ shutdown_token
    /\ UNCHANGED <<registry, shutting, cache, slots, tchunk, tlane, attempt,
                   cancelled, callVars>>

\* Mutant of StartAttempt: the early return forgets the permit and the gauge.
StartAttempt_Leaks(t) ==
    /\ Goto(t, "attempt", IF cancelled[t] THEN "notify" ELSE "fetching")
    /\ UNCHANGED <<registry, shutting, cache, slots, tchunk, tlane, attempt,
                   cancelled, callVars>>

\* Look at the token, then send the range request.
StartAttempt(t) ==
    /\ Goto(t, "attempt", IF cancelled[t] THEN "release" ELSE "fetching")
    /\ UNCHANGED <<registry, shutting, cache, slots, tchunk, tlane, attempt,
                   cancelled, callVars>>

\* fetch_range delivered the whole chunk.
FetchOk(t) ==
    /\ Goto(t, "fetching", "fetched")
    /\ UNCHANGED <<registry, shutting, cache, slots, tchunk, tlane, attempt,
                   cancelled, callVars>>

\* It delivered a body of another length: put_chunk refuses it, no retry.
FetchWrongLength(t) ==
    /\ Goto(t, "fetching", "release")
    /\ UNCHANGED <<registry, shutting, cache, slots, tchunk, tlane, attempt,
                   cancelled, callVars>>

\* auth_rejected: the next attempt at once; after the last the loop ends, Ok.
FetchAuthRejected(t) ==
    /\ Goto(t, "fetching", IF attempt[t] < MaxRetries THEN "attempt"
                           ELSE "release")
    /\ attempt' = [attempt EXCEPT ![t] = IF @ < MaxRetries THEN @ + 1 ELSE @]
    /\ UNCHANGED <<registry, shutting, cache, slots, tchunk, tlane, cancelled,
                   callVars>>

\* Any other error: sleep and try again, or give up after the last attempt.
FetchError(t) ==
    /\ Goto(t, "fetching", IF attempt[t] < MaxRetries THEN "backoff"
                           ELSE "release")
    /\ UNCHANGED <<registry, shutting, cache, slots, tchunk, tlane, attempt,
                   cancelled, callVars>>

\* The sleep is over.
Retry(t) ==
    /\ Goto(t, "backoff", "attempt")
    /\ attempt' = [attempt EXCEPT ![t] = @ + 1]
    /\ UNCHANGED <<registry, shutting, cache, slots, tchunk, tlane, cancelled,
                   callVars>>

\* Look at the token again before the data is stored.
CheckFetched(t) ==
    /\ Goto(t, "fetched", IF cancelled[t] THEN "release" ELSE "writing")
    /\ UNCHANGED <<registry, shutting, cache, slots, tchunk, tlane, attempt,
                   cancelled, callVars>>

\* put_chunk: the bytes, under the mmap lock ...
WriteData(t) ==
    /\ Goto(t, "writing", "marking")
    /\ mmap' = mmap \cup {tchunk[t]}
    /\ UNCHANGED <<registry, shutting, bitmap, cached_chunks, slots, tchunk,
                   tlane, attempt, cancelled, callVars>>

\* Mutant of MarkChunk: a chunk downloaded twice is counted twice.
MarkChunk_CountsAgain(t) ==
    /\ Goto(t, "marking", "release")
    /\ bitmap' = bitmap \cup {tchunk[t]}
    /\ cached_chunks' = cached_chunks + 1
    /\ UNCHANGED <<registry, shutting, mmap, slots, tchunk, tlane, attempt,
                   cancelled, callVars>>

\* ... then the bit, under the bitmap lock, counting the chunk once.
MarkChunk(t) ==
    /\ Goto(t, "marking", "release")
    /\ bitmap' = bitmap \cup {tchunk[t]}
    /\ cached_chunks' = IF tchunk[t] \in bitmap THEN cached_chunks
                        ELSE cached_chunks + 1
    /\ UNCHANGED <<registry, shutting, mmap, slots, tchunk, tlane, attempt,
                   cancelled, callVars>>

\* Mutants of Release: the gauge stays up; the permit is not given back.
Release_KeepsGauge(t) ==
    /\ Goto(t, "release", "notify")
    /\ permits' = [permits EXCEPT ![tlane[t]] = @ + 1]
    /\ UNCHANGED <<registry, shutting, cache, active_workers, tchunk, tlane,
                   attempt, cancelled, callVars>>

Release_KeepsPermit(t) ==
    /\ Goto(t, "release", "notify")
    /\ active_workers' = active_workers - 1
    /\ UNCHANGED <<registry, shutting, cache, permits, tchunk, tlane, attempt,
                   cancelled, callVars>>

\* fetch_with_retry returned: the gauge goes down, the permit is dropped.
Release(t) ==
    /\ Goto(t, "release", "notify")
    /\ permits' = [permits EXCEPT ![tlane[t]] = @ + 1]
    /\ active_workers' = active_workers - 1
    /\ UNCHANGED <<registry, shutting, cache, tchunk, tlane, attempt,
                   cancelled, callVars>>

\* notify_waiters on the notifier registered for the chunk now: every caller
\* already armed on it goes on.
Notify(t) ==
    /\ Goto(t, "notify", "clear_token")
    /\ LET n == chunk_notifiers[tchunk[t]]
       IN cpc' = [p \in Callers |->
                     IF cpc[p] = "waiting" /\ n # NoTask /\ handle[p] = n
                     THEN "recheck" ELSE cpc[p]]
    /\ UNCHANGED <<registry, shutting, cache, slots, tchunk, tlane, attempt,
                   cancelled, op, cur, upto, handle, answer>>

\* Cleanup, one lock after the other: the token ...
ClearToken(t) ==
    /\ Goto(t, "clear_token", "clear_notifier")
    /\ cancel_tokens' = [cancel_tokens EXCEPT ![tchunk[t]] = NoTask]
    /\ UNCHANGED <<chunk_notifiers, shutting, cache, slots, tchunk, tlane,
                   attempt, cancelled, callVars>>

\* ... and whatever notifier the slot holds by then.  The task's own
\* variables and its token go with it.
ClearNotifier(t) ==
    /\ Goto(t, "clear_notifier", "ended")
    /\ chunk_notifiers' = [chunk_notifiers EXCEPT ![tchunk[t]] = NoTask]
    /\ tchunk' = [tchunk EXCEPT ![t] = 0]
    /\ tlane' = [tlane EXCEPT ![t] = "background"]
    /\ attempt' = [attempt EXCEPT ![t] = 0]
    /\ cancelled' = [cancelled EXCEPT ![t] = FALSE]
    /\ UNCHANGED <<cancel_tokens, shutting, cache, slots, callVars>>

-----------------------------------------------------------------------------
FetchAnswer(t) == FetchOk(t) \/ FetchWrongLength(t) \/ FetchAuthRejected(t)
                  \/ FetchError(t)

\* Everything a task does by itself, without a permit or an answer.
TaskStep(t) ==
    \/ TaskCheckShutdown(t) \/ GiveUpAcquire(t) \/ StartAttempt(t) \/ Retry(t)
    \/ CheckFetched(t) \/ WriteData(t) \/ MarkChunk(t) \/ Release(t)
    \/ Notify(t) \/ ClearToken(t) \/ ClearNotifier(t)

\* Everything a caller does once inside the downloader.
CallerStep(p) ==
    \/ CheckShutdown(p) \/ CheckCache(p) \/ Claim(p) \/ Publish(p)
    \/ LookupNotifier(p) \/ Arm(p) \/ Recheck(p)

\* What comes from outside: calls, seeks and the shutdown.
Environment ==
    \/ \E p \in Callers, m \in Methods, s \in Chunks, e \in 1 .. TotalChunks :
          Call(p, m, s, e)
    \/ \E s \in Chunks : AbortOutsideWindow(s, s + WindowChunks)
    \/ BeginShutdown
    \/ EndShutdown

Next ==
    \/ Environment
    \/ \E p \in Callers : CallerStep(p)
    \/ \E t \in Tasks : Acquire(t) \/ FetchAnswer(t) \/ TaskStep(t)

Spec == Init /\ [][Next]_vars

\* The tokio runtime polls every ready task; its semaphores are first come
\* first served, hence the strong fairness of Acquire.  EndShutdown is the
\* second half of a running call.  That the source answers every request is
\* an assumption on the network: the HTTP client sets no timeout.
Fairness ==
    /\ \A p \in Callers : WF_vars(CallerStep(p))
    /\ \A t \in Tasks : /\ WF_vars(TaskStep(t))
                        /\ SF_vars(Acquire(t))
                        /\ WF_vars(FetchAnswer(t))
    /\ WF_vars(EndShutdown)

FairSpec == Spec /\ Fairness

-----------------------------------------------------------------------------
(* Properties.                                                             *)

RegistryOK ==
    /\ cancel_tokens \in [Chunks -> Slot]
    /\ chunk_notifiers \in [Chunks -> Slot]

StorageOK ==
    /\ shutting \in {"no", "cancelling", "done"}
    /\ permits \in [Lanes -> Int] /\ active_workers \in Int
    /\ bitmap \in SUBSET Chunks /\ mmap \in SUBSET Chunks
    /\ cached_chunks \in Int

TasksOK ==
    /\ tpc \in [Tasks -> TaskPC]
    /\ tchunk \in [Tasks -> Chunks]
    /\ tlane \in [Tasks -> Lanes]
    /\ attempt \in [Tasks -> 0 .. MaxRetries]
    /\ cancelled \in [Tasks -> BOOLEAN]

CallersOK ==
    /\ cpc \in [Callers -> CallerPC]
    /\ op \in [Callers -> Methods]
    /\ cur \in [Callers -> 0 .. TotalChunks]
    /\ upto \in [Callers -> 0 .. TotalChunks]
    /\ handle \in [Callers -> Slot]
    /\ answer \in [Callers -> {"none", "true", "false"}]

\* Every variable stays in its type: no attempt beyond the last retry, no
\* slot, caller or task outside the file.
TypeOK == RegistryOK /\ StorageOK /\ TasksOK /\ CallersOK

\* One live download per chunk: however start_download calls, retries, seeks
\* and cleanups interleave, two tasks whose tokens are not yet cleared never
\* work on the same chunk.  The claim under the cancel_tokens lock is what
\* guarantees it: the early looks at cache and tokens are not.
SingleDownload ==
    \A t, u \in Tasks :
        /\ t # u
        /\ tpc[t] \in InFlight
        /\ tpc[u] \in InFlight
        => tchunk[t] # tchunk[u]

Holders(l) == {t \in Tasks : tpc[t] \in Working /\ tlane[t] = l}

\* What a semaphore has left and what its tasks hold add up to its size.
LanesBalanced ==
    \A l \in Lanes : /\ permits[l] >= 0
                     /\ permits[l] + Cardinality(Holders(l)) = PermitsOf(l)

\* The worker gauge shown to the user counts the permit holders.
WorkersBalanced ==
    active_workers = Cardinality({t \in Tasks : tpc[t] \in Working})

\* No path out of download_chunk_task, through shutdown, cancellation, retry, a wrong
\* length or an error, leaks a permit or gives one back twice, and none leaves the
\* worker gauge up or takes it down without the permit.
PermitsConserved == LanesBalanced /\ WorkersBalanced

\* A wait_for_chunk that answered true may read the chunk from the mapped
\* file: its bytes were written before the bit that made the answer true.
AnswerHasData ==
    \A p \in Callers :
        op[p] = "wait_for_chunk" /\ answer[p] = "true" => cur[p] \in mmap

\* cached_bytes counts every complete chunk once, although a chunk can be
\* downloaded twice: start_download looks at the cache before it claims, and
\* an earlier task may store the chunk and leave between the two.
CachedCountExact == cached_chunks = Cardinality(bitmap)

\* After shutdown() returned no task starts another range request, those
\* about to retry and those still being spawned included.
NoFetchAfterShutdown ==
    [][shutting = "done" =>
         \A t \in Tasks : tpc'[t] = "fetching" => tpc[t] = "fetching"]_vars

\* A registered chunk is always unregistered again, so that a later call can
\* start it anew: cancelled, refused, failed or stored, its task comes to
\* the cleanup, through the semaphore where it has to.
SlotFreed ==
    \A c \in Chunks : cancel_tokens[c] # NoTask ~> cancel_tokens[c] = NoTask

\* After shutdown() the workers drain and stay gone, whatever is called later.
ShutdownDrains == shutting = "done" ~> [](active_workers = 0)

-----------------------------------------------------------------------------
(* The downloader implements the chunk store its callers rely on, and the  *)
(* slots that module StreamSession sees.                                   *)

Claimed == {c \in Chunks : cancel_tokens[c] # NoTask}
Fetching == {tchunk[t] : t \in {u \in Tasks : tpc[u] \in Working}}

Store == INSTANCE ChunkStore WITH
            Capacity <- UrgentPermits + BackgroundPermits,
            claimed <- Claimed, fetching <- Fetching, stored <- bitmap

\* A chunk's slot: the state of the download whose token is registered.
SlotOf(c) ==
    CASE cancel_tokens[c] = NoTask -> "free"
      [] cancel_tokens[c] # NoTask /\ cancelled[cancel_tokens[c]] -> "cancelled"
      [] OTHER -> "running"
SlotView == [c \in Chunks |-> SlotOf(c)]

Slots == INSTANCE DownloadSlots WITH slot <- SlotView, cached <- bitmap

\* Whatever the callers and the tasks do, chunks are claimed, fetched, stored
\* and freed the way ChunkStore allows: one claim at a time, at most as many
\* fetches as there are permits, nothing stored but by the fetch that holds
\* the claim, nothing freed while it is being fetched.
ImplementsChunkStore == Store!Spec

\* Seen from the requests, a cancelled download stays in its slot until it ends
\* and none is started beside it, a cancellation hits nothing but what runs
\* outside of one window, and only a download in its slot adds to the cache:
\* what module StreamSession assumes of the downloader.
ImplementsSlots == Slots!Spec

-----------------------------------------------------------------------------
(* Claims of the comments that the code does not keep.                     *)

\* Comment of wait_for_chunk: it "returns `true` if available, `false` on
\* timeout/failure".  Here: no false while a download of the chunk that
\* nobody cancelled is still under way and nothing is shut down.
FalseMeansFailure ==
    [][shutting = "no" =>
         \A p \in Callers :
            cpc[p] = "recheck" /\ cpc'[p] = "idle" /\ answer'[p] = "false" =>
               ~ \E t \in Tasks :
                    /\ tchunk[t] = cur[p] /\ ~cancelled[t]
                    /\ tpc[t] \in InFlight \ {"release", "notify",
                                              "clear_token"}]_vars

\* The same comment: every wait_for_chunk gets an answer, in a session that
\* is never shut down.
WaitAnswered ==
    [](shutting = "no") =>
        \A p \in Callers : cpc[p] # "idle" ~> cpc[p] = "idle"

\* Comment of serve_range_stream's urgent prefetch: the player's request is
\* served "with urgent (dedicated) permits so the player's blocking request
\* isn't starved by background prefetch".  Here: the chunk of a finished
\* start_urgent_prefetch never queues for a background permit while the
\* urgent lane has one to give.  (It reads what a call that is over has left
\* behind, which the view of MCDownloader leaves out.)
UrgentNotStarved ==
    \A p \in Callers, t \in Tasks :
        /\ op[p] = "start_urgent_prefetch" /\ cpc[p] = "idle"
        /\ tpc[t] = "acquiring" /\ tchunk[t] = upto[p] - 1
        /\ tlane[t] = "background"
        => permits["background"] > 0 \/ permits["urgent"] = 0

=============================================================================
