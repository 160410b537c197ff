# MaPlayer: formal models of the streaming proxy and its player

MaPlayer is a Flutter TVBox client. A Rust library (`rust/src`) runs a local
HTTP proxy that downloads a remote media file in chunks over several
connections, keeps the chunks in a memory-mapped file and streams them to the
player. Dart code (`lib/`) finds the media: it parses TVBox configurations,
runs spider scripts in sub-processes, saves shared cloud files into the user's
Quark drive, resolves play URLs and drives the player. The modules in this
directory model the parts of both that are concurrent, fallible or
arithmetical. Paths below are relative to `src/`.

## 1. Inventory

### Rust proxy engine

| component | state | operations | hard behaviour | what makes it correct |
|---|---|---|---|---|
| `engine/downloader.rs` | per-chunk cancel tokens and notifiers, two semaphores, shutdown token | `start_prefetch`, `start_urgent_prefetch`, `prefetch_range`, `wait_for_chunk`, `abort_outside_window`, `shutdown`, the spawned task | two registries updated under two locks, one after the other; notifications that are not remembered; select over permit and shutdown | one live download per chunk; no permit leaks; nothing fetched after shutdown; every wait answered, and answered truthfully |
| `engine/cache.rs` | mmap, bitmap, byte counter, the file on disk | `new`, `put_chunk`, `read_range`, `has_chunk`, `buffered_bytes_ahead`, `Drop` | write of data and of bit under two locks; file name shared by successive sessions of one id | a set bit means the bytes are there; reads never leave the file; counters exact |
| `engine/session.rs` | `SeekState`, playback offset, bitrate estimate | `new`, `serve_range`, `serve_range_stream`, `snapshot`, `update_auth`, `shutdown`, `Drop` | several streams of one session overlap; seek check and reset are separate critical sections; the stream ends early | the pieces sent are exactly the range promised; only a seek or the end of the session cuts a stream |
| `engine/stats.rs` | counters and rates | `record_*`, `snapshot` | counters and sampling point are separate atomics | counters match what happened |
| `engine/warmup.rs`, `detect/container.rs` | none | container sniffing, warmup ranges | boundary arithmetic on sizes read from the file | ranges stay inside the file |
| `server/handler.rs` | listener, shared session map | `Range` parsing, `GET`, `HEAD`, start and shutdown | status, `Content-Range` and `Content-Length` computed before the stream | header and body agree |
| `api/proxy_api.rs` | global engine, session map | `init_engine`, `create_session`, `close_session`, `get_stats`, `update_session_auth`, `dispose` | an old session lives on in its streams and tasks while the next one is created over the same file | bytes of one session never show up in another |
| `source/http_source.rs` | URL, headers, per-IP clients | `probe`, `fetch_range`, `update_auth`, `effective_concurrency` | URL and headers change between two reads; clients rebuilt during DNS | a request carries the URL and headers of one update |
| `source/iso_source.rs` | none | `wrap_if_iso` (returns the source unchanged) | none | |

A stream task calls `wait_for_chunk` for each chunk of its range and sends the
slice; a request handler first cancels downloads outside the window when it
detects a seek and starts urgent downloads of the whole range; the warmup task
prefetches head, tail and the container's index. They share the downloader of
the session. The Dart side calls the API from one isolate, so API calls do not
overlap each other; requests and tasks run on a multi-threaded tokio runtime.

### Dart application

| component | state | operations | hard behaviour | what makes it correct |
|---|---|---|---|---|
| `core/spider/spider_process_manager.dart` | process, pending calls by id, `_starting` flag | `ensureStarted`, `call`, line handler, `dispose` | timeouts racing late answers; the process dies or is replaced while calls are pending | each call completes once, with its own answer |
| `core/spider/*` (runtime, executors, registry, jar bridge) | executor cache, script engines | `getSpider`, executor methods | two callers create the same executor; `destroy` awaits while calls go on | every process started is stopped |
| `features/playback/share_play_orchestrator.dart` | show folder in the drive, chosen file | `prepareEpisodes`, `playEpisode` | clear, save, find, clean up as separate remote calls; two episodes requested at once | the file played is the episode asked for |
| `features/cloud/quark`, logout in `features/settings` | credential, folders, save tasks | login, token refresh, cookie update, logout; transfer, resolve | refresh and cookie update are read-modify-write over awaits, logout clears two stores one after the other; polling | a credential is one login's; logged out stays logged out; the stored refresh token works |
| `features/history`, `features/cloud bookmarks`, caches | stored lists | `upsert`, `add`, `remove` | read-modify-write over awaits | no entry is lost; bounds are kept |
| `features/player` (page, proxy controller) | current episode, active session | play, next, switch resolution, auth recovery, dispose | late answers of an earlier request; dispose while something is pending | what plays is what was asked for last |
| `features/playback/playback_orchestrator.dart`, parsers | none | resolve, parse | polling deadline | |
| `tvbox` (parser, ext resolver, normalizers) | visited set | recursive resolution | cycles, depth and node limits | termination |
| home web-view bridge, pages, app shell | UI state | rendering | UI callbacks | |

### Left aside

Generated bindings (`frb_generated.*`, `lib/src/rust`), `cargokit` and the
platform runners are generated or vendored code. Widgets, styling and the
JavaScript assets of the home page render state that other components own.

## 2. The modules

| module | models | state | actions |
|---|---|---|---|
| `ChunkStore` | what `ChunkDownloader` promises | claimed, fetched and stored chunks | claim, start, store, stop, free |
| `DownloadSlots` | the downloads of a session as its requests see them | one slot per chunk: free, running or cancelled; the cached chunks | start, cancel, store, end |
| `Downloader` | `engine/downloader.rs` over `engine/cache.rs` | the two registries, semaphores, bitmap and file, tasks, callers | every method of the downloader and every step of its task, cut at each lock and each await |
| `ProxyEngine` | `api/proxy_api.rs`, life of `ProxySession` and `DiskCache` | session map, sessions and who holds them, directory and inodes | the API calls, streams, downloads, the two drops, death of the process |
| `ByteRanges` | chunk and slice arithmetic, parsing and answering of `Range` headers | none: operators | |
| `Warmup` | `engine/warmup.rs`, `detect/container.rs`, the chunks `ProxySession::new` prefetches | none: operators on a file (length, format, atom headers) | |
| `StreamSession` | `serve_range_stream`, `SeekState`, the `GET` and `HEAD` handlers, the warmup task | the file, whether the session is shut down, seek state, one slot per chunk, requests and the bytes each has sent | accept, seek, downloads, warmup, wait, send, hang up, update, shutdown of the session |
| `HttpSource` | `source/http_source.rs` | URL, headers, route pool and its lock, fetchers | each lock taken by `update_auth`, `ensure_route_clients` and `fetch_range` |
| `QuarkAuth` | `quark_auth_service.dart` over the credential store, the renewal of the cookie in `quark_transfer_service.dart`, the login web view, the logout in `settings_page.dart` | stored credential, cookie jar, operations under way, what the server has issued | what each operation does between two awaits, the steps of the server, expiry |
| `SharePlay` | `share_play_orchestrator.dart` and the drive operations it uses | drive folder, history entry, plays | each remote call of `prepareEpisodes` and `playEpisode`, and its failure |
| `PlayerPage` | `player_page.dart` and the proxy controller under it | current episode, media, variant and session, the open sheet of resolutions, the engine's session and whose file it streams, the history entry, the calls under way | each method of the page, cut at each await that leaves the isolate |
| `SpiderProcess` | `spider_process_manager.dart`, `js_executor.dart` | processes, pending calls, `destroy` | each piece of Dart code between two awaits, each callback, each step of a process |
| `DownloaderProofs`, `ProxyEngineProofs`, `HttpSourceProofs`, `QuarkAuthProofs`, `SpiderProcessProofs`, `StreamSessionProofs`, `PlayerPageProofs`, `SharePlayProofs` | proofs about the module named | | |
| `MC...` | instances for TLC | | |

**Atomicity.** In Rust, requests and tasks run on several threads. An action
is one critical section, or one access to a shared atomic; whatever lies
between two of them touches only local state. In Dart everything runs in one
isolate, and an action is what runs between two awaits.

**What is shared between modules.** `StreamSession` sees the downloader as one
slot per chunk: free, running, or cancelled but still registered.
`DownloadSlots` states that view: `Downloader` is shown to implement it,
`StreamSession` to ask no more of it. `ProxyEngine` sees a download as fetch,
write, mark. `Downloader` has the detail of both: its `put_chunk` is the same
pair of critical sections (data under the lock of the map, then bit under the
lock of the bitmap). `StreamSession` takes its arithmetic from `ByteRanges` and
its files and warmup plans from `Warmup`.

**Data.** A chunk's bytes are "there" or "not there"; in `StreamSession` the
body of a response is the sequence of byte positions sent, so that a wrong,
missing or repeated byte shows. A URL or a set of headers is the number of the
`update_auth` that brought it. A cache file is an inode named after the session
that created it, with the set of chunks whose bytes it holds; everything else
in it reads as zeros. A drive file is the episode it holds and the play that
saved it. A token pair is the login it came from and its generation, a cookie
the login alone. A `Range` header is its unit and the two parts around its
dash, each a number, nothing or text. Other text, JSON, logging and rates are
left out.

**Mutants.** Operators whose names carry a suffix (`Claim_Unchecked`,
`UpdateCookie_KeepsStored`) are not part of any specification. Each one is a
plausible error in the definition that follows it, and shows what a property is
good for.

## 3. Runs

| run | shows | bounds |
|---|---|---|
| `downloader` | one live download per chunk; answers are backed by data; permits, worker gauge and byte counter exact; no fetch after shutdown; `ChunkStore` and `DownloadSlots` implemented | 2 chunks, 2 tasks, 2 callers, 1 permit per lane, 1 retry, window of 1 chunk |
| `downloads_end` | every claimed chunk is freed; the workers drain after shutdown | the same with 1 caller and no retry |
| `lost_wakeup` | finding 1 | 1 chunk, 1 task, 1 caller |
| `sessions` | at most one session; old sessions download nothing new; the data of a live session are never damaged by a leftover; no stray file | 2 ids, 3 sessions, 1 stream, 1 chunk |
| `zeros_served` | finding 2 | 1 id, 2 sessions, 1 stream |
| `requests` | the body is the promised range, with seeks, aborts, failures, hang-ups, the warmup task and a shutdown of the session at any moment; a cancellation cuts a stream of an open session only by another's seek or a range beyond the window; buffered bytes; `HEAD` and `GET` headers; statistics; no seek before the player is stable; every warmup plan stays inside the file and covers the index | 3 requests to a file of 9 units: an open-ended one at any time, a start without a range for the first two, the index for the second; 1 request with every header of numbers 0 to 22, blanks and text to files of 1 to 8; MP4 files of 13 with every choice of 1 or 2 atoms after the first, true sizes or not; chunks of 4 |
| `auth_updates` | nothing sent is staler than the request; the pool is built once | 2 fetchers, 2 updates, 2 requests each, 2 routes |
| `credential` | the credential is one login's; a logout that nothing overlaps is final; the stored refresh token is accepted unless the newest one was lost | 2 transfers, 2 readings of the cookies, 2 logins, any number of logouts and expiries, a server that rotates refresh tokens or not |
| `share_play` | a play left alone shows what it saved and tidies up; every play ends | 2 plays, 2 listings after a save, 3 episodes (two of one name), 2 leftovers, 1 nested file |
| `wrong_episode` | finding 3 | 3 plays one after the other, 2 episodes |
| `player` | no session left behind on a live page, nor on one left while none was being created; the spinner stops; one call after the other, the page serves what it shows, and a saved position is its episode's as long as no variant of an earlier media is chosen | 2 episodes of 2 variants; 3 calls out of 2 plays, a switch and a recovery; the sheet opened, dispose at any time |
| `spider` | one process; each call ends once; an exit fails its own calls; `dispose` kills what runs | 3 calls and `destroy`, 3 starts |

Why these bounds are enough to be interesting:

- `Downloader`: two tasks are the least that lets a chunk be claimed again
  while the clean-up of its last download runs, and two callers the least that
  lets both pass the check before either claims; one permit per lane makes
  tasks queue. A task name is used once, so a run sees two downloads; the
  proofs take any number of names, also infinitely many. The code's values are 2 urgent permits, 3
  retries and a window of 32; the proofs are for all of them.
- `ByteRanges`, `Warmup`, `StreamSession`: what matters is how the ends of
  range, chunk, probe, atom and file lie to each other. A unit is 8 bytes, an
  atom's short header. With chunks of 4, a probe of 3 and files of 1 to 13
  every case of "on a boundary", "inside a chunk", "short last chunk", "across
  the probe", "in the tail" and "past the end" occurs; the atoms may claim
  sizes that are not true, also zero and beyond the file. `OpenEndedMax = 8`
  is two chunks where the code has 32, `StartupClamp = 2` half a chunk. A
  header number is a `u64` in the code and less than `Modulus = 22` here;
  `end + 1` wraps there as in a release build (a debug build stops). Three
  requests are the least that let one seek, one be hit by it and one join what
  is left; the last of them only continues, as the first two have done all else. Answers and plans depend on the file only, so the properties about
  them look at the initial states, one for each file.
- `ProxyEngine`: three sessions allow an old one, its successor and a third
  one after a restart. A session object is used once.
- `SharePlay`: `MaxTries` stands for the 8 listings after a save; that the
  folder lists a file late is possible at each of them.
- `PlayerPage`: two calls that overlap and a third one that finds what they
  left behind; the stale sheet takes three as well (play, play, switch). With
  four calls nothing else shows, at twenty times the cost.
- `QuarkAuth`: two transfers are the least that refresh the same token, and
  two logins the least that mix. Refreshes are bounded by the transfers.
- `SpiderProcess`: three calls are one waiting, one polling and one starting.

Deadlock is checked everywhere but in `spider`, where all calls may be over;
`Done` and its like name the regular ends of the other models. Symmetry is
used for safety only; so is the view of `MCDownloader`, which leaves out what a
call or a task has left in variables that nothing reads any more.

### Fairness

- `Downloader!Fairness`: a tokio task or thread that can take a step takes it
  (`WF` on the steps of tasks and callers). A task waiting for a permit gets
  one if permits keep coming (`SF` on `Acquire`): tokio's semaphores are
  first-come-first-served. A range request is answered or fails
  (`WF_vars(FetchAnswer(t))`): that is an assumption about the remote side,
  because the client in `http_source.rs` sets no timeout.
- `SharePlay!FairSpec`: each remote call returns or throws; again an
  assumption, since the Dart client sets no timeout. Nothing is assumed of
  *which* of the two happens, or of when a saved file gets listed.
- `SpiderProcess!FairSpec`: timers fire, `Process.start` completes. No
  fairness is assumed for the process itself: it may never answer.

## 4. Findings

1. **A waiter may sleep for ever** (`lost_wakeup`, `WaitAnswered`).
   `wait_for_chunk` clones the notifier, releases the lock and then calls
   `notified()`. A download that ends in between calls `notify_waiters`, which
   wakes only those already waiting, and there is no timeout although the
   comment at `downloader.rs:270` speaks of one. With a second task there is
   another way to the same end: the clean-up of an old download frees the
   token, a new claim publishes its notifier, and the clean-up then removes
   that one; nobody wakes the callers who hold it.
2. **Zeros are served as data** (`zeros_served`, `ReadsAreDownloads`). A
   response body keeps its session after `close_session`. A new session for the
   same id truncates the file both map; the old bitmap is still set, so
   `read_range` returns the zeros of the re-extended file.
3. **The wrong episode plays** (`wrong_episode`, `PlaysSelected`). The check for
   "the episode played last" uses the history as it was when the page opened.
   After A, B, A on one page the third play takes the reuse path and falls back
   to the only video in the folder, which is B.

### Disagreements that no run shows

Each of these is stated as a definition with the comment it comes from. Adding
it to the named configuration, as an INVARIANT unless the table says PROPERTY,
makes TLC print the behaviour.

| definition | configuration | what happens |
|---|---|---|
| `Downloader!FalseMeansFailure` (PROPERTY) | `MCDownloader` | between the two locks of a claim a waiter finds no notifier and is told `false` while the download goes on |
| `Downloader!UrgentNotStarved` | `MCDownloader` without its `VIEW` | an urgent request for a chunk that background prefetch has queued does not move it to the urgent lane |
| `ProxyEngine!WorkersReleased` | `MCProxyEngine` | `create_session` shuts the old downloaders down but waits for none of their workers (proxy_api.rs:173-176 says they release file handles first): one may still map the truncated file |
| `StreamSession!RangeSupported` | `MCStreamSession` with `Headers <- ProbeToMax` | `bytes=0-18446744073709551615` is refused: `end + 1` wraps |
| `StreamSession!ContinuationIsNoSeek` (PROPERTY) | `MCStreamSession` with `Requests = {p1, p2}`, `Headers <- OpenEnded`, `Files <- LongFile` | `last_offset` is the start of the last request, so going on after a long response is a jump |
| `StreamSession!SeekKeepsOwnChunks` (PROPERTY) | `MCStreamSession` | the window is aligned to the target's chunk; a range that is not covers one chunk more, which the seek cancels |
| `StreamSession!EarlierSeekHarmless` (PROPERTY) | `MCStreamSession` | a cancelled download stays registered until it ends; a later request joins it and breaks off |
| `StreamSession!ToEndPrefetched` | `MCStreamSession` | a `moov` of size 0 is taken to end with the probed header |
| `HttpSource!RequestUntorn` | `MCHttpSource` | a request carries the new URL with the old headers |
| `QuarkAuth!RefreshKept` (PROPERTY) | `MCQuarkAuth` | `updateCookie` writes back the tokens it was given, over those a refresh has stored since |
| `QuarkAuth!LogoutFinal` | `MCQuarkAuth` | a refresh, a renewal of the cookie or a reading of the cookies that is under way stores the credential again after a logout |
| `PlayerPage!PositionPreserved` | `MCPlayerPage` | the position saved by `dispose` is written under the episode a play still under way has just recorded |
| `PlayerPage!PositionWhenCalm` | `MCPlayerPage` | the sheet of resolutions stays open while the next episode is auto-played; a tap on it opens the earlier episode's variant under the later one's progress key, and `dispose` saves that position |
| `PlayerPage!PlayingSessionKept` | `MCPlayerPage` | the end of one `_openMedia` closes its previous session although a later call has opened that one again |
| `PlayerPage!NothingLeftAtAll` | `MCPlayerPage` | the page is disposed while `createSession` awaits the engine; the session is created afterwards and stays |
| `SpiderProcess!NoProcessLeft` | `MCSpiderProcess` | a call during `destroy` starts a process nobody stops; a failing last call skips the `dispose` |

## 5. Proofs

The theorems hold for every value of the constants that satisfies the module's
assumptions; TLC evaluates those assumptions in every run.

**`DownloaderProofs`**, for any number of chunks, callers and tasks (finite or
not), any number of permits and retries:

| theorem | property |
|---|---|
| `TypeCorrect` | `TypeOK` |
| `OneDownloadPerChunk` | `SingleDownload` |
| `ShutdownStopsFetches` | `NoFetchAfterShutdown` |
| `PermitsNeverLeak` | `PermitsConserved` |
| `AnswersAreBacked` | `AnswerHasData` |
| `CountIsExact` | `CachedCountExact` |
| `Refinement` | `ImplementsChunkStore` |
| `SlotsRefinement` | `ImplementsSlots` |

None of these is inductive. The argument rests on five parts, each stated and
proved on its own:

- *Owner*: a slot holds the token of task `t` exactly while `t` is between its
  claim and its own clean-up for that chunk. Hence two live tasks have
  different chunks. *Publishing* goes with it: between claim and publication
  one caller alone holds the task.
- *Drained*: once `shutdown()` returned, every task that waits for or holds a
  permit has its token cancelled. It needs *Owner*: such a task's token was
  registered when `shutdown()` went through the registry.
- *PermitInv*: the permits left and the tasks that hold one add up, per lane.
  The number of such tasks is a cardinality, so the proof shows that each step
  adds or removes at most one task, with the theorems on finite sets.
  *GaugeInv* counts the workers the same way.
- *BitsHaveData*, *AnswersCached*: a set bit has its bytes in the file; a
  caller that was told `true` asked for a chunk with its bit set.
- The byte counter equals the number of set bits because `put_chunk` tests and
  sets the bit in one critical section.

`Refinement` maps the registered tokens to claimed chunks, the permits' holders
to chunks being fetched, and the bitmap to stored chunks. A task that holds a
permit owns its chunk (*Owner*), so the capacity of `ChunkStore` follows from
*PermitInv*. Every other step stutters.

`SlotsRefinement` maps a chunk to the state of the download whose token is
registered. It needs *Owner*, and *Unmarked*: the token of a task that is yet
to be claimed is not cancelled, so that a claim makes a slot "running". The
step to look at is the cancellation by a seek: it must hit all that runs
outside of one window of consecutive chunks and nothing inside. The other side
of the abstraction is `SlotsAreUsed` in `StreamSessionProofs`: what the
requests of a session see of their downloads is always allowed by
`DownloadSlots`.

**`SpiderProcessProofs`**, for any number of calls and processes:
`TypesHold`, `CompletersAreWaiting` (`PendingAreWaiting`), `AtMostOneProcess`
(`OneProcess`), `ExitFailsOnlyItsCalls` (`ExitFailsItsCalls`),
`DisposeKillsAllRunning` (`DisposeKillsRunning`). The inductive
invariant adds to the properties: while a start is under way it is the only
one and no process is current (*OneStarter*); the current process is the last
one started (*CurrentIsLast*); `dispose` kills only a process there is
(*DisposeHasProcess*); every pending call was written to the current process
or to one that `dispose` has killed (*PendingOnCurrent*). The last part is the
reason why the handler of an exit, which fails *every* pending call, fails no
call of a newer process.

**`ProxyEngineProofs`**, for any media, sessions, streams and chunks:
`TypesHold`, `OneSessionAtATime` (`OneSession`), `OrphansStop`
(`OrphansAreShut`), `LiveSessionsAreIntact` (`LiveSessionIntact`),
`FilesHaveOwners` (`FilesOwned`). That the map holds one session at most needs
*EmptyMeanwhile*: from the clearing of the map to the insertion it is empty,
because API calls do not overlap. *Lives* relates the stage of a session to
where it is referred to from: in the map it is alive, before its mapping it
has downloaded nothing. *Intact* carries `LiveSessionIntact` through the
downloads: a chunk whose bit is about to be set has its bytes in the file, and
while a session is in the map no other one can truncate that file, since only
`create_session` opens files and it has cleared the map by then.

**`HttpSourceProofs`**, for any number of fetchers, updates and routes:
`TypesHold`, `RequestsAreFresh` (`NothingStale`), `PoolIsBuiltOnce`
(`BuiltOnce`). *Forward*: URL and headers only move to newer updates, so what a
fetch reads is no older than what there was when it began. *LockHeld*: whoever
is past the lock of the pool holds it, and resolves only while the pool is
empty.

**`QuarkAuthProofs`**, for any number of transfers, readings and logins:
`TypesHold`, `CredentialsAreWhole` (`OneIdentity`), `LogoutIsFinal`
(`LogoutHolds`), `StoredTokenIsUsable` (`RefreshTokenUsable`). *Clean*: as long
as nothing overlapped a logout, neither the jar nor any operation under way
holds a login the user has left. *NoneNewer*: no token is newer than the
server's last. *OnlyAnswered*: with a server that rotates, the newest token of
a login is with the one operation the server has answered and nowhere else.

**`StreamSessionProofs`**, for any chunk size, files, requests and `Range`
headers:

| theorem | property |
|---|---|
| `TypesHold` | `TypeOK` |
| `BodyIsTheRange` | `BodyIsRange` |
| `CancelledByOthers` | `AbortedByOther` |
| `SeeksNeedStability` | `SeekNeedsStability` |
| `CountersConsistent` | `StatsConsistent` |
| `BufferedIsExact` | `BufferedExact` |
| `WarmupInside` | `RangesInside` |
| `IndexIsPrefetched` | `IndexPrefetched` |
| `RangesSupported` | `RangeSupported` |
| `SlotsAreUsed` | `UsesSlots` |

Beneath them are lemmas on the arithmetic of `ByteRanges`: a byte lies in its
chunk (`ByteInChunk`), a chunk that begins inside the file ends with the next
one or with the file (`ChunkEnd`), every header is answered with a piece of the
file or with 416 (`AnswerInFile`), and each slice begins where the one before it
has left off (`SliceIsNext`). The invariants:

- *Bodies*: a stream has sent exactly the bytes of its range before the chunk it
  works on.
- *Blamed*: as long as the session is not shut down, a cancelled download, and a
  stream that one has ended, lies outside of the window of a request that was
  taken for a seek.
- *Settled*: the last offset and the playback position, both taken from where an
  accepted range begins, lie in the file, and the counters are numbers, which
  needs *Bodies*: what is counted as served is never negative.
- *Counted*: there is a ledger that gives each request which still owes bytes a
  piece of "requested minus served" that covers them, so that the difference
  never drops below what the streams have yet to send. A ledger instead of a
  sum, because a step changes one entry of it and leaves the others alone.

`BufferedIsExact` adds up the chunks ahead: the loop of the code is a recursive
function, its total a sum over a set. `IndexIsPrefetched` follows the search for
`moov` through the atoms: their offsets grow, so the one found ends in the
probe, in its prefetched range or in the tail. Both sums are folds; the proofs
show that a fold is determined by its value on the empty set and what one more
element adds (`AddsAgree`, `AddsExists`, `TotalIs`, `TotalWithout`). They do by
least counterexample (`SmallestSubset`, `LeastNat`) what an induction theorem
would do, since those take an operator as parameter.

`RangesSupported` has a hypothesis, *NoMaximum*: no header asks for
`first-(Modulus - 1)`. That header is the one the code gets wrong (`end + 1`
wraps, see the disagreements above), and the headers of the run leave it out
too.

**`PlayerPageProofs`**, for any episodes, variants and calls: `TypesHold`,
`OldSessionsAreClosed` (`OldSessionClosed`), `DisposeLeavesNothing`
(`NothingLeft`), `SpinnerStops` (`SpinnerHasCause`), `CurrentServed`
(`CurrentIsServed`), `PositionsMatch` (`PositionOfEpisode`). With the types
goes *Asked*: nothing is opened or waited for before the page has a media.
`OldSessionClosed` and `SpinnerHasCause` are then inductive themselves;
`NothingLeft` needs *NoneWaits*: on a page that is gone only a call that waited
for the engine can still create a session. The last two are about a page on
which no two calls overlapped and none failed, `PositionOfEpisode` also about
one on which no variant of an earlier media was chosen. *Owns*: until then
everything opened, kept by a call or streamed by the session is a file of the
episode whose progress key it goes by. *Course* says where its one call
stands: which session it has created, closed or yet to open at each of its
steps. *Place* adds the episode each saved position belongs to.

**`SharePlayProofs`**, for any episodes, files in the drive and plays:
`TypesHold`, `UndisturbedPlaysSaved` (`SavedEpisodeIsPlayed`),
`UndisturbedTidies` (`FolderTidied`), `CleanupSparesOwnFile` (`OwnFileKept`).
*Undisturbed* follows one play through the folder: what the clearing has listed
is all there was, so nothing is left when it saves, and the only file that can
appear afterwards is its own. *Spared*: the clean-up has not listed the file
found, and what others do to the folder does not change its list.

Every invariant and action property of a passing run is a theorem, and so are
the refinements. Only model-checked is liveness (`SlotFreed`, `ShutdownDrains`,
`PlayEnds`, `CallEnds`), which is beyond this prover. `UsesSlots` is a theorem
and no question of a run; adding it to `MCStreamSession` as a PROPERTY checks
it. The type invariants, too, are theorems only.

## 6. What is not modelled

- `serve_range` (no handler calls it), the bitrate estimate (it only scales
  the length of a prefetch, which `StreamSession` chooses freely), the snapshot
  and its sampling point in `stats.rs`: rates are averages over wall-clock time,
  and one isolate asks for them.
- `detect_iso`: whatever it finds, `wrap_if_iso` returns its argument.
- `probe` of `http_source.rs`: it runs once, before a session exists.
- The listener and the accept loop of the server, CORS.
- The wrap-around of 64-bit atom sizes whose sum exceeds 2^64, and files that
  change their length between probe and download.
- Of the player page: the grouping of episodes, labels and error texts; the
  headers of a media.
- Of the share: file ids that change between listing and save, and the search
  by file name that then takes over (quark_transfer_service.dart:266-275);
  in `SharePlay`, failures of the local history store.
- The login web view reads the cookies of three addresses one after the other
  (quark_login_webview_page.dart:31-38); `QuarkAuth` takes them in one step.
- `HEAD` beyond the end of the file: the handler answers 200 with a
  `Content-Range` outside of it (handler.rs:295-303); `RangeSupported` speaks of
  starts inside.
- `SpiderRuntime` and the executors behind it: only `PlaybackOrchestrator`
  constructs one, and nothing in `lib` constructs that. `SpiderProcess` models
  the process manager and `JsExecutor.destroy` as their own contract.
  `pollQrLogin` has the same only caller; `QuarkAuth` keeps it, as the operation
  that brings tokens.
- `handleAuthRejected` of the proxy controller, and `update_session_auth`
  through it, which nothing calls; `HttpSource` models `update_auth` itself.
- In Dart: the lists of history and bookmarks, the listing of shares, the
  recursive resolution of configurations. Widgets and text parsers.

## 7. Plan

Done: the Rust engine (`ChunkStore`, `Downloader`, `ByteRanges`, `Warmup`,
`DownloadSlots`, `StreamSession`, `ProxyEngine`, `HttpSource`), four of the
Dart components (`SharePlay`, `PlayerPage`, `SpiderProcess`, `QuarkAuth`),
proofs about eight modules.

What is left, in this order:

1. The list of the history: `upsert` with its bound and the bookmarks, which
   `SharePlay` and `PlayerPage` see as one entry.
2. `ShareListing`, the paging of shares, and `ExtResolver`, the recursive
   resolution with its visited set, depth and node limits, as pure functions
   checked against a reference definition.
3. An abstract specification of a call, begun once and ended once, which
   `SpiderProcess` and the plays of `SharePlay` would implement.

Each question has one run; a new component joins the run of a module it
interacts with, as the warmup plans have joined `requests`.
