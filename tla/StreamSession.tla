--------------------------- MODULE StreamSession ---------------------------
(***************************************************************************)
(* The requests of a player to one proxy session: stream_handler           *)
(* (rust/src/server/handler.rs) and serve_range_stream with its seek       *)
(* detection (rust/src/engine/session.rs).                                 *)
(*                                                                         *)
(* Requests overlap.  An action is one critical section or one access to   *)
(* shared state of one request.  The downloader appears as one slot per    *)
(* chunk: free, running, or cancelled and still registered; module         *)
(* Downloader has its inside, with the wait that never ends or ends early. *)
(* The session may be shut down under its requests, which keep it alive:   *)
(* module ProxyEngine has the calls that do it.                            *)
(* The warmup task prefetches the ranges that module Warmup computes.      *)
(***************************************************************************)
EXTENDS Warmup, FiniteSets

CONSTANTS
    Requests,           \* the requests of the player; each is used once
    Headers(_, _),      \* Headers(n, f): the Range headers the n-th of them to
                        \* arrive may have, for file f
    Files,              \* the media files
    WindowChunks,       \* chunks a seek keeps (32)
    PrefetchChunks,     \* chunks prefetched ahead before a bitrate is known (20)
    SeekThreshold,      \* SEEK_THRESHOLD_BYTES
    WarmupRequests,     \* SEEK_WARMUP_REQUESTS
    StableHits          \* SEEK_STABLE_SEQUENTIAL_HITS

ASSUME FilesAssumption ==
    \A f \in Files :
      /\ f.len \in Nat \ {0} /\ f.len + OpenEndedMax < Modulus
      /\ f.atoms \in Seq([type : {"moov", "other"}, form : {"short", "long", "to_end"},
                          size : Nat])
ASSUME LimitsAssumption ==
    {WindowChunks, PrefetchChunks, SeekThreshold, WarmupRequests, StableHits} \subseteq Nat

VARIABLES
    file,               \* the media file, its length as the source probed it
    warmup,             \* the warmup task is "running" or "over"
    shut,               \* the session has been shut down
    seek,               \* SeekState
    playback_offset,    \* start of the last request
    bps,                \* a bitrate estimate exists
    cached,             \* chunks with their bit set
    slot,               \* chunk -> its download
    stats,              \* requested, hit and served bytes
    pc,                 \* request -> where it is
    range,              \* request -> the answer promised to it
    is_seek,            \* request -> it was taken for a seek
    at,                 \* request -> the chunk it works on
    body                \* request -> the bytes sent, by position in the file

opened == <<file, warmup, shut>>
session == <<opened, seek, playback_offset, bps, stats>>
store == <<cached, slot>>
vars == <<session, store, pc, range, is_seek, at, body>>

-----------------------------------------------------------------------------
content_length == file.len
Chunks == 0 .. TotalChunks(content_length) - 1
Promised(p) == ChunksOf(range[p].start, range[p].end)
LastOf(p) == ChunkOf(range[p].end - 1)
LengthOf(p) == range[p].end - range[p].start

\* The end of a request: all sent; its chunk's download failed, or was
\* cancelled; wait_for_chunk gave up early; the player hung up; not satisfiable.
Ended == {"done", "fetch_failed", "aborted", "gave_up", "hung_up", "refused"}
PC == Ended \cup {"new", "abort", "reset", "record", "urgent", "send", "wait",
                  "woken_failed", "woken_aborted", "prefetch", "update"}

FreshSeek == [enabled |-> FALSE, elapsed |-> FALSE, count |-> 0, hits |-> 0,
              last |-> 0]

Init ==
    /\ file \in Files /\ warmup = "running" /\ shut = FALSE
    /\ seek = FreshSeek
    /\ playback_offset = 0 /\ bps = FALSE
    /\ stats = [requested |-> 0, hit |-> 0, served |-> 0]
    /\ cached = {}
    /\ slot = [c \in Chunks |-> IF c \in HeadAndTail(content_length)
                                THEN "running" ELSE "free"]
    /\ pc = [p \in Requests |-> "new"]
    /\ range = [p \in Requests |-> Refused]
    /\ is_seek = [p \in Requests |-> FALSE]
    /\ at = [p \in Requests |-> 0]
    /\ body = [p \in Requests |-> <<>>]

\* start_download of the chunks in C: no-op for a cached or a registered chunk,
\* and after shutdown.  One that looked at the shutdown token before it fired and
\* registers after it counts as started before, and ends by itself (Downloader).
Started(C) == [c \in Chunks |-> IF c \in C \ cached /\ slot[c] = "free" /\ ~shut
                                THEN "running" ELSE slot[c]]

\* The downloads after what runs outside of a window of chunks was cancelled.
Cancelled(window) == [c \in Chunks |-> IF slot[c] = "running" /\ c \notin window
                                       THEN "cancelled" ELSE slot[c]]

\* SeekState::is_seek.
IsSeek(offset) ==
    /\ seek.enabled
    /\ \/ offset - seek.last > SeekThreshold
       \/ seek.last - offset > SeekThreshold

\* SeekState::maybe_enable on a state after a request was served.
MaybeEnable(s) ==
    [s EXCEPT !.enabled = @ \/ /\ s.elapsed
                               /\ s.count >= WarmupRequests
                               /\ s.hits >= StableHits]

\* record_request and record_served.
RecordRequest(total, hit) ==
    stats' = [stats EXCEPT !.requested = @ + total, !.hit = @ + hit]
RecordServed(bytes) == stats' = [stats EXCEPT !.served = @ + bytes]

-----------------------------------------------------------------------------
(* A request, up to the response headers.                                  *)

\* The Range header is resolved; the request becomes the playback position and
\* reads the seek state.
Accept(p, r) ==
    /\ pc[p] = "new"
    /\ LET a == Resolve(ParseRange(r), content_length) IN
         /\ range' = [range EXCEPT ![p] = a]
         /\ IF a.status = 416
            THEN /\ pc' = [pc EXCEPT ![p] = "refused"]
                 /\ UNCHANGED <<playback_offset, is_seek, at>>
            ELSE /\ playback_offset' = a.start
                 /\ is_seek' = [is_seek EXCEPT ![p] = IsSeek(a.start)]
                 /\ at' = [at EXCEPT ![p] = ChunkOf(a.start)]
                 /\ pc' = [pc EXCEPT ![p] = IF IsSeek(a.start) THEN "abort"
                                            ELSE "record"]
    /\ UNCHANGED <<opened, seek, bps, stats, store, body>>

\* Mutant: the window begins behind the target.
Abort_AfterTarget(p) ==
    /\ pc[p] = "abort"
    /\ slot' = Cancelled(at[p] + 1 .. at[p] + WindowChunks)
    /\ pc' = [pc EXCEPT ![p] = "reset"]
    /\ UNCHANGED <<session, cached, range, is_seek, at, body>>

\* A seek cancels every download outside its window.
Abort(p) ==
    /\ pc[p] = "abort"
    /\ slot' = Cancelled(at[p] .. (at[p] + WindowChunks) - 1)
    /\ pc' = [pc EXCEPT ![p] = "reset"]
    /\ UNCHANGED <<session, cached, range, is_seek, at, body>>

\* Mutant: the next requests may abort again at once.
Reset_StaysEnabled(p) ==
    /\ pc[p] = "reset"
    /\ seek' = [seek EXCEPT !.elapsed = FALSE, !.count = 0, !.hits = 0]
    /\ pc' = [pc EXCEPT ![p] = "record"]
    /\ UNCHANGED <<opened, playback_offset, bps, stats, store, range,
                   is_seek, at, body>>

\* ... and restarts the warmup of the seek detection, in a second critical
\* section.  last_offset stays.
Reset(p) ==
    /\ pc[p] = "reset"
    /\ seek' = [FreshSeek EXCEPT !.last = seek.last]
    /\ pc' = [pc EXCEPT ![p] = "record"]
    /\ UNCHANGED <<opened, playback_offset, bps, stats, store, range,
                   is_seek, at, body>>

\* Mutant: whole cached chunks are counted against a part of them requested.
Record_WholeChunks(p) ==
    /\ pc[p] = "record"
    /\ LET len(c) == ChunkLen(c, content_length) IN
         RecordRequest(LengthOf(p), MapThenSumSet(len, Promised(p) \cap cached))
    /\ pc' = [pc EXCEPT ![p] = "urgent"]
    /\ UNCHANGED <<opened, seek, playback_offset, bps, store, range,
                   is_seek, at, body>>

\* Cache hits are counted by whole chunks, up to the bytes requested.
Record(p) ==
    /\ pc[p] = "record"
    /\ LET len(c) == ChunkLen(c, content_length) IN
         RecordRequest(LengthOf(p),
                       Min({MapThenSumSet(len, Promised(p) \cap cached), LengthOf(p)}))
    /\ pc' = [pc EXCEPT ![p] = "urgent"]
    /\ UNCHANGED <<opened, seek, playback_offset, bps, store, range,
                   is_seek, at, body>>

\* An urgent download is started for one chunk after the other; then the
\* response headers go out and the stream task begins.
Urgent(p) ==
    /\ pc[p] = "urgent"
    /\ slot' = Started({at[p]})
    /\ IF at[p] < LastOf(p)
       THEN /\ at' = [at EXCEPT ![p] = @ + 1]
            /\ UNCHANGED pc
       ELSE /\ at' = [at EXCEPT ![p] = ChunkOf(range[p].start)]
            /\ pc' = [pc EXCEPT ![p] = "send"]
    /\ UNCHANGED <<session, cached, range, is_seek, body>>

-----------------------------------------------------------------------------
(* The stream task.                                                        *)

\* wait_for_chunk starts a missing download again and waits for its end.
Wait(p) ==
    /\ pc[p] = "send" /\ at[p] \notin cached
    /\ slot' = Started({at[p]})
    /\ pc' = [pc EXCEPT ![p] = "wait"]
    /\ UNCHANGED <<session, cached, range, is_seek, at, body>>

\* Its early false answers (module Downloader, FalseMeansFailure), and the only
\* one to a wait that begins after shutdown with no download registered.
GiveUp(p) ==
    /\ pc[p] = "wait" /\ at[p] \notin cached
    /\ pc' = [pc EXCEPT ![p] = "gave_up"]
    /\ UNCHANGED <<session, store, range, is_seek, at, body>>

\* Mutant: a chunk that failed is skipped.
Recheck_Skips(p) ==
    /\ pc[p] \in {"woken_failed", "woken_aborted"}
    /\ at' = [at EXCEPT ![p] = IF @ \notin cached /\ @ < LastOf(p) THEN @ + 1
                               ELSE @]
    /\ pc' = [pc EXCEPT ![p] = IF at[p] \in cached \/ at[p] < LastOf(p) THEN "send"
                               ELSE "fetch_failed"]
    /\ UNCHANGED <<session, store, range, is_seek, body>>

\* The wait is over; the answer is whether the chunk is there now.
Recheck(p) ==
    /\ pc[p] \in {"woken_failed", "woken_aborted"}
    /\ pc' = [pc EXCEPT ![p] = IF at[p] \in cached THEN "send"
                               ELSE IF @ = "woken_failed" THEN "fetch_failed"
                               ELSE "aborted"]
    /\ UNCHANGED <<session, store, range, is_seek, at, body>>

\* The slice of the chunk goes to the player.
Send(p) ==
    /\ pc[p] = "send" /\ at[p] \in cached
    /\ LET s == Slice(at[p], range[p].start, range[p].end, content_length) IN
         body' = [body EXCEPT ![p] =
                    @ \o [k \in 1 .. Max({s.to - s.from, 0}) |-> s.from + k - 1]]
    /\ IF at[p] < LastOf(p)
       THEN /\ at' = [at EXCEPT ![p] = @ + 1]
            /\ UNCHANGED pc
       ELSE /\ pc' = [pc EXCEPT ![p] = "prefetch"]
            /\ UNCHANGED at
    /\ UNCHANGED <<session, store, range, is_seek>>

\* The player is gone: the send fails and the task returns.
HangUp(p) ==
    /\ pc[p] = "send" /\ at[p] \in cached
    /\ pc' = [pc EXCEPT ![p] = "hung_up"]
    /\ UNCHANGED <<session, store, range, is_seek, at, body>>

\* All sent: prefetch ahead, by a number of chunks or by the bitrate estimate.
PrefetchAhead(p, end) ==
    /\ pc[p] = "prefetch"
    /\ ~bps => end = Min({ChunkOf(range[p].end + (PrefetchChunks + 1) * ChunkSize - 1),
                          TotalChunks(content_length)})
    /\ slot' = Started(LastOf(p) + 1 .. end - 1)
    /\ pc' = [pc EXCEPT ![p] = "update"]
    /\ UNCHANGED <<session, cached, range, is_seek, at, body>>

\* The counters, the seek state and the bitrate estimate learn of the request.
Update(p) ==
    /\ pc[p] = "update"
    /\ RecordServed(Len(body[p]))
    /\ LET hits == IF is_seek[p] THEN 0 ELSE seek.hits + 1 IN
         seek' = MaybeEnable([seek EXCEPT !.count = seek.count + 1, !.hits = hits,
                                          !.last = range[p].start])
    /\ bps' = TRUE
    /\ pc' = [pc EXCEPT ![p] = "done"]
    /\ UNCHANGED <<opened, playback_offset, store, range, is_seek, at,
                   body>>

-----------------------------------------------------------------------------
(* Downloads and time.                                                     *)

\* The waiters of chunk c, woken by the end of its download.
Woken(c, how) == [p \in Requests |-> IF pc[p] = "wait" /\ at[p] = c
                                     THEN how ELSE pc[p]]

\* A cancelled download still ends well when the cancellation comes late.
DownloadOk(c) ==
    /\ slot[c] # "free"
    /\ cached' = cached \cup {c}
    /\ slot' = [slot EXCEPT ![c] = "free"]
    /\ pc' = Woken(c, "woken_failed")
    /\ UNCHANGED <<session, range, is_seek, at, body>>

DownloadFails(c) ==
    /\ slot[c] # "free"
    /\ slot' = [slot EXCEPT ![c] = "free"]
    /\ pc' = Woken(c, IF slot[c] = "cancelled" THEN "woken_aborted"
                      ELSE "woken_failed")
    /\ UNCHANGED <<session, cached, range, is_seek, at, body>>

\* SEEK_WARMUP_SECONDS pass; the next update sees it.
Elapse ==
    /\ ~seek.elapsed
    /\ seek' = [seek EXCEPT !.elapsed = TRUE]
    /\ UNCHANGED <<opened, playback_offset, bps, stats, store, pc, range,
                   is_seek, at, body>>

\* compute_warmup_ranges has the header of the file and the task starts the
\* downloads of its ranges, or the header could not be fetched.
Warm ==
    /\ warmup = "running" /\ warmup' = "over"
    /\ slot' \in {slot, Started(WarmupChunks(file))}
    /\ UNCHANGED <<file, shut, seek, playback_offset, bps, stats, cached, pc, range,
                   is_seek, at, body>>

\* The session is closed, replaced or disposed of: what runs is cancelled, by the
\* shutdown token or by its own.  Requests that have found the session before hold
\* it and go on; later ones do not reach it.
Shutdown ==
    /\ ~shut /\ shut' = TRUE
    /\ slot' = Cancelled({})
    /\ UNCHANGED <<file, warmup, seek, playback_offset, bps, stats, cached, pc, range,
                   is_seek, at, body>>

Arrived == {p \in Requests : pc[p] # "new"}

Request(p) ==
    \/ \E r \in Headers(Cardinality(Arrived) + 1, file) : Accept(p, r)
    \/ Abort(p) \/ Reset(p) \/ Record(p) \/ Urgent(p)
    \/ Wait(p) \/ GiveUp(p) \/ Recheck(p) \/ Send(p) \/ HangUp(p)
    \/ \E end \in 0 .. TotalChunks(content_length) : PrefetchAhead(p, end)
    \/ Update(p)

\* All requests that were made have ended.
Done ==
    /\ \A p \in Arrived : pc[p] \in Ended
    /\ UNCHANGED vars

Next ==
    \/ \E p \in Requests : Request(p)
    \/ \E c \in Chunks : DownloadOk(c)
    \/ \E c \in Chunks : DownloadFails(c)
    \/ Elapse
    \/ Warm
    \/ Shutdown
    \/ Done

Spec == Init /\ [][Next]_vars

-----------------------------------------------------------------------------
(* Properties.                                                             *)

\* Types: a request works on a chunk it promised.
TypeOK ==
    /\ file \in Files /\ warmup \in {"running", "over"} /\ shut \in BOOLEAN
    /\ seek \in [enabled : BOOLEAN, elapsed : BOOLEAN, count : Nat, hits : Nat,
                 last : 0 .. content_length - 1]
    /\ playback_offset \in 0 .. content_length - 1 /\ bps \in BOOLEAN
    /\ stats \in [requested : Nat, hit : Nat, served : Nat]
    /\ cached \in SUBSET Chunks
    /\ slot \in [Chunks -> {"free", "running", "cancelled"}]
    /\ pc \in [Requests -> PC]
    /\ is_seek \in [Requests -> BOOLEAN]
    /\ \A p \in Requests :
         /\ range[p].status \in {200, 206, 416}
         /\ pc[p] \notin {"new", "refused"} => at[p] \in Promised(p)
         /\ Promised(p) \subseteq Chunks

\* The body is the promised range from its first byte on, without a gap or a
\* repeat, whichever chunks arrive first; Content-Length bytes when the stream
\* ends well, fewer when it ends with an error (serve_range_stream).
BodyIsRange ==
    \A p \in Requests :
      /\ body[p] = [k \in 1 .. Len(body[p]) |-> range[p].start + k - 1]
      /\ pc[p] \in {"prefetch", "update", "done"} => Len(body[p]) = LengthOf(p)
      /\ pc[p] \in {"fetch_failed", "aborted", "gave_up"}
           => Len(body[p]) < LengthOf(p)

\* Overlapping requests never count more hits than bytes requested, nor more
\* bytes served than requested (record_request, record_served): the counters
\* behind cache_hit_rate.  What a snapshot taken meanwhile shows is left out.
StatsConsistent ==
    stats.hit <= stats.requested /\ stats.served <= stats.requested

\* Seek detection works only after enough undisturbed requests since the last
\* seek, though late streams update the state after a seek reset it (SeekState).
SeekNeedsStability ==
    seek.enabled => /\ seek.elapsed
                    /\ seek.count >= WarmupRequests

\* buffered_bytes_ahead at the playback position is the number of bytes the
\* player can read on without a gap.
BufferedExact ==
    LET end == playback_offset + BufferedAhead(cached, playback_offset, content_length)
        playable == {b \in 0 .. content_length - 1 : ChunkOf(b) \in cached}
    IN  playback_offset .. end - 1 \subseteq playable /\ end \notin playable

\* What handler.rs:97 says is supported: a range bytes=first-last or
\* bytes=first- that begins inside the file, and bytes=-len, are answered with
\* the first of the bytes asked for (stream_handler), and what HEAD names
\* instead begins there too and is inside the file (head_handler).  The answer
\* depends on header and file only: the first request shows it.
RangeSupported ==
    Arrived = {} => \A h \in {g \in Headers(1, file) : g.unit = "bytes"} :
      LET Answered(first, last) ==
            /\ Resolve(ParseRange(h), content_length) =
                 Partial(first, Min({last + 1, content_length}))
            /\ HeadRange(ParseRange(h), content_length).first = first
            /\ HeadRange(ParseRange(h), content_length).last \in
                 Min({last, content_length - 1}) .. content_length - 1
          starts == h.first \in 0 .. content_length - 1
      IN  /\ starts /\ h.last \in h.first .. Modulus - 1 => Answered(h.first, h.last)
          /\ starts /\ h.last = Blank => Answered(h.first, h.first + OpenEndedMax - 1)
          /\ h.first = Blank /\ h.last \in 1 .. Modulus - 1 =>
               Answered(Max({content_length - h.last, 0}), content_length - 1)

\* A stream of an open session breaks its Content-Length for a cancellation only
\* if another request was a seek, or its own range is wider than the window of its
\* seek (abort_outside_window); after shutdown any stream may be cut.
AbortedByOther ==
    \A p \in Requests :
      pc[p] = "aborted" =>
        \/ \E q \in Requests \ {p} : is_seek[q]
        \/ Cardinality(Promised(p)) > WindowChunks
        \/ shut

\* The warmup plan of every file, whatever its atoms claim, stays inside the
\* file (compute_warmup_ranges).  It depends on the file only.
RangesInside == Arrived = {} => PlanInside(file)

\* A moov whose header the probe shows is prefetched to its last chunk, however
\* far it reaches; so is one that lies in the tail, of declared size or not (the
\* index the player seeks to after the head).
IndexPrefetched == Arrived = {} => PlanHasIndex(file)

\* The downloads of the session are used the way DownloadSlots allows, which module
\* Downloader implements: overlapping requests and the warmup task start a download
\* in a free slot only, and nothing but the end of a download frees one.
Slots == INSTANCE DownloadSlots

UsesSlots == Slots!Spec

\* What container.rs:93 says ("Atom extends to end of file") and warmup.rs:24
\* plans ("prefetch from start through end of moov"), for a moov whose size is
\* left to the end of the file.
ToEndPrefetched == PlanHasOpenIndex(file)

\* What session.rs:65 says of a seek ("large jump"): a request that goes on
\* where the last one ended is none.
ContinuationIsNoSeek ==
    [][\A p, q \in Requests :
         pc[p] = "new" /\ is_seek'[p] /\ pc[q] = "done" /\ range[q].start = seek.last
           => range'[p].start # range[q].end]_vars

\* What session.rs:239 says a seek does ("Keep a window of chunks around the
\* seek target"): it cancels no download of a chunk it is about to serve.
SeekKeepsOwnChunks ==
    [][\A p \in Requests :
         pc[p] = "abort" /\ pc'[p] = "reset" =>
           \A c \in Promised(p) : slot'[c] = slot[c]]_vars

\* What handler.rs:185 wants of a bounded response (no cancellation for a seek
\* breaks its Content-Length): an urgent request finds no cancelled download in
\* its way, as long as the session is open.
EarlierSeekHarmless ==
    [][\A p \in Requests :
         /\ pc[p] = "urgent" /\ at[p] \notin cached /\ ~shut
         /\ pc'[p] # pc[p] \/ at'[p] # at[p]
         => slot'[at[p]] = "running"]_vars

=============================================================================
