---------------------------- MODULE ByteRanges ----------------------------
(***************************************************************************)
(* The arithmetic on bytes and chunks of the proxy: chunk sizes            *)
(* (rust/src/engine/cache.rs), the pieces of a stream                      *)
(* (rust/src/engine/session.rs) and the answer to a Range header           *)
(* (rust/src/server/handler.rs).  len is the content_length of the file.   *)
(* Ends are exclusive, except in a Range header and in Content-Range.      *)
(***************************************************************************)
EXTENDS Integers, FiniteSetsExt

CONSTANTS
    ChunkSize,      \* chunk_size (2 MB in the code)
    OpenEndedMax,   \* MAX_OPEN_ENDED_RESPONSE_BYTES
    StartupClamp,   \* STARTUP_PROBE_CLAMP_BYTES
    Modulus         \* 2^64: numbers in a header are u64

ASSUME SizesAssumption ==
    /\ ChunkSize \in Nat \ {0} /\ OpenEndedMax \in Nat \ {0}
    /\ StartupClamp \in Nat \ {0} /\ Modulus \in Nat \ {0}

-----------------------------------------------------------------------------
TotalChunks(len) == (len + ChunkSize - 1) \div ChunkSize

ChunkLen(i, len) ==
    IF i + 1 < TotalChunks(len) \/ len % ChunkSize = 0
    THEN ChunkSize ELSE len % ChunkSize

ChunkOf(byte) == byte \div ChunkSize

\* The chunks of [start, end).
ChunksOf(start, end) == ChunkOf(start) .. ChunkOf(end - 1)

\* Mutant: a slice that starts at its chunk.
Slice_WholeChunk(i, start, end, len) ==
    [from |-> i * ChunkSize,
     to |-> Min({i * ChunkSize + ChunkLen(i, len), end})]

\* The part of chunk i that falls within [start, end).
Slice(i, start, end, len) ==
    [from |-> Max({start, i * ChunkSize}),
     to |-> Min({i * ChunkSize + ChunkLen(i, len), end})]

\* Mutant: the bytes of the first chunk that were already played count too.
BufferedAhead_WholeChunks(cached, byte, len) ==
    LET first == ChunkOf(byte)
        run == {i \in first .. TotalChunks(len) - 1 : first .. i \subseteq cached}
    IN  MapThenSumSet(LAMBDA i : ChunkLen(i, len), run)

\* buffered_bytes_ahead: the contiguous cached bytes from a playback offset on.
BufferedAhead(cached, byte, len) ==
    LET first == ChunkOf(byte)
        run == {i \in first .. TotalChunks(len) - 1 : first .. i \subseteq cached}
    IN  IF byte >= len \/ first \notin cached
        THEN 0
        ELSE Min({(first + 1) * ChunkSize, len}) - byte
               + MapThenSumSet(LAMBDA i : ChunkLen(i, len), run \ {first})

-----------------------------------------------------------------------------
(* Range headers.  A header is its three parts: the unit ("bytes", or       *)
(* anything else that parse_range_header does not read), and what stands   *)
(* before and after the dash: a number, nothing, or text.  Of several      *)
(* ranges all but the first dash belong to the second part: text.          *)

Blank == -1
Text == -2

\* A number as u64::parse reads it: one that is too large is an error.
Fits(part) == part \in 0 .. Modulus - 1

NoRange == [kind |-> "none"]

\* parse_range_header; what it cannot read counts as no header at all.
ParseRange(h) ==
    CASE h.unit = "bytes" /\ Fits(h.first) /\ Fits(h.last) ->
           [kind |-> "from_to", first |-> h.first, last |-> h.last]
      [] h.unit = "bytes" /\ Fits(h.first) /\ h.last = Blank ->
           [kind |-> "from", first |-> h.first]
      [] h.unit = "bytes" /\ h.first = Blank /\ Fits(h.last) /\ h.last # 0 ->
           [kind |-> "suffix", len |-> h.last]
      [] OTHER -> NoRange

-----------------------------------------------------------------------------
(* The answers.  A release build wraps `end + 1`; a debug build panics.    *)

Refused == [status |-> 416, start |-> 0, end |-> 0]
Partial(start, end) == [status |-> 206, start |-> start, end |-> end]

\* Mutant: an inclusive end taken for an exclusive one.
EndOf_Exclusive(r, len) == Min({r.last, len})

\* The exclusive end of bytes=first-last.
EndOf(r, len) == Min({(r.last + 1) % Modulus, len})

\* What a GET answers: status, and the [start, end) it promises.
Resolve(r, len) ==
    CASE r.kind = "from_to" ->
           IF r.first >= len \/ EndOf(r, len) <= r.first
           THEN Refused ELSE Partial(r.first, EndOf(r, len))
      [] r.kind = "from" ->
           IF r.first >= len
           THEN Refused ELSE Partial(r.first, Min({r.first + OpenEndedMax, len}))
      [] r.kind = "suffix" -> Partial(Max({len - r.len, 0}), len)
      [] OTHER ->
           LET end == Min({StartupClamp, len}) IN
             [status |-> IF end < len THEN 206 ELSE 200, start |-> 0, end |-> end]

\* Mutant: an exclusive end taken for the last byte.
HeadRange_Exclusive(r, len) ==
    CASE r.kind = "from_to" -> [first |-> r.first, last |-> EndOf(r, len)]
      [] r.kind = "from" -> [first |-> r.first, last |-> len - 1]
      [] r.kind = "suffix" -> [first |-> Max({len - r.len, 0}), last |-> len - 1]

\* The first and last byte that HEAD's Content-Range names.
HeadRange(r, len) ==
    CASE r.kind = "from_to" -> [first |-> r.first, last |-> EndOf(r, len) - 1]
      [] r.kind = "from" -> [first |-> r.first, last |-> len - 1]
      [] r.kind = "suffix" -> [first |-> Max({len - r.len, 0}), last |-> len - 1]

=============================================================================
