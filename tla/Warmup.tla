------------------------------ MODULE Warmup ------------------------------
(***************************************************************************)
(* What a new session prefetches before the player asks: the head and tail *)
(* chunks (ProxySession::new in rust/src/engine/session.rs), then the      *)
(* ranges of compute_warmup_ranges (rust/src/engine/warmup.rs), which look *)
(* for the index of an MP4 file, its moov atom                             *)
(* (rust/src/detect/container.rs).                                         *)
(*                                                                         *)
(* A file is its length, its container format and, for MP4, the atom       *)
(* headers a scan from its start meets: their type, the form in which the  *)
(* size is written (in 32 bits, in 64 bits, or as 0, "to the end of the    *)
(* file") and the size they claim, which need not be true.  Lengths are    *)
(* counted in atom headers (8 bytes): a header takes one, with a 64-bit    *)
(* size two.                                                               *)
(***************************************************************************)
EXTENDS ByteRanges, Sequences

CONSTANTS
    ProbeMax,       \* the header probe (32 KB in the code)
    TailChunks      \* chunks taken for the tail (4 in the code)

ASSUME WarmupAssumption == ProbeMax \in Nat \ {0} /\ TailChunks \in Nat \ {0}

-----------------------------------------------------------------------------
(* find_moov_box.                                                          *)

OffsetOf(f, i) == MapThenSumSet(LAMBDA j : f.atoms[j].size, 1 .. i - 1)

Probe(f) == Min({ChunkSize, ProbeMax, f.len})

\* The function sees the probed header only: an atom said to extend to the end
\* of the file extends to the end of the probe.
SizeOf(f, i) == IF f.atoms[i].form = "to_end" THEN Probe(f) - OffsetOf(f, i)
                ELSE f.atoms[i].size

HeaderLen(f, i) == IF f.atoms[i].form = "long" THEN 2 ELSE 1

\* The header of the i-th atom is in the probe, both words of a long one.
Readable(f, i) == OffsetOf(f, i) + HeaderLen(f, i) <= Probe(f)

\* The scan goes on past atom i.
Passed(f, i) == /\ Readable(f, i)
                /\ f.atoms[i].type # "moov"
                /\ SizeOf(f, i) # 0

\* The atoms find_moov_box returns: the first moov it can read, or none.
Moov(f) == {i \in DOMAIN f.atoms :
              /\ \A j \in 1 .. i - 1 : Passed(f, j)
              /\ Readable(f, i) /\ f.atoms[i].type = "moov"}

-----------------------------------------------------------------------------
(* compute_warmup_ranges: a set of inclusive ranges.                       *)

HeadOnly(f) == {<<0, Min({ChunkSize, f.len}) - 1>>}

HeadTailRanges(f) ==
    HeadOnly(f) \cup IF f.len > TailChunks * ChunkSize
                     THEN {<<f.len - TailChunks * ChunkSize, f.len - 1>>} ELSE {}

\* Mutant: the end of the moov is not limited to the file.
WarmupRanges_Unclamped(f) ==
    CASE f.format = "mp4" /\ Moov(f) # {} ->
           {<<0, Max({OffsetOf(f, i) + SizeOf(f, i), ChunkSize}) - 1>> : i \in Moov(f)}
      [] f.format = "sequential" -> HeadOnly(f)
      [] OTHER -> HeadTailRanges(f)

\* Through the end of the moov when it was found, the head alone for Matroska
\* and transport streams, head and tail otherwise.
WarmupRanges(f) ==
    CASE f.format = "mp4" /\ Moov(f) # {} ->
           {<<0, Min({Max({OffsetOf(f, i) + SizeOf(f, i), ChunkSize}), f.len}) - 1>> :
              i \in Moov(f)}
      [] f.format = "sequential" -> HeadOnly(f)
      [] OTHER -> HeadTailRanges(f)

-----------------------------------------------------------------------------
(* ProxySession::new and its warmup task.                                  *)

\* Head chunk and tail chunks, prefetched by the constructor.
HeadAndTail(len) ==
    {0} \cup Max({TotalChunks(len) - TailChunks, 0}) .. TotalChunks(len) - 1

\* Mutant: the chunk with the last byte of a range is left out.
WarmupChunks_Exclusive(f) ==
    UNION {ChunkOf(r[1]) .. Min({ChunkOf(r[2]), TotalChunks(f.len)}) - 1 :
             r \in WarmupRanges(f)}

\* The chunks of those ranges, as the task converts them.
WarmupChunks(f) ==
    UNION {ChunkOf(r[1]) .. Min({ChunkOf(r[2]) + 1, TotalChunks(f.len)}) - 1 :
             r \in WarmupRanges(f)}

-----------------------------------------------------------------------------
(* Properties of a file and its plan.                                      *)

\* A range never asks for a byte beyond the file, whatever sizes the atoms
\* claim (compute_warmup_ranges).
PlanInside(f) ==
    \A r \in WarmupRanges(f) : 0 <= r[1] /\ r[1] <= r[2] /\ r[2] < f.len

AtomChunks(f, i) == ChunksOf(OffsetOf(f, i), OffsetOf(f, i) + f.atoms[i].size)

\* The claims are true: the last atom ends with the file.
WellFormed(f) == /\ f.format = "mp4" /\ OffsetOf(f, Len(f.atoms) + 1) = f.len
                 /\ \A i \in DOMAIN f.atoms : f.atoms[i].size >= HeaderLen(f, i)

\* A moov that the probe shows with its size, or that lies in the tail, is in
\* the chunks prefetched, to its last byte.
PlanHasIndex(f) ==
    WellFormed(f) =>
      \A i \in DOMAIN f.atoms :
        /\ f.atoms[i].type = "moov"
        /\ \A j \in 1 .. i - 1 : f.atoms[j].type # "moov"
        /\ \/ Readable(f, i) /\ f.atoms[i].form # "to_end"
           \/ OffsetOf(f, i) >= f.len - TailChunks * ChunkSize
        => AtomChunks(f, i) \subseteq HeadAndTail(f.len) \cup WarmupChunks(f)

\* The same for a moov whose size is left to the end of the file.
PlanHasOpenIndex(f) ==
    WellFormed(f) =>
      \A i \in Moov(f) : AtomChunks(f, i) \subseteq HeadAndTail(f.len) \cup WarmupChunks(f)

=============================================================================
