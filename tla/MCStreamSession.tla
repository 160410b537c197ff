-------------------------- MODULE MCStreamSession --------------------------
(* Model values of StreamSession for TLC.                                  *)
EXTENDS StreamSession, TLC

\* Files.  Of the formats without atoms one that plans head and tail; MP4 files
\* begin with their ftyp atom, and only the last atom reaches the end.
Plain(lengths) == [len : lengths, format : {"unknown"}, atoms : {<<>>}]

Atoms == [type : {"moov", "other"}, form : {"short"}, size : {1, 2, 10, 13}]
           \cup [type : {"moov", "other"}, form : {"to_end"}, size : {2, 12}]
           \cup [type : {"moov", "other"}, form : {"long"}, size : {0, 2, 10}]
Ftyp == [type |-> "other", form |-> "short", size |-> 1]

Mp4(lengths) ==
    {f \in [len : lengths, format : {"mp4"},
            atoms : {<<Ftyp>> \o s : s \in [1 .. 1 -> Atoms] \cup [1 .. 2 -> Atoms]}] :
       \A i \in 1 .. Len(f.atoms) - 1 : f.atoms[i].form # "to_end"}

ShortFiles == Plain({1, 4, 5, 8, 9}) \cup Mp4({13})
              \cup [len : {5}, format : {"sequential"}, atoms : {<<>>}]
LongFile == Plain({13})

\* Headers.  Every header with numbers up to top.
AllHeaders(top) == [unit : {"bytes"}, first : Text .. top, last : Text .. top]
                     \cup [unit : {"other"}, first : {0}, last : {Blank}]
From(first) == [unit |-> "bytes", first |-> first, last |-> Blank]

\* A player starts, with or without a range, once or twice; it reads an index
\* at the end, and goes on.
Startup == [unit |-> "other", first |-> 0, last |-> Blank]
Index == [unit |-> "bytes", first |-> 8, last |-> 8]
PlayerHeaders(n) == {From(5)} \cup {h \in {Startup} : n <= 2}
                              \cup {h \in {Index} : n = 2}

\* All requests of a player to a file of nine bytes; one request with any
\* header to another plain file; none to the others, where the warmup is what
\* counts.  The last number a u64 holds is left out: RangeSupported is about it.
PlayerOrProbe(n, f) ==
    CASE f = [len |-> 9, format |-> "unknown", atoms |-> <<>>] -> PlayerHeaders(n)
      [] f.format = "unknown" /\ f.len # 9 /\ n = 1 ->
           AllHeaders(Modulus) \ [unit : {"bytes"}, first : Int, last : {Modulus - 1}]
      [] OTHER -> {}

\* The same with that number.
ProbeToMax(n, f) == IF n = 1 THEN AllHeaders(Modulus) ELSE {}

\* A player that reads with open-ended requests only.
OpenEnded(n, f) == {From(0), From(8)}

Symmetric == Permutations(Requests)

=============================================================================
