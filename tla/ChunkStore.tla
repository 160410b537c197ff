----------------------------- MODULE ChunkStore -----------------------------
(***************************************************************************)
(* What a session's downloader promises to the code that uses it, without  *)
(* tokens, tasks, semaphores or threads: a chunk is claimed by at most one *)
(* download, at most Capacity of the claimed chunks are being fetched, only *)
(* a chunk being fetched is stored, and a stored chunk stays stored.       *)
(***************************************************************************)
EXTENDS Integers, FiniteSets

CONSTANTS TotalChunks, Capacity

VARIABLES claimed,      \* chunks with a registered download
          fetching,     \* claimed chunks that hold a connection
          stored        \* chunks in the cache

storeVars == <<claimed, fetching, stored>>

File == 0 .. TotalChunks - 1

Init == claimed = {} /\ fetching = {} /\ stored = {}

\* start_download of a chunk nobody downloads.
ClaimChunk(c) ==
    /\ c \notin claimed
    /\ claimed' = claimed \cup {c}
    /\ UNCHANGED <<fetching, stored>>

\* The download gets a connection.
StartFetch(c) ==
    /\ c \in claimed \ fetching
    /\ Cardinality(fetching) < Capacity
    /\ fetching' = fetching \cup {c}
    /\ UNCHANGED <<claimed, stored>>

\* put_chunk.
StoreChunk(c) ==
    /\ c \in fetching
    /\ stored' = stored \cup {c}
    /\ UNCHANGED <<claimed, fetching>>

\* The download returns its connection, with or without the data.
StopFetch(c) ==
    /\ c \in fetching
    /\ fetching' = fetching \ {c}
    /\ UNCHANGED <<claimed, stored>>

\* The cleanup: the chunk can be claimed again.
FreeChunk(c) ==
    /\ c \in claimed \ fetching
    /\ claimed' = claimed \ {c}
    /\ UNCHANGED <<fetching, stored>>

Next == \E c \in File :
            \/ ClaimChunk(c) \/ StartFetch(c) \/ StoreChunk(c)
            \/ StopFetch(c) \/ FreeChunk(c)

Spec == Init /\ [][Next]_storeVars

=============================================================================
