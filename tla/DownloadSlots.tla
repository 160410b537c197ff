---------------------------- MODULE DownloadSlots ----------------------------
(***************************************************************************)
(* The downloads of a session as its requests see them: a chunk has one    *)
(* slot, which is free, running, or cancelled and still registered, and is *)
(* cached or not.  Module Downloader implements this one step by step;     *)
(* module StreamSession takes it for its downloader, with several chunks   *)
(* started in one step and a download that ends in one.  The chunks are    *)
(* the domain of slot.                                                     *)
(***************************************************************************)
EXTENDS Integers

VARIABLES
    slot,               \* chunk -> its download
    cached              \* chunks with their bit set

slotVars == <<slot, cached>>

Chunks == DOMAIN slot
Free == {c \in Chunks : slot[c] = "free"}

Init == slot \in [Chunks -> {"free", "running"}] /\ cached = {}

\* start_download of chunks that nobody downloads.
Start(C) ==
    /\ slot' = [c \in Chunks |-> IF c \in C THEN "running" ELSE slot[c]]
    /\ UNCHANGED cached

\* A seek cancels what runs outside of a window of consecutive chunks, shutdown
\* all that runs.
Cancel(window) ==
    /\ \A a, b \in window : a .. b \subseteq window
    /\ slot' = [c \in Chunks |-> IF slot[c] = "running" /\ c \notin window
                                 THEN "cancelled" ELSE slot[c]]
    /\ UNCHANGED cached

\* put_chunk, by the chunk's download, cancelled or not.
Store(c) ==
    /\ cached' = cached \cup {c}
    /\ UNCHANGED slot

\* The download ends; it may store the chunk by the way.
End(c) ==
    /\ slot' = [slot EXCEPT ![c] = "free"]
    /\ cached' \in {cached, cached \cup {c}}

Next ==
    \/ \E C \in SUBSET Free : Start(C)
    \/ \E window \in SUBSET Chunks : Cancel(window)
    \/ \E c \in Chunks \ Free : Store(c) \/ End(c)

Spec == Init /\ [][Next]_slotVars

=============================================================================
