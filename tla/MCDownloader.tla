---------------------------- MODULE MCDownloader ----------------------------
(***************************************************************************)
(* Model checking of Downloader.  The task names are interchangeable, and  *)
(* so are the callers: no action and no property tells two of them apart.  *)
(***************************************************************************)
EXTENDS Downloader, TLC

\* Variables that nothing reads any more: of a call that is over all but the answer
\* "true", which promises data; of a task the attempt once it has fetched, the lane
\* once it has given its permit back.
CallSeen(p) == IF cpc[p] = "idle" /\ answer[p] # "true"
               THEN "over" ELSE <<op[p], cur[p], upto[p], answer[p]>>
AttemptSeen(t) == IF tpc[t] \in {"attempt", "fetching", "backoff"} THEN attempt[t] ELSE 0
LaneSeen(t) == IF tpc[t] \in {"notify", "clear_token", "clear_notifier"}
               THEN "background" ELSE tlane[t]

\* States that differ only in those have the same future.
Seen == <<registry, shutting, cache, slots, tpc, tchunk, cancelled, cpc, handle,
          [t \in Tasks |-> <<AttemptSeen(t), LaneSeen(t)>>],
          [p \in Callers |-> CallSeen(p)]>>

Symmetry == Permutations(Tasks) \cup Permutations(Callers)

=============================================================================
