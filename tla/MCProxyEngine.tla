--------------------------- MODULE MCProxyEngine ---------------------------
(* Model values of ProxyEngine for TLC.                                    *)
EXTENDS ProxyEngine, TLC

\* Ids and streams are interchangeable; sessions too: TLC may pick any unborn
\* one.
Symmetric == Permutations(Ids) \cup Permutations(Sessions) \cup Permutations(Streams)

=============================================================================
