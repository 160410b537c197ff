--------------------------- MODULE MCHttpSource ---------------------------
(* Model values of HttpSource for TLC.                                     *)
EXTENDS HttpSource, TLC

=============================================================================
