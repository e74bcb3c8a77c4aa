--------------------------- MODULE MCLiveSession ---------------------------
(* LiveSession with ticks of twenty seconds for TLC.                       *)
EXTENDS LiveSession
=============================================================================
