--------------------------- MODULE MCEventStream ---------------------------
(* Small instance of EventStream: the bounds are given in the configuration. *)
EXTENDS EventStream, TLC
=============================================================================
