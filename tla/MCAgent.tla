------------------------------ MODULE MCAgent ------------------------------
(* Small instances of Agent: the bounds are given in the configurations.   *)
EXTENDS Agent, TLC
=============================================================================
