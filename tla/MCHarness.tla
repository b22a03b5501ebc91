----------------------------- MODULE MCHarness -----------------------------
(* Small instances of Harness: the bounds are given in the configurations. *)
EXTENDS Harness, TLC
=============================================================================
