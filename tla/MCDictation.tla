---------------------------- MODULE MCDictation ----------------------------
(* Small instances of Dictation: the bounds are given in the configurations. *)
EXTENDS Dictation, TLC
=============================================================================
