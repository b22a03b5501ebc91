------------------------------- MODULE MCTTS -------------------------------
(* Small instances of TTS: the bounds are given in the configurations.     *)
EXTENDS TTS, TLC
=============================================================================
