--------------------------- MODULE MCHintedHandoff ---------------------------
(* Instantiates HintedHandoff for TLC; the constants are given in the      *)
(* configuration files.                                                     *)
EXTENDS HintedHandoff
=============================================================================
