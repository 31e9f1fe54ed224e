------------------------- MODULE MCSuccessionStart -------------------------
(***************************************************************************)
(* Two calls that may hand one ceremony over, under the same name or under *)
(* two, and a predecessor with two claims.                                 *)
(***************************************************************************)
EXTENDS SuccessionStart
============================================================================
