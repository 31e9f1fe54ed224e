--------------------------- MODULE MCEventCursor ---------------------------
(***************************************************************************)
(* Two publishers and one cursor.  Ids: the one a publisher asks for is   *)
(* new when it differs from the other's and from the stored one.          *)
(***************************************************************************)
EXTENDS EventCursor, TLC

CONSTANTS w1, w2
=============================================================================
