------------------------ MODULE MCExecutionReceipts ------------------------
(***************************************************************************)
(* Two workers and two claims of one step, with each kind of connector.  A *)
(* host may answer the first claim by itself.                              *)
(***************************************************************************)
EXTENDS ExecutionReceipts, TLC

CONSTANTS w1, w2

MCHostAnswers == {[fence |-> 1, result |-> "failed"]}
=============================================================================
