------------------------- MODULE MCBudgetAdmission -------------------------
(***************************************************************************)
(* Two clients, two steps that may each be executed twice, and a budget of *)
(* two dimensions in which not everything fits: one dimension has a limit, *)
(* the other may have none.                                                *)
(***************************************************************************)
EXTENDS BudgetAdmission, TLC

CONSTANTS c1, c2, s1, s2
Symmetry == Permutations(Clients) \cup Permutations(Steps)

TwoDimensions == {"tokens", "cost"}
Known(quality, amount) == [quality |-> quality, amount |-> amount]
Amount(tokens, cost) == [d \in TwoDimensions |-> IF d = "tokens" THEN tokens ELSE cost]

LimitedTokens == Amount([limited |-> TRUE, amount |-> 3], NoLimit)
LimitedBoth   == Amount([limited |-> TRUE, amount |-> 3], [limited |-> TRUE, amount |-> 2])

TwoLimits    == {LimitedTokens, LimitedBoth}
OneEstimate  == {Amount(Known(1, 2), Unknown)}
TwoMeasures  == {Amount(Known(1, 1), Unknown), Amount(Unknown, Known(2, 1))}
(* The result goes with the measurement: what it is does not matter to    *)
(* the ledger, what was measured does not matter to the session.          *)
TwoReceipts  == {[measured |-> Amount(Known(1, 1), Unknown), result |-> "completed"],
                 [measured |-> Amount(Unknown, Known(2, 1)), result |-> "failed"]}
TwoByTwo == {s1, s2} \X (1..2)
=============================================================================
