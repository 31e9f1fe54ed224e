-------------------------- MODULE MCSessionStream --------------------------
(***************************************************************************)
(* Small instance of the session stream: an opening with two facts (what   *)
(* was started and what was recalled), a completion that moves a state     *)
(* iteration on (two facts), and two moves out of the same state, which    *)
(* block each other and the completion.  The reason is a command whose     *)
(* decision does not look for its own fact, so that issuing it twice is    *)
(* refused by the store.                                                   *)
(***************************************************************************)
EXTENDS SessionStream, TLC

CONSTANTS w1, w2, open, complete, moveA, moveB, reason

MCCommands == {open, complete, moveA, moveB, reason}
MCFacts == (open     :> <<"started", "recalled">>)
        @@ (complete :> <<"step_completed", "iteration_started">>)
        @@ (moveA    :> <<"moved_a">>)
        @@ (moveB    :> <<"moved_b">>)
        @@ (reason   :> <<"reason">>)
MCEventIds == UNION { Held(MCFacts[c]) : c \in MCCommands }
MCNeeds == [c \in MCCommands |-> IF c = open THEN {} ELSE {"started"}]
MCBlocks == [c \in MCCommands |->
              CASE c = complete         -> {"step_completed", "moved_a", "moved_b"}
                [] c \in {moveA, moveB} -> {"moved_a", "moved_b"}
                [] OTHER                -> {}]

(* Moves fail fast, everything else is retried; an opening never is.      *)
MCAttempts == [c \in MCCommands |-> IF c \in {moveA, moveB} THEN 1 ELSE 2]

WriterSymmetry == Permutations(Writers)
=============================================================================
