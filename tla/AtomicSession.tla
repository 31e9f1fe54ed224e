--------------------------- MODULE AtomicSession ---------------------------
(***************************************************************************)
(* What a session stream promises its callers: commands take effect one    *)
(* after the other, each decided against everything that was sealed before *)
(* it, all of its facts at once, and no fact ever changes or disappears.   *)
(***************************************************************************)
EXTENDS SessionCommands

VARIABLE journal    \* the ids of the facts sealed, in order

Init == journal = <<>>

Open ==
    /\ journal = <<>>
    /\ journal' = Facts[Opening]

Execute(c) ==
    /\ journal # <<>>
    /\ Admits(c, journal)
    /\ AreNew(c, journal)
    /\ journal' = journal \o Facts[c]

Next == Open \/ \E c \in Commands \ {Opening} : Execute(c)

Spec == Init /\ [][Next]_journal
=============================================================================
