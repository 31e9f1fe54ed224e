-------------------------- MODULE SessionCommands --------------------------
(***************************************************************************)
(* The commands a session takes, as its stream sees them: what a decision  *)
(* depends on and the facts it produces.                                   *)
(*                                                                         *)
(* A decision is a function of the folded session, and the fold a function *)
(* of the events folded.  A session is therefore represented by the        *)
(* sequence of the ids of its events, which tells apart whatever any fold  *)
(* can tell apart.  What one command needs the session to hold, and what   *)
(* it must not hold yet, stands for its decision: a claim needs the        *)
(* session open and is blocked by another claim of the same key, two moves *)
(* out of one state block each other.                                      *)
(***************************************************************************)
EXTENDS Naturals, Sequences

CONSTANTS
    Commands,    \* the commands callers issue
    Opening,     \* the one that opens the stream
    EventIds,    \* the ids facts may have
    Facts,       \* [Commands -> Seq(EventIds)], the facts of its decision
    Needs,       \* [Commands -> what the session must hold]
    Blocks       \* [Commands -> what it must not hold]

(* An event's id is derived from what the event is about, so that the     *)
(* same decision made twice produces the same ids; within one decision    *)
(* they differ.                                                           *)
ASSUME CommandAssumption ==
    /\ Opening \in Commands
    /\ Facts \in [Commands -> Seq(EventIds)]
    /\ \A c \in Commands : Facts[c] # <<>>
    /\ Needs \in [Commands -> SUBSET EventIds]
    /\ Blocks \in [Commands -> SUBSET EventIds]
    /\ \A c \in Commands : \A i, j \in DOMAIN Facts[c] :
          Facts[c][i] = Facts[c][j] => i = j

(* The events a session holds.                                            *)
Held(s) == { s[i] : i \in DOMAIN s }

(* The decision accepts the command against the session.                  *)
Admits(c, s) ==
    /\ Needs[c] \subseteq Held(s)
    /\ Blocks[c] \cap Held(s) = {}

(* The ids of the facts are new to the stream.                            *)
AreNew(c, s) == Held(Facts[c]) \cap Held(s) = {}
=============================================================================
