--------------------------- MODULE SessionStream ---------------------------
(***************************************************************************)
(* A ceremony session as the fold of its event stream.  Several writers    *)
(* load the fold, decide against it, and append what they decided          *)
(* expecting the stream where they loaded it; a stream that moved refuses  *)
(* the append, and the decision is made again against a fresh load while   *)
(* the command's conflict policy allows.                                   *)
(*                                                                         *)
(* Loading is not atomic: the latest snapshot, then the head, then page    *)
(* after page up to that head, while others append.  A writer may fail or  *)
(* crash at any await; after its append landed, that leaves facts whose    *)
(* snapshot was never written and whose caller never had an answer.        *)
(***************************************************************************)
EXTENDS SessionCommands, FiniteSets

CONSTANTS
    Writers,     \* the tasks that execute commands
    Attempts,    \* [Commands -> what the conflict policy allows]
    PageLimit    \* the records one read returns at most

ASSUME WriterAssumption ==
    /\ Attempts \in [Commands -> Nat \ {0}]
    /\ PageLimit \in Nat \ {0}

VARIABLES
    stream,      \* the records of the stream, each with its id and its cause
    snapshots,   \* the snapshots kept, by version
    session      \* [Writers -> the command in hand and the session loaded]

vars == <<stream, snapshots, session>>

Ids(records) == [k \in DOMAIN records |-> records[k].id]

Records   == [id : EventIds, cause : SUBSET EventIds]
Snapshots == [version : Nat, instance : Seq(EventIds)]
Phases    == {"idle", "load", "head", "read", "commit", "save"}
Sessions  == [phase : Phases, cmd : Commands, left : Nat,
              instance : Seq(EventIds), version : Nat, from : Nat,
              through : Nat, head : SUBSET EventIds]

Idle == [phase |-> "idle", cmd |-> Opening, left |-> 0, instance |-> <<>>,
         version |-> 0, from |-> 0, through |-> 0, head |-> {}]

TypeOK ==
    /\ stream \in Seq(Records)
    /\ snapshots \subseteq Snapshots
    /\ session \in [Writers -> Sessions]

Init ==
    /\ stream = <<>>
    /\ snapshots = {}
    /\ session = [w \in Writers |-> Idle]

Becomes(w, value) == session' = [session EXCEPT ![w] = value]

-----------------------------------------------------------------------------
(* A caller issues a command.  Opening needs no session: it is decided    *)
(* against nothing and appended to the empty stream, once.                *)
Invoke(w, c) ==
    /\ session[w].phase = "idle"
    /\ c # Opening
    /\ Becomes(w, [Idle EXCEPT !.phase = "load", !.cmd = c, !.left = Attempts[c]])
    /\ UNCHANGED <<stream, snapshots>>

InvokeOpen(w) ==
    /\ session[w].phase = "idle"
    /\ Becomes(w, [Idle EXCEPT !.phase = "commit", !.left = 1])
    /\ UNCHANGED <<stream, snapshots>>

-----------------------------------------------------------------------------
(* Loading: the latest snapshot, if there is one.                         *)
Latest == { s \in snapshots : \A t \in snapshots : t.version <= s.version }

ReadSnapshot(w) ==
    /\ session[w].phase = "load"
    /\ \/ /\ snapshots = {}
          /\ Becomes(w, [session[w] EXCEPT !.phase = "head", !.instance = <<>>,
                                           !.version = 0, !.head = {}])
       \/ \E s \in Latest :
             Becomes(w, [session[w] EXCEPT !.phase = "head", !.instance = s.instance,
                                           !.version = s.version, !.head = {}])
    /\ UNCHANGED <<stream, snapshots>>

(* Mutated form: the read starts after the snapshot.                      *)
ReadFromAfterSnapshot(version) == version

(* The read starts one record early, to learn the id of the record that   *)
(* was the head when the snapshot was taken.                              *)
ReadFrom(version) == IF version = 0 THEN 0 ELSE version - 1

CaptureHead(w) ==
    /\ session[w].phase = "head"
    /\ IF stream = <<>>
         THEN Becomes(w, Idle)
         ELSE LET from == ReadFrom(session[w].version) IN
              Becomes(w, [session[w] EXCEPT
                  !.phase = IF from < Len(stream) THEN "read" ELSE "commit",
                  !.from = from, !.through = Len(stream)])
    /\ UNCHANGED <<stream, snapshots>>

(* Mutated form: every record read is folded, the snapshot's head too.    *)
FoldPageWhole(s, end) ==
    [s EXCEPT !.instance = @ \o SubSeq(Ids(stream), s.from + 1, end),
              !.version = end, !.head = {stream[end].id}]

(* The records read, up to `end', folded unless the snapshot holds them.  *)
FoldPage(s, end) ==
    IF end <= s.version
      THEN [s EXCEPT !.head = {stream[end].id}]
      ELSE [s EXCEPT !.instance = @ \o
                        SubSeq(Ids(stream),
                               (IF s.from < s.version THEN s.version ELSE s.from) + 1,
                               end),
                     !.version = end, !.head = {stream[end].id}]

PageEnd(s) ==
    IF s.through - s.from < PageLimit THEN s.through ELSE s.from + PageLimit

ReadPage(w) ==
    LET end == PageEnd(session[w]) IN
    /\ session[w].phase = "read"
    /\ Becomes(w, [FoldPage(session[w], end) EXCEPT
                      !.from = end,
                      !.phase = IF end = session[w].through THEN "commit" ELSE "read"])
    /\ UNCHANGED <<stream, snapshots>>

-----------------------------------------------------------------------------
(* Deciding and appending.                                                *)

(* The command is refused, or has nothing left to append.                 *)
Decline(w) ==
    /\ session[w].phase = "commit"
    /\ session[w].cmd # Opening
    /\ ~Admits(session[w].cmd, session[w].instance)
    /\ Becomes(w, Idle)
    /\ UNCHANGED <<stream, snapshots>>

Decided(w) ==
    /\ session[w].phase = "commit"
    /\ session[w].cmd = Opening \/ Admits(session[w].cmd, session[w].instance)

(* Mutated form: the stream may have moved on.                            *)
VersionMayTrail(w) == session[w].version <= Len(stream)
VersionHolds(w) == session[w].version = Len(stream)

MayRetry(left) == left - 1 > 0

(* The stream moved: decide again from a fresh load, or hand the conflict *)
(* back.  For an opening it means that the session exists.                *)
AppendConflict(w) ==
    /\ Decided(w)
    /\ ~VersionHolds(w)
    /\ Becomes(w, IF MayRetry(session[w].left)
                    THEN [session[w] EXCEPT !.phase = "load", !.left = @ - 1]
                    ELSE Idle)
    /\ UNCHANGED <<stream, snapshots>>

(* The store refuses an id it already holds; that is not retried.         *)
AppendDuplicate(w) ==
    /\ Decided(w)
    /\ VersionHolds(w)
    /\ ~AreNew(session[w].cmd, Ids(stream))
    /\ Becomes(w, Idle)
    /\ UNCHANGED <<stream, snapshots>>

(* Every fact is caused by the one before it, the first by the head the   *)
(* session was loaded with.                                               *)
Sealed(facts, head) ==
    [k \in DOMAIN facts |-> [id |-> facts[k],
                             cause |-> IF k = 1 THEN head ELSE {facts[k - 1]}]]

AppendFacts(w) ==
    LET facts == Facts[session[w].cmd] IN
    /\ Decided(w)
    /\ VersionHolds(w)
    /\ AreNew(session[w].cmd, Ids(stream))
    /\ stream' = stream \o Sealed(facts, session[w].head)
    /\ Becomes(w, [session[w] EXCEPT !.phase = "save", !.instance = @ \o facts,
                                     !.version = @ + Len(facts)])
    /\ UNCHANGED snapshots

SnapshotOf(w) == [version |-> session[w].version, instance |-> session[w].instance]

SaveSnapshot(w) ==
    /\ session[w].phase = "save"
    /\ snapshots' = { s \in snapshots : s.version # session[w].version }
                       \cup {SnapshotOf(w)}
    /\ Becomes(w, Idle)
    /\ UNCHANGED stream

-----------------------------------------------------------------------------
(* A read, an append or a save fails, or the writer's process ends.       *)
Abandon(w) ==
    /\ session[w].phase # "idle"
    /\ Becomes(w, Idle)
    /\ UNCHANGED <<stream, snapshots>>

(* The snapshots are dropped; they are a cache.                           *)
Forget ==
    /\ snapshots' = {}
    /\ UNCHANGED <<stream, session>>

Next ==
    \/ \E w \in Writers :
          \/ \E c \in Commands : Invoke(w, c)
          \/ InvokeOpen(w)
          \/ ReadSnapshot(w)
          \/ CaptureHead(w)
          \/ ReadPage(w)
          \/ Decline(w)
          \/ AppendConflict(w)
          \/ AppendDuplicate(w)
          \/ AppendFacts(w)
          \/ SaveSnapshot(w)
          \/ Abandon(w)
    \/ Forget

Spec == Init /\ [][Next]_vars
-----------------------------------------------------------------------------
(* s is what folding the first v records of the stream gives.             *)
IsFold(s, v) ==
    /\ Len(s) = v
    /\ v <= Len(stream)
    /\ \A k \in 1..v : s[k] = stream[k].id

(* A snapshot is a cache and never a source: whoever wrote it, however    *)
(* late and in whatever order, it holds exactly the fold of the stream up *)
(* to the version it is filed under.                                      *)
SnapshotsAreFolds == \A s \in snapshots : IsFold(s.instance, s.version)

(* A session a command is decided against is the fold of a prefix of the  *)
(* stream, whatever was appended while its pages were being read and      *)
(* wherever the snapshot it started from stands.                          *)
LoadedSessionsAreFolds ==
    \A w \in Writers : IsFold(session[w].instance, session[w].version)

(* Each record names the record before it as its cause, across the        *)
(* batches of different writers: the head a writer loaded is the head it  *)
(* appends behind.                                                        *)
CausationFollowsTheStream ==
    \A n \in DOMAIN stream :
        stream[n].cause = IF n = 1 THEN {} ELSE {stream[n - 1].id}

(* Whatever the interleaving of loads, appends, retries, failures and     *)
(* snapshots, the stream is one that a session executing one command at a *)
(* time would have written.                                               *)
Serial == INSTANCE AtomicSession WITH journal <- Ids(stream)
ExecutesSerially == Serial!Spec
=============================================================================
