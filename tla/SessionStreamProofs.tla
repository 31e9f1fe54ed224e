------------------------ MODULE SessionStreamProofs ------------------------
(***************************************************************************)
(* Every interleaving of writers is a serial execution.                    *)
(*                                                                         *)
(* The version a writer expects is enough because what it decided against  *)
(* is the fold of that many records: the invariant follows a load from the *)
(* snapshot it starts with through its pages, and a snapshot back to the   *)
(* append it was taken after.  It also follows the head a load learns, so  *)
(* that the causes of the records form one chain.                          *)
(***************************************************************************)
EXTENDS SessionStream, SuccessionStart, SequenceTheorems, TLAPS

(* s is what folding the first v records of str gives.                    *)
FoldOf(str, s, v) ==
    /\ Len(s) = v
    /\ v <= Len(str)
    /\ \A k \in 1..v : s[k] = str[k].id

(* What a writer holds, by its phase.                                     *)
SessionOK(str, s) ==
    /\ FoldOf(str, s.instance, s.version)
    /\ s.phase \in {"load", "head", "read"} => s.cmd # Opening
    /\ s.phase = "read" => /\ s.from <= s.version
                           /\ s.from < s.through
                           /\ s.version <= s.through
                           /\ s.through <= Len(str)
    /\ s.phase = "commit" /\ s.cmd = Opening => s.version = 0 /\ s.head = {} /\ s.left = 1
    /\ s.phase = "commit" /\ s.cmd # Opening =>
          s.version > 0 /\ s.head = {str[s.version].id}

StreamInv ==
    /\ TypeOK
    /\ \A w \in Writers : SessionOK(stream, session[w])
    /\ \A s \in snapshots : FoldOf(stream, s.instance, s.version)
    /\ CausationFollowsTheStream

-----------------------------------------------------------------------------
(* A writer that holds nothing.                                           *)
LEMMA IdleOK ==
    ASSUME NEW str \in Seq(Records)
    PROVE  Idle \in Sessions /\ SessionOK(str, Idle)
  BY CommandAssumption DEF Idle, Sessions, Phases, SessionOK, FoldOf

(* A step of one writer that leaves the stream alone.                     *)
LEMMA OneWriter ==
    ASSUME StreamInv, NEW w \in Writers, NEW value \in Sessions, SessionOK(stream, value),
           Becomes(w, value), UNCHANGED <<stream, snapshots>>
    PROVE  StreamInv'
  <1>1. session' = [session EXCEPT ![w] = value]
    BY DEF Becomes
  <1>2. TypeOK'
    BY <1>1 DEF StreamInv, TypeOK
  <1>3. \A v \in Writers : session'[v] = session[v] \/ session'[v] = value
    BY <1>1 DEF StreamInv, TypeOK
  <1>4. \A v \in Writers : SessionOK(stream', session'[v])
    BY <1>3 DEF StreamInv
  <1>5. \A s \in snapshots' : FoldOf(stream', s.instance, s.version)
    BY DEF StreamInv
  <1>6. CausationFollowsTheStream'
    BY DEF StreamInv, CausationFollowsTheStream
  <1> QED
    BY <1>2, <1>4, <1>5, <1>6 DEF StreamInv

(* Taking up a command.                                                   *)
LEMMA InvokeInv ==
    ASSUME StreamInv, NEW w \in Writers, NEW c \in Commands, Invoke(w, c) \/ InvokeOpen(w)
    PROVE  StreamInv'
  <1>1. stream \in Seq(Records)
    BY DEF StreamInv, TypeOK
  <1>2. CASE Invoke(w, c)
    <2> DEFINE value == [Idle EXCEPT !.phase = "load", !.cmd = c, !.left = Attempts[c]]
    <2>1. value \in Sessions
      BY <1>1, IdleOK, WriterAssumption DEF Sessions, Phases
    <2>2. SessionOK(stream, value)
      BY <1>1, <1>2 DEF Invoke, Idle, SessionOK, FoldOf
    <2>3. Becomes(w, value) /\ UNCHANGED <<stream, snapshots>>
      BY <1>2 DEF Invoke
    <2> QED
      BY <2>1, <2>2, <2>3, OneWriter
  <1>3. CASE InvokeOpen(w)
    <2> DEFINE value == [Idle EXCEPT !.phase = "commit", !.left = 1]
    <2>1. value \in Sessions
      BY <1>1, IdleOK DEF Sessions, Phases
    <2>2. SessionOK(stream, value)
      BY <1>1 DEF Idle, SessionOK, FoldOf
    <2>3. Becomes(w, value) /\ UNCHANGED <<stream, snapshots>>
      BY <1>3 DEF InvokeOpen
    <2> QED
      BY <2>1, <2>2, <2>3, OneWriter
  <1> QED
    BY <1>2, <1>3

(* A load starts with a snapshot, which is a fold, or with nothing.       *)
LEMMA ReadSnapshotInv ==
    ASSUME StreamInv, NEW w \in Writers, ReadSnapshot(w)
    PROVE  StreamInv'
  <1>1. session[w] \in Sessions /\ SessionOK(stream, session[w]) /\ stream \in Seq(Records)
    BY DEF StreamInv, TypeOK
  <1>2. session[w].phase = "load" /\ UNCHANGED <<stream, snapshots>>
    BY DEF ReadSnapshot
  <1>3. ASSUME NEW s \in Snapshots, FoldOf(stream, s.instance, s.version),
               Becomes(w, [session[w] EXCEPT !.phase = "head", !.instance = s.instance,
                                             !.version = s.version, !.head = {}])
        PROVE  StreamInv'
    <2> DEFINE value == [session[w] EXCEPT !.phase = "head", !.instance = s.instance,
                                           !.version = s.version, !.head = {}]
    <2>1. value \in Sessions
      BY <1>1 DEF Sessions, Snapshots, Phases
    <2>2. SessionOK(stream, value)
      BY <1>1, <1>2, <1>3 DEF SessionOK, Sessions
    <2> QED
      BY <1>2, <1>3, <2>1, <2>2, OneWriter
  <1>4. CASE \E s \in Latest :
                Becomes(w, [session[w] EXCEPT !.phase = "head", !.instance = s.instance,
                                              !.version = s.version, !.head = {}])
    BY <1>3, <1>4 DEF Latest, StreamInv, TypeOK
  <1>5. CASE Becomes(w, [session[w] EXCEPT !.phase = "head", !.instance = <<>>,
                                           !.version = 0, !.head = {}])
    <2> DEFINE nothing == [version |-> 0, instance |-> <<>>]
    <2>1. nothing \in Snapshots /\ FoldOf(stream, nothing.instance, nothing.version)
      BY <1>1 DEF Snapshots, FoldOf
    <2>2. nothing.instance = <<>> /\ nothing.version = 0
      OBVIOUS
    <2> HIDE DEF nothing
    <2> QED
      BY <1>3, <1>5, <2>1, <2>2
  <1> QED
    BY <1>4, <1>5 DEF ReadSnapshot

(* The head captured is no earlier than the snapshot.                     *)
LEMMA CaptureHeadInv ==
    ASSUME StreamInv, NEW w \in Writers, CaptureHead(w)
    PROVE  StreamInv'
  <1>1. session[w] \in Sessions /\ SessionOK(stream, session[w]) /\ stream \in Seq(Records)
    BY DEF StreamInv, TypeOK
  <1>2. session[w].phase = "head" /\ UNCHANGED <<stream, snapshots>>
    BY DEF CaptureHead
  <1>3. CASE stream = <<>>
    BY <1>1, <1>2, <1>3, IdleOK, OneWriter DEF CaptureHead
  <1>4. CASE stream # <<>>
    <2> DEFINE from == ReadFrom(session[w].version)
               value == [session[w] EXCEPT !.phase = "read", !.from = from,
                                           !.through = Len(stream)]
    <2>1. Len(stream) \in Nat /\ Len(stream) > 0
      BY <1>1, <1>4
    <2>2. /\ session[w].version \in Nat
          /\ session[w].version <= Len(stream)
      BY <1>1 DEF SessionOK, FoldOf, Sessions
    <2>3. from \in Nat /\ from < Len(stream) /\ from <= session[w].version
      BY <2>1, <2>2 DEF ReadFrom
    <2>4. Becomes(w, value)
      BY <1>4, <2>3 DEF CaptureHead
    <2> HIDE DEF from
    <2>5. value \in Sessions
      BY <1>1, <2>1, <2>3 DEF Sessions, Phases
    <2>6. SessionOK(stream, value)
      BY <1>1, <1>2, <2>1, <2>2, <2>3 DEF SessionOK, Sessions
    <2> QED
      BY <1>2, <2>4, <2>5, <2>6, OneWriter
  <1> QED
    BY <1>3, <1>4

-----------------------------------------------------------------------------
(* The ids of a stream.                                                   *)
LEMMA IdsType ==
    ASSUME NEW str \in Seq(Records)
    PROVE  /\ Ids(str) \in Seq(EventIds)
           /\ Len(Ids(str)) = Len(str)
           /\ \A k \in 1..Len(str) : Ids(str)[k] = str[k].id
  <1>1. DOMAIN str = 1..Len(str) /\ Len(str) \in Nat
    OBVIOUS
  <1>2. \A k \in 1..Len(str) : str[k] \in Records
    BY <1>1
  <1>3. \A k \in 1..Len(str) : str[k].id \in EventIds
    BY <1>2 DEF Records
  <1> QED
    BY <1>1, <1>3 DEF Ids

(* Folding the records that follow continues a fold.                      *)
LEMMA FoldOn ==
    ASSUME NEW str \in Seq(Records), NEW s \in Seq(EventIds), NEW v \in Nat, FoldOf(str, s, v),
           NEW end \in Nat, v < end, end <= Len(str)
    PROVE  /\ s \o SubSeq(Ids(str), v + 1, end) \in Seq(EventIds)
           /\ FoldOf(str, s \o SubSeq(Ids(str), v + 1, end), end)
  <1> DEFINE ids == Ids(str)
             page == SubSeq(ids, v + 1, end)
             t == s \o page
  <1>1. ids \in Seq(EventIds) /\ Len(ids) = Len(str)
        /\ \A k \in 1..Len(str) : ids[k] = str[k].id
    BY IdsType
  <1>2. Len(s) = v /\ \A k \in 1..v : s[k] = str[k].id
    BY DEF FoldOf
  <1> HIDE DEF ids
  <1>3. /\ page \in Seq(EventIds)
        /\ Len(page) = end - v
        /\ \A k \in 1..(end - v) : page[k] = ids[v + k]
    BY <1>1
  <1> HIDE DEF page
  <1>4. /\ t \in Seq(EventIds)
        /\ Len(t) = end
        /\ \A k \in 1..end : t[k] = IF k <= v THEN s[k] ELSE page[k - v]
    <2>1. /\ t \in Seq(EventIds)
          /\ Len(t) = Len(s) + Len(page)
          /\ \A k \in 1..(Len(s) + Len(page)) :
                t[k] = IF k <= Len(s) THEN s[k] ELSE page[k - Len(s)]
      BY <1>3, ConcatProperties
    <2> HIDE DEF t
    <2>2. Len(s) + Len(page) = end
      BY <1>2, <1>3
    <2> QED
      BY <1>2, <2>1, <2>2
  <1> HIDE DEF t
  <1>5. ASSUME NEW k \in 1..end PROVE t[k] = str[k].id
    <2>1. CASE k \in 1..v
      BY <1>2, <1>4, <2>1
    <2>2. CASE k \in (v + 1)..end
      <3>1. k - v \in 1..(end - v) /\ v + (k - v) = k /\ ~(k <= v) /\ k \in 1..Len(str)
        BY <2>2
      <3>2. t[k] = page[k - v]
        BY <1>4, <3>1
      <3>3. page[k - v] = ids[k]
        BY <1>3, <3>1
      <3> QED
        BY <1>1, <3>1, <3>2, <3>3
    <2> QED
      BY <2>1, <2>2
  <1>6. FoldOf(str, t, end)
    BY <1>4, <1>5 DEF FoldOf
  <1> QED
    BY <1>4, <1>6 DEF t, page, ids

(* A page continues the fold, whatever landed since the head was read.    *)
LEMMA ReadPageInv ==
    ASSUME StreamInv, NEW w \in Writers, ReadPage(w)
    PROVE  StreamInv'
  <1> DEFINE s == session[w]
             end == PageEnd(s)
             ph == IF end = s.through THEN "commit" ELSE "read"
             ext == s.instance \o SubSeq(Ids(stream), s.version + 1, end)
             value == [FoldPage(s, end) EXCEPT !.from = end, !.phase = ph]
  <1>1. s \in Sessions /\ SessionOK(stream, s) /\ stream \in Seq(Records)
    BY DEF StreamInv, TypeOK
  <1>2. s.phase = "read" /\ UNCHANGED <<stream, snapshots>> /\ Becomes(w, value)
    BY DEF ReadPage
  <1>3. /\ s.from \in Nat /\ s.version \in Nat /\ s.through \in Nat
        /\ s.from <= s.version /\ s.from < s.through /\ s.version <= s.through
        /\ s.through <= Len(stream) /\ s.cmd # Opening
    BY <1>1, <1>2 DEF SessionOK, Sessions
  <1>4. end \in Nat /\ s.from < end /\ end <= s.through
    BY <1>3, WriterAssumption DEF PageEnd
  <1>5. {stream[end].id} \in SUBSET EventIds
    <2>1. stream[end] \in Records
      <3>1. end \in 1..Len(stream)
        BY <1>1, <1>3, <1>4
      <3> HIDE DEF end
      <3> QED
        BY <1>1, <3>1
    <2> HIDE DEF end
    <2> QED
      BY <2>1 DEF Records
  <1> HIDE DEF s, end
  <1>6. CASE end <= s.version
    <2>1. value = [s EXCEPT !.head = {stream[end].id}, !.from = end, !.phase = ph]
      BY <1>1, <1>6 DEF FoldPage, Sessions
    <2>2. value \in Sessions
      BY <1>1, <1>4, <1>5, <2>1 DEF Sessions, Phases
    <2>3. /\ value.phase = ph /\ value.cmd = s.cmd /\ value.instance = s.instance
          /\ value.version = s.version /\ value.from = end /\ value.through = s.through
          /\ value.head = {stream[end].id}
      BY <1>1, <2>1 DEF Sessions
    <2>4. FoldOf(stream, s.instance, s.version)
      BY <1>1 DEF SessionOK
    <2> HIDE DEF value
    <2>7. SessionOK(stream, value)
      <3>1. CASE end = s.through
        <4>1. end = s.version
          BY <1>3, <1>4, <1>6, <3>1
        <4> QED
          BY <1>3, <1>4, <2>3, <2>4, <3>1, <4>1 DEF SessionOK
      <3>2. CASE end # s.through
        BY <1>3, <1>4, <1>6, <2>3, <2>4, <3>2 DEF SessionOK
      <3> QED
        BY <3>1, <3>2
    <2> QED
      BY <1>2, <2>2, <2>7, OneWriter
  <1>7. CASE ~(end <= s.version)
    <2>1. ext \in Seq(EventIds) /\ FoldOf(stream, ext, end)
      BY <1>1, <1>3, <1>4, <1>7, FoldOn DEF SessionOK, Sessions
    <2>2. (IF s.from < s.version THEN s.version ELSE s.from) = s.version
      BY <1>3
    <2>3. value = [s EXCEPT !.instance = ext, !.version = end, !.head = {stream[end].id},
                            !.from = end, !.phase = ph]
      BY <1>1, <1>7, <2>2 DEF FoldPage, Sessions
    <2> HIDE DEF ext
    <2>4. value \in Sessions
      BY <1>1, <1>4, <1>5, <2>1, <2>3 DEF Sessions, Phases
    <2>5. /\ value.phase = ph /\ value.cmd = s.cmd /\ value.instance = ext
          /\ value.version = end /\ value.from = end /\ value.through = s.through
          /\ value.head = {stream[end].id}
      BY <1>1, <2>3 DEF Sessions
    <2> HIDE DEF value
    <2>6. SessionOK(stream, value)
      BY <1>3, <1>4, <2>1, <2>5 DEF SessionOK
    <2> QED
      BY <1>2, <2>4, <2>6, OneWriter
  <1> QED
    BY <1>6, <1>7

(* A command that is refused, loses the race or fails is dropped or loaded *)
(* again.                                                                  *)
LEMMA GivingUpInv ==
    ASSUME StreamInv, NEW w \in Writers,
           Decline(w) \/ AppendConflict(w) \/ AppendDuplicate(w) \/ Abandon(w)
    PROVE  StreamInv'
  <1>1. session[w] \in Sessions /\ SessionOK(stream, session[w]) /\ stream \in Seq(Records)
    BY DEF StreamInv, TypeOK
  <1>2. UNCHANGED <<stream, snapshots>>
    BY DEF Decline, AppendConflict, AppendDuplicate, Abandon
  <1> DEFINE again == [session[w] EXCEPT !.phase = "load", !.left = @ - 1]
  <1>3. Becomes(w, Idle) \/ (/\ Becomes(w, again)
                             /\ session[w].phase = "commit"
                             /\ ~VersionHolds(w)
                             /\ MayRetry(session[w].left))
    BY DEF Decline, AppendConflict, AppendDuplicate, Abandon, Decided
  <1>4. CASE Becomes(w, Idle)
    BY <1>1, <1>2, <1>4, IdleOK, OneWriter
  <1>5. CASE /\ Becomes(w, again)
             /\ session[w].phase = "commit"
             /\ ~VersionHolds(w)
             /\ MayRetry(session[w].left)
    <2>1. again \in Sessions
      <3>1. session[w].left \in Nat /\ session[w].left - 1 \in Nat
        BY <1>1, <1>5 DEF Sessions, MayRetry
      <3> QED
        BY <1>1, <3>1 DEF Sessions, Phases
    <2>2. session[w].cmd # Opening
      BY <1>1, <1>5 DEF SessionOK, MayRetry
    <2>3. SessionOK(stream, again)
      BY <1>1, <2>2 DEF SessionOK, Sessions
    <2> QED
      BY <1>2, <1>5, <2>1, <2>3, OneWriter
  <1> QED
    BY <1>3, <1>4, <1>5

-----------------------------------------------------------------------------
(* Filing the snapshot of an append that landed.                          *)
LEMMA SaveSnapshotInv ==
    ASSUME StreamInv, NEW w \in Writers, SaveSnapshot(w)
    PROVE  StreamInv'
  <1>1. session[w] \in Sessions /\ SessionOK(stream, session[w]) /\ stream \in Seq(Records)
    BY DEF StreamInv, TypeOK
  <1>2. SnapshotOf(w) \in Snapshots
        /\ FoldOf(stream, SnapshotOf(w).instance, SnapshotOf(w).version)
    BY <1>1 DEF SnapshotOf, Snapshots, Sessions, SessionOK
  <1>3. session' = [session EXCEPT ![w] = Idle] /\ UNCHANGED stream
    BY DEF SaveSnapshot, Becomes
  <1>4. \A s \in snapshots' : s \in snapshots \/ s = SnapshotOf(w)
    BY DEF SaveSnapshot
  <1>5. Idle \in Sessions /\ SessionOK(stream, Idle)
    BY <1>1, IdleOK
  <1>6. TypeOK'
    BY <1>2, <1>3, <1>4, <1>5 DEF StreamInv, TypeOK
  <1>7. \A v \in Writers : SessionOK(stream', session'[v])
    <2>1. \A v \in Writers : session'[v] = session[v] \/ session'[v] = Idle
      BY <1>3 DEF StreamInv, TypeOK
    <2> QED
      BY <1>3, <1>5, <2>1 DEF StreamInv
  <1>8. \A s \in snapshots' : FoldOf(stream', s.instance, s.version)
    BY <1>2, <1>3, <1>4 DEF StreamInv
  <1>9. CausationFollowsTheStream'
    BY <1>3 DEF StreamInv, CausationFollowsTheStream
  <1> QED
    BY <1>6, <1>7, <1>8, <1>9 DEF StreamInv

(* What an append leaves: the records there were, then the facts, each    *)
(* caused by the record before it.                                        *)
Extends(after, str, facts, head) ==
    /\ after \in Seq(Records)
    /\ Len(after) = Len(str) + Len(facts)
    /\ \A k \in 1..Len(str) : after[k] = str[k]
    /\ \A k \in 1..Len(facts) :
          /\ after[Len(str) + k].id = facts[k]
          /\ after[Len(str) + k].cause = IF k = 1 THEN head ELSE {facts[k - 1]}

(* Sealing the facts of a command leaves that.                            *)
LEMMA Appended ==
    ASSUME NEW str \in Seq(Records), NEW c \in Commands, NEW head \in SUBSET EventIds,
           NEW after, after = str \o Sealed(Facts[c], head)
    PROVE  Extends(after, str, Facts[c], head)
  <1> DEFINE facts == Facts[c]
             rec(k) == [id |-> facts[k], cause |-> IF k = 1 THEN head ELSE {facts[k - 1]}]
             new == Sealed(facts, head)
  <1>1. facts \in Seq(EventIds)
    BY CommandAssumption
  <1> HIDE DEF facts
  <1>2. DOMAIN facts = 1..Len(facts) /\ Len(facts) \in Nat
        /\ \A k \in 1..Len(facts) : facts[k] \in EventIds
    BY <1>1
  <1>3. ASSUME NEW k \in 1..Len(facts)
        PROVE  rec(k) \in Records
    <2>1. k # 1 => k - 1 \in 1..Len(facts)
      BY <1>2
    <2>2. (IF k = 1 THEN head ELSE {facts[k - 1]}) \in SUBSET EventIds
      BY <1>2, <2>1
    <2> QED
      BY <1>2, <2>2 DEF Records
  <1>4. /\ new \in Seq(Records)
        /\ Len(new) = Len(facts)
        /\ \A k \in 1..Len(facts) : new[k] = rec(k)
    <2>1. new = [k \in 1..Len(facts) |-> rec(k)]
      BY <1>2 DEF Sealed
    <2> HIDE DEF rec, new
    <2> QED
      BY <1>2, <1>3, <2>1
  <1> HIDE DEF new
  <1>5. /\ after \in Seq(Records)
        /\ Len(after) = Len(str) + Len(new)
        /\ \A k \in 1..(Len(str) + Len(new)) :
              after[k] = IF k <= Len(str) THEN str[k] ELSE new[k - Len(str)]
    <2>1. after = str \o new
      BY DEF new, facts
    <2>2. /\ str \o new \in Seq(Records)
          /\ Len(str \o new) = Len(str) + Len(new)
          /\ \A k \in 1..(Len(str) + Len(new)) :
                (str \o new)[k] = IF k <= Len(str) THEN str[k] ELSE new[k - Len(str)]
      <3>1. new \in Seq(Records)
        BY <1>4
      <3> QED
        BY <3>1, ConcatProperties
    <2> QED
      BY <2>1, <2>2, Zenon
  <1>6. \A k \in 1..Len(str) : after[k] = str[k]
    BY <1>2, <1>4, <1>5
  <1>7. ASSUME NEW k \in 1..Len(facts)
        PROVE  after[Len(str) + k] = new[k]
    <2>1. /\ Len(str) + k \in 1..(Len(str) + Len(new))
          /\ ~(Len(str) + k <= Len(str))
          /\ (Len(str) + k) - Len(str) = k
      BY <1>2, <1>4
    <2> QED
      BY <1>5, <2>1
  <1>8. \A k \in 1..Len(facts) :
           /\ after[Len(str) + k].id = facts[k]
           /\ after[Len(str) + k].cause = IF k = 1 THEN head ELSE {facts[k - 1]}
    <2> TAKE k \in 1..Len(facts)
    <2>1. after[Len(str) + k] = rec(k)
      BY <1>4, <1>7
    <2> QED
      BY <2>1
  <1> QED
    BY <1>4, <1>5, <1>6, <1>8 DEF facts, Extends

(* What a longer stream does to a fold of it.                             *)
LEMMA FoldStands ==
    ASSUME NEW str, NEW after, NEW s, NEW v \in Nat, FoldOf(str, s, v),
           Len(str) \in Nat, Len(after) \in Nat, Len(str) <= Len(after),
           \A k \in 1..Len(str) : after[k] = str[k]
    PROVE  FoldOf(after, s, v)
  BY DEF FoldOf

(* An append keeps every fold there is, and the writer's own is the fold  *)
(* of the stream it leaves.                                               *)
LEMMA AppendFactsInv ==
    ASSUME StreamInv, NEW w \in Writers, AppendFacts(w)
    PROVE  StreamInv'
  <1> DEFINE s == session[w]
             facts == Facts[s.cmd]
             value == [s EXCEPT !.phase = "save", !.instance = @ \o facts,
                                !.version = @ + Len(facts)]
  <1>1. s \in Sessions /\ SessionOK(stream, s) /\ stream \in Seq(Records)
    BY DEF StreamInv, TypeOK
  <1>2. /\ s.phase = "commit" /\ s.version = Len(stream)
        /\ stream' = stream \o Sealed(facts, s.head)
        /\ session' = [session EXCEPT ![w] = value]
        /\ UNCHANGED snapshots
    BY DEF AppendFacts, Decided, VersionHolds, Becomes
  <1>3. facts \in Seq(EventIds) /\ Len(facts) \in Nat /\ Len(facts) > 0
    BY <1>1, CommandAssumption DEF Sessions
  <1>4. /\ stream' \in Seq(Records)
        /\ Len(stream') = Len(stream) + Len(facts)
        /\ \A k \in 1..Len(stream) : stream'[k] = stream[k]
        /\ \A k \in 1..Len(facts) :
              /\ stream'[Len(stream) + k].id = facts[k]
              /\ stream'[Len(stream) + k].cause = IF k = 1 THEN s.head ELSE {facts[k - 1]}
    <2>1. s.cmd \in Commands /\ s.head \in SUBSET EventIds
      BY <1>1 DEF Sessions
    <2>2. stream' = stream \o Sealed(Facts[s.cmd], s.head)
      BY <1>2
    <2>3. stream \in Seq(Records)
      BY <1>1
    <2> HIDE DEF s
    <2>4. Extends(stream', stream, Facts[s.cmd], s.head)
      BY <2>1, <2>2, <2>3, Appended
    <2> QED
      BY <2>4 DEF facts, Extends
  <1>5. Len(stream) \in Nat /\ Len(stream') \in Nat /\ Len(stream) <= Len(stream')
    BY <1>1, <1>3, <1>4
  <1> HIDE DEF facts
  <1>6. value \in Sessions /\ FoldOf(stream', s.instance \o facts, Len(stream'))
    <2> DEFINE t == s.instance \o facts
    <2>1. s.instance \in Seq(EventIds) /\ FoldOf(stream, s.instance, Len(stream))
      BY <1>1, <1>2 DEF SessionOK, Sessions
    <2>2. /\ t \in Seq(EventIds)
          /\ Len(t) = Len(s.instance) + Len(facts)
          /\ \A k \in 1..(Len(s.instance) + Len(facts)) :
                t[k] = IF k <= Len(s.instance) THEN s.instance[k]
                       ELSE facts[k - Len(s.instance)]
      BY <1>3, <2>1, ConcatProperties
    <2>3. Len(s.instance) = Len(stream)
      BY <2>1 DEF FoldOf
    <2>4. value \in Sessions
      <3>1. value = [s EXCEPT !.phase = "save", !.instance = t, !.version = s.version + Len(facts)]
        BY <1>1 DEF Sessions
      <3>2. s.version + Len(facts) \in Nat
        BY <1>1, <1>3 DEF Sessions
      <3> HIDE DEF value, t
      <3> QED
        BY <1>1, <2>2, <3>1, <3>2 DEF Sessions, Phases
    <2> HIDE DEF t
    <2>5. ASSUME NEW k \in 1..Len(stream') PROVE t[k] = stream'[k].id
      <3>1. CASE k <= Len(stream)
        <4>1. k \in 1..Len(stream)
          BY <1>5, <3>1
        <4>2. t[k] = s.instance[k]
          BY <1>4, <2>2, <2>3, <3>1
        <4>3. s.instance[k] = stream[k].id
          BY <2>1, <4>1 DEF FoldOf
        <4> QED
          BY <1>4, <4>1, <4>2, <4>3
      <3>2. CASE ~(k <= Len(stream))
        <4>1. k - Len(stream) \in 1..Len(facts) /\ Len(stream) + (k - Len(stream)) = k
          BY <1>3, <1>4, <1>5, <3>2
        <4>2. t[k] = facts[k - Len(stream)]
          BY <1>4, <2>2, <2>3, <3>2
        <4>3. stream'[k].id = facts[k - Len(stream)]
          BY <1>4, <4>1
        <4> QED
          BY <4>2, <4>3
      <3> QED
        BY <3>1, <3>2
    <2>6. Len(t) = Len(stream')
      BY <1>4, <2>2, <2>3
    <2>7. FoldOf(stream', t, Len(stream'))
      BY <1>5, <2>5, <2>6 DEF FoldOf
    <2> QED
      BY <2>4, <2>7 DEF t
  <1>7. SessionOK(stream', value)
    <2>1. /\ value.phase = "save" /\ value.instance = s.instance \o facts
          /\ value.version = Len(stream')
      BY <1>1, <1>2, <1>4 DEF Sessions
    <2> HIDE DEF value
    <2> QED
      BY <1>6, <2>1 DEF SessionOK
  <1>8. \A v \in Writers : SessionOK(stream, session[v]) => SessionOK(stream', session[v])
    <2> SUFFICES ASSUME NEW v \in Writers, SessionOK(stream, session[v])
                 PROVE  SessionOK(stream', session[v])
      OBVIOUS
    <2>1. session[v] \in Sessions
      BY DEF StreamInv, TypeOK
    <2> DEFINE x == session[v]
    <2>2. x.version \in Nat /\ x.from \in Nat /\ x.through \in Nat
      BY <2>1 DEF Sessions
    <2>3. FoldOf(stream, x.instance, x.version) /\ x.version <= Len(stream)
      BY DEF SessionOK, FoldOf
    <2>4. FoldOf(stream', x.instance, x.version)
      BY <1>4, <1>5, <2>2, <2>3, FoldStands
    <2>5. x.version > 0 => stream'[x.version] = stream[x.version]
      BY <1>4, <1>5, <2>2, <2>3
    <2> HIDE DEF x
    <2>6. SessionOK(stream, x)
      BY DEF x
    <2>7. SessionOK(stream', x)
      BY <1>5, <2>2, <2>4, <2>5, <2>6 DEF SessionOK
    <2> QED
      BY <2>7 DEF x
  <1>9. TypeOK'
    BY <1>2, <1>4, <1>6 DEF StreamInv, TypeOK
  <1>10. \A v \in Writers : SessionOK(stream', session'[v])
    <2> HIDE DEF value
    <2>1. \A v \in Writers : session'[v] = session[v] \/ session'[v] = value
      BY <1>2 DEF StreamInv, TypeOK
    <2> QED
      BY <1>7, <1>8, <2>1 DEF StreamInv
  <1>11. \A x \in snapshots' : FoldOf(stream', x.instance, x.version)
    <2> SUFFICES ASSUME NEW x \in snapshots PROVE FoldOf(stream', x.instance, x.version)
      BY <1>2
    <2>1. x.version \in Nat /\ FoldOf(stream, x.instance, x.version)
      BY DEF StreamInv, TypeOK, Snapshots
    <2> QED
      BY <1>4, <1>5, <2>1, FoldStands
  <1>12. CausationFollowsTheStream'
    <2>1. s.head = IF Len(stream) = 0 THEN {} ELSE {stream[Len(stream)].id}
      <3>1. s.version \in Nat
        BY <1>1 DEF Sessions
      <3>2. CASE s.cmd = Opening
        BY <1>1, <1>2, <3>2 DEF SessionOK
      <3>3. CASE s.cmd # Opening
        <4>1. s.version > 0 /\ s.head = {stream[s.version].id}
          BY <1>1, <1>2, <3>3 DEF SessionOK
        <4>2. Len(stream) # 0
          BY <1>2, <3>1, <4>1
        <4> QED
          BY <1>2, <4>1, <4>2
      <3> QED
        BY <3>2, <3>3
    <2>2. ASSUME NEW n \in 1..Len(stream')
          PROVE  stream'[n].cause = IF n = 1 THEN {} ELSE {stream'[n - 1].id}
      <3>1. CASE n <= Len(stream)
        <4>1. n \in 1..Len(stream) /\ (n # 1 => n - 1 \in 1..Len(stream))
          BY <1>5, <3>1
        <4>2. stream[n].cause = IF n = 1 THEN {} ELSE {stream[n - 1].id}
          <5>1. n \in DOMAIN stream
            BY <1>1, <4>1
          <5> QED
            BY <5>1 DEF StreamInv, CausationFollowsTheStream
        <4> QED
          BY <1>4, <4>1, <4>2
      <3>2. CASE n = Len(stream) + 1
        <4>1. stream'[n].cause = s.head
          <5>1. 1 \in 1..Len(facts)
            BY <1>3
          <5>2. stream'[Len(stream) + 1].cause = s.head
            BY <1>4, <5>1
          <5> QED
            BY <3>2, <5>2
        <4>2. n - 1 = Len(stream) /\ (n = 1 <=> Len(stream) = 0)
          BY <1>5, <3>2
        <4>3. CASE Len(stream) = 0
          BY <2>1, <4>1, <4>2, <4>3
        <4>4. CASE Len(stream) # 0
          <5>1. Len(stream) \in 1..Len(stream)
            BY <1>5, <4>4
          <5>2. stream'[n - 1] = stream[Len(stream)]
            BY <1>4, <4>2, <5>1
          <5> QED
            BY <2>1, <4>1, <4>2, <4>4, <5>2
        <4> QED
          BY <4>3, <4>4
      <3>3. CASE n > Len(stream) + 1
        <4> DEFINE k == n - Len(stream)
        <4>1. /\ k \in 1..Len(facts) /\ k - 1 \in 1..Len(facts) /\ k # 1 /\ n # 1
              /\ Len(stream) + k = n /\ Len(stream) + (k - 1) = n - 1
          BY <1>3, <1>4, <1>5, <3>3
        <4> HIDE DEF k
        <4>2. stream'[n].cause = {facts[k - 1]}
          BY <1>4, <4>1
        <4>3. stream'[n - 1].id = facts[k - 1]
          BY <1>4, <4>1
        <4> QED
          BY <4>1, <4>2, <4>3
      <3> QED
        BY <1>5, <3>1, <3>2, <3>3
    <2>3. DOMAIN stream' = 1..Len(stream')
      BY <1>4
    <2> QED
      BY <2>2, <2>3 DEF CausationFollowsTheStream
  <1> QED
    BY <1>9, <1>10, <1>11, <1>12 DEF StreamInv

-----------------------------------------------------------------------------
(* Every step of every writer keeps the invariant.                        *)
LEMMA NextStream == StreamInv /\ [Next]_vars => StreamInv'
  <1> SUFFICES ASSUME StreamInv, [Next]_vars PROVE StreamInv'
    OBVIOUS
  <1>1. ASSUME NEW w \in Writers, NEW c \in Commands, Invoke(w, c) \/ InvokeOpen(w)
        PROVE  StreamInv'
    BY <1>1, InvokeInv
  <1>2. ASSUME NEW w \in Writers, ReadSnapshot(w) \/ CaptureHead(w) \/ ReadPage(w)
        PROVE  StreamInv'
    BY <1>2, ReadSnapshotInv, CaptureHeadInv, ReadPageInv
  <1>3. ASSUME NEW w \in Writers,
               Decline(w) \/ AppendConflict(w) \/ AppendDuplicate(w) \/ Abandon(w)
        PROVE  StreamInv'
    BY <1>3, GivingUpInv
  <1>4. ASSUME NEW w \in Writers, AppendFacts(w) \/ SaveSnapshot(w)
        PROVE  StreamInv'
    BY <1>4, AppendFactsInv, SaveSnapshotInv
  <1>5. CASE Forget
    BY <1>5 DEF Forget, StreamInv, TypeOK, CausationFollowsTheStream
  <1>6. CASE UNCHANGED vars
    BY <1>6 DEF vars, StreamInv, TypeOK, CausationFollowsTheStream
  <1> QED
    BY <1>1, <1>2, <1>3, <1>4, <1>5, <1>6, CommandAssumption DEF Next

(* An empty stream that nobody writes to yet.                             *)
LEMMA InitStream == Init => StreamInv
  <1> SUFFICES ASSUME Init PROVE StreamInv
    OBVIOUS
  <1>1. stream \in Seq(Records) /\ stream = <<>>
    BY DEF Init
  <1>2. \A w \in Writers : session[w] = Idle
    BY DEF Init
  <1>3. \A w \in Writers : SessionOK(stream, session[w])
    BY <1>1, <1>2, IdleOK
  <1>4. TypeOK
    BY <1>1, IdleOK DEF Init, TypeOK
  <1>5. CausationFollowsTheStream
    BY <1>1 DEF CausationFollowsTheStream
  <1> QED
    BY <1>3, <1>4, <1>5 DEF StreamInv, Init

(* The invariant holds throughout.                                        *)
LEMMA StreamInvariant == Spec => []StreamInv
  BY InitStream, NextStream, PTL DEF Spec

(* The stream, its snapshots and what writers hold are always well formed, *)
(* the attempts a conflict policy leaves never drop below zero.            *)
THEOREM StreamTypeCorrect == Spec => []TypeOK
  <1>1. StreamInv => TypeOK
    BY DEF StreamInv
  <1> QED
    BY <1>1, StreamInvariant, PTL

(* Whatever a command is decided against is the fold of a prefix of the   *)
(* stream, however its load was interleaved with appends.                 *)
THEOREM LoadsAreFolds == Spec => []LoadedSessionsAreFolds
  <1>1. StreamInv => LoadedSessionsAreFolds
    BY DEF StreamInv, SessionOK, FoldOf, LoadedSessionsAreFolds, IsFold
  <1> QED
    BY <1>1, StreamInvariant, PTL

(* A snapshot never says anything the stream does not.                    *)
THEOREM SnapshotsAreACache == Spec => []SnapshotsAreFolds
  <1>1. StreamInv => SnapshotsAreFolds
    BY DEF StreamInv, FoldOf, SnapshotsAreFolds, IsFold
  <1> QED
    BY <1>1, StreamInvariant, PTL

(* The causes of the records form one chain.                              *)
THEOREM CausesFormAChain == Spec => []CausationFollowsTheStream
  <1>1. StreamInv => CausationFollowsTheStream
    BY DEF StreamInv
  <1> QED
    BY <1>1, StreamInvariant, PTL

-----------------------------------------------------------------------------
(* A fold of the whole stream is the sequence of its ids.                 *)
LEMMA WholeFold ==
    ASSUME NEW str \in Seq(Records), NEW s \in Seq(EventIds), FoldOf(str, s, Len(str))
    PROVE  s = Ids(str)
  <1>1. /\ Ids(str) \in Seq(EventIds) /\ Len(Ids(str)) = Len(str)
        /\ \A k \in 1..Len(str) : Ids(str)[k] = str[k].id
    BY IdsType
  <1>2. Len(s) = Len(str) /\ \A k \in 1..Len(str) : s[k] = str[k].id
    BY DEF FoldOf
  <1> DEFINE ids == Ids(str)
  <1> HIDE DEF ids
  <1>3. ids \in Seq(EventIds) /\ Len(ids) = Len(s) /\ \A k \in 1..Len(s) : s[k] = ids[k]
    BY <1>1, <1>2 DEF ids
  <1>4. s = ids
    BY <1>3
  <1> QED
    BY <1>4 DEF ids

(* A step of the stream is a step of the session that executes one        *)
(* command at a time, or changes nothing there.                           *)
LEMMA AppendIsSerial ==
    ASSUME StreamInv, StreamInv', NEW w \in Writers, AppendFacts(w)
    PROVE  Serial!Next
  <1> DEFINE s == session[w]
             facts == Facts[s.cmd]
  <1>1. s \in Sessions /\ SessionOK(stream, s) /\ stream \in Seq(Records)
    BY DEF StreamInv, TypeOK
  <1>2. /\ s.phase = "commit" /\ s.version = Len(stream)
        /\ s.cmd = Opening \/ Admits(s.cmd, s.instance)
        /\ AreNew(s.cmd, Ids(stream))
    BY DEF AppendFacts, Decided, VersionHolds
  <1>3. s.instance = Ids(stream)
    BY <1>1, <1>2, WholeFold DEF SessionOK, Sessions
  <1>4. s.instance \o facts = Ids(stream')
    <2>1. session'[w] = [s EXCEPT !.phase = "save", !.instance = @ \o facts,
                                  !.version = @ + Len(facts)]
      BY DEF AppendFacts, Becomes, StreamInv, TypeOK
    <2>2. session'[w].instance = s.instance \o facts /\ session'[w].version = s.version + Len(facts)
      BY <1>1, <2>1 DEF Sessions
    <2>3. /\ session'[w] \in Sessions /\ SessionOK(stream', session'[w])
          /\ stream' \in Seq(Records)
      BY DEF StreamInv, TypeOK
    <2>4. Len(stream') = Len(stream) + Len(facts)
      <3>1. s.cmd \in Commands /\ s.head \in SUBSET EventIds
        BY <1>1 DEF Sessions
      <3>2. stream' = stream \o Sealed(Facts[s.cmd], s.head)
        BY DEF AppendFacts
      <3>3. Extends(stream', stream, Facts[s.cmd], s.head)
        BY <1>1, <3>1, <3>2, Appended
      <3> QED
        BY <3>3 DEF Extends
    <2>5. session'[w].version = Len(stream')
      BY <1>2, <2>2, <2>4
    <2>6. session'[w].instance \in Seq(EventIds)
          /\ FoldOf(stream', session'[w].instance, Len(stream'))
      BY <2>3, <2>5 DEF SessionOK, Sessions
    <2>7. session'[w].instance = Ids(stream')
      BY <2>3, <2>6, WholeFold
    <2> QED
      BY <2>2, <2>7
  <1>5. s.cmd \in Commands /\ facts \in Seq(EventIds)
    BY <1>1, CommandAssumption DEF Sessions
  <1> HIDE DEF s, facts
  <1>6. CASE s.cmd = Opening
    <2>1. stream = <<>>
      <3>1. Len(stream) = 0
        BY <1>1, <1>2, <1>6 DEF SessionOK
      <3> QED
        BY <1>1, <3>1
    <2>2. Ids(stream) = <<>>
      BY <2>1 DEF Ids
    <2>3. <<>> \o facts = facts
      BY <1>5
    <2>4. Ids(stream') = Facts[Opening]
      BY <1>3, <1>4, <1>6, <2>2, <2>3 DEF facts
    <2> QED
      BY <2>2, <2>4 DEF Serial!Next, Serial!Open
  <1>7. CASE s.cmd # Opening
    <2>1. Ids(stream) # <<>>
      <3>1. Len(stream) > 0
        BY <1>1, <1>2, <1>7 DEF SessionOK
      <3>2. Len(Ids(stream)) = Len(stream)
        BY <1>1, IdsType
      <3> QED
        BY <3>1, <3>2
    <2>2. Serial!Admits(s.cmd, Ids(stream)) /\ Serial!AreNew(s.cmd, Ids(stream))
      BY <1>2, <1>3, <1>7 DEF Admits, AreNew, Held, Serial!Admits, Serial!AreNew, Serial!Held
    <2>3. Ids(stream') = Ids(stream) \o Facts[s.cmd]
      BY <1>3, <1>4 DEF facts
    <2> QED
      BY <1>5, <1>7, <2>1, <2>2, <2>3 DEF Serial!Next, Serial!Execute
  <1> QED
    BY <1>6, <1>7

(* The other steps leave the stream alone.                                *)
LEMMA StepIsSerial == StreamInv /\ StreamInv' /\ [Next]_vars => [Serial!Next]_(Ids(stream))
  <1> SUFFICES ASSUME StreamInv, StreamInv', [Next]_vars
               PROVE  Serial!Next \/ UNCHANGED Ids(stream)
    OBVIOUS
  <1>1. ASSUME NEW w \in Writers, AppendFacts(w)
        PROVE  Serial!Next
    BY <1>1, AppendIsSerial
  <1>2. CASE UNCHANGED stream
    BY <1>2 DEF Ids
  <1>3. UNCHANGED stream \/ \E w \in Writers : AppendFacts(w)
    BY DEF Next, vars, Invoke, InvokeOpen, ReadSnapshot, CaptureHead, ReadPage, Decline,
           AppendConflict, AppendDuplicate, SaveSnapshot, Abandon, Forget
  <1> QED
    BY <1>1, <1>2, <1>3

(* Whatever the number of writers and however their loads, appends,       *)
(* retries and crashes interleave, the stream is the journal of a session *)
(* that takes one command at a time, each decided against all the facts   *)
(* sealed before its own.                                                 *)
THEOREM StreamIsSerial == Spec => ExecutesSerially
  <1>1. Init => Serial!Init
    BY DEF Init, Serial!Init, Ids
  <1> QED
    BY <1>1, StepIsSerial, StreamInvariant, PTL DEF Spec, ExecutesSerially, Serial!Spec

-----------------------------------------------------------------------------
(***************************************************************************)
(* A handoff over two streams (SuccessionStart).                           *)
(*                                                                         *)
(* Nothing ties the two appends together but the plan: a call that reaches *)
(* the second one holds the very plan the predecessor sealed, and that     *)
(* plan never changes, because every other call finds the predecessor      *)
(* sealed.  What the plan answered for stays answered for, because a       *)
(* sealed predecessor neither resumes nor is claimed.                      *)
(***************************************************************************)

(* What a record of the step tells of its claims and of the context: only  *)
(* a completion writes it, and there is one.                               *)
StepAgrees ==
    /\ step.status # "pending" => step.fence \in Fences
    /\ context = (IF step.status = "completed" THEN 1 ELSE 0)

(* A call about to open a stream holds the plan that was sealed.           *)
OpensTheSealed ==
    \A p \in Calls : call[p].pc = "open" => plan = {call[p].plan}

SuccessionInv ==
    /\ HandoffTypeOK
    /\ StepAgrees
    /\ OpensTheSealed
    /\ OpenedAsSealed
    /\ HandoffIsFinal

-----------------------------------------------------------------------------
(* Requests, plans and openings by their fields.                           *)
LEMMA TaskFields ==
    ASSUME NEW c \in Tasks
    PROVE  /\ c.pc \in {"idle", "seal", "open"}
           /\ c.pc # "idle" => c.request \in Requests /\ c.plan \in Plans
           /\ c.pc = "open" => c.context \in Contexts
  BY DEF Tasks, NoTask

(* A call that ends, for whatever reason, disturbs nothing.                *)
LEMMA CallEnds ==
    ASSUME SuccessionInv, NEW p \in Calls,
           call' = [call EXCEPT ![p] = NoTask],
           UNCHANGED <<predecessor, plan, sealedFor, successor, refused>>
    PROVE  SuccessionInv'
  <1> USE DEF predecessor
  <1>1. \A q \in Calls : call'[q] = call[q] \/ call'[q] = NoTask
    BY DEF SuccessionInv, HandoffTypeOK
  <1>2. NoTask \in Tasks /\ NoTask.pc = "idle"
    BY DEF NoTask, Tasks
  <1>3. HandoffTypeOK'
    BY <1>1, <1>2 DEF SuccessionInv, HandoffTypeOK
  <1>4. OpensTheSealed'
    BY <1>1, <1>2 DEF SuccessionInv, OpensTheSealed
  <1>5. StepAgrees' /\ OpenedAsSealed' /\ HandoffIsFinal'
    BY DEF SuccessionInv, StepAgrees, OpenedAsSealed, HandoffIsFinal, Outstanding, HandoffTypeOK
  <1> QED
    BY <1>3, <1>4, <1>5 DEF SuccessionInv

(* The predecessor's own commands.                                         *)
LEMMA PredecessorStep ==
    ASSUME SuccessionInv, Claim \/ CompleteClaim \/ Lifecycle
    PROVE  SuccessionInv'
  <1>1. HandoffTypeOK' /\ StepAgrees'
    BY SuccessionAssumption DEF SuccessionInv, HandoffTypeOK, StepAgrees, Claim, CompleteClaim, Lifecycle, MayResume, Fences
  <1>2. OpensTheSealed' /\ OpenedAsSealed'
    BY DEF SuccessionInv, HandoffTypeOK, OpensTheSealed, OpenedAsSealed, Claim, CompleteClaim, Lifecycle
  <1>3. HandoffIsFinal'
    BY DEF SuccessionInv, HandoffTypeOK, HandoffIsFinal, Outstanding, Claim, CompleteClaim, Lifecycle, MayResume
  <1> QED
    BY <1>1, <1>2, <1>3 DEF SuccessionInv

(* A call builds a plan; nothing is written yet.                           *)
LEMMA BeginStep ==
    ASSUME SuccessionInv, NEW p \in Calls, NEW request \in Requests, Begin(p, request)
    PROVE  SuccessionInv'
  <1> DEFINE built == [id |-> request.id, by |-> Stamp(p, request.id),
                       carried |-> Carried(request), disposed |-> request.dispose]
             c == [pc |-> "seal", request |-> request, plan |-> built]
  <1>1. Stamp(p, request.id) \in Calls
    BY DEF Stamp, SuccessionInv, HandoffTypeOK, Plans
  <1>2. Carried(request) \in SUBSET Fences
    BY DEF Begin, Carries, Carried, SuccessionInv, StepAgrees
  <1>3. built \in Plans /\ built.id = request.id
    BY <1>1, <1>2 DEF Plans, Requests
  <1>4. c \in Tasks /\ c.pc = "seal" /\ c.plan.id = c.request.id
    BY <1>3 DEF Tasks
  <1> HIDE DEF built, c
  <1>5. call' = [call EXCEPT ![p] = c]
    BY DEF Begin, c, built
  <1>6. \A q \in Calls : call'[q] = call[q] \/ call'[q] = c
    BY <1>5 DEF SuccessionInv, HandoffTypeOK
  <1>7. HandoffTypeOK'
    BY <1>4, <1>5, <1>6 DEF SuccessionInv, HandoffTypeOK, Begin, predecessor
  <1>8. OpensTheSealed'
    BY <1>4, <1>6 DEF SuccessionInv, OpensTheSealed, Begin
  <1>9. StepAgrees' /\ OpenedAsSealed' /\ HandoffIsFinal'
    BY DEF SuccessionInv, StepAgrees, OpenedAsSealed, HandoffIsFinal, Outstanding, Begin, predecessor
  <1> QED
    BY <1>7, <1>8, <1>9 DEF SuccessionInv

(* The first append: the plan is sealed, found sealed, or refused.         *)
LEMMA SealStep ==
    ASSUME SuccessionInv, NEW p \in Calls, Seal(p)
    PROVE  SuccessionInv'
  <1> DEFINE c == call[p]
             context0 == IF c.request.override = {} THEN context
                         ELSE CHOOSE o \in c.request.override : TRUE
             d == [pc |-> "open", request |-> c.request, plan |-> c.plan, context |-> context0]
  <1>1. c \in Tasks /\ c.pc = "seal" /\ c.request \in Requests /\ c.plan \in Plans
        /\ c.plan.id = c.request.id
    <2>1. c \in Tasks /\ c.pc = "seal"
      BY DEF SuccessionInv, HandoffTypeOK, Seal
    <2> QED
      BY <2>1, TaskFields DEF SuccessionInv, HandoffTypeOK
  <1>2. context0 \in Contexts
    <2>1. c.request.override \in {{}} \cup { {o} : o \in Overrides }
      BY <1>1 DEF Requests
    <2>2. ASSUME NEW o \in Overrides, c.request.override = {o} PROVE context0 \in Contexts
      BY <2>2 DEF Contexts
    <2> QED
      BY <2>1, <2>2 DEF Contexts, SuccessionInv, HandoffTypeOK
  <1>3. d \in Tasks /\ d.pc = "open" /\ d.plan = c.plan /\ d.request = c.request
    BY <1>1, <1>2 DEF Tasks
  <1>4. CASE plan = {} /\ Decides(c.plan) /\ plan' = {c.plan} /\ sealedFor' = {c.request}
             /\ call' = [call EXCEPT ![p] = d]
    <2> HIDE DEF d, c, context0
    <2>0. UNCHANGED <<predecessor, successor, refused>>
      BY DEF Seal
    <2>1. \A q \in Calls : call'[q] = call[q] \/ call'[q] = d
      BY <1>4 DEF SuccessionInv, HandoffTypeOK
    <2>2. HandoffTypeOK'
      BY <1>1, <1>3, <1>4, <2>0, <2>1 DEF SuccessionInv, HandoffTypeOK, predecessor
    <2>3. OpensTheSealed'
      BY <1>3, <1>4, <2>1 DEF SuccessionInv, OpensTheSealed
    <2>4. OpenedAsSealed'
      BY <1>4, <2>0 DEF SuccessionInv, OpenedAsSealed
    <2>5. HandoffIsFinal'
      BY <1>4, <2>0 DEF HandoffIsFinal, Decides, EveryClaimIsDisposed, Outstanding, predecessor
    <2>6. StepAgrees'
      BY <2>0 DEF SuccessionInv, StepAgrees, predecessor
    <2> QED
      BY <2>2, <2>3, <2>4, <2>5, <2>6 DEF SuccessionInv
  <1>5. CASE IsSealedAs(c.plan) /\ call' = [call EXCEPT ![p] = d] /\ UNCHANGED <<plan, sealedFor>>
    <2> HIDE DEF d, c, context0
    <2>0. UNCHANGED <<predecessor, successor, refused>>
      BY DEF Seal
    <2>1. \A q \in Calls : call'[q] = call[q] \/ call'[q] = d
      BY <1>5 DEF SuccessionInv, HandoffTypeOK
    <2>2. HandoffTypeOK'
      BY <1>1, <1>3, <1>5, <2>0, <2>1 DEF SuccessionInv, HandoffTypeOK, predecessor
    <2>3. OpensTheSealed'
      BY <1>3, <1>5, <2>1 DEF SuccessionInv, OpensTheSealed, IsSealedAs
    <2>4. OpenedAsSealed' /\ HandoffIsFinal' /\ StepAgrees'
      BY <1>5, <2>0 DEF SuccessionInv, OpenedAsSealed, HandoffIsFinal, StepAgrees, Outstanding, predecessor
    <2> QED
      BY <2>2, <2>3, <2>4 DEF SuccessionInv
  <1>6. CASE call' = [call EXCEPT ![p] = NoTask] /\ UNCHANGED <<plan, sealedFor>>
    BY <1>6, CallEnds DEF Seal
  <1> QED
    BY <1>4, <1>5, <1>6 DEF Seal

(* The second append, or the verification of what is there.                *)
LEMMA OpenStep ==
    ASSUME SuccessionInv, NEW p \in Calls, Open(p)
    PROVE  SuccessionInv'
  <1> DEFINE c == call[p]
             opening == [plan |-> c.plan, context |-> c.context, request |-> c.request]
  <1>1. c \in Tasks /\ c.pc = "open"
    BY DEF SuccessionInv, HandoffTypeOK, Open
  <1>2. c.request \in Requests /\ c.plan \in Plans /\ c.context \in Contexts
    BY <1>1, TaskFields
  <1>3. opening \in Openings /\ opening.plan = c.plan
    BY <1>2 DEF Openings
  <1>4. c.plan.id \in PlanIds
    BY <1>2 DEF Plans
  <1>5. plan = {c.plan}
    BY <1>1 DEF SuccessionInv, OpensTheSealed
  <1>6. /\ successor' = IF successor[c.plan.id] = {}
                        THEN [successor EXCEPT ![c.plan.id] = {opening}] ELSE successor
        /\ refused' \in {refused, refused \cup {c.request}}
        /\ call' = [call EXCEPT ![p] = NoTask]
        /\ UNCHANGED <<phase, step, context, plan, sealedFor>>
    BY DEF Open, predecessor
  <1> HIDE DEF c, opening
  <1>7. \A q \in Calls : call'[q] = call[q] \/ call'[q] = NoTask
    BY <1>6 DEF SuccessionInv, HandoffTypeOK
  <1>8. NoTask \in Tasks /\ NoTask.pc = "idle"
    BY DEF NoTask, Tasks
  <1>9. \A id \in PlanIds : successor'[id] = successor[id] \/ successor'[id] = {opening}
    BY <1>4, <1>6 DEF SuccessionInv, HandoffTypeOK
  <1>10. HandoffTypeOK'
    <2>1. successor' \in [PlanIds -> SUBSET Openings]
      BY <1>3, <1>4, <1>6 DEF SuccessionInv, HandoffTypeOK
    <2>2. \A id \in PlanIds : \A s, t \in successor'[id] : s = t
      BY <1>9 DEF SuccessionInv, HandoffTypeOK
    <2>3. call' \in [Calls -> Tasks]
      BY <1>6, <1>8 DEF SuccessionInv, HandoffTypeOK
    <2>4. refused' \in SUBSET Requests
      BY <1>2, <1>6 DEF SuccessionInv, HandoffTypeOK
    <2> QED
      BY <1>6, <1>7, <1>8, <2>1, <2>2, <2>3, <2>4 DEF SuccessionInv, HandoffTypeOK
  <1>11. OpensTheSealed'
    BY <1>6, <1>7, <1>8 DEF SuccessionInv, OpensTheSealed
  <1>12. OpenedAsSealed'
    BY <1>3, <1>5, <1>6, <1>9 DEF SuccessionInv, OpenedAsSealed
  <1>13. StepAgrees' /\ HandoffIsFinal'
    BY <1>6 DEF SuccessionInv, StepAgrees, HandoffIsFinal, Outstanding
  <1> QED
    BY <1>10, <1>11, <1>12, <1>13 DEF SuccessionInv

-----------------------------------------------------------------------------
(* The invariant is inductive.                                             *)
THEOREM SuccessionInvariant == HandoffSpec => []SuccessionInv
  <1>1. HandoffInit => SuccessionInv
    BY SuccessionAssumption DEF HandoffInit, SuccessionInv, HandoffTypeOK, StepAgrees, OpensTheSealed,
       OpenedAsSealed, HandoffIsFinal, Outstanding, NoTask, Tasks, Fences
  <1>2. SuccessionInv /\ [HandoffNext]_handoffVars => SuccessionInv'
    <2> SUFFICES ASSUME SuccessionInv, [HandoffNext]_handoffVars PROVE SuccessionInv'
      OBVIOUS
    <2>1. CASE Claim \/ CompleteClaim \/ Lifecycle
      BY <2>1, PredecessorStep
    <2>2. ASSUME NEW p \in Calls, NEW request \in Requests, Begin(p, request)
          PROVE  SuccessionInv'
      BY <2>2, BeginStep
    <2>3. ASSUME NEW p \in Calls, Seal(p) PROVE SuccessionInv'
      BY <2>3, SealStep
    <2>4. ASSUME NEW p \in Calls, Open(p) PROVE SuccessionInv'
      BY <2>4, OpenStep
    <2>5. ASSUME NEW p \in Calls, Die(p) PROVE SuccessionInv'
      BY <2>5, CallEnds DEF Die
    <2>6. CASE UNCHANGED handoffVars
      BY <2>6 DEF handoffVars, predecessor, SuccessionInv, HandoffTypeOK, StepAgrees, OpensTheSealed,
         OpenedAsSealed, HandoffIsFinal, Outstanding
    <2> QED
      BY <2>1, <2>2, <2>3, <2>4, <2>5, <2>6 DEF HandoffNext
  <1> QED
    BY <1>1, <1>2, PTL DEF HandoffSpec

(* Every variable keeps its type, and no call holds a plan of another id.  *)
THEOREM SuccessionTypeCorrect == HandoffSpec => []HandoffTypeOK
  <1>1. SuccessionInv => HandoffTypeOK
    BY DEF SuccessionInv
  <1> QED
    BY <1>1, SuccessionInvariant, PTL

(* Whatever calls race, die and are repeated, a successor's stream exists  *)
(* only for the one plan its predecessor sealed.                           *)
THEOREM SuccessorsAreSealed == HandoffSpec => []OpenedAsSealed
  <1>1. SuccessionInv => OpenedAsSealed
    BY DEF SuccessionInv
  <1> QED
    BY <1>1, SuccessionInvariant, PTL

(* A ceremony that sealed its handoff admits no work again and holds no    *)
(* claim the plan did not answer for.                                      *)
THEOREM HandoffsAreFinal == HandoffSpec => []HandoffIsFinal
  <1>1. SuccessionInv => HandoffIsFinal
    BY DEF SuccessionInv
  <1> QED
    BY <1>1, SuccessionInvariant, PTL
=============================================================================
