--------------------------- MODULE OplogTailProofs ----------------------------
(***************************************************************************)
(* Proofs about OplogTail, for every value of its constants except Races,  *)
(* which is FALSE: a tailable cursor on the oplog skips no entry and       *)
(* returns no uncommitted one.  First what the operators on the cursor     *)
(* return; then the invariant and the steps that write entries; then that  *)
(* what the invariant says of the cursor stays true while they are         *)
(* written, and is true where the cursor begins and as it goes on.         *)
(***************************************************************************)
EXTENDS OplogTail, GTIDManagerProofs

\* The seconds each prover has for a leaf that names none.
USE SMTT(30), ZenonT(30)

-----------------------------------------------------------------------------
(* What the operators return: the least and the last of a set of entries,  *)
(* and the cursor after each operation on it.                              *)

\* The states of the cursor: of PartitionedCursor and its IndexCursor together.
Cursors == [pc : {"closed", "positioned", "reading", "next", "seek"}, start : GTIDs,
            inLast : BOOLEAN, ok : BOOLEAN, curr : GTIDs, end : GTIDs,
            buf : SUBSET GTIDs, pos : GTIDs]

LEMMA CursorTypes ==
    ASSUME NEW c \in Cursors
    PROVE  /\ c.curr \in GTIDs /\ c.pos \in GTIDs /\ c.end \in GTIDs /\ c.start \in GTIDs
           /\ c.inLast \in BOOLEAN /\ c.ok \in BOOLEAN /\ c.buf \subseteq GTIDs
  BY ZenonT(30) DEF Cursors

\* The order, one fact at a time.
LEMMA LeThenLe ==
    ASSUME NEW a \in GTIDs, NEW b \in GTIDs, NEW c \in GTIDs, Le(a, b), Le(b, c)
    PROVE  Le(a, c)
  BY ZenonT(30), LeFacts

LEMMA LeThenLt ==
    ASSUME NEW a \in GTIDs, NEW b \in GTIDs, NEW c \in GTIDs, Le(a, b), Lt(b, c)
    PROVE  Lt(a, c)
  BY ZenonT(30), LeFacts

LEMMA LtThenLe ==
    ASSUME NEW a \in GTIDs, NEW b \in GTIDs, NEW c \in GTIDs, Lt(a, b), Le(b, c)
    PROVE  Lt(a, c)
  BY ZenonT(30), LeFacts

LEMMA LeIsNotLt ==
    ASSUME NEW a \in GTIDs, NEW b \in GTIDs
    PROVE  Le(a, b) <=> ~ Lt(b, a)
  BY ZenonT(30), LeFacts, LtFacts

LEMMA ClosedFacts == Closed \in Cursors /\ Closed.pc = "closed"
  BY ZenonT(30), InitialFacts DEF Closed, Cursors

LEMMA InitialLt == ASSUME NEW g \in GTIDs, NEW h \in GTIDs, Lt(g, h)
                   PROVE  Lt(InitialGTID, h)
  BY DEF GTIDs, Lt, InitialGTID

LEMMA InitialLe == ASSUME NEW g \in GTIDs PROVE Le(InitialGTID, g)
  BY DEF GTIDs, Le, Lt, InitialGTID

-----------------------------------------------------------------------------
(* Least and last entries.                                                 *)

LEMMA BoundedAreGTIDs == BoundedGTIDs \subseteq GTIDs
  BY ConstantsAssumption DEF BoundedGTIDs, GTIDs

LEMMA MaxExists ==
    ASSUME NEW S \in SUBSET BoundedGTIDs, S # {}
    PROVE  \E g \in S : \A h \in S : Le(h, g)
<1>. DEFINE P == {g.primarySeqNo : g \in S}
<1>1. PICK p \in P : \A q \in P : q <= p
  <2>1. P \in SUBSET (0..MaxPrimarySeqNo) /\ P # {}
    BY ZenonT(30) DEF BoundedGTIDs
  <2>. QED
    BY ZenonT(30), <2>1, NatMax, ConstantsAssumption
<1>. DEFINE R == {g \in S : g.primarySeqNo = p}
            Q == {g.GTSeqNo : g \in R}
<1>2. PICK n \in Q : \A q \in Q : q <= n
  <2>1. Q \in SUBSET (0..MaxGTSeqNo) /\ Q # {}
    BY ZenonT(30), <1>1 DEF BoundedGTIDs
  <2>. QED
    BY ZenonT(30), <2>1, NatMax, ConstantsAssumption
<1>3. PICK g \in R : g.GTSeqNo = n
  BY ZenonT(30), <1>2
<1>4. ASSUME NEW h \in S PROVE Le(h, g)
  <2>1. /\ g \in GTIDs /\ h \in GTIDs
        /\ g.primarySeqNo = p /\ h.primarySeqNo <= p
    BY ZenonT(30), <1>1, <1>3, BoundedAreGTIDs
  <2>2. CASE h.primarySeqNo = p
    <3>1. h.GTSeqNo <= g.GTSeqNo
      BY ZenonT(30), <1>2, <1>3, <2>2
    <3>. QED
      BY <2>1, <2>2, <3>1 DEF Le, Lt, GTIDs
  <2>3. CASE h.primarySeqNo # p
    BY <2>1, <2>3 DEF Le, Lt, GTIDs
  <2>. QED
    BY ZenonT(30), <2>2, <2>3
<1>. QED
  BY ZenonT(30), <1>3, <1>4

LEMMA LastFacts ==
    ASSUME NEW S \in SUBSET BoundedGTIDs, S # {}
    PROVE  LastGTID(S) \in S /\ \A h \in S : Le(h, LastGTID(S))
  BY ZenonT(30), MaxExists DEF LastGTID

-----------------------------------------------------------------------------
(* What the operators of the cursor return.                                *)

LEMMA ReadingFacts ==
    ASSUME NEW c \in Cursors
    PROVE  /\ Reading(c) \in Cursors
           /\ Reading(c).pc = "reading"
           /\ Reading(c).start = c.start /\ Reading(c).inLast = c.inLast
           /\ Reading(c).ok = c.ok /\ Reading(c).curr = c.curr /\ Reading(c).end = c.end
           /\ Reading(c).buf = c.buf /\ Reading(c).pos = c.pos
  BY ZenonT(30) DEF Cursors, Reading

LEMMA CheckEndFacts ==
    ASSUME NEW c \in Cursors
    PROVE  /\ CheckEnd(c) \in Cursors
           /\ CheckEnd(c).pc = c.pc
           /\ CheckEnd(c).start = c.start /\ CheckEnd(c).inLast = c.inLast
           /\ CheckEnd(c).curr = c.curr /\ CheckEnd(c).end = c.end
           /\ CheckEnd(c).buf = c.buf /\ CheckEnd(c).pos = c.pos
           /\ CheckEnd(c).ok <=> c.ok /\ ~ (c.inLast /\ Le(c.end, c.curr))
  BY ZenonT(30) DEF Cursors, CheckEnd

LEMMA FetchedNothing ==
    ASSUME NEW c \in Cursors
    PROVE  /\ Fetched(c, {}) \in Cursors
           /\ Fetched(c, {}).pc = c.pc
           /\ Fetched(c, {}).start = c.start /\ Fetched(c, {}).inLast = c.inLast
           /\ ~ Fetched(c, {}).ok
           /\ Fetched(c, {}).curr = c.curr /\ Fetched(c, {}).end = c.end
           /\ Fetched(c, {}).buf = {} /\ Fetched(c, {}).pos = c.pos
<1>1. Fetched(c, {}) = [c EXCEPT !.ok = FALSE, !.buf = {}]
  BY ZenonT(30) DEF Fetched
<1>. QED
  BY <1>1, ZenonT(30) DEF Cursors

LEMMA FetchedRows ==
    ASSUME NEW c \in Cursors, NEW S \in SUBSET BoundedGTIDs, S # {}
    PROVE  /\ Fetched(c, S) \in Cursors
           /\ Fetched(c, S).pc = c.pc
           /\ Fetched(c, S).start = c.start /\ Fetched(c, S).inLast = c.inLast
           /\ Fetched(c, S).ok
           /\ Fetched(c, S).curr = MinGTID(S) /\ Fetched(c, S).end = c.end
           /\ Fetched(c, S).buf = S \ {MinGTID(S)}
           /\ Fetched(c, S).pos = LastGTID(S)
<1>1. MinGTID(S) \in GTIDs /\ LastGTID(S) \in GTIDs /\ S \ {MinGTID(S)} \in SUBSET GTIDs
  BY ZenonT(30), MinFacts, LastFacts, BoundedAreGTIDs
<1>. DEFINE m == MinGTID(S)
            l == LastGTID(S)
            b == S \ {m}
<1>2. Fetched(c, S) = [c EXCEPT !.ok = TRUE, !.curr = m, !.buf = b, !.pos = l]
  BY ZenonT(30) DEF Fetched
<1>3. m \in GTIDs /\ l \in GTIDs /\ b \in SUBSET GTIDs
  BY ZenonT(30), <1>1
<1>. HIDE DEF m, l, b
<1>4. /\ Fetched(c, S) \in Cursors
      /\ Fetched(c, S).pc = c.pc
      /\ Fetched(c, S).start = c.start /\ Fetched(c, S).inLast = c.inLast
      /\ Fetched(c, S).ok
      /\ Fetched(c, S).curr = m /\ Fetched(c, S).end = c.end
      /\ Fetched(c, S).buf = b /\ Fetched(c, S).pos = l
  BY <1>2, <1>3, ZenonT(30) DEF Cursors
<1>. QED
  BY ZenonT(30), <1>4 DEF m, l, b

\* findKey is on the first row of the partition from key on, with nothing in
\* the buffer, if there is one.
LEMMA FindKeyFacts ==
    ASSUME NEW c \in Cursors, NEW key \in GTIDs, rows \subseteq BoundedGTIDs
    PROVE  LET d == FindKey(c, key)
           IN  /\ d \in Cursors
               /\ d.pc = c.pc /\ d.start = c.start /\ d.inLast = c.inLast /\ d.end = c.end
               /\ d.buf = {}
               /\ d.ok => /\ d.curr \in Partition(c) /\ Le(key, d.curr)
                          /\ \A g \in Partition(c) : Le(key, g) => Le(d.curr, g)
                          /\ d.pos = d.curr
               /\ ~ d.ok => /\ \A g \in Partition(c) : ~ Le(key, g)
                            /\ d.curr = c.curr /\ d.pos = c.pos
<1>. DEFINE above == {g \in Partition(c) : Le(key, g)}
            m == MinGTID(above)
<1>1. above \in SUBSET BoundedGTIDs
  BY ZenonT(30) DEF Partition
<1>2. CASE above = {}
  <2>1. FindKey(c, key) = Fetched(c, {})
    BY ZenonT(30), <1>2 DEF FindKey
  <2>. QED
    BY ZenonT(30), <1>2, <2>1, FetchedNothing
<1>3. CASE above # {}
  <2>1. m \in above /\ \A g \in above : Le(m, g)
    BY ZenonT(30), <1>1, <1>3, MinFacts, BoundedAreGTIDs
  <2>2. FindKey(c, key) = Fetched(c, {m})
    BY ZenonT(30), <1>3 DEF FindKey
  <2>. HIDE DEF m
  <2>3. {m} \in SUBSET BoundedGTIDs /\ {m} # {} /\ {m} \in SUBSET GTIDs
    BY ZenonT(30), <1>1, <2>1, BoundedAreGTIDs
  <2>4. MinGTID({m}) = m /\ LastGTID({m}) = m
    BY ZenonT(30), <2>3, MinFacts, LastFacts
  <2>5. {m} \ {MinGTID({m})} = {}
    BY ZenonT(30), <2>4
  <2>. DEFINE d == Fetched(c, {m})
  <2>6. /\ d \in Cursors
        /\ d.pc = c.pc /\ d.start = c.start /\ d.inLast = c.inLast /\ d.end = c.end
        /\ d.ok /\ d.curr = m /\ d.pos = m /\ d.buf = {}
    BY ZenonT(30), <2>3, <2>4, <2>5, FetchedRows
  <2>. HIDE DEF d
  <2>. QED
    BY ZenonT(30), <2>1, <2>2, <2>6 DEF d
<1>. QED
  BY ZenonT(30), <1>2, <1>3

\* _advance is on the next row of the buffer, or on the first row after the last
\* one fetched, with a buffer of rows that follow without a gap.
LEMMA AdvancedFacts ==
    ASSUME NEW c \in Cursors, rows \subseteq BoundedGTIDs, NEW d \in Advanced(c)
    PROVE  /\ d \in Cursors
           /\ d.pc = c.pc /\ d.start = c.start /\ d.inLast = c.inLast /\ d.end = c.end
           /\ c.buf # {} => /\ d.ok /\ d.pos = c.pos
                            /\ d.curr \in c.buf /\ \A g \in c.buf : Le(d.curr, g)
                            /\ d.buf = c.buf \ {d.curr}
           /\ c.buf = {} /\ d.ok =>
                 /\ d.curr \in Partition(c) /\ Lt(c.pos, d.curr)
                 /\ \A g \in Partition(c) : Lt(c.pos, g) => Le(d.curr, g)
                 /\ d.pos \in d.buf \union {d.curr}
                 /\ d.buf = {g \in Partition(c) : Lt(d.curr, g) /\ Le(g, d.pos)}
           /\ c.buf = {} /\ ~ d.ok =>
                 /\ \A g \in Partition(c) : ~ Lt(c.pos, g)
                 /\ d.curr = c.curr /\ d.pos = c.pos /\ d.buf = {}
<1>1. CASE c.buf # {}
  <2>. DEFINE m == MinGTID(c.buf)
              b == c.buf \ {m}
  <2>1. c.buf \in SUBSET GTIDs
    BY ZenonT(30) DEF Cursors
  <2>2. m \in c.buf /\ m \in GTIDs /\ b \in SUBSET GTIDs /\ \A g \in c.buf : Le(m, g)
    BY ZenonT(30), <1>1, <2>1, MinFacts
  <2>3. d = [c EXCEPT !.ok = TRUE, !.curr = m, !.buf = b]
    BY <1>1, ZenonT(30) DEF Advanced
  <2>4. b = c.buf \ {m}
    BY ZenonT(30)
  <2>. HIDE DEF m, b
  <2>5. /\ d \in Cursors
        /\ d.pc = c.pc /\ d.start = c.start /\ d.inLast = c.inLast /\ d.end = c.end
        /\ d.ok = TRUE /\ d.curr = m /\ d.buf = b /\ d.pos = c.pos
    BY <2>2, <2>3, ZenonT(30) DEF Cursors
  <2>. QED
    BY ZenonT(30), <1>1, <2>2, <2>4, <2>5
<1>2. CASE c.buf = {}
  <2>. DEFINE after == {g \in Partition(c) : Lt(c.pos, g)}
  <2>1. PICK batch \in Batches(after) : d = Fetched(c, batch)
    BY <1>2, ZenonT(30) DEF Advanced
  <2>2. after \in SUBSET BoundedGTIDs /\ after \in SUBSET GTIDs
    BY ZenonT(30), BoundedAreGTIDs DEF Partition
  <2>3. CASE after = {}
    <3>1. batch = {}
      BY ZenonT(30), <2>1, <2>3 DEF Batches
    <3>2. d = Fetched(c, {})
      BY ZenonT(30), <2>1, <3>1
    <3>. QED
      BY ZenonT(30), <1>2, <2>3, <3>2, FetchedNothing
  <2>4. CASE after # {}
    <3>1. PICK last \in after : batch = {h \in after : Le(h, last)}
      BY ZenonT(30), <2>1, <2>4 DEF Batches
    <3>2. last \in batch /\ batch \in SUBSET BoundedGTIDs /\ batch \in SUBSET GTIDs
      BY ZenonT(30), <2>2, <3>1 DEF Le
    <3>3. LastGTID(batch) = last
      <4>1. LastGTID(batch) \in batch /\ Le(last, LastGTID(batch))
        BY ZenonT(30), <3>2, LastFacts
      <4>2. Le(LastGTID(batch), last)
        BY ZenonT(30), <3>1, <4>1
      <4>. QED
        BY ZenonT(30), <3>2, <4>1, <4>2, LeFacts
    <3>. DEFINE m == MinGTID(batch)
    <3>4. m \in batch /\ \A h \in batch : Le(m, h)
      BY ZenonT(30), <3>2, MinFacts
    <3>5. /\ d \in Cursors
          /\ d.pc = c.pc /\ d.start = c.start /\ d.inLast = c.inLast /\ d.end = c.end
          /\ d.ok /\ d.curr = m /\ d.pos = last /\ d.buf = batch \ {m}
      BY ZenonT(30), <2>1, <3>2, <3>3, FetchedRows
    <3>. HIDE DEF m
    <3>6. \A g \in after : Le(m, g)
      BY ZenonT(30), <2>2, <3>1, <3>2, <3>4, LeFacts DEF Le
    <3>7. batch \ {m} = {g \in Partition(c) : Lt(m, g) /\ Le(g, last)}
      <4>1. ASSUME NEW g \in batch \ {m}
            PROVE  g \in Partition(c) /\ Lt(m, g) /\ Le(g, last)
        BY ZenonT(30), <3>1, <3>4, <4>1 DEF Le
      <4>2. ASSUME NEW g \in Partition(c), Lt(m, g), Le(g, last)
            PROVE  g \in batch \ {m}
        <5>1. g \in GTIDs /\ c.pos \in GTIDs /\ m \in GTIDs /\ Lt(c.pos, m)
          BY ZenonT(30), <3>1, <3>2, <3>4, BoundedAreGTIDs DEF Partition, Cursors
        <5>2. Lt(c.pos, g) /\ g # m
          BY ZenonT(30), <4>2, <5>1, LtFacts
        <5>. QED
          BY ZenonT(30), <3>1, <4>2, <5>2
      <4>. QED
        BY ZenonT(30), <4>1, <4>2
    <3>8. last \in (batch \ {m}) \union {m}
      BY ZenonT(30), <3>2
    <3>. QED
      BY ZenonT(30), <1>2, <3>1, <3>4, <3>5, <3>6, <3>7, <3>8
  <2>. QED
    BY ZenonT(30), <2>3, <2>4
<1>. QED
  BY ZenonT(30), <1>1, <1>2

-----------------------------------------------------------------------------
(* The invariant of OplogTail, and the steps that write entries.  An entry *)
(* that is written is at or above minLiveGTID and above the closed         *)
(* partitions (Grows), so it cannot be behind what the cursor has          *)
(* returned; what is not committed is there as well.                       *)

-----------------------------------------------------------------------------
(* The inductive invariant: the entries, and what the cursor has returned. *)

\* Entries are within the bounds, so a set of them has a last one.
TailTypeOK ==
    /\ rows \union liveGTIDs \subseteq BoundedGTIDs
    /\ committed \subseteq rows
    /\ pivot \in GTIDs
    /\ cursor \in Cursors

\* An entry that is not committed is live or not noted yet, and then above all
\* that is; none is in the closed partitions.
EntriesInv ==
    /\ role = "startup" =>
          /\ rows = committed
          /\ cursor.pc = "closed"
          /\ ~ IsInitial(lastLiveGTID) => \A g \in rows : Le(g, lastLiveGTID)
    /\ role = "secondary" =>
          /\ \A g \in rows \ committed : Lt(lastLiveGTID, g)
          /\ \A g, h \in rows : Lt(lastLiveGTID, g) /\ Lt(lastLiveGTID, h) => g = h
    /\ role = "primary" =>
          /\ \A g \in rows : Le(g, lastLiveGTID)
          /\ rows \ committed \subseteq liveGTIDs
    /\ \A g \in rows \ committed : Lt(pivot, g)
    /\ \A g \in liveGTIDs : Lt(pivot, g)

\* Every entry from the start of cursor c up to one before g is in s, and every
\* such entry of the closed partitions is.
ReturnedBelow(c, s, g) == \A h \in rows : Le(c.start, h) /\ Lt(h, g) => h \in s

ReturnedClosed(c, s) == \A h \in rows : Le(c.start, h) /\ Le(h, pivot) => h \in s

\* The cursor is on the next entry to return, and its buffer has all those that
\* follow and that it may return.
OnRow(c, s) ==
    /\ c.curr \in Partition(c)
    /\ ReturnedBelow(c, s, c.curr)
    /\ c.buf \subseteq Partition(c)
    /\ \A g \in c.buf : Lt(c.curr, g) /\ Le(g, c.pos)
    /\ IF c.buf = {} THEN c.pos = c.curr ELSE c.pos \in c.buf
    /\ \A g \in rows :
          Lt(c.curr, g) /\ Le(g, c.pos) /\ (c.inLast => Lt(g, c.end)) => g \in c.buf

\* The cursor has returned all there was, and will go on after the last one.
Exhausted(c, s) ==
    /\ c.inLast
    /\ Lt(c.curr, c.end)
    /\ c.buf = {} /\ c.pos = c.curr
    /\ ReturnedClosed(c, s)
    /\ \A h \in rows : Le(c.start, h) /\ Le(h, c.pos) => h \in s

\* The cursor is beyond its end, with all before the end returned ...
Beyond(c, s) ==
    /\ c.curr \in rows /\ Lt(pivot, c.curr)
    /\ ReturnedClosed(c, s)
    /\ ReturnedBelow(c, s, c.end)

\* ... and on its way back there.
GoingBack(c, s) ==
    /\ c.inLast
    /\ Le(c.curr, minLiveGTID)
    /\ \E g \in rows : Lt(pivot, g) /\ Le(c.curr, g)
    /\ ReturnedClosed(c, s)
    /\ ReturnedBelow(c, s, c.curr)

\* The state of cursor c, by what it does next, when s is what it has returned.
CursorOK(c, s) ==
    /\ s \subseteq committed
    /\ \A g \in s : (Le(g, pivot) \/ Lt(g, minLiveGTID)) /\ ReturnedBelow(c, s, g)
    /\ c.pc = "closed" => s = {}
    /\ c.pc # "closed" /\ ~ c.inLast => Le(c.start, pivot)
    /\ c.pc = "positioned" /\ c.ok =>
          OnRow(c, s) /\ c.buf = {} /\ (c.inLast => Lt(c.curr, minLiveGTID))
    /\ c.pc = "positioned" /\ ~ c.ok =>
          /\ c.inLast /\ ReturnedClosed(c, s)
          /\ c.curr = InitialGTID /\ c.pos = InitialGTID /\ c.buf = {}
    /\ c.pc = "reading" /\ c.ok => OnRow(c, s) /\ (c.inLast => Lt(c.curr, c.end))
    /\ c.pc = "reading" /\ ~ c.ok =>
          IF ~ c.inLast THEN ReturnedClosed(c, s)
          ELSE IF Lt(c.curr, c.end) THEN Exhausted(c, s)
          ELSE Beyond(c, s)
    /\ c.pc = "next" => Exhausted(c, s)
    /\ c.pc = "seek" => GoingBack(c, s)
    /\ c.pc \in {"reading", "next", "seek"} /\ c.inLast => Le(c.end, minLiveGTID)

TailInv == EntriesInv /\ CursorOK(cursor, seen)

-----------------------------------------------------------------------------
(* The entries.                                                            *)

\* The manager takes its own steps.
LEMMA ManagerStep == [TailNext]_allVars => [Next]_vars
  BY ZenonT(30) DEF TailNext, Next, allVars, tailVars, BeginEntry, InsertEntry, CopyEntry, CommitEntry,
         EndEntry, NoteEntry, RestartMember, GoLiveMember, AssumePrimaryMember,
         RollbackMember, AddPartition, Open, SetTailable, Return, Refresh, FetchNext, Seek,
         EnterLastPartition

EInv == IInv /\ TailTypeOK /\ EntriesInv

LEMMA EntryTypes ==
    ASSUME EInv
    PROVE  /\ rows \subseteq GTIDs /\ committed \subseteq GTIDs /\ liveGTIDs \subseteq GTIDs
           /\ pivot \in GTIDs /\ minLiveGTID \in GTIDs /\ lastLiveGTID \in GTIDs
  BY ZenonT(30), BoundedAreGTIDs DEF EInv, TailTypeOK, IInv, TypeOK

\* What is below the bound is committed.
LEMMA BelowIsCommitted ==
    ASSUME EInv, NEW g \in rows, Lt(g, minLiveGTID)
    PROVE  g \in committed
<1>. SUFFICES ASSUME g \notin committed PROVE FALSE
  BY ZenonT(30)
<1>0. g \in GTIDs /\ minLiveGTID \in GTIDs /\ lastLiveGTID \in GTIDs
  BY ZenonT(30), EntryTypes
<1>1. CASE role = "startup"
  BY ZenonT(30), <1>1 DEF EInv, EntriesInv
<1>2. CASE role = "secondary"
  <2>1. Lt(lastLiveGTID, g) /\ minLiveGTID = Inc(lastLiveGTID)
    BY ZenonT(30), <1>2 DEF EInv, EntriesInv, IInv, ManagerInv, SecondaryInv
  <2>2. Le(minLiveGTID, g)
    BY ZenonT(30), <1>0, <2>1, IncFacts
  <2>. QED
    BY ZenonT(30), <1>0, <2>2, LeFacts, LtFacts
<1>3. CASE role = "primary"
  <2>1. Le(minLiveGTID, g)
    BY ZenonT(30), <1>3, CoversLive DEF EInv, EntriesInv, MinLiveCoversLive
  <2>. QED
    BY ZenonT(30), <1>0, <2>1, LeFacts, LtFacts
<1>. QED
  BY ZenonT(30), <1>1, <1>2, <1>3 DEF EInv, IInv, TypeOK, Roles

LEMMA BoundIsNotInitial ==
    ASSUME EInv
    PROVE  Lt(InitialGTID, minLiveGTID)
<1>1. CASE minLiveGTID = Inc(lastLiveGTID)
  BY ZenonT(30), <1>1, EntryTypes, IncFacts, InitialLt
<1>2. CASE minLiveGTID \in liveGTIDs
  BY ZenonT(30), <1>2, EntryTypes, InitialLt DEF EInv, EntriesInv
<1>. QED
  BY ZenonT(30), <1>1, <1>2 DEF EInv, IInv, TypeOK, Roles, ManagerInv, StartupInv, SecondaryInv,
                    PrimaryInv, IsMinOf

\* What a step may do to the entries while a cursor is open: those it adds are
\* at or above the bound and in the last partition.
Grows ==
    /\ rows \subseteq rows' /\ committed \subseteq committed'
    /\ \A g \in rows' \ rows : Le(minLiveGTID, g) /\ Lt(pivot, g)
    /\ Le(minLiveGTID, minLiveGTID')
    /\ pivot' = pivot

LEMMA BeginEntryStep ==
    ASSUME EInv, IInv', BeginEntry
    PROVE  TailTypeOK' /\ EntriesInv' /\ Grows
<1>1. /\ NextGTID \in BoundedGTIDs /\ role = "primary" /\ role' = "primary"
      /\ lastLiveGTID' = NextGTID /\ liveGTIDs' = liveGTIDs \union {NextGTID}
      /\ UNCHANGED <<rows, committed, pivot, cursor, seen>>
      /\ Lt(pivot, NextGTID)
  BY ZenonT(30) DEF BeginEntry, BeginCommit, GetGTIDForPrimary, tailVars, AboveUndone
<1>2. Lt(lastLiveGTID, NextGTID) /\ NextGTID \in GTIDs
  BY ZenonT(30), EntryTypes, NextGTIDFacts
<1>3. Le(minLiveGTID, minLiveGTID')
  BY ZenonT(30), CoversLive DEF BeginEntry, BeginCommit, GetGTIDForPrimary, EInv, MinLiveCoversLive, Le
<1>4. TailTypeOK'
  BY ZenonT(30), <1>1 DEF EInv, TailTypeOK
<1>5. \A g \in rows : Le(g, NextGTID)
  BY ZenonT(30), <1>1, <1>2, EntryTypes, LeFacts DEF EInv, EntriesInv, Le
<1>6. EntriesInv'
  BY ZenonT(30), <1>1, <1>5 DEF EInv, EntriesInv
<1>. QED
  BY ZenonT(30), <1>1, <1>3, <1>4, <1>6 DEF Grows

LEMMA InsertEntryStep ==
    ASSUME EInv, IInv', InsertEntry
    PROVE  TailTypeOK' /\ EntriesInv' /\ Grows
<1>1. PICK gtid \in liveGTIDs \ rows : rows' = rows \union {gtid}
  BY ZenonT(30) DEF InsertEntry
<1>2. UNCHANGED <<role, lastLiveGTID, minLiveGTID, liveGTIDs, committed, pivot, cursor>>
  BY ZenonT(30) DEF InsertEntry, vars, mgrVars
<1>3. role = "primary" /\ Le(gtid, lastLiveGTID) /\ Le(minLiveGTID, gtid) /\ Lt(pivot, gtid)
  <2>1. role = "primary"
    BY ZenonT(30), <1>1 DEF EInv, IInv, TypeOK, Roles, ManagerInv, StartupInv, SecondaryInv
  <2>. QED
    BY ZenonT(30), <1>1, <2>1, CoversLive
    DEF EInv, EntriesInv, IInv, ManagerInv, PrimaryInv, MinLiveCoversLive
<1>4. TailTypeOK'
  BY ZenonT(30), <1>1, <1>2 DEF EInv, TailTypeOK
<1>5. EntriesInv'
  BY ZenonT(30), <1>1, <1>2, <1>3 DEF EInv, EntriesInv
<1>6. Grows
  BY ZenonT(30), <1>1, <1>2, <1>3 DEF Grows, Le
<1>. QED
  BY ZenonT(30), <1>4, <1>5, <1>6

\* The member notes each entry before it writes the next: all it has are noted.
LEMMA AllNoted ==
    ASSUME EInv, rows = committed, lastLiveGTID = LastGTID(committed)
    PROVE  \A g \in rows : Le(g, lastLiveGTID)
<1>1. CASE rows = {}
  BY ZenonT(30), <1>1
<1>2. CASE rows # {}
  BY ZenonT(30), <1>2, LastFacts DEF EInv, TailTypeOK
<1>. QED
  BY ZenonT(30), <1>1, <1>2

LEMMA CopyEntryStep ==
    ASSUME EInv, IInv', CopyEntry
    PROVE  TailTypeOK' /\ EntriesInv' /\ Grows
<1>1. PICK gtid \in OplogGTIDs : /\ Lt(lastLiveGTID, gtid) /\ Lt(pivot, gtid)
                                 /\ rows' = rows \union {gtid}
  BY ZenonT(30) DEF CopyEntry, AboveUndone
<1>2. /\ UNCHANGED <<role, lastLiveGTID, minLiveGTID, liveGTIDs, committed, pivot, cursor>>
      /\ role = "secondary" /\ rows = committed
  BY ZenonT(30) DEF CopyEntry, vars, mgrVars
<1>3. gtid \in BoundedGTIDs /\ gtid \in GTIDs
  BY ZenonT(30), BoundedAreGTIDs DEF OplogGTIDs
<1>4. \A g \in rows : ~ Lt(lastLiveGTID, g)
  BY ZenonT(30), <1>2, AllNoted, EntryTypes, LeFacts, LtFacts DEF CopyEntry, Le
<1>5. Le(minLiveGTID, gtid)
  BY ZenonT(30), <1>1, <1>2, <1>3, EntryTypes, IncFacts DEF EInv, IInv, ManagerInv, SecondaryInv
<1>6. TailTypeOK'
  BY ZenonT(30), <1>1, <1>2, <1>3 DEF EInv, TailTypeOK
<1>7. EntriesInv'
  BY ZenonT(30), <1>1, <1>2, <1>4 DEF EInv, EntriesInv
<1>8. Grows
  BY ZenonT(30), <1>1, <1>2, <1>5 DEF Grows, Le
<1>. QED
  BY ZenonT(30), <1>6, <1>7, <1>8

LEMMA CommitEntryStep ==
    ASSUME EInv, IInv', CommitEntry
    PROVE  TailTypeOK' /\ EntriesInv' /\ Grows
<1>1. PICK gtid \in rows \ committed : committed' = committed \union {gtid}
  BY ZenonT(30) DEF CommitEntry
<1>2. UNCHANGED <<role, lastLiveGTID, minLiveGTID, liveGTIDs, rows, pivot, cursor>>
  BY ZenonT(30) DEF CommitEntry, vars, mgrVars
<1>. QED
  BY ZenonT(30), <1>1, <1>2 DEF EInv, TailTypeOK, EntriesInv, Grows, Le

LEMMA EndEntryStep ==
    ASSUME EInv, IInv', EndEntry
    PROVE  TailTypeOK' /\ EntriesInv' /\ Grows
<1>1. PICK gtid \in liveGTIDs : NoteLiveGTIDDone(gtid)
  BY ZenonT(30) DEF EndEntry, EndCommit
<1>2. /\ role = "primary" /\ role' = "primary" /\ lastLiveGTID' = lastLiveGTID
      /\ liveGTIDs' = liveGTIDs \ {gtid} /\ gtid \in committed
      /\ UNCHANGED <<rows, committed, pivot, cursor>>
  BY ZenonT(30), <1>1 DEF EndEntry, EndCommit, NoteLiveGTIDDone, tailVars
<1>3. Le(minLiveGTID, minLiveGTID')
  <2>1. Le(minLiveGTID, minLiveGTID') \/ Rollback \/ Restart \/ GoLive
    BY ZenonT(30), MinLiveStep DEF EndEntry, Next, EInv
  <2>. QED
    BY ZenonT(30), <1>2, <2>1 DEF Rollback, Restart, GoLive
<1>. QED
  BY ZenonT(30), <1>2, <1>3 DEF EInv, TailTypeOK, EntriesInv, Grows

LEMMA NoteEntryStep ==
    ASSUME EInv, IInv', NoteEntry
    PROVE  TailTypeOK' /\ EntriesInv' /\ Grows
<1>1. /\ role = "secondary" /\ role' = "secondary" /\ liveGTIDs' = liveGTIDs
      /\ UNCHANGED <<rows, committed, pivot, cursor>>
      /\ lastLiveGTID' \in committed /\ Lt(lastLiveGTID, lastLiveGTID')
  BY ZenonT(30) DEF NoteEntry, Produce, NoteGTIDAdded, tailVars
<1>2. Le(minLiveGTID, minLiveGTID')
  <2>1. Le(minLiveGTID, minLiveGTID') \/ Rollback \/ Restart \/ GoLive
    BY ZenonT(30), MinLiveStep DEF NoteEntry, Next, EInv
  <2>2. ~ Restart /\ ~ GoLive
    BY ZenonT(30), <1>1 DEF Restart, GoLive
  <2>3. ~ Rollback
    BY <1>1, EntryTypes, BoundedFacts, LeFacts, LtFacts
    DEF Rollback, ResetAfterInitialSync
  <2>. QED
    BY ZenonT(30), <2>1, <2>2, <2>3
<1>3. \A g \in rows : ~ Lt(lastLiveGTID', g)
  <2>. SUFFICES ASSUME NEW g \in rows, Lt(lastLiveGTID', g) PROVE FALSE
    BY ZenonT(30)
  <2>1. lastLiveGTID' \in rows /\ g \in GTIDs /\ lastLiveGTID \in GTIDs
        /\ lastLiveGTID' \in GTIDs
    BY ZenonT(30), <1>1, EntryTypes DEF EInv, TailTypeOK
  <2>2. Lt(lastLiveGTID, g)
    BY ZenonT(30), <1>1, <2>1, LtFacts
  <2>3. g = lastLiveGTID'
    BY ZenonT(30), <1>1, <2>1, <2>2 DEF EInv, EntriesInv
  <2>. QED
    BY ZenonT(30), <2>1, <2>3, LtFacts
<1>4. \A g \in rows \ committed : Lt(lastLiveGTID', g)
  <2>. SUFFICES ASSUME NEW g \in rows \ committed PROVE FALSE
    BY ZenonT(30)
  <2>1. Lt(lastLiveGTID, g) /\ lastLiveGTID' \in rows
    BY ZenonT(30), <1>1 DEF EInv, EntriesInv, TailTypeOK
  <2>. QED
    BY ZenonT(30), <1>1, <2>1 DEF EInv, EntriesInv
<1>. QED
  BY ZenonT(30), <1>1, <1>2, <1>3, <1>4 DEF EInv, TailTypeOK, EntriesInv, Grows

LEMMA AssumePrimaryStep ==
    ASSUME EInv, IInv', AssumePrimaryMember
    PROVE  TailTypeOK' /\ EntriesInv' /\ Grows
<1>1. /\ role' = "primary" /\ rows = committed
      /\ UNCHANGED <<lastLiveGTID, liveGTIDs, rows, committed, pivot, cursor>>
      /\ minLiveGTID' = minLiveGTID
  BY ZenonT(30) DEF AssumePrimaryMember, AssumePrimary, ResetManager, tailVars, EInv, IInv, ManagerInv,
         SecondaryInv
<1>2. \A g \in rows : Le(g, lastLiveGTID)
  BY ZenonT(30), AllNoted DEF AssumePrimaryMember
<1>. QED
  BY ZenonT(30), <1>1, <1>2 DEF EInv, TailTypeOK, EntriesInv, Grows, Le

\* The steps of the manager that concern no entry.
LEMMA OtherStep ==
    ASSUME EInv, IInv', StartAlone \/ Relinquish \/ StartApply \/ EndApply, UNCHANGED tailVars
    PROVE  TailTypeOK' /\ EntriesInv' /\ Grows
<1>1. /\ UNCHANGED <<lastLiveGTID, minLiveGTID, liveGTIDs, rows, committed, pivot, cursor>>
      /\ \/ role = "startup" /\ ~ IsInitial(lastLiveGTID) /\ role' = "primary"
         \/ role = "primary" /\ liveGTIDs = {} /\ role' = "secondary"
         \/ role = "secondary" /\ role' = "secondary"
  BY ZenonT(30) DEF StartAlone, CatchUnappliedToLive, Relinquish, mgrVars, StartApply, NoteApplyingGTID,
         EndApply, NoteGTIDApplied, tailVars
<1>2. TailTypeOK' /\ Grows
  BY ZenonT(30), <1>1 DEF EInv, TailTypeOK, Grows, Le
<1>3. \A g \in rows : Le(g, lastLiveGTID) => ~ Lt(lastLiveGTID, g)
  BY ZenonT(30), EntryTypes, LeFacts, LtFacts DEF Le
<1>4. EntriesInv'
  BY ZenonT(30), <1>1, <1>3 DEF EInv, EntriesInv
<1>. QED
  BY ZenonT(30), <1>2, <1>4

-----------------------------------------------------------------------------
(* Steps that leave no cursor open.                                        *)

LEMMA ClosedIsOK ==
    ASSUME cursor'.pc = "closed", seen' = {}
    PROVE  CursorOK(cursor, seen)'
  BY ZenonT(30) DEF CursorOK

LEMMA RestartStep ==
    ASSUME EInv, IInv', RestartMember
    PROVE  TailTypeOK' /\ TailInv'
<1>1. /\ role' = "startup" /\ liveGTIDs' = {}
      /\ rows' = committed /\ UNCHANGED <<committed, pivot>>
      /\ cursor' = Closed /\ seen' = {}
      /\ lastLiveGTID' = IF committed = {} THEN InitialGTID ELSE LastGTID(committed)
  BY ZenonT(30) DEF RestartMember, Restart, Construct, CloseCursor
<1>2. \A g \in rows' : Le(g, lastLiveGTID')
  BY ZenonT(30), <1>1, LastFacts DEF EInv, TailTypeOK
<1>3. TailTypeOK' /\ EntriesInv'
  BY ZenonT(30), <1>1, <1>2, ClosedFacts DEF EInv, TailTypeOK, EntriesInv
<1>. QED
  BY ZenonT(30), <1>1, <1>3, ClosedFacts, ClosedIsOK DEF TailInv

LEMMA GoLiveStep ==
    ASSUME EInv, CursorOK(cursor, seen), IInv', GoLiveMember
    PROVE  TailTypeOK' /\ TailInv'
<1>1. /\ role' = "secondary" /\ role = "startup" /\ liveGTIDs' = liveGTIDs
      /\ UNCHANGED <<pivot, cursor, seen>>
      /\ lastLiveGTID' \in OplogGTIDs
      /\ committed # {} => lastLiveGTID' = LastGTID(committed)
      /\ committed' = committed \union {lastLiveGTID'} /\ rows' = committed'
  BY ZenonT(30) DEF GoLiveMember, GoLive, ResetAfterInitialSync
<1>2. lastLiveGTID' \in BoundedGTIDs /\ lastLiveGTID' \in GTIDs
  BY ZenonT(30), <1>1, BoundedAreGTIDs DEF OplogGTIDs
<1>3. \A g \in rows' : Le(g, lastLiveGTID')
  BY ZenonT(30), <1>1, LastFacts DEF EInv, TailTypeOK, Le
<1>4. rows' \subseteq BoundedGTIDs /\ rows' \subseteq GTIDs
  BY ZenonT(30), <1>1, <1>2, BoundedAreGTIDs DEF EInv, TailTypeOK
<1>5. \A g \in rows' : ~ Lt(lastLiveGTID', g)
  BY ZenonT(30), <1>2, <1>3, <1>4, LeFacts, LtFacts
<1>6. TailTypeOK' /\ EntriesInv'
  BY ZenonT(30), <1>1, <1>4, <1>5 DEF EInv, TailTypeOK, EntriesInv
<1>7. cursor'.pc = "closed" /\ seen' = {}
  BY ZenonT(30), <1>1 DEF EInv, EntriesInv, CursorOK
<1>. QED
  BY ZenonT(30), <1>6, <1>7, ClosedIsOK DEF TailInv

LEMMA RollbackStep ==
    ASSUME EInv, IInv', RollbackMember
    PROVE  TailTypeOK' /\ TailInv'
<1>1. /\ role' = "secondary" /\ liveGTIDs' = {} /\ rows = committed
      /\ committed' = {g \in committed : Le(g, lastLiveGTID')} /\ rows' = committed'
      /\ cursor' = Closed /\ seen' = {} /\ pivot' = pivot
      /\ lastLiveGTID' \in committed
  BY ZenonT(30) DEF RollbackMember, Rollback, ResetAfterInitialSync, CloseCursor, EInv, IInv, ManagerInv,
         SecondaryInv
<1>2. rows' \subseteq GTIDs /\ lastLiveGTID' \in GTIDs
  BY ZenonT(30), <1>1, EntryTypes
<1>3. \A g \in rows' : ~ Lt(lastLiveGTID', g)
  BY ZenonT(30), <1>1, <1>2, LeFacts, LtFacts
<1>4. TailTypeOK' /\ EntriesInv'
  BY ZenonT(30), <1>1, <1>3, ClosedFacts DEF EInv, TailTypeOK, EntriesInv
<1>. QED
  BY ZenonT(30), <1>1, <1>4, ClosedFacts, ClosedIsOK DEF TailInv

LEMMA AddPartitionStep ==
    ASSUME ~ Races, EInv, IInv', AddPartition
    PROVE  TailTypeOK' /\ TailInv'
<1>1. /\ UNCHANGED <<role, lastLiveGTID, liveGTIDs, rows, committed>>
      /\ rows # {} /\ rows = committed /\ liveGTIDs = {}
      /\ pivot' = LastGTID(rows) /\ cursor' = Closed /\ seen' = {}
  BY ZenonT(30) DEF AddPartition, vars, mgrVars, CloseCursor
<1>2. pivot' \in GTIDs
  BY ZenonT(30), <1>1, LastFacts, EntryTypes DEF EInv, TailTypeOK
<1>3. TailTypeOK' /\ EntriesInv'
  BY ZenonT(30), <1>1, <1>2, ClosedFacts DEF EInv, TailTypeOK, EntriesInv
<1>. QED
  BY ZenonT(30), <1>1, <1>3, ClosedFacts, ClosedIsOK DEF TailInv

LEMMA TailInitInv ==
    ASSUME TailInit
    PROVE  IInv /\ TailTypeOK /\ TailInv
<1>1. IInv
  BY ZenonT(30), InitIInv DEF TailInit
<1>2. committed \subseteq BoundedGTIDs
  BY ConstantsAssumption, TailAssumption DEF TailInit, BoundedGTIDs
<1>3. TailTypeOK
  BY ZenonT(30), <1>2, ClosedFacts, InitialFacts DEF TailInit, Init, TailTypeOK
<1>4. EntriesInv
  BY ZenonT(30), ClosedFacts, InitialFacts DEF TailInit, Init, EntriesInv
<1>5. CursorOK(cursor, seen)
  BY ZenonT(30), ClosedFacts DEF TailInit, CursorOK
<1>. QED
  BY ZenonT(30), <1>1, <1>3, <1>4, <1>5 DEF TailInv

-----------------------------------------------------------------------------
(* What the invariant says of the cursor (CursorOK) stays true while       *)
(* entries are written, and is true where the cursor begins.               *)

-----------------------------------------------------------------------------
(* The cursor while entries are written.                                   *)

\* What was returned below some point that new entries are not below.
LEMMA StillReturned ==
    ASSUME Grows, NEW c, NEW s, NEW g \in GTIDs, EInv, rows' \subseteq GTIDs,
           minLiveGTID' \in GTIDs,
           Le(g, minLiveGTID) \/ Le(g, pivot), ReturnedBelow(c, s, g)
    PROVE  ReturnedBelow(c, s, g)'
  BY ZenonT(30), EntryTypes, LeFacts, LtFacts DEF Grows, ReturnedBelow

LEMMA StillReturnedClosed ==
    ASSUME Grows, NEW c, NEW s, EInv, rows' \subseteq GTIDs, ReturnedClosed(c, s)
    PROVE  ReturnedClosed(c, s)'
  BY ZenonT(30), EntryTypes, LeFacts, LtFacts DEF Grows, ReturnedClosed

LEMMA StillOnRow ==
    ASSUME Grows, NEW c \in Cursors, NEW s, EInv, rows' \subseteq GTIDs, minLiveGTID' \in GTIDs,
           OnRow(c, s),
           c.inLast => \/ Lt(c.curr, c.end) /\ Le(c.end, minLiveGTID)
                       \/ c.buf = {} /\ Lt(c.curr, minLiveGTID)
    PROVE  OnRow(c, s)'
<1>0. /\ c.curr \in GTIDs /\ c.pos \in GTIDs /\ c.end \in GTIDs /\ c.inLast \in BOOLEAN
      /\ pivot \in GTIDs /\ minLiveGTID \in GTIDs /\ rows \subseteq GTIDs /\ pivot' = pivot
  BY ZenonT(30), EntryTypes DEF Cursors, Grows
<1>1. c.curr \in Partition(c) /\ c.buf \subseteq Partition(c) /\ c.pos \in Partition(c)
  BY ZenonT(30) DEF OnRow
<1>2. Partition(c) \subseteq Partition(c)'
  BY ZenonT(30) DEF Grows, Partition
<1>3. ReturnedBelow(c, s, c.curr)'
  <2>1. Le(c.curr, minLiveGTID) \/ Le(c.curr, pivot)
    <3>1. CASE c.inLast
      BY ZenonT(30), <1>0, <3>1, LeFacts DEF Le
    <3>2. CASE ~ c.inLast
      BY ZenonT(30), <1>0, <1>1, <3>2, LeFacts DEF Partition
    <3>. QED
      BY ZenonT(30), <3>1, <3>2
  <2>. QED
    BY ZenonT(30), <1>0, <2>1, StillReturned DEF OnRow
<1>4. ASSUME NEW g \in rows', Lt(c.curr, g), Le(g, c.pos), c.inLast => Lt(g, c.end)
      PROVE  g \in c.buf
  <2>1. CASE g \in rows
    BY ZenonT(30), <1>4, <2>1 DEF OnRow
  <2>2. CASE g \notin rows
    <3>1. g \in GTIDs /\ Le(minLiveGTID, g) /\ Lt(pivot, g)
      BY ZenonT(30), <1>4, <2>2 DEF Grows
    <3>2. CASE ~ c.inLast
      <4>1. Le(c.pos, pivot)
        BY ZenonT(30), <1>0, <1>1, <3>2, LeIsNotLt DEF Partition
      <4>2. Le(g, pivot)
        BY ZenonT(30), <1>0, <1>4, <3>1, <4>1, LeThenLe
      <4>. QED
        BY ZenonT(30), <1>0, <3>1, <4>2, LeIsNotLt
    <3>3. CASE c.inLast /\ Le(c.end, minLiveGTID)
      <4>1. Lt(g, minLiveGTID)
        BY ZenonT(30), <1>0, <1>4, <3>1, <3>3, LtThenLe
      <4>. QED
        BY ZenonT(30), <1>0, <3>1, <4>1, LeIsNotLt
    <3>4. CASE c.inLast /\ c.buf = {} /\ Lt(c.curr, minLiveGTID)
      <4>1. c.pos = c.curr
        BY ZenonT(30), <3>4 DEF OnRow
      <4>. QED
        BY ZenonT(30), <1>0, <1>4, <3>1, <4>1, LeIsNotLt
    <3>. QED
      BY ZenonT(30), <3>2, <3>3, <3>4
  <2>. QED
    BY ZenonT(30), <2>1, <2>2
<1>. QED
  BY ZenonT(30), <1>1, <1>2, <1>3, <1>4 DEF OnRow

LEMMA StillExhausted ==
    ASSUME Grows, NEW c \in Cursors, NEW s, EInv, rows' \subseteq GTIDs, minLiveGTID' \in GTIDs,
           Exhausted(c, s), Le(c.end, minLiveGTID)
    PROVE  Exhausted(c, s)'
<1>0. /\ c.curr \in GTIDs /\ c.pos \in GTIDs /\ c.end \in GTIDs
      /\ minLiveGTID \in GTIDs
  BY ZenonT(30), EntryTypes DEF Cursors
<1>1. ReturnedClosed(c, s)'
  BY ZenonT(30), StillReturnedClosed DEF Exhausted
<1>2. ASSUME NEW h \in rows', Le(c.start, h), Le(h, c.pos)
      PROVE  h \in s
  <2>1. CASE h \in rows
    BY ZenonT(30), <1>2, <2>1 DEF Exhausted
  <2>2. CASE h \notin rows
    <3>1. h \in GTIDs /\ Le(minLiveGTID, h) /\ Lt(c.pos, c.end)
      BY ZenonT(30), <1>2, <2>2 DEF Grows, Exhausted
    <3>. QED
      BY <1>0, <1>2, <3>1, LeFacts, LtFacts
  <2>. QED
    BY ZenonT(30), <2>1, <2>2
<1>. QED
  BY ZenonT(30), <1>1, <1>2 DEF Exhausted

LEMMA StillOK ==
    ASSUME Grows, NEW c \in Cursors, NEW s \in SUBSET GTIDs, EInv, rows' \subseteq GTIDs,
           minLiveGTID' \in GTIDs, CursorOK(c, s)
    PROVE  CursorOK(c, s)'
<1>0. /\ c.curr \in GTIDs /\ c.pos \in GTIDs /\ c.end \in GTIDs /\ c.inLast \in BOOLEAN
      /\ minLiveGTID \in GTIDs /\ pivot \in GTIDs
      /\ pivot' = pivot /\ Le(minLiveGTID, minLiveGTID')
  BY ZenonT(30), EntryTypes DEF Cursors, Grows
<1>1. s \subseteq committed'
  BY ZenonT(30) DEF CursorOK, Grows
<1>2. \A g \in s : (Le(g, pivot) \/ Lt(g, minLiveGTID))' /\ ReturnedBelow(c, s, g)'
  <2>. SUFFICES ASSUME NEW g \in s
                PROVE  (Le(g, pivot) \/ Lt(g, minLiveGTID))' /\ ReturnedBelow(c, s, g)'
    BY ZenonT(30)
  <2>1. (Le(g, pivot) \/ Lt(g, minLiveGTID)) /\ ReturnedBelow(c, s, g) /\ g \in GTIDs
    BY ZenonT(30) DEF CursorOK
  <2>2. ReturnedBelow(c, s, g)'
    BY ZenonT(30), <2>1, StillReturned DEF Le
  <2>3. Le(g, pivot) \/ Lt(g, minLiveGTID')
    BY ZenonT(30), <1>0, <2>1, LeFacts
  <2>. QED
    BY ZenonT(30), <1>0, <2>2, <2>3 DEF Le
<1>3. c.pc = "positioned" /\ c.ok =>
          OnRow(c, s)' /\ c.buf = {} /\ (c.inLast => Lt(c.curr, minLiveGTID'))
  <2>. SUFFICES ASSUME c.pc = "positioned", c.ok
                PROVE  OnRow(c, s)' /\ c.buf = {} /\ (c.inLast => Lt(c.curr, minLiveGTID'))
    BY ZenonT(30)
  <2>1. OnRow(c, s) /\ c.buf = {} /\ (c.inLast => Lt(c.curr, minLiveGTID))
    BY ZenonT(30) DEF CursorOK
  <2>. QED
    BY ZenonT(30), <1>0, <2>1, StillOnRow, LeFacts
<1>4. c.pc = "positioned" /\ ~ c.ok =>
          /\ c.inLast /\ ReturnedClosed(c, s)'
          /\ c.curr = InitialGTID /\ c.pos = InitialGTID /\ c.buf = {}
  BY ZenonT(30), StillReturnedClosed DEF CursorOK
<1>5. c.pc \in {"reading", "next", "seek"} /\ c.inLast =>
          Le(c.end, minLiveGTID) /\ Le(c.end, minLiveGTID')
  BY ZenonT(30), <1>0, LeFacts DEF CursorOK
<1>6. c.pc = "reading" /\ c.ok => OnRow(c, s)' /\ (c.inLast => Lt(c.curr, c.end))
  <2>. SUFFICES ASSUME c.pc = "reading", c.ok
                PROVE  OnRow(c, s)' /\ (c.inLast => Lt(c.curr, c.end))
    BY ZenonT(30)
  <2>1. OnRow(c, s) /\ (c.inLast => Lt(c.curr, c.end))
    BY ZenonT(30) DEF CursorOK
  <2>. QED
    BY ZenonT(30), <1>5, <2>1, StillOnRow
<1>7. c.pc = "reading" /\ ~ c.ok =>
          IF ~ c.inLast THEN ReturnedClosed(c, s)'
          ELSE IF Lt(c.curr, c.end) THEN Exhausted(c, s)'
          ELSE Beyond(c, s)'
  <2>. SUFFICES ASSUME c.pc = "reading", ~ c.ok
                PROVE  IF ~ c.inLast THEN ReturnedClosed(c, s)'
                       ELSE IF Lt(c.curr, c.end) THEN Exhausted(c, s)'
                       ELSE Beyond(c, s)'
    BY ZenonT(30)
  <2>1. CASE ~ c.inLast
    BY ZenonT(30), <2>1, StillReturnedClosed DEF CursorOK
  <2>2. CASE c.inLast /\ Lt(c.curr, c.end)
    BY ZenonT(30), <1>5, <2>2, StillExhausted DEF CursorOK
  <2>3. CASE c.inLast /\ ~ Lt(c.curr, c.end)
    <3>1. Beyond(c, s)
      BY ZenonT(30), <2>3 DEF CursorOK
    <3>2. ReturnedClosed(c, s)' /\ ReturnedBelow(c, s, c.end)'
      BY ZenonT(30), <1>0, <1>5, <2>3, <3>1, StillReturnedClosed, StillReturned DEF Beyond
    <3>. QED
      BY ZenonT(30), <2>3, <3>1, <3>2 DEF Beyond, Grows
  <2>. QED
    BY ZenonT(30), <2>1, <2>2, <2>3
<1>8. c.pc = "next" => Exhausted(c, s)'
  <2>1. c.pc = "next" => Exhausted(c, s) /\ Le(c.end, minLiveGTID)
    BY ZenonT(30), <1>5 DEF CursorOK, Exhausted
  <2>. QED
    BY ZenonT(30), <2>1, StillExhausted
<1>9. c.pc = "seek" => GoingBack(c, s)'
  <2>. SUFFICES ASSUME c.pc = "seek" PROVE GoingBack(c, s)'
    BY ZenonT(30)
  <2>1. GoingBack(c, s)
    BY ZenonT(30) DEF CursorOK
  <2>2. ReturnedClosed(c, s)' /\ ReturnedBelow(c, s, c.curr)'
    BY ZenonT(30), <1>0, <2>1, StillReturnedClosed, StillReturned DEF GoingBack
  <2>3. Le(c.curr, minLiveGTID')
    BY ZenonT(30), <1>0, <2>1, LeFacts DEF GoingBack
  <2>. QED
    BY ZenonT(30), <2>1, <2>2, <2>3 DEF GoingBack, Grows
<1>10. /\ c.pc = "closed" => s = {}
       /\ c.pc # "closed" /\ ~ c.inLast => Le(c.start, pivot')
  BY ZenonT(30), <1>0 DEF CursorOK
<1>. QED
  BY ZenonT(30), <1>1, <1>2, <1>3, <1>4, <1>5, <1>6, <1>7, <1>8, <1>9, <1>10 DEF CursorOK

-----------------------------------------------------------------------------
(* The first position, and the bound.                                      *)

\* What may have been returned.
Returned(c, s) ==
    /\ s \subseteq committed
    /\ \A g \in s : (Le(g, pivot) \/ Lt(g, minLiveGTID)) /\ ReturnedBelow(c, s, g)

LEMMA PartitionFacts ==
    ASSUME EInv, NEW c \in Cursors
    PROVE  /\ Partition(c) \subseteq rows /\ Partition(c) \subseteq GTIDs
           /\ c.inLast => \A g \in rows : g \in Partition(c) <=> Lt(pivot, g)
           /\ ~ c.inLast => \A g \in rows : g \in Partition(c) <=> Le(g, pivot)
<1>1. rows \subseteq GTIDs /\ pivot \in GTIDs /\ c.inLast \in BOOLEAN
  BY ZenonT(30), EntryTypes, CursorTypes
<1>2. \A g \in rows : Lt(pivot, g) \in BOOLEAN /\ (~ Lt(pivot, g) <=> Le(g, pivot))
  BY ZenonT(30), <1>1, LeFacts, LtFacts DEF Lt
<1>. QED
  BY ZenonT(30), <1>1, <1>2 DEF Partition

\* The cursor looks at its bound, and is beyond it ...
LEMMA CheckEndBeyond ==
    ASSUME EInv, NEW d \in Cursors, NEW s, Returned(d, s), d.pc = "reading", d.ok, d.inLast,
           Le(d.end, d.curr), Le(d.end, minLiveGTID), d.curr \in Partition(d),
           ReturnedClosed(d, s), ReturnedBelow(d, s, d.end)
    PROVE  CursorOK(CheckEnd(d), s)
<1>. DEFINE e == CheckEnd(d)
<1>1. /\ e.pc = "reading" /\ e.start = d.start /\ e.inLast /\ ~ e.ok
      /\ e.curr = d.curr /\ e.end = d.end
  BY ZenonT(30), CheckEndFacts
<1>. HIDE DEF e
<1>2. ~ Lt(d.curr, d.end)
  BY ZenonT(30), CursorTypes, LeIsNotLt
<1>3. d.curr \in rows /\ Lt(pivot, d.curr)
  BY ZenonT(30), PartitionFacts
<1>4. Beyond(e, s)
  BY ZenonT(30), <1>1, <1>3 DEF Beyond, ReturnedBelow, ReturnedClosed
<1>5. Returned(e, s)
  BY ZenonT(30), <1>1 DEF Returned, ReturnedBelow
<1>6. CursorOK(e, s)
  BY ZenonT(30), <1>1, <1>2, <1>4, <1>5 DEF CursorOK, Returned
<1>. QED
  BY ZenonT(30), <1>6 DEF e

\* ... or on the next row to return.
LEMMA CheckEndOnRow ==
    ASSUME EInv, NEW d \in Cursors, NEW s, Returned(d, s), OnRow(d, s),
           d.pc = "reading", d.ok,
           ~ d.inLast => Le(d.start, pivot), d.inLast => Le(d.end, minLiveGTID)
    PROVE  CursorOK(CheckEnd(d), s)
<1>0. /\ d.curr \in GTIDs /\ d.end \in GTIDs /\ d.inLast \in BOOLEAN
      /\ pivot \in GTIDs /\ rows \subseteq GTIDs
  BY ZenonT(30), CursorTypes, EntryTypes
<1>1. CASE d.inLast /\ Le(d.end, d.curr)
  <2>1. d.curr \in Partition(d) /\ Lt(pivot, d.curr)
    BY ZenonT(30), <1>1, PartitionFacts DEF OnRow
  <2>2. ReturnedClosed(d, s) /\ ReturnedBelow(d, s, d.end)
    <3>1. \A h \in rows : Le(d.start, h) /\ Lt(h, d.curr) => h \in s
      BY ZenonT(30) DEF OnRow, ReturnedBelow
    <3>2. \A h \in rows : Le(h, pivot) => Lt(h, d.curr)
      BY ZenonT(30), <1>0, <2>1, LeThenLt
    <3>3. \A h \in rows : Lt(h, d.end) => Lt(h, d.curr)
      BY ZenonT(30), <1>0, <1>1, LtThenLe
    <3>. QED
      BY ZenonT(30), <3>1, <3>2, <3>3 DEF ReturnedBelow, ReturnedClosed
  <2>. QED
    BY ZenonT(30), <1>1, <2>1, <2>2, CheckEndBeyond
<1>2. CASE ~ (d.inLast /\ Le(d.end, d.curr))
  <2>1. CheckEnd(d) = d
    BY ZenonT(30), <1>2 DEF CheckEnd
  <2>2. d.inLast => Lt(d.curr, d.end)
    BY ZenonT(30), <1>0, <1>2, LeFacts
  <2>3. CursorOK(d, s)
    BY ZenonT(30), <2>2 DEF CursorOK, Returned
  <2>. QED
    BY ZenonT(30), <2>1, <2>3
<1>. QED
  BY ZenonT(30), <1>1, <1>2

\* The cursor is on no row.
LEMMA CheckEndAtEnd ==
    ASSUME EInv, NEW d \in Cursors, NEW s, Returned(d, s), d.pc = "reading", ~ d.ok,
           ~ d.inLast => Le(d.start, pivot) /\ ReturnedClosed(d, s),
           d.inLast => Exhausted(d, s) /\ Le(d.end, minLiveGTID)
    PROVE  CursorOK(CheckEnd(d), s)
<1>1. CheckEnd(d) = d
  BY ZenonT(30) DEF CheckEnd
<1>2. CursorOK(d, s)
  BY ZenonT(30) DEF CursorOK, Returned, Exhausted
<1>. QED
  BY ZenonT(30), <1>1, <1>2

\* A cursor that was just made: on the first row of the partition from start on,
\* if there is one.
IsSubCursor(d, start, inLast) ==
    /\ d \in Cursors
    /\ d.pc = "positioned" /\ d.start = start /\ d.inLast = inLast /\ d.buf = {}
    /\ d.ok => /\ d.curr \in Partition(d) /\ Le(start, d.curr) /\ d.pos = d.curr
               /\ \A g \in Partition(d) : Le(start, g) => Le(d.curr, g)
    /\ ~ d.ok => /\ \A g \in Partition(d) : ~ Le(start, g)
                 /\ d.curr = InitialGTID /\ d.pos = InitialGTID

LEMMA MakeSubCursorFacts ==
    ASSUME EInv, NEW start \in GTIDs, NEW inLast \in BOOLEAN
    PROVE  IsSubCursor(MakeSubCursor(start, inLast), start, inLast)
<1>. DEFINE d == MakeSubCursor(start, inLast)
            c == [Closed EXCEPT !.pc = "positioned", !.start = start, !.inLast = inLast]
<1>1. Closed \in Cursors /\ Closed.curr = InitialGTID /\ Closed.pos = InitialGTID
  BY ZenonT(30), ClosedFacts DEF Closed
<1>2. /\ c \in Cursors
      /\ c.pc = "positioned" /\ c.start = start /\ c.inLast = inLast
      /\ c.curr = Closed.curr /\ c.pos = Closed.pos
  BY <1>1, ZenonT(30) DEF Cursors
<1>3. d = FindKey(c, start)
  BY ZenonT(30) DEF MakeSubCursor
<1>. HIDE DEF c, d
<1>4. rows \subseteq BoundedGTIDs
  BY ZenonT(30) DEF EInv, TailTypeOK
<1>5. /\ d \in Cursors
      /\ d.pc = c.pc /\ d.start = c.start /\ d.inLast = c.inLast /\ d.end = c.end
      /\ d.buf = {}
      /\ d.ok => /\ d.curr \in Partition(c) /\ Le(start, d.curr)
                 /\ \A g \in Partition(c) : Le(start, g) => Le(d.curr, g)
                 /\ d.pos = d.curr
      /\ ~ d.ok => /\ \A g \in Partition(c) : ~ Le(start, g)
                   /\ d.curr = c.curr /\ d.pos = c.pos
  BY <1>2, <1>3, <1>4, FindKeyFacts
<1>6. Partition(d) = Partition(c)
  BY ZenonT(30), <1>5 DEF Partition
<1>7. IsSubCursor(d, start, inLast)
  BY ZenonT(30), <1>1, <1>2, <1>5, <1>6 DEF IsSubCursor
<1>. QED
  BY ZenonT(30), <1>7 DEF d

\* The query is at its first entry.
LEMMA OpenOK ==
    ASSUME EInv, NEW gtid \in committed, Lt(gtid, minLiveGTID),
           NEW d, IsSubCursor(d, gtid, Lt(pivot, gtid))
    PROVE  CursorOK(d, {})
<1>1. gtid \in rows /\ gtid \in GTIDs /\ pivot \in GTIDs /\ Lt(pivot, gtid) \in BOOLEAN
  BY ZenonT(30), EntryTypes DEF EInv, TailTypeOK, Lt
<1>2. /\ d \in Cursors
      /\ d.pc = "positioned" /\ d.start = gtid /\ d.inLast = Lt(pivot, gtid) /\ d.buf = {}
      /\ d.ok => /\ d.curr \in Partition(d) /\ Le(gtid, d.curr) /\ d.pos = d.curr
                 /\ \A g \in Partition(d) : Le(gtid, g) => Le(d.curr, g)
      /\ ~ d.ok => \A g \in Partition(d) : ~ Le(gtid, g)
  BY ZenonT(30) DEF IsSubCursor
<1>3. gtid \in Partition(d)
  BY ZenonT(30), <1>1, <1>2 DEF Partition
<1>4. d.ok /\ d.curr = gtid
  <2>1. Le(gtid, gtid) /\ d.curr \in GTIDs
    BY ZenonT(30), <1>1, <1>2, LeFacts, CursorTypes
  <2>2. d.ok /\ Le(d.curr, gtid) /\ Le(gtid, d.curr)
    BY ZenonT(30), <1>2, <1>3, <2>1
  <2>. QED
    BY ZenonT(30), <1>1, <2>1, <2>2, LeFacts
<1>5. \A h \in rows : Le(gtid, h) <=> ~ Lt(h, gtid)
  BY ZenonT(30), <1>1, EntryTypes, LeIsNotLt
<1>6. OnRow(d, {})
  <2>1. ReturnedBelow(d, {}, d.curr)
    BY ZenonT(30), <1>2, <1>4, <1>5 DEF ReturnedBelow
  <2>2. d.buf = {} /\ d.pos = d.curr /\ d.curr \in Partition(d)
    BY ZenonT(30), <1>2, <1>4
  <2>3. \A g \in rows : ~ (Lt(d.curr, g) /\ Le(g, d.pos))
    BY ZenonT(30), <1>1, <1>4, <2>2, EntryTypes, LeIsNotLt
  <2>. QED
    BY ZenonT(30), <2>1, <2>2, <2>3 DEF OnRow
<1>7. ~ d.inLast => Le(d.start, pivot)
  BY ZenonT(30), <1>1, <1>2, LeFacts
<1>. QED
  BY ZenonT(30), <1>2, <1>4, <1>6, <1>7 DEF CursorOK

\* The guard of EnterLastPartition: the first entry of the last partition, if
\* there is one, is below the bound.
FirstIsBelow ==
    \A g \in rows : Lt(pivot, g) /\ (\A h \in rows : Lt(pivot, h) => Le(g, h))
                       => Lt(g, minLiveGTID)

LEMMA FirstIsMin ==
    ASSUME rows \subseteq GTIDs, NEW T, T = {g \in rows : Lt(pivot, g)},
           T # {} => Lt(MinGTID(T), minLiveGTID)
    PROVE  FirstIsBelow
<1>. SUFFICES ASSUME NEW g \in rows, Lt(pivot, g), \A h \in rows : Lt(pivot, h) => Le(g, h)
              PROVE  Lt(g, minLiveGTID)
  BY ZenonT(30) DEF FirstIsBelow
<1>1. T \in SUBSET GTIDs /\ g \in T /\ \A h \in T : Le(g, h)
  BY ZenonT(30)
<1>2. MinGTID(T) \in T /\ Le(MinGTID(T), g)
  BY ZenonT(30), <1>1, MinFacts
<1>3. g = MinGTID(T)
  BY ZenonT(30), <1>1, <1>2, LeFacts
<1>. QED
  BY ZenonT(30), <1>1, <1>3

\* The cursor on the last partition is new; the entry it is on is below the
\* bound, so nothing will appear before it.
LEMMA EnterOK ==
    ASSUME EInv, NEW c \in Cursors, NEW s, CursorOK(c, s),
           c.pc = "reading", ~ c.ok, ~ c.inLast, FirstIsBelow,
           NEW d, IsSubCursor(d, c.start, TRUE)
    PROVE  CursorOK(d, s)
<1>1. /\ c.start \in GTIDs /\ pivot \in GTIDs /\ rows \subseteq GTIDs
      /\ Le(c.start, pivot) /\ ReturnedClosed(c, s) /\ Returned(c, s)
  BY ZenonT(30), CursorTypes, EntryTypes DEF CursorOK, Returned
<1>2. /\ d \in Cursors
      /\ d.pc = "positioned" /\ d.start = c.start /\ d.inLast /\ d.buf = {}
      /\ d.ok => /\ d.curr \in Partition(d) /\ d.pos = d.curr
                 /\ \A g \in Partition(d) : Le(c.start, g) => Le(d.curr, g)
      /\ ~ d.ok => d.curr = InitialGTID /\ d.pos = InitialGTID
  BY ZenonT(30) DEF IsSubCursor
<1>3. Returned(d, s) /\ ReturnedClosed(d, s)
  BY ZenonT(30), <1>1, <1>2 DEF Returned, ReturnedClosed, ReturnedBelow
<1>4. CASE d.ok
  <2>1. /\ d.curr \in rows /\ Lt(pivot, d.curr)
        /\ \A g \in rows : Lt(pivot, g) => Le(d.curr, g)
    <3>1. Partition(d) \subseteq rows /\ \A g \in rows : g \in Partition(d) <=> Lt(pivot, g)
      BY ZenonT(30), <1>2, PartitionFacts
    <3>2. \A g \in rows : Lt(pivot, g) => Le(c.start, g)
      <4>1. ASSUME NEW g \in rows, Lt(pivot, g) PROVE Le(c.start, g)
        BY ZenonT(30), <1>1, <4>1, LeThenLt DEF Le
      <4>. QED
        BY ZenonT(30), <4>1
    <3>. QED
      BY ZenonT(30), <1>2, <1>4, <3>1, <3>2
  <2>2. Lt(d.curr, minLiveGTID)
    BY ZenonT(30), <2>1 DEF FirstIsBelow
  <2>3. ReturnedBelow(d, s, d.curr)
    <3>1. \A g \in rows : Lt(g, d.curr) => Le(g, pivot)
      <4>1. \A g \in rows : Le(d.curr, g) => ~ Lt(g, d.curr)
        BY ZenonT(30), <1>1, <2>1, LeIsNotLt
      <4>2. \A g \in rows : ~ Lt(pivot, g) => Le(g, pivot)
        BY ZenonT(30), <1>1, LeIsNotLt
      <4>. QED
        BY ZenonT(30), <2>1, <4>1, <4>2
    <3>. QED
      BY ZenonT(30), <1>3, <3>1 DEF ReturnedBelow, ReturnedClosed
  <2>4. \A g \in rows : ~ (Lt(d.curr, g) /\ Le(g, d.pos))
    BY ZenonT(30), <1>1, <1>2, <1>4, <2>1, LeIsNotLt
  <2>5. OnRow(d, s)
    BY ZenonT(30), <1>2, <1>4, <2>3, <2>4 DEF OnRow
  <2>. QED
    BY ZenonT(30), <1>2, <1>3, <1>4, <2>2, <2>5 DEF CursorOK, Returned
<1>5. CASE ~ d.ok
  BY ZenonT(30), <1>2, <1>3, <1>5 DEF CursorOK, Returned
<1>. QED
  BY ZenonT(30), <1>4, <1>5

\* setTailable gives the cursor its first bound.
LEMMA SetTailableOK ==
    ASSUME EInv, NEW c \in Cursors, NEW s, CursorOK(c, s), c.pc = "positioned",
           NEW d, d = IF c.inLast THEN CheckEnd(Reading([c EXCEPT !.end = minLiveGTID]))
                                  ELSE Reading(c)
    PROVE  d \in Cursors /\ CursorOK(d, s)
<1>0. /\ minLiveGTID \in GTIDs /\ pivot \in GTIDs /\ rows \subseteq GTIDs
      /\ c.curr \in GTIDs /\ c.inLast \in BOOLEAN
  BY ZenonT(30), EntryTypes, CursorTypes
<1>1. CASE c.inLast
  <2>. DEFINE b == [c EXCEPT !.end = minLiveGTID]
              e == Reading(b)
  <2>1. /\ b \in Cursors
        /\ b.start = c.start /\ b.inLast = c.inLast /\ b.ok = c.ok /\ b.curr = c.curr
        /\ b.end = minLiveGTID /\ b.buf = c.buf /\ b.pos = c.pos
    BY <1>0, ZenonT(30) DEF Cursors
  <2>2. d = CheckEnd(e)
    BY <1>1, ZenonT(30)
  <2>. HIDE DEF b
  <2>3. /\ e \in Cursors /\ e.pc = "reading"
        /\ e.start = c.start /\ e.inLast /\ e.ok = c.ok /\ e.curr = c.curr
        /\ e.end = minLiveGTID /\ e.buf = c.buf /\ e.pos = c.pos
    BY <1>1, <2>1, ReadingFacts, ZenonT(30)
  <2>. HIDE DEF e
  <2>4. Returned(e, s) /\ Le(e.end, minLiveGTID)
    BY ZenonT(30), <2>3 DEF CursorOK, Returned, ReturnedBelow, Le
  <2>5. CASE c.ok
    <3>1. OnRow(c, s) /\ c.buf = {}
      BY ZenonT(30), <2>5 DEF CursorOK
    <3>2. Partition(e) = Partition(c) /\ ReturnedBelow(e, s, e.curr)
      BY ZenonT(30), <1>1, <2>3, <3>1 DEF OnRow, ReturnedBelow, Partition
    <3>3. e.curr \in Partition(e) /\ e.buf = {} /\ e.pos = e.curr
      BY ZenonT(30), <2>3, <3>1, <3>2 DEF OnRow
    <3>4. \A g \in rows : ~ (Lt(e.curr, g) /\ Le(g, e.pos))
      BY <1>0, <2>3, <3>3, LeFacts, LtFacts
    <3>5. OnRow(e, s)
      BY ZenonT(30), <3>2, <3>3, <3>4 DEF OnRow
    <3>. QED
      BY ZenonT(30), <2>2, <2>3, <2>4, <2>5, <3>5, CheckEndOnRow, CheckEndFacts
  <2>6. CASE ~ c.ok
    <3>1. /\ ReturnedClosed(c, s) /\ c.curr = InitialGTID /\ c.pos = InitialGTID
          /\ c.buf = {}
      BY ZenonT(30), <2>6 DEF CursorOK
    <3>2. \A h \in rows : Le(h, InitialGTID) => Le(h, pivot)
      BY ZenonT(30), <1>0, InitialFacts, InitialLe, LeFacts
    <3>3. Exhausted(e, s)
      BY ZenonT(30), <2>3, <3>1, <3>2, BoundIsNotInitial DEF Exhausted, ReturnedClosed
    <3>. QED
      BY <2>2, <2>3, <2>4, <2>6, <3>3, CheckEndAtEnd, CheckEndFacts
  <2>. QED
    BY ZenonT(30), <2>5, <2>6 DEF Cursors
<1>2. CASE ~ c.inLast
  <2>1. d = Reading(c)
    BY ZenonT(30), <1>2
  <2>2. /\ d \in Cursors /\ d.pc = "reading"
        /\ d.start = c.start /\ ~ d.inLast /\ d.ok = c.ok /\ d.curr = c.curr
        /\ d.buf = c.buf /\ d.pos = c.pos
    BY <1>2, <2>1, ReadingFacts
  <2>3. c.ok /\ OnRow(c, s) /\ Le(c.start, pivot)
    BY ZenonT(30), <1>2 DEF CursorOK
  <2>4. OnRow(d, s)
    <3>1. Partition(d) = Partition(c)
      BY ZenonT(30), <1>0, <1>2, <2>2, CursorTypes DEF Partition
    <3>2. ReturnedBelow(d, s, d.curr)
      BY ZenonT(30), <2>2, <2>3 DEF OnRow, ReturnedBelow
    <3>. QED
      BY ZenonT(30), <1>2, <2>2, <2>3, <3>1, <3>2 DEF OnRow
  <2>5. Returned(d, s)
    BY ZenonT(30), <2>2 DEF CursorOK, Returned, ReturnedBelow
  <2>. QED
    BY ZenonT(30), <2>2, <2>3, <2>4, <2>5 DEF CursorOK, Returned
<1>. QED
  BY ZenonT(30), <1>1, <1>2

-----------------------------------------------------------------------------
(* The steps of the cursor that go on preserve what the invariant says     *)
(* of it.                                                                  *)

\* What is returned is committed, and everything before it is.
LEMMA ReturnCurrent ==
    ASSUME EInv, NEW c \in Cursors, NEW s, CursorOK(c, s), c.pc = "reading", c.ok
    PROVE  Returned(c, s \union {c.curr})
<1>0. /\ c.curr \in GTIDs /\ c.end \in GTIDs /\ c.inLast \in BOOLEAN
      /\ minLiveGTID \in GTIDs /\ pivot \in GTIDs
  BY ZenonT(30), EntryTypes, CursorTypes
<1>1. OnRow(c, s) /\ Returned(c, s) /\ c.curr \in rows
  BY ZenonT(30), PartitionFacts DEF CursorOK, Returned, OnRow
<1>2. Le(c.curr, pivot) \/ Lt(c.curr, minLiveGTID)
  <2>1. CASE c.inLast
    <3>1. Lt(c.curr, c.end) /\ Le(c.end, minLiveGTID)
      BY ZenonT(30), <2>1 DEF CursorOK
    <3>. QED
      BY ZenonT(30), <1>0, <3>1, LtThenLe
  <2>2. CASE ~ c.inLast
    BY ZenonT(30), <1>1, <2>2, PartitionFacts DEF OnRow
  <2>. QED
    BY ZenonT(30), <2>1, <2>2
<1>3. c.curr \in committed
  <2>1. CASE Lt(c.curr, minLiveGTID)
    BY ZenonT(30), <1>1, <2>1, BelowIsCommitted
  <2>2. CASE Le(c.curr, pivot)
    BY ZenonT(30), <1>0, <1>1, <2>2, LeIsNotLt DEF EInv, EntriesInv
  <2>. QED
    BY ZenonT(30), <1>2, <2>1, <2>2
<1>. QED
  BY ZenonT(30), <1>1, <1>2, <1>3 DEF Returned, OnRow, ReturnedBelow

\* The cursor goes on to a row d that follows c without a gap, as s has all up to
\* where c is.
LEMMA AdvanceToRow ==
    ASSUME EInv, NEW c \in Cursors, NEW s, NEW d \in Advanced(c), d.ok, c.buf = {},
           ReturnedClosed(c, s) \/ ~ c.inLast,
           \A h \in rows : /\ Le(c.start, h) /\ Le(h, c.pos)
                           => h \in s
    PROVE  OnRow(d, s)
<1>0. /\ c.pos \in GTIDs /\ c.inLast \in BOOLEAN /\ pivot \in GTIDs /\ rows \subseteq GTIDs
  BY ZenonT(30), EntryTypes, CursorTypes
<1>1. /\ d \in Cursors
      /\ d.start = c.start /\ d.inLast = c.inLast
      /\ d.curr \in Partition(c) /\ Lt(c.pos, d.curr)
      /\ \A g \in Partition(c) : Lt(c.pos, g) => Le(d.curr, g)
      /\ d.pos \in d.buf \union {d.curr}
      /\ d.buf = {g \in Partition(c) : Lt(d.curr, g) /\ Le(g, d.pos)}
  BY ZenonT(30), AdvancedFacts DEF EInv, TailTypeOK
<1>2. Partition(d) = Partition(c)
  BY ZenonT(30), <1>1 DEF Partition
<1>3. d.curr \in rows /\ d.curr \in GTIDs /\ d.pos \in GTIDs
  BY ZenonT(30), <1>1, PartitionFacts, CursorTypes
<1>4. ASSUME NEW h \in rows, Le(d.start, h), Lt(h, d.curr)
      PROVE  h \in s
  <2>1. CASE h \in Partition(c)
    <3>1. ~ Le(d.curr, h)
      BY ZenonT(30), <1>0, <1>3, <1>4, LeIsNotLt
    <3>2. Le(h, c.pos)
      BY ZenonT(30), <1>0, <1>1, <2>1, <3>1, LeIsNotLt
    <3>. QED
      BY ZenonT(30), <1>1, <1>4, <3>2
  <2>2. CASE h \notin Partition(c)
    <3>1. CASE c.inLast
      <4>1. ~ Lt(pivot, h)
        BY ZenonT(30), <2>2, <3>1, PartitionFacts
      <4>2. Le(h, pivot)
        BY ZenonT(30), <1>0, <4>1, LeIsNotLt
      <4>. QED
        BY ZenonT(30), <1>1, <1>4, <3>1, <4>2 DEF ReturnedClosed
    <3>2. CASE ~ c.inLast
      <4>1. Le(d.curr, pivot) /\ ~ Le(h, pivot)
        BY ZenonT(30), <1>1, <1>3, <2>2, <3>2, PartitionFacts
      <4>2. Lt(h, pivot)
        BY ZenonT(30), <1>0, <1>3, <1>4, <4>1, LtThenLe
      <4>. QED
        BY ZenonT(30), <4>1, <4>2 DEF Le
    <3>. QED
      BY ZenonT(30), <3>1, <3>2
  <2>. QED
    BY ZenonT(30), <2>1, <2>2
<1>5. ASSUME NEW g \in rows, Lt(d.curr, g), Le(g, d.pos)
      PROVE  g \in d.buf
  <2>1. d.pos \in Partition(c)
    BY ZenonT(30), <1>1
  <2>2. g \in Partition(c)
    <3>1. CASE c.inLast
      <4>1. Lt(pivot, d.curr)
        BY ZenonT(30), <1>1, <1>3, <3>1, PartitionFacts
      <4>2. Lt(pivot, g)
        BY ZenonT(30), <1>0, <1>3, <1>5, <4>1, LtFacts
      <4>. QED
        BY ZenonT(30), <3>1, <4>2, PartitionFacts
    <3>2. CASE ~ c.inLast
      <4>1. Le(d.pos, pivot)
        BY ZenonT(30), <2>1, <3>2, PartitionFacts
      <4>2. Le(g, pivot)
        BY ZenonT(30), <1>0, <1>3, <1>5, <4>1, LeFacts
      <4>. QED
        BY ZenonT(30), <3>2, <4>2, PartitionFacts
    <3>. QED
      BY ZenonT(30), <3>1, <3>2
  <2>. QED
    BY ZenonT(30), <1>1, <1>5, <2>2
<1>6. IF d.buf = {} THEN d.pos = d.curr ELSE d.pos \in d.buf
  <2>1. ASSUME d.buf # {}, d.pos = d.curr PROVE FALSE
    <3>1. PICK g \in d.buf : TRUE
      BY ZenonT(30), <2>1
    <3>2. g \in GTIDs /\ Lt(d.curr, g) /\ Le(g, d.curr)
      BY ZenonT(30), <1>1, <2>1, <3>1, PartitionFacts
    <3>. QED
      BY ZenonT(30), <1>3, <3>2, LeFacts, LtFacts
  <2>. QED
    BY ZenonT(30), <1>1, <2>1
<1>. QED
  BY ZenonT(30), <1>1, <1>2, <1>4, <1>5, <1>6 DEF OnRow, ReturnedBelow

\* The cursor takes the next row from its buffer.
LEMMA AdvanceInBuffer ==
    ASSUME EInv, NEW c \in Cursors, NEW s, NEW d \in Advanced(c), c.buf # {}, OnRow(c, s),
           NEW t, t = s \union {c.curr}
    PROVE  /\ d.curr \in Partition(d)
           /\ d.inLast /\ Le(d.end, d.curr) => ReturnedBelow(d, t, d.end)
           /\ ~ (d.inLast /\ Le(d.end, d.curr)) => OnRow(d, t)
<1>0. /\ c.curr \in GTIDs /\ c.pos \in GTIDs /\ c.end \in GTIDs /\ c.inLast \in BOOLEAN
      /\ c.buf \subseteq GTIDs /\ rows \subseteq GTIDs
  BY ZenonT(30), EntryTypes, CursorTypes
<1>1. /\ d \in Cursors
      /\ d.start = c.start /\ d.inLast = c.inLast /\ d.end = c.end
      /\ d.pos = c.pos /\ d.buf = c.buf \ {d.curr}
      /\ d.curr \in c.buf /\ \A g \in c.buf : Le(d.curr, g)
  BY AdvancedFacts DEF EInv, TailTypeOK
<1>2. Partition(d) = Partition(c) /\ d.curr \in Partition(d)
  BY ZenonT(30), <1>1 DEF Partition, OnRow
<1>3. d.curr \in GTIDs /\ Lt(c.curr, d.curr) /\ Le(d.curr, c.pos) /\ c.pos \in c.buf
  BY ZenonT(30), <1>0, <1>1 DEF OnRow
<1>4. ASSUME NEW h \in rows, Le(c.start, h), Lt(h, d.curr), c.inLast => Lt(h, c.end)
      PROVE  h \in t
  <2>1. CASE Lt(c.curr, h)
    <3>1. h \in GTIDs /\ Le(h, c.pos)
      BY ZenonT(30), <1>0, <1>3, <1>4, LtThenLe DEF Le
    <3>2. h \in c.buf
      BY ZenonT(30), <1>4, <2>1, <3>1 DEF OnRow
    <3>. QED
      BY ZenonT(30), <1>1, <1>3, <1>4, <3>1, <3>2, LeIsNotLt
  <2>2. CASE Lt(h, c.curr)
    BY ZenonT(30), <1>4, <2>2 DEF OnRow, ReturnedBelow
  <2>. QED
    BY ZenonT(30), <1>0, <1>4, <2>1, <2>2, LtFacts
<1>5. CASE d.inLast /\ Le(d.end, d.curr)
  <2>1. \A h \in rows : Lt(h, c.end) => Lt(h, d.curr)
    BY ZenonT(30), <1>0, <1>1, <1>3, <1>5, LtThenLe
  <2>2. ReturnedBelow(d, t, d.end)
    BY ZenonT(30), <1>1, <1>4, <2>1 DEF ReturnedBelow
  <2>. QED
    BY ZenonT(30), <1>2, <1>5, <2>2
<1>6. CASE ~ (d.inLast /\ Le(d.end, d.curr))
  <2>1. \A h \in rows : c.inLast /\ Lt(h, d.curr) => Lt(h, c.end)
    <3>1. ASSUME NEW h \in rows, c.inLast, Lt(h, d.curr) PROVE Lt(h, c.end)
      <4>1. Lt(d.curr, c.end)
        BY ZenonT(30), <1>0, <1>1, <1>3, <1>6, <3>1, LeIsNotLt
      <4>. QED
        BY ZenonT(30), <1>0, <1>3, <3>1, <4>1, LtThenLe DEF Le
    <3>. QED
      BY ZenonT(30), <3>1
  <2>2. ReturnedBelow(d, t, d.curr)
    BY ZenonT(30), <1>1, <1>4, <2>1 DEF ReturnedBelow
  <2>3. \A g \in d.buf : Lt(d.curr, g) /\ Le(g, d.pos)
    BY ZenonT(30), <1>1 DEF OnRow, Le
  <2>4. IF d.buf = {} THEN d.pos = d.curr ELSE d.pos \in d.buf
    <3>1. CASE d.buf = {}
      BY ZenonT(30), <1>1, <1>3, <3>1
    <3>2. CASE d.buf # {}
      <4>1. PICK g \in d.buf : TRUE
        BY ZenonT(30), <3>2
      <4>2. g \in GTIDs /\ Lt(d.curr, g) /\ Le(g, c.pos)
        BY ZenonT(30), <1>0, <1>1, <2>3, <4>1
      <4>3. c.pos # d.curr
        BY ZenonT(30), <1>3, <4>2, LeIsNotLt
      <4>. QED
        BY ZenonT(30), <1>1, <1>3, <3>2, <4>3
    <3>. QED
      BY ZenonT(30), <3>1, <3>2
  <2>5. ASSUME NEW g \in rows, Lt(d.curr, g), Le(g, d.pos), d.inLast => Lt(g, d.end)
        PROVE  g \in d.buf
    <3>1. g \in GTIDs /\ Lt(c.curr, g) /\ g # d.curr
      BY ZenonT(30), <1>0, <1>3, <2>5, LtFacts
    <3>2. g \in c.buf
      BY ZenonT(30), <1>1, <2>5, <3>1 DEF OnRow
    <3>. QED
      BY ZenonT(30), <1>1, <3>1, <3>2
  <2>6. d.buf \subseteq Partition(d)
    BY ZenonT(30), <1>1, <1>2 DEF OnRow
  <2>. QED
    BY ZenonT(30), <1>2, <1>6, <2>2, <2>3, <2>4, <2>5, <2>6 DEF OnRow
<1>. QED
  BY ZenonT(30), <1>5, <1>6

\* processGetMore returns the row, and advance goes on.
LEMMA ReturnOK ==
    ASSUME EInv, NEW c \in Cursors, NEW s, CursorOK(c, s), c.pc = "reading", c.ok,
           NEW d \in Advanced(c)
    PROVE  CheckEnd(d) \in Cursors /\ CursorOK(CheckEnd(d), s \union {c.curr})
<1>. DEFINE t == s \union {c.curr}
<1>0. /\ c.curr \in GTIDs /\ c.inLast \in BOOLEAN /\ pivot \in GTIDs /\ rows \subseteq GTIDs
  BY ZenonT(30), EntryTypes, CursorTypes
<1>1. /\ OnRow(c, s) /\ (c.inLast => Lt(c.curr, c.end) /\ Le(c.end, minLiveGTID))
      /\ ~ c.inLast => Le(c.start, pivot)
  BY ZenonT(30) DEF CursorOK
<1>2. /\ d \in Cursors
      /\ d.pc = "reading" /\ d.start = c.start /\ d.inLast = c.inLast /\ d.end = c.end
      /\ c.buf # {} => d.ok
  BY AdvancedFacts DEF EInv, TailTypeOK
<1>3. CheckEnd(d) \in Cursors
  BY ZenonT(30), <1>2, CheckEndFacts
<1>4. Returned(d, t)
  BY ZenonT(30), <1>2, ReturnCurrent DEF Returned, ReturnedBelow
<1>5. \A h \in rows : Le(c.start, h) /\ Le(h, c.curr) => h \in t
  BY ZenonT(30), <1>1 DEF OnRow, ReturnedBelow, Le
<1>6. ASSUME c.inLast PROVE ReturnedClosed(c, t) /\ ReturnedClosed(d, t)
  <2>1. Lt(pivot, c.curr)
    BY ZenonT(30), <1>1, <1>6, PartitionFacts DEF OnRow
  <2>2. \A h \in rows : Le(h, pivot) => Le(h, c.curr)
    BY ZenonT(30), <1>0, <2>1, LeFacts DEF Le
  <2>. QED
    BY ZenonT(30), <1>2, <1>5, <2>2 DEF ReturnedClosed
<1>. HIDE DEF t
<1>7. CASE c.buf # {}
  <2>1. /\ d.curr \in Partition(d)
        /\ d.inLast /\ Le(d.end, d.curr) => ReturnedBelow(d, t, d.end)
        /\ ~ (d.inLast /\ Le(d.end, d.curr)) => OnRow(d, t)
    BY ZenonT(30), <1>1, <1>7, AdvanceInBuffer DEF t
  <2>2. CASE d.inLast /\ Le(d.end, d.curr)
    BY ZenonT(30), <1>1, <1>2, <1>4, <1>6, <1>7, <2>1, <2>2, CheckEndBeyond, <1>3 DEF t
  <2>3. CASE ~ (d.inLast /\ Le(d.end, d.curr))
    BY ZenonT(30), <1>1, <1>2, <1>4, <1>7, <2>1, <2>3, CheckEndOnRow, <1>3 DEF t
  <2>. QED
    BY ZenonT(30), <2>2, <2>3
<1>8. CASE c.buf = {} /\ d.ok
  <2>1. c.pos = c.curr
    BY ZenonT(30), <1>1, <1>8 DEF OnRow
  <2>2. OnRow(d, t)
    BY ZenonT(30), <1>5, <1>6, <1>8, <2>1, AdvanceToRow
  <2>. QED
    BY ZenonT(30), <1>1, <1>2, <1>3, <1>4, <1>8, <2>2, CheckEndOnRow DEF t
<1>9. CASE c.buf = {} /\ ~ d.ok
  <2>1. c.pos = c.curr
    BY ZenonT(30), <1>1, <1>9 DEF OnRow
  <2>2. /\ \A g \in Partition(c) : ~ Lt(c.pos, g)
        /\ d.curr = c.curr /\ d.pos = c.pos /\ d.buf = {}
    BY ZenonT(30), <1>9, AdvancedFacts DEF EInv, TailTypeOK
  <2>3. d.inLast => Exhausted(d, t)
    BY ZenonT(30), <1>1, <1>2, <1>5, <1>6, <2>1, <2>2 DEF Exhausted
  <2>4. ~ d.inLast => ReturnedClosed(d, t)
    <3>1. ~ c.inLast => \A h \in rows : Le(h, pivot) => Le(h, c.curr)
      BY ZenonT(30), <1>0, <2>1, <2>2, PartitionFacts, LeFacts
    <3>. QED
      BY ZenonT(30), <1>2, <1>5, <3>1 DEF ReturnedClosed
  <2>. QED
    BY ZenonT(30), <1>1, <1>2, <1>3, <1>4, <1>9, <2>3, <2>4, CheckEndAtEnd DEF t
<1>. QED
  BY ZenonT(30), <1>7, <1>8, <1>9

\* The bound is read again, which never moves back.
LEMMA RefreshOK ==
    ASSUME EInv, NEW c \in Cursors, NEW s, CursorOK(c, s), c.pc = "reading", ~ c.ok, c.inLast,
           NEW d, d = IF Lt(c.curr, c.end)
                        THEN [c EXCEPT !.pc = "next", !.end = minLiveGTID]
                        ELSE [c EXCEPT !.pc = "seek", !.curr = c.end, !.end = minLiveGTID]
    PROVE  d \in Cursors /\ CursorOK(d, s)
<1>0. /\ minLiveGTID \in GTIDs /\ c.curr \in GTIDs /\ c.end \in GTIDs
      /\ Le(c.end, minLiveGTID) /\ Returned(c, s)
  BY ZenonT(30), EntryTypes, CursorTypes DEF CursorOK, Returned
<1>1. CASE Lt(c.curr, c.end)
  <2>1. d = [c EXCEPT !.pc = "next", !.end = minLiveGTID]
    BY <1>1, ZenonT(30)
  <2>2. /\ d \in Cursors /\ d.pc = "next"
        /\ d.start = c.start /\ d.inLast = c.inLast /\ d.curr = c.curr
        /\ d.end = minLiveGTID /\ d.buf = c.buf /\ d.pos = c.pos
    BY <1>0, <2>1, ZenonT(30) DEF Cursors
  <2>3. Exhausted(c, s)
    BY ZenonT(30), <1>1 DEF CursorOK
  <2>4. Lt(d.curr, d.end) /\ Le(d.end, minLiveGTID)
    BY <1>0, <1>1, <2>2, LeFacts
  <2>5. Exhausted(d, s)
    BY ZenonT(30), <2>2, <2>3, <2>4 DEF Exhausted, ReturnedClosed
  <2>6. Returned(d, s)
    BY ZenonT(30), <1>0, <2>2 DEF Returned, ReturnedBelow
  <2>. QED
    BY ZenonT(30), <2>2, <2>4, <2>5, <2>6 DEF CursorOK, Returned, Exhausted
<1>2. CASE ~ Lt(c.curr, c.end)
  <2>1. d = [c EXCEPT !.pc = "seek", !.curr = c.end, !.end = minLiveGTID]
    BY <1>2, ZenonT(30)
  <2>2. /\ d \in Cursors /\ d.pc = "seek"
        /\ d.start = c.start /\ d.inLast = c.inLast /\ d.curr = c.end
        /\ d.end = minLiveGTID
    BY <1>0, <2>1, ZenonT(30) DEF Cursors
  <2>3. Beyond(c, s) /\ Le(c.end, c.curr)
    BY <1>0, <1>2, LeFacts DEF CursorOK
  <2>4. GoingBack(d, s)
    BY ZenonT(30), <1>0, <2>2, <2>3 DEF GoingBack, Beyond, ReturnedBelow, ReturnedClosed
  <2>5. Returned(d, s) /\ Le(d.end, minLiveGTID)
    BY ZenonT(30), <1>0, <2>2 DEF Returned, ReturnedBelow, Le
  <2>. QED
    BY ZenonT(30), <2>2, <2>4, <2>5 DEF CursorOK, Returned, GoingBack
<1>. QED
  BY ZenonT(30), <1>1, <1>2

\* The cursor is set to go on reading.
LEMMA ReadingKeeps ==
    ASSUME EInv, NEW c \in Cursors, NEW s
    PROVE  /\ Returned(c, s) => Returned(Reading(c), s)
           /\ OnRow(c, s) => OnRow(Reading(c), s)
           /\ Exhausted(c, s) => Exhausted(Reading(c), s)
<1>. DEFINE r == Reading(c)
<1>1. /\ r.start = c.start /\ r.inLast = c.inLast
      /\ r.ok = c.ok /\ r.curr = c.curr /\ r.end = c.end
      /\ r.buf = c.buf /\ r.pos = c.pos
  BY ZenonT(30), ReadingFacts
<1>. HIDE DEF r
<1>2. Returned(c, s) => Returned(r, s)
  BY ZenonT(30), <1>1 DEF Returned, ReturnedBelow
<1>3. Partition(r) = Partition(c) /\ ReturnedBelow(r, s, c.curr) = ReturnedBelow(c, s, c.curr)
  BY ZenonT(30), <1>1 DEF Partition, ReturnedBelow
<1>4. OnRow(c, s) => OnRow(r, s)
  BY ZenonT(30), <1>1, <1>3 DEF OnRow
<1>5. Exhausted(c, s) => Exhausted(r, s)
  BY ZenonT(30), <1>1 DEF Exhausted, ReturnedClosed
<1>. QED
  BY ZenonT(30), <1>2, <1>4, <1>5 DEF r

LEMMA FetchNextOK ==
    ASSUME EInv, NEW c \in Cursors, NEW s, CursorOK(c, s), c.pc = "next", NEW d \in Advanced(c)
    PROVE  CheckEnd(Reading(d)) \in Cursors /\ CursorOK(CheckEnd(Reading(d)), s)
<1>. DEFINE r == Reading(d)
<1>1. Exhausted(c, s) /\ Returned(c, s) /\ Le(c.end, minLiveGTID) /\ c.inLast /\ c.buf = {}
  BY ZenonT(30) DEF CursorOK, Returned, Exhausted
<1>2. /\ d \in Cursors
      /\ d.start = c.start /\ d.inLast = c.inLast /\ d.end = c.end
      /\ ~ d.ok => d.curr = c.curr /\ d.pos = c.pos /\ d.buf = {}
  BY ZenonT(30), <1>1, AdvancedFacts DEF EInv, TailTypeOK
<1>3. Returned(d, s)
  BY ZenonT(30), <1>1, <1>2 DEF Returned, ReturnedBelow
<1>4. /\ r \in Cursors /\ r.pc = "reading" /\ r.ok = d.ok /\ r.inLast /\ Le(r.end, minLiveGTID)
      /\ Returned(r, s)
  BY <1>1, <1>2, <1>3, ReadingFacts, ReadingKeeps, ZenonT(30)
<1>5. CASE d.ok
  <2>1. OnRow(d, s)
    BY ZenonT(30), <1>1, <1>5, AdvanceToRow DEF Exhausted
  <2>2. OnRow(r, s)
    BY ZenonT(30), <1>2, <2>1, ReadingKeeps
  <2>. QED
    BY ZenonT(30), <1>4, <1>5, <2>2, CheckEndOnRow, CheckEndFacts
<1>6. CASE ~ d.ok
  <2>1. Exhausted(d, s)
    BY ZenonT(30), <1>1, <1>2, <1>6 DEF Exhausted, ReturnedClosed
  <2>2. Exhausted(r, s)
    BY ZenonT(30), <1>2, <2>1, ReadingKeeps
  <2>. QED
    BY ZenonT(30), <1>4, <1>6, <2>2, CheckEndAtEnd, CheckEndFacts
<1>. QED
  BY ZenonT(30), <1>5, <1>6

\* The cursor finds the row it left, or one that was written before it.
LEMMA SeekOK ==
    ASSUME EInv, NEW c \in Cursors, NEW s, CursorOK(c, s), c.pc = "seek",
           NEW d, d = FindKey(c, c.curr)
    PROVE  CheckEnd(Reading(d)) \in Cursors /\ CursorOK(CheckEnd(Reading(d)), s)
<1>. DEFINE r == Reading(d)
<1>0. /\ c.curr \in GTIDs /\ pivot \in GTIDs /\ rows \subseteq GTIDs
      /\ rows \subseteq BoundedGTIDs
  BY ZenonT(30), EntryTypes, CursorTypes DEF EInv, TailTypeOK
<1>1. GoingBack(c, s) /\ Returned(c, s) /\ Le(c.end, minLiveGTID) /\ c.inLast
  BY ZenonT(30) DEF CursorOK, Returned, GoingBack
<1>2. /\ d \in Cursors
      /\ d.start = c.start /\ d.inLast = c.inLast /\ d.end = c.end /\ d.buf = {}
      /\ d.ok => /\ d.curr \in Partition(c)
                 /\ \A g \in Partition(c) : Le(c.curr, g) => Le(d.curr, g)
                 /\ d.pos = d.curr
      /\ ~ d.ok => \A g \in Partition(c) : ~ Le(c.curr, g)
  BY ZenonT(30), <1>0, FindKeyFacts
<1>3. d.ok
  BY ZenonT(30), <1>1, <1>2, PartitionFacts DEF GoingBack
<1>4. Partition(d) = Partition(c) /\ d.curr \in GTIDs
  BY ZenonT(30), <1>2, CursorTypes DEF Partition
<1>5. ASSUME NEW h \in rows, Le(d.start, h), Lt(h, d.curr)
      PROVE  h \in s
  <2>1. CASE Le(h, pivot) \/ Lt(h, c.curr)
    BY ZenonT(30), <1>1, <1>2, <1>5, <2>1 DEF GoingBack, ReturnedClosed, ReturnedBelow
  <2>2. CASE Lt(pivot, h) /\ Le(c.curr, h)
    <3>1. h \in Partition(c)
      BY ZenonT(30), <1>1, <2>2, PartitionFacts
    <3>2. Le(d.curr, h)
      BY ZenonT(30), <1>2, <1>3, <2>2, <3>1
    <3>. QED
      BY ZenonT(30), <1>0, <1>4, <1>5, <3>2, LeIsNotLt
  <2>. QED
    BY ZenonT(30), <1>0, <2>1, <2>2, LeIsNotLt
<1>6. \A g \in rows : ~ (Lt(d.curr, g) /\ Le(g, d.pos))
  BY ZenonT(30), <1>0, <1>2, <1>3, <1>4, LeIsNotLt
<1>7. OnRow(d, s)
  BY ZenonT(30), <1>2, <1>3, <1>4, <1>5, <1>6 DEF OnRow, ReturnedBelow
<1>8. Returned(d, s)
  BY ZenonT(30), <1>1, <1>2 DEF Returned, ReturnedBelow
<1>9. /\ r \in Cursors /\ r.pc = "reading" /\ r.ok /\ r.inLast /\ Le(r.end, minLiveGTID)
      /\ Returned(r, s) /\ OnRow(r, s)
  BY <1>1, <1>2, <1>3, <1>7, <1>8, ReadingFacts, ReadingKeeps, ZenonT(30)
<1>. QED
  BY ZenonT(30), <1>9, CheckEndOnRow, CheckEndFacts

-----------------------------------------------------------------------------
(* The theorems.                                                           *)

\* Inductive when Races is FALSE: the invariant of the GTIDManager, the entries,
\* and the cursor.
TInv == IInv /\ TailTypeOK /\ TailInv

\* A step of the cursor alone.
LEMMA CursorStep ==
    ASSUME TInv, IInv', UNCHANGED <<vars, rows, committed, pivot>>,
           role = "startup" => cursor' = cursor,
           cursor' \in Cursors, CursorOK(cursor', seen')
    PROVE  TInv'
<1>1. UNCHANGED <<role, lastLiveGTID, minLiveGTID, liveGTIDs, rows, committed, pivot>>
  BY ZenonT(30) DEF vars, mgrVars
<1>2. TailTypeOK' /\ EntriesInv'
  BY ZenonT(30), <1>1 DEF TInv, TailInv, TailTypeOK, EntriesInv
<1>3. CursorOK(cursor, seen)'
  <2>1. ReturnedClosed(cursor', seen') => ReturnedClosed(cursor, seen)'
    BY ZenonT(30), <1>1 DEF ReturnedClosed
  <2>2. ASSUME NEW g PROVE ReturnedBelow(cursor', seen', g) => ReturnedBelow(cursor, seen, g)'
    BY ZenonT(30), <1>1 DEF ReturnedBelow
  <2>3. /\ ReturnedBelow(cursor', seen', cursor'.curr) => ReturnedBelow(cursor, seen, cursor.curr)'
        /\ ReturnedBelow(cursor', seen', cursor'.end) => ReturnedBelow(cursor, seen, cursor.end)'
    BY ZenonT(30), <1>1 DEF ReturnedBelow
  <2>4. OnRow(cursor', seen') => OnRow(cursor, seen)'
    <3>1. Partition(cursor)' = Partition(cursor')
      BY ZenonT(30), <1>1 DEF Partition
    <3>. QED
      BY ZenonT(30), <1>1, <2>3, <3>1 DEF OnRow
  <2>5. Exhausted(cursor', seen') => Exhausted(cursor, seen)'
    BY ZenonT(30), <1>1, <2>1 DEF Exhausted
  <2>6. Beyond(cursor', seen') => Beyond(cursor, seen)'
    BY ZenonT(30), <1>1, <2>1, <2>3 DEF Beyond
  <2>7. GoingBack(cursor', seen') => GoingBack(cursor, seen)'
    BY ZenonT(30), <1>1, <2>1, <2>3 DEF GoingBack
  <2>. QED
    BY ZenonT(30), <1>1, <2>1, <2>2, <2>4, <2>5, <2>6, <2>7 DEF CursorOK
<1>. QED
  BY ZenonT(30), <1>2, <1>3 DEF TInv, TailInv

\* A step of the member that leaves the cursor alone.
LEMMA EntryStep ==
    ASSUME TInv, IInv', TailTypeOK', EntriesInv', Grows, UNCHANGED <<cursor, seen>>
    PROVE  TInv'
<1>1. EInv /\ CursorOK(cursor, seen)
  BY ZenonT(30) DEF TInv, TailInv, EInv
<1>2. cursor \in Cursors /\ seen \in SUBSET GTIDs
  BY ZenonT(30), <1>1, EntryTypes DEF EInv, TailTypeOK, CursorOK
<1>3. rows' \subseteq GTIDs /\ minLiveGTID' \in GTIDs
  BY ZenonT(30), BoundedAreGTIDs DEF TailTypeOK, IInv, TypeOK
<1>4. CursorOK(cursor, seen)'
  <2>1. \A c \in Cursors, s \in SUBSET GTIDs : CursorOK(c, s) => CursorOK(c, s)'
    BY ZenonT(30), <1>1, <1>3, StillOK
  <2>. QED
    BY ZenonT(30), <1>1, <1>2, <2>1
<1>. QED
  BY ZenonT(30), <1>4 DEF TInv, TailInv

\* One step per action of TailNext, those that only write entries together.
LEMMA TailNextInv ==
    ASSUME ~ Races, TInv, [TailNext]_allVars
    PROVE  TInv'
<1>0. EInv /\ CursorOK(cursor, seen) /\ cursor \in Cursors
  BY ZenonT(30) DEF TInv, TailInv, EInv, TailTypeOK
<1>1. IInv'
  BY ZenonT(30), ManagerStep, NextIInv DEF TInv
<1>2. role = "startup" => cursor.pc = "closed"
  BY ZenonT(30) DEF TInv, TailInv, EntriesInv
<1>3. CASE BeginEntry \/ InsertEntry \/ CopyEntry \/ CommitEntry \/ EndEntry \/ NoteEntry
  <2>1. UNCHANGED <<cursor, seen>>
    BY ZenonT(30), <1>3 DEF BeginEntry, InsertEntry, CopyEntry, CommitEntry, EndEntry, NoteEntry, tailVars
  <2>2. TailTypeOK' /\ EntriesInv' /\ Grows
    BY ZenonT(30), <1>0, <1>1, <1>3, BeginEntryStep, InsertEntryStep, CopyEntryStep, CommitEntryStep,
       EndEntryStep, NoteEntryStep
  <2>. QED
    BY ZenonT(30), <1>1, <2>1, <2>2, EntryStep
<1>4. CASE AssumePrimaryMember
  <2>1. UNCHANGED <<cursor, seen>>
    BY ZenonT(30), <1>4 DEF AssumePrimaryMember, tailVars
  <2>. QED
    BY ZenonT(30), <1>0, <1>1, <1>4, <2>1, AssumePrimaryStep, EntryStep
<1>5. CASE (StartAlone \/ Relinquish \/ StartApply \/ EndApply) /\ UNCHANGED tailVars
  <2>1. UNCHANGED <<cursor, seen>>
    BY ZenonT(30), <1>5 DEF tailVars
  <2>. QED
    BY ZenonT(30), <1>0, <1>1, <1>5, <2>1, OtherStep, EntryStep
<1>6. CASE RestartMember \/ GoLiveMember \/ RollbackMember \/ AddPartition
  BY ZenonT(30), <1>0, <1>1, <1>6, RestartStep, GoLiveStep, RollbackStep, AddPartitionStep DEF TInv
<1>7. CASE Open
  <2>1. PICK gtid \in committed : /\ Lt(gtid, minLiveGTID)
                                  /\ cursor' = MakeSubCursor(gtid, Lt(pivot, gtid))
    BY ZenonT(30), <1>7 DEF Open
  <2>2. seen' = {} /\ role # "startup" /\ UNCHANGED <<vars, rows, committed, pivot>>
    BY ZenonT(30), <1>0, <1>7 DEF Open, CursorOK
  <2>3. gtid \in GTIDs /\ Lt(pivot, gtid) \in BOOLEAN
    BY ZenonT(30), <1>0, EntryTypes DEF Lt
  <2>4. IsSubCursor(cursor', gtid, Lt(pivot, gtid))
    BY ZenonT(30), <1>0, <2>1, <2>3, MakeSubCursorFacts
  <2>5. cursor' \in Cursors /\ CursorOK(cursor', {})
    BY ZenonT(30), <1>0, <2>1, <2>4, OpenOK DEF IsSubCursor
  <2>. QED
    BY ZenonT(30), <1>1, <2>2, <2>5, CursorStep
<1>8. CASE SetTailable
  <2>1. /\ cursor.pc = "positioned" /\ seen' = seen /\ UNCHANGED <<vars, rows, committed, pivot>>
        /\ cursor' = IF cursor.inLast
                       THEN CheckEnd(Reading([cursor EXCEPT !.end = minLiveGTID]))
                       ELSE Reading(cursor)
    BY <1>8, ZenonT(30) DEF SetTailable
  <2>2. cursor' \in Cursors /\ CursorOK(cursor', seen)
    BY <1>0, <2>1, SetTailableOK, ZenonT(30)
  <2>. QED
    BY ZenonT(30), <1>1, <1>2, <2>1, <2>2, CursorStep
<1>9. CASE Return
  <2>1. PICK d \in Advanced(cursor) : cursor' = CheckEnd(d)
    BY ZenonT(30), <1>9 DEF Return
  <2>2. /\ cursor.pc = "reading" /\ cursor.ok /\ seen' = seen \union {cursor.curr}
        /\ UNCHANGED <<vars, rows, committed, pivot>>
    BY ZenonT(30), <1>9 DEF Return
  <2>3. cursor' \in Cursors /\ CursorOK(cursor', seen')
    BY ZenonT(30), <1>0, <2>1, <2>2, ReturnOK
  <2>. QED
    BY ZenonT(30), <1>1, <1>2, <2>2, <2>3, CursorStep
<1>10. CASE Refresh
  <2>1. /\ cursor.pc = "reading" /\ ~ cursor.ok /\ cursor.inLast /\ seen' = seen
        /\ UNCHANGED <<vars, rows, committed, pivot>>
        /\ cursor' = IF Lt(cursor.curr, cursor.end)
                       THEN [cursor EXCEPT !.pc = "next", !.end = minLiveGTID]
                       ELSE [cursor EXCEPT !.pc = "seek", !.curr = cursor.end,
                                           !.end = minLiveGTID]
    BY <1>10, ZenonT(30) DEF Refresh
  <2>2. cursor' \in Cursors /\ CursorOK(cursor', seen)
    BY <1>0, <2>1, RefreshOK, ZenonT(30)
  <2>3. cursor.pc # "closed" /\ seen' = seen /\ UNCHANGED <<vars, rows, committed, pivot>>
    BY <2>1, ZenonT(30)
  <2>. QED
    BY ZenonT(30), <1>1, <1>2, <2>2, <2>3, CursorStep
<1>11. CASE FetchNext
  <2>1. PICK d \in Advanced(cursor) : cursor' = CheckEnd(Reading(d))
    BY ZenonT(30), <1>11 DEF FetchNext
  <2>2. cursor.pc = "next" /\ seen' = seen /\ UNCHANGED <<vars, rows, committed, pivot>>
    BY ZenonT(30), <1>11 DEF FetchNext
  <2>3. cursor' \in Cursors /\ CursorOK(cursor', seen)
    BY ZenonT(30), <1>0, <2>1, <2>2, FetchNextOK
  <2>. QED
    BY ZenonT(30), <1>1, <1>2, <2>2, <2>3, CursorStep
<1>12. CASE Seek
  <2>1. /\ cursor.pc = "seek" /\ seen' = seen /\ UNCHANGED <<vars, rows, committed, pivot>>
        /\ cursor' = CheckEnd(Reading(FindKey(cursor, cursor.curr)))
    BY ZenonT(30), <1>12 DEF Seek
  <2>2. cursor' \in Cursors /\ CursorOK(cursor', seen)
    BY ZenonT(30), <1>0, <2>1, SeekOK
  <2>. QED
    BY ZenonT(30), <1>1, <1>2, <2>1, <2>2, CursorStep
<1>13. CASE EnterLastPartition
  <2>1. /\ cursor.pc = "reading" /\ ~ cursor.ok /\ ~ cursor.inLast /\ seen' = seen
        /\ UNCHANGED <<vars, rows, committed, pivot>>
        /\ cursor' = MakeSubCursor(cursor.start, TRUE)
        /\ LET last == {g \in rows : Lt(pivot, g)}
           IN  last # {} => Lt(MinGTID(last), minLiveGTID)
    BY ZenonT(30), <1>13 DEF EnterLastPartition
  <2>2. FirstIsBelow
    BY ZenonT(30), <1>0, <2>1, FirstIsMin, EntryTypes
  <2>3. cursor.start \in GTIDs
    BY ZenonT(30), <1>0, CursorTypes
  <2>4. IsSubCursor(cursor', cursor.start, TRUE)
    BY <1>0, <2>1, <2>3, MakeSubCursorFacts, ZenonT(30)
  <2>5. CursorOK(cursor', seen)
    BY <1>0, <2>1, <2>2, <2>4, EnterOK, ZenonT(30)
  <2>6. cursor' \in Cursors
    BY ZenonT(30), <2>4 DEF IsSubCursor
  <2>7. cursor.pc # "closed" /\ seen' = seen /\ UNCHANGED <<vars, rows, committed, pivot>>
    BY <2>1, ZenonT(30)
  <2>. QED
    BY ZenonT(30), <1>1, <1>2, <2>5, <2>6, <2>7, CursorStep
<1>14. CASE UNCHANGED allVars
  BY ZenonT(30), <1>0, <1>1, <1>14, CursorStep DEF allVars, tailVars
<1>. QED
  BY ZenonT(30), <1>3, <1>4, <1>5, <1>6, <1>7, <1>8, <1>9, <1>10, <1>11, <1>12, <1>13, <1>14 DEF TailNext

\* The GTIDManager of a member with its oplog and a cursor on it behaves as the
\* manager alone: all that GTIDManagerProofs shows of it holds here.
THEOREM TailImplementsManager == TailSpec => Spec
<1>1. TailInit => Init
  BY ZenonT(30) DEF TailInit
<1>. QED
  BY <1>1, ManagerStep, PTL DEF TailSpec, Spec

\* The entries and the cursor are as described at all times.
THEOREM TailInvariance == ~ Races => (TailSpec => []TInv)
<1>. SUFFICES ASSUME ~ Races PROVE TailSpec => []TInv
  BY ZenonT(30)
<1>1. TailInit => TInv
  BY ZenonT(30), TailInitInv DEF TInv
<1>2. TInv /\ [TailNext]_allVars => TInv'
  BY ZenonT(30), TailNextInv
<1>. QED
  BY <1>1, <1>2, PTL DEF TailSpec

\* No entry appears behind one that a replicating member's cursor has returned.
THEOREM CursorIsComplete == ~ Races => (TailSpec => []CursorMissesNothing)
<1>1. TInv => CursorMissesNothing
  BY ZenonT(30) DEF TInv, TailInv, CursorOK, ReturnedBelow, CursorMissesNothing
<1>. QED
  BY <1>1, TailInvariance, PTL

\* No uncommitted entry is returned, though the cursor reads them.
THEOREM CursorIsClean == ~ Races => (TailSpec => []CursorReturnsCommitted)
<1>1. TInv => CursorReturnsCommitted
  BY ZenonT(30) DEF TInv, TailInv, CursorOK, CursorReturnsCommitted
<1>. QED
  BY <1>1, TailInvariance, PTL

=============================================================================
