--------------------------- MODULE OplogTrimProofs ---------------------------
(***************************************************************************)
(* Proofs about OplogTrim, for any number of transactions, rows and         *)
(* partitions.  Neither property is inductive as it stands: that entries    *)
(* are dated needs to know of the transactions that have a GTID and no      *)
(* entry yet, that rows are kept needs the maxRefGTIDs to cover every entry *)
(* with rows in a closed partition of oplog.refs.                           *)
(***************************************************************************)
EXTENDS OplogTrim, NaturalSets, FiniteSetTheorems, SequenceTheorems

\* The seconds each prover has for a leaf that names none.
USE SMTT(30), ZenonT(30)

Transaction ==
    [stage : {"none", "live", "gotGTID", "done"}, rows : 0..MaxRows, gtid : Nat, ts : Nat]
Partition == [max : Nat, createTime : Nat]
RefPartition == [max : Nat, maxRefGTID : Nat]

TypeOK ==
    /\ now \in Nat /\ primary \in BOOLEAN /\ last \in Nat
    /\ txns \in [Txn -> Transaction]
    /\ log \subseteq [gtid : Nat, ts : Nat, oid : Txn, rows : 0..MaxRows]
    /\ parts \in Seq(Partition) /\ Len(parts) > 0
    /\ refs \subseteq 0..NoPivot
    /\ refParts \in Seq(RefPartition) /\ Len(refParts) > 0

\* Transactions have a GTID from GetGTID on, each another one; so none is
\* beyond the last pivot.
Numbered == {t \in Txn : txns[t].gtid # 0}

GTIDsInv ==
    /\ last = Cardinality(Numbered)
    /\ \A t \in Txn :
          /\ txns[t].stage \in {"none", "live"} => txns[t].gtid = 0
          /\ txns[t].gtid <= last /\ txns[t].ts <= now
    /\ \A e \in log : e.gtid <= last /\ e.ts <= now

\* Pivots are keys that were there, but for the last partition's.
PivotsInv ==
    /\ \A i \in Closed(parts) : parts[i].max <= last
    /\ parts[Len(parts)].max = NoPivot
    /\ refParts[Len(refParts)].max = NoPivot

\* An entry, written or still to be written, that is not above the pivot of a
\* partition is not younger than the next one.
DatedInv ==
    \A i \in Closed(parts) :
        /\ \A e \in log : e.gtid <= parts[i].max => e.ts <= parts[i + 1].createTime
        /\ \A t \in Txn : txns[t].stage = "gotGTID" /\ txns[t].gtid <= parts[i].max
                             => txns[t].ts <= parts[i + 1].createTime

DateInv == TypeOK /\ GTIDsInv /\ PivotsInv /\ DatedInv

\* The rows of a transaction under way and of every entry are there, and a
\* closed partition that may have rows of an entry knows its GTID.
Covered ==
    \A e \in log, i \in Closed(refParts) :
        e.rows > 0 /\ Key(e.oid, 0) <= refParts[i].max => e.gtid <= refParts[i].maxRefGTID

RowsInv ==
    /\ \A e \in log : txns[e.oid].stage = "done"
    /\ \A t \in Txn : /\ txns[t].stage = "none" => txns[t].rows = 0
                      /\ txns[t].stage \in {"live", "gotGTID"} =>
                             RowsOf(t, txns[t].rows) \subseteq refs
    /\ RefsAreKept
    /\ Covered

LEMMA TypeFacts ==
    ASSUME TypeOK
    PROVE  /\ \A t \in Txn : /\ txns[t].stage \in {"none", "live", "gotGTID", "done"}
                             /\ txns[t].rows \in 0..MaxRows
                             /\ txns[t].gtid \in Nat /\ txns[t].ts \in Nat
           /\ \A e \in log : /\ e.gtid \in Nat /\ e.ts \in Nat
                             /\ e.oid \in Txn /\ e.rows \in 0..MaxRows
           /\ Len(parts) \in Nat /\ Len(refParts) \in Nat
           /\ \A i \in 1..Len(parts) :
                 /\ parts[i] \in Partition
                 /\ parts[i].max \in Nat /\ parts[i].createTime \in Nat
           /\ \A i \in 1..Len(refParts) :
                 /\ refParts[i] \in RefPartition
                 /\ refParts[i].max \in Nat /\ refParts[i].maxRefGTID \in Nat
<1>1. /\ \A t \in Txn : txns[t] \in Transaction
      /\ \A e \in log : e \in [gtid : Nat, ts : Nat, oid : Txn, rows : 0..MaxRows]
      /\ Len(parts) \in Nat /\ Len(refParts) \in Nat
      /\ \A i \in 1..Len(parts) : parts[i] \in Partition
      /\ \A i \in 1..Len(refParts) : refParts[i] \in RefPartition
  BY DEF TypeOK
<1>. QED
  BY ZenonT(30), <1>1 DEF Transaction, Partition, RefPartition

-----------------------------------------------------------------------------
(* Keys, pivots and partitions.                                            *)

LEMMA Times ==
    ASSUME NEW a \in Nat, NEW b \in Nat, NEW c \in Nat, a < b
    PROVE  a * c + c <= b * c
<1>. DEFINE d == b - a - 1
<1>1. d \in Nat /\ b = a + 1 + d
  OBVIOUS
<1>2. b * c = a * c + c + d * c
  BY <1>1
<1>3. d * c \in Nat
  BY <1>1
<1>. QED
  BY <1>2, <1>3

\* Keys are in the order of the OIDs, and then of the sequence numbers.
LEMMA KeyFacts ==
    ASSUME NEW t \in Txn, NEW u \in Txn, NEW r \in 0..MaxRows, NEW s \in 0..MaxRows
    PROVE  /\ Key(t, r) \in 0..NoPivot
           /\ Key(t, r) < NoPivot
           /\ Key(t, 0) <= Key(t, r)
           /\ t # u => Key(t, r) # Key(u, s)
<1>. DEFINE c == MaxRows + 1
<1>0. /\ MaxTxns \in Nat /\ MaxRows \in Nat /\ c \in Nat
      /\ t \in Nat /\ u \in Nat /\ r \in Nat /\ s \in Nat /\ r < c /\ s < c /\ t <= MaxTxns
  BY TrimAssumption DEF Txn
<1>1. t * c \in Nat /\ u * c \in Nat /\ MaxTxns * c \in Nat
  BY <1>0
<1>2. t * c <= MaxTxns * c
  <2>1. CASE t = MaxTxns
    BY <2>1, <1>1
  <2>2. CASE t < MaxTxns
    <3>1. t * c + c <= MaxTxns * c
      BY ZenonT(30), <2>2, <1>0, Times
    <3>. QED
      BY <3>1, <1>0, <1>1
  <2>. QED
    BY <2>1, <2>2, <1>0
<1>3. t < u => t * c + c <= u * c
  BY ZenonT(30), <1>0, Times
<1>4. u < t => u * c + c <= t * c
  BY ZenonT(30), <1>0, Times
<1>5. Key(t, r) = t * c + r /\ Key(t, 0) = t * c /\ Key(u, s) = u * c + s
  BY <1>0, <1>1 DEF Key
<1>6. NoPivot = MaxTxns * c + c
  BY <1>0, <1>1 DEF NoPivot
<1>. HIDE DEF c
<1>. QED
  BY <1>0, <1>1, <1>2, <1>3, <1>4, <1>5, <1>6

\* partitionWithPK finds the first partition that is not below the key.
LEMMA PartitionFacts ==
    ASSUME NEW S, NEW ps \in Seq(S), Len(ps) > 0, \A p \in S : p.max \in Nat,
           ps[Len(ps)].max = NoPivot, NEW key \in 0..NoPivot
    PROVE  /\ partitionWithPK(ps, key) \in 1..Len(ps)
           /\ key <= ps[partitionWithPK(ps, key)].max
           /\ \A i \in 1..Len(ps) : key <= ps[i].max => partitionWithPK(ps, key) <= i
<1>. DEFINE T == {i \in DOMAIN ps : key <= ps[i].max}
<1>1. DOMAIN ps = 1..Len(ps) /\ Len(ps) \in Nat
  OBVIOUS
<1>2. T \in SUBSET Nat /\ Len(ps) \in T
  BY <1>1
<1>3. Min(T) \in T /\ \A i \in T : Min(T) <= i
  BY ZenonT(30), <1>2, MinIsLeast
<1>4. partitionWithPK(ps, key) = Min(T)
  BY ZenonT(30) DEF partitionWithPK
<1>. HIDE DEF T
<1>5. \A i : i \in T <=> i \in 1..Len(ps) /\ key <= ps[i].max
  BY ZenonT(30), <1>1 DEF T
<1>. QED
  BY ZenonT(30), <1>3, <1>4, <1>5

\* The last key is one of the keys, in the last partition, and none of that
\* partition is above it.
LEMMA LastKeyFacts ==
    ASSUME NEW S, NEW ps \in Seq(S), NEW keys \in SUBSET (0..NoPivot)
    PROVE  /\ LastKey(ps, keys) \in 0..NoPivot
           /\ LastKey(ps, keys) # 0 => /\ LastKey(ps, keys) \in keys
                                       /\ partitionWithPK(ps, LastKey(ps, keys)) = Len(ps)
           /\ \A k \in keys : partitionWithPK(ps, k) = Len(ps) => k <= LastKey(ps, keys)
<1>. DEFINE T == {k \in keys : partitionWithPK(ps, k) = Len(ps)} \cup {0}
<1>1. NoPivot \in Nat
  <2>1. MaxTxns \in Nat /\ MaxRows \in Nat
    BY ZenonT(30), TrimAssumption
  <2>2. MaxTxns * (MaxRows + 1) \in Nat
    BY <2>1
  <2>. QED
    BY <2>1, <2>2 DEF NoPivot
<1>2. T \in SUBSET (0..NoPivot) /\ T # {}
  <2>1. 0 \in 0..NoPivot
    BY <1>1
  <2>. QED
    BY ZenonT(30), <2>1
<1>3. Max(T) \in T /\ \A k \in T : k <= Max(T)
  BY ZenonT(30), <1>1, <1>2, MaxIsGreatest
<1>4. LastKey(ps, keys) = Max(T)
  BY ZenonT(30) DEF LastKey
<1>5. \A k : k \in T <=> (k \in keys /\ partitionWithPK(ps, k) = Len(ps)) \/ k = 0
  BY ZenonT(30)
<1>. HIDE DEF T
<1>. QED
  BY ZenonT(30), <1>2, <1>3, <1>4, <1>5

LEMMA CappedFacts ==
    ASSUME NEW S, NEW ps \in Seq(S), Len(ps) > 0, NEW pivot, NEW new \in S,
           NEW closed \in S, closed = [ps[Len(ps)] EXCEPT !.max = pivot],
           NEW qs, qs = Capped(ps, pivot, new)
    PROVE  /\ qs \in Seq(S)
           /\ Len(qs) = Len(ps) + 1
           /\ \A i \in Closed(ps) : qs[i] = ps[i]
           /\ qs[Len(ps)] = closed
           /\ qs[Len(ps) + 1] = new
<1>. DEFINE q == [ps EXCEPT ![Len(ps)] = [ps[Len(ps)] EXCEPT !.max = pivot]]
<1>1. Len(ps) \in Nat /\ Len(ps) \in 1..Len(ps)
  BY LenProperties
<1>3. q \in Seq(S) /\ Len(q) = Len(ps)
  BY <1>1, ExceptSeq
<1>4. /\ \A i \in Closed(ps) : q[i] = ps[i]
      /\ q[Len(ps)] = [ps[Len(ps)] EXCEPT !.max = pivot]
  BY <1>1, ExceptSeq DEF Closed
<1>5. Capped(ps, pivot, new) = Append(q, new)
  BY ZenonT(30) DEF Capped
<1>. HIDE DEF q
<1>6. /\ Append(q, new) \in Seq(S)
      /\ Len(Append(q, new)) = Len(q) + 1
      /\ \A i \in 1..Len(q) : Append(q, new)[i] = q[i]
      /\ Append(q, new)[Len(q) + 1] = new
  BY <1>3, AppendProperties
<1>. QED
  BY <1>1, <1>3, <1>4, <1>5, <1>6 DEF Closed

LEMMA DropFacts ==
    ASSUME NEW S, NEW ps \in Seq(S), NEW n \in 0..(Len(ps) - 1)
    PROVE  /\ SubSeq(ps, n + 1, Len(ps)) \in Seq(S)
           /\ Len(SubSeq(ps, n + 1, Len(ps))) = Len(ps) - n
           /\ \A i \in 1..(Len(ps) - n) : SubSeq(ps, n + 1, Len(ps))[i] = ps[n + i]
<1>1. Len(ps) \in Nat
  OBVIOUS
<1>2. \A i \in (n + 1)..Len(ps) : ps[i] \in S
  BY <1>1
<1>. QED
  BY <1>1, <1>2, SubSeqProperties

\* How many partitions are dropped: those before the first that is not old.
LEMMA DroppableFacts ==
    ASSUME NEW S, NEW ps \in Seq(S), Len(ps) > 0, NEW old
    PROVE  /\ Droppable(ps, old) \in 0..(Len(ps) - 1)
           /\ 1..Droppable(ps, old) \subseteq old
<1>. DEFINE T == {k \in 0..(Len(ps) - 1) : 1..k \subseteq old}
<1>1. Len(ps) - 1 \in Nat
  OBVIOUS
<1>2. T \in SUBSET (0..(Len(ps) - 1)) /\ 0 \in T
  BY <1>1
<1>3. Max(T) \in T
  BY ZenonT(30), <1>1, <1>2, MaxIsGreatest
<1>. QED
  BY ZenonT(30), <1>3 DEF Droppable

-----------------------------------------------------------------------------
(* Entries are dated.                                                      *)

\* There are no more GTIDs than transactions, so all are below the last pivot.
LEMMA LastBound ==
    ASSUME GTIDsInv
    PROVE  last \in 0..MaxTxns /\ last < NoPivot
<1>1. MaxTxns \in Nat /\ MaxRows \in Nat
  BY ZenonT(30), TrimAssumption
<1>2. IsFiniteSet(Txn) /\ Cardinality(Txn) = MaxTxns
  <2>1. IsFiniteSet(1..MaxTxns) /\ Cardinality(1..MaxTxns) = IF 1 > MaxTxns THEN 0 ELSE MaxTxns - 1 + 1
    BY <1>1, FS_Interval
  <2>. QED
    BY <1>1, <2>1 DEF Txn
<1>3. IsFiniteSet(Numbered) /\ Cardinality(Numbered) <= MaxTxns
  BY ZenonT(30), <1>2, FS_Subset DEF Numbered
<1>4. Cardinality(Numbered) \in Nat
  BY ZenonT(30), <1>3, FS_CardinalityType
<1>5. MaxTxns * MaxRows \in Nat
  BY <1>1
<1>6. NoPivot = MaxTxns * MaxRows + MaxTxns + MaxRows + 1
  BY <1>1 DEF NoPivot
<1>. QED
  BY <1>1, <1>3, <1>4, <1>5, <1>6 DEF GTIDsInv

\* One more transaction has a GTID.
LEMMA CountStep ==
    ASSUME GTIDsInv, NEW t \in Txn, txns[t].gtid = 0, txns'[t].gtid # 0,
           \A u \in Txn \ {t} : txns'[u].gtid = txns[u].gtid
    PROVE  Cardinality(Numbered') = last + 1
<1>1. Numbered' = Numbered \cup {t} /\ t \notin Numbered
  BY DEF Numbered
<1>2. IsFiniteSet(Txn)
  BY TrimAssumption, FS_Interval DEF Txn
<1>3. IsFiniteSet(Numbered)
  BY ZenonT(30), <1>2, FS_Subset DEF Numbered
<1>. QED
  BY ZenonT(30), <1>1, <1>3, FS_AddElement DEF GTIDsInv

LEMMA SpillDated == ASSUME DateInv, NEW t \in Txn, Spill(t) PROVE DateInv'
<1>. USE DEF DateInv
<1>1. txns[t].rows \in 0..MaxRows /\ txns[t].rows + 1 \in 0..MaxRows
  BY TrimAssumption DEF TypeOK, Transaction, Spill
<1>2. TypeOK'
  <2>1. Key(t, txns[t].rows + 1) \in 0..NoPivot
    BY ZenonT(30), <1>1, KeyFacts
  <2>2. refs' \subseteq 0..NoPivot
    BY ZenonT(30), <2>1 DEF TypeOK, Spill
  <2>3. txns' \in [Txn -> Transaction]
    <3>. DEFINE x == [txns[t] EXCEPT !.rows = @ + 1,
                                     !.stage = IF @ = "none" THEN "live" ELSE @]
    <3>1. txns[t] \in Transaction
      BY ZenonT(30) DEF TypeOK
    <3>2. x \in Transaction
      BY ZenonT(30), <1>1, <3>1 DEF Transaction
    <3>3. /\ txns \in [Txn -> Transaction]
          /\ txns' = [txns EXCEPT ![t].rows = @ + 1,
                                  ![t].stage = IF @ = "none" THEN "live" ELSE @]
      BY ZenonT(30) DEF TypeOK, Spill
    <3>4. txns' = [txns EXCEPT ![t] = x]
      BY ZenonT(30), <3>3
    <3>. QED
      BY ZenonT(30), <3>2, <3>3, <3>4
  <2>. QED
    BY ZenonT(30), <2>2, <2>3 DEF TypeOK, Spill
<1>3. /\ \A u \in Txn : txns'[u].gtid = txns[u].gtid /\ txns'[u].ts = txns[u].ts
      /\ \A u \in Txn : txns'[u].stage \in {"none", "live"} => txns[u].stage \in {"none", "live"}
      /\ \A u \in Txn : txns'[u].stage = "gotGTID" => txns[u].stage = "gotGTID"
  BY ZenonT(30) DEF TypeOK, Transaction, Spill
<1>4. Numbered' = Numbered
  BY ZenonT(30), <1>3 DEF Numbered
<1>5. GTIDsInv'
  BY ZenonT(30), <1>3, <1>4 DEF GTIDsInv, Spill
<1>6. PivotsInv' /\ DatedInv'
  BY ZenonT(30), <1>3 DEF PivotsInv, DatedInv, Closed, Spill
<1>. QED
  BY ZenonT(30), <1>2, <1>5, <1>6

LEMMA GetGTIDDated == ASSUME DateInv, NEW t \in Txn, GetGTID(t) PROVE DateInv'
<1>. USE DEF DateInv
<1>1. TypeOK'
  <2>0. txns[t] \in Transaction /\ last + 1 \in Nat /\ now \in Nat
    BY DEF TypeOK
  <2>1. [txns[t] EXCEPT !.stage = "gotGTID", !.gtid = last + 1, !.ts = now] \in Transaction
    BY ZenonT(30), <2>0 DEF Transaction
  <2>2. /\ txns' = [txns EXCEPT ![t].stage = "gotGTID", ![t].gtid = last + 1, ![t].ts = now]
        /\ DOMAIN txns = Txn
    BY ZenonT(30) DEF TypeOK, GetGTID
  <2>3. txns' = [txns EXCEPT ![t] = [txns[t] EXCEPT !.stage = "gotGTID", !.gtid = last + 1, !.ts = now]]
    BY ZenonT(30), <2>2
  <2>. QED
    BY <2>1, <2>3 DEF TypeOK, GetGTID
<1>2. /\ txns[t].gtid = 0
      /\ txns'[t].gtid = last + 1 /\ txns'[t].ts = now /\ txns'[t].stage = "gotGTID"
      /\ \A u \in Txn \ {t} : txns'[u] = txns[u]
      /\ last' = last + 1 /\ now' = now /\ last \in Nat /\ now \in Nat
  BY ZenonT(30) DEF TypeOK, Transaction, GTIDsInv, GetGTID
<1>3. GTIDsInv'
  <2>1. Cardinality(Numbered') = last'
    BY <1>2, CountStep
  <2>2. \A u \in Txn :
           /\ txns'[u].stage \in {"none", "live"} => txns'[u].gtid = 0
           /\ txns'[u].gtid <= last' /\ txns'[u].ts <= now'
    BY <1>2, TypeFacts DEF GTIDsInv
  <2>3. \A e \in log' : e.gtid <= last' /\ e.ts <= now'
    BY <1>2, TypeFacts DEF GTIDsInv, GetGTID
  <2>. QED
    BY ZenonT(30), <2>1, <2>2, <2>3 DEF GTIDsInv
<1>4. PivotsInv' /\ DatedInv'
  <2>1. Len(parts) \in Nat /\ \A i \in 1..Len(parts) : parts[i].max \in Nat
    BY ZenonT(30), TypeFacts
  <2>2. parts' = parts /\ refParts' = refParts /\ log' = log
    BY ZenonT(30) DEF GetGTID
  <2>3. PivotsInv'
    BY <1>2, <2>1, <2>2 DEF PivotsInv, Closed
  <2>4. \A i \in Closed(parts) : ~ (txns'[t].gtid <= parts[i].max)
    BY <1>2, <2>1 DEF PivotsInv, Closed
  <2>. QED
    BY <1>2, <2>2, <2>3, <2>4 DEF DatedInv
<1>. QED
  BY ZenonT(30), <1>1, <1>3, <1>4

LEMMA MaxRefGTIDsFacts ==
    ASSUME TypeOK, NEW t \in Txn
    PROVE  /\ MaxRefGTIDs(t) \in Seq(RefPartition)
           /\ Len(MaxRefGTIDs(t)) = Len(refParts)
           /\ \A i \in 1..Len(refParts) :
                 /\ MaxRefGTIDs(t)[i].max = refParts[i].max
                 /\ refParts[i].maxRefGTID <= MaxRefGTIDs(t)[i].maxRefGTID
           /\ \A i \in Closed(refParts) :
                 partitionWithPK(refParts, Key(t, 0)) <= i
                    => txns[t].gtid <= MaxRefGTIDs(t)[i].maxRefGTID
<1>. DEFINE new(i) == IF /\ i >= partitionWithPK(refParts, Key(t, 0)) /\ i < Len(refParts)
                         /\ refParts[i].maxRefGTID < txns[t].gtid
                      THEN [refParts[i] EXCEPT !.maxRefGTID = txns[t].gtid] ELSE refParts[i]
<1>1. /\ Len(refParts) \in Nat /\ DOMAIN refParts = 1..Len(refParts)
      /\ \A i \in 1..Len(refParts) : refParts[i] \in RefPartition
      /\ txns[t].gtid \in Nat
  BY TypeFacts DEF TypeOK
<1>2. \A i \in 1..Len(refParts) :
         /\ new(i) \in RefPartition
         /\ new(i).max = refParts[i].max
         /\ refParts[i].maxRefGTID <= new(i).maxRefGTID
         /\ i < Len(refParts) /\ partitionWithPK(refParts, Key(t, 0)) <= i
               => txns[t].gtid <= new(i).maxRefGTID
  BY <1>1 DEF RefPartition
<1>3. MaxRefGTIDs(t) = [i \in 1..Len(refParts) |-> new(i)]
  BY <1>1, ZenonT(30) DEF MaxRefGTIDs
<1>. HIDE DEF new
<1>4. [i \in 1..Len(refParts) |-> new(i)] \in [1..Len(refParts) -> RefPartition]
  BY ZenonT(30), <1>2
<1>5. MaxRefGTIDs(t) \in Seq(RefPartition) /\ Len(MaxRefGTIDs(t)) = Len(refParts)
  BY <1>1, <1>3, <1>4
<1>. QED
  BY <1>1, <1>2, <1>3, <1>5 DEF Closed

LEMMA LogAndCommitDated == ASSUME DateInv, NEW t \in Txn, LogAndCommit(t) PROVE DateInv'
<1>. USE DEF DateInv
<1>1. /\ refParts' \in Seq(RefPartition) /\ Len(refParts') = Len(refParts)
      /\ \A i \in 1..Len(refParts) : refParts'[i].max = refParts[i].max
  BY ZenonT(30), MaxRefGTIDsFacts DEF TypeOK, Transaction, LogAndCommit
<1>2. TypeOK'
  BY <1>1 DEF TypeOK, Transaction, LogAndCommit, EntryOf
<1>3. /\ \A u \in Txn : txns'[u].gtid = txns[u].gtid /\ txns'[u].ts = txns[u].ts
      /\ \A u \in Txn : txns'[u].stage # "done" => txns'[u].stage = txns[u].stage
      /\ log' = log \cup {EntryOf(t)}
      /\ EntryOf(t).gtid = txns[t].gtid /\ EntryOf(t).ts = txns[t].ts
      /\ txns[t].stage = "gotGTID"
  BY ZenonT(30) DEF TypeOK, Transaction, LogAndCommit, EntryOf
<1>4. Numbered' = Numbered
  BY ZenonT(30), <1>3 DEF Numbered
<1>5. GTIDsInv'
  BY ZenonT(30), <1>3, <1>4 DEF GTIDsInv, LogAndCommit
<1>6. PivotsInv'
  <2>1. Len(refParts) \in 1..Len(refParts)
    BY DEF TypeOK
  <2>. QED
    BY ZenonT(30), <1>1, <2>1 DEF PivotsInv, Closed, LogAndCommit
<1>7. DatedInv'
  BY <1>3 DEF DatedInv, Closed, LogAndCommit
<1>. QED
  BY ZenonT(30), <1>2, <1>5, <1>6, <1>7

LEMMA AbortDated == ASSUME DateInv, NEW t \in Txn, Abort(t) PROVE DateInv'
<1>. USE DEF DateInv
<1>1. TypeOK'
  BY ZenonT(30) DEF TypeOK, Transaction, Abort
<1>2. /\ \A u \in Txn : txns'[u].gtid = txns[u].gtid /\ txns'[u].ts = txns[u].ts
      /\ \A u \in Txn : txns'[u].stage # "done" => txns'[u].stage = txns[u].stage
  BY ZenonT(30) DEF TypeOK, Transaction, Abort
<1>3. Numbered' = Numbered
  BY ZenonT(30), <1>2 DEF Numbered
<1>. QED
  BY <1>1, <1>2, <1>3 DEF GTIDsInv, PivotsInv, DatedInv, Closed, Abort

LEMMA CopyDated ==
    ASSUME DateInv, NEW t \in Txn, NEW n \in 0..MaxRows, replicateFullTransactionToOplog(t, n)
    PROVE  DateInv'
<1>. USE DEF DateInv
<1>1. PICK ts \in {now} \cup (IF now = 0 THEN {} ELSE {now - 1}) :
         /\ log' = log \cup {[gtid |-> last + 1, ts |-> ts, oid |-> t, rows |-> n]}
         /\ txns' = [txns EXCEPT ![t] = [stage |-> "done", rows |-> n, gtid |-> last + 1, ts |-> ts]]
  BY ZenonT(30) DEF replicateFullTransactionToOplog
<1>2. /\ txns[t].stage = "none" /\ refs' = refs \cup RowsOf(t, n)
      /\ last' = last + 1 /\ now' = now /\ primary' = primary
      /\ parts' = parts /\ refParts' = refParts
  BY ZenonT(30) DEF replicateFullTransactionToOplog
<1>3. ts \in Nat /\ ts <= now /\ now \in Nat /\ last \in Nat
  BY <1>1 DEF TypeOK
<1>4. TypeOK'
  <2>1. RowsOf(t, n) \subseteq 0..NoPivot
    BY KeyFacts, TrimAssumption DEF RowsOf
  <2>2. txns' \in [Txn -> Transaction]
    BY <1>1, <1>3 DEF TypeOK, Transaction
  <2>3. log' \subseteq [gtid : Nat, ts : Nat, oid : Txn, rows : 0..MaxRows]
    BY <1>1, <1>3 DEF TypeOK
  <2>4. refs' \subseteq 0..NoPivot
    <3>1. refs \subseteq 0..NoPivot
      BY ZenonT(30) DEF TypeOK
    <3>. QED
      BY <1>2, <2>1, <3>1, ZenonT(30)
  <2>5. last' \in Nat
    BY <1>2, <1>3
  <2>. QED
    BY ZenonT(30), <1>2, <2>2, <2>3, <2>4, <2>5 DEF TypeOK
<1>5. /\ txns'[t].gtid = last + 1 /\ txns'[t].ts = ts /\ txns'[t].stage = "done"
      /\ \A u \in Txn \ {t} : txns'[u] = txns[u]
  BY ZenonT(30), <1>1 DEF TypeOK
<1>6. \A e \in log' : e \in log \/ (e.gtid = last + 1 /\ e.ts = ts)
  BY <1>1
<1>7. GTIDsInv'
  <2>1. txns[t].gtid = 0
    BY ZenonT(30), <1>2 DEF GTIDsInv
  <2>2. Cardinality(Numbered') = last'
    BY <1>2, <1>3, <1>5, <2>1, CountStep
  <2>3. \A u \in Txn :
           /\ txns'[u].stage \in {"none", "live"} => txns'[u].gtid = 0
           /\ txns'[u].gtid <= last' /\ txns'[u].ts <= now'
    <3>. SUFFICES ASSUME NEW u \in Txn
                  PROVE  /\ txns'[u].stage \in {"none", "live"} => txns'[u].gtid = 0
                         /\ txns'[u].gtid <= last' /\ txns'[u].ts <= now'
      BY ZenonT(30)
    <3>1. CASE u = t
      BY <1>2, <1>3, <1>5, <3>1
    <3>2. CASE u # t
      <4>1. txns'[u] = txns[u]
        BY ZenonT(30), <1>5, <3>2
      <4>2. /\ txns[u].stage \in {"none", "live"} => txns[u].gtid = 0
            /\ txns[u].gtid <= last /\ txns[u].ts <= now
        BY ZenonT(30) DEF GTIDsInv
      <4>3. txns[u].gtid \in Nat
        BY ZenonT(30), TypeFacts
      <4>. QED
        BY <1>2, <1>3, <4>1, <4>2, <4>3
    <3>. QED
      BY ZenonT(30), <3>1, <3>2
  <2>4. \A e \in log' : e.gtid <= last' /\ e.ts <= now'
    <3>1. \A e \in log : e.gtid \in Nat /\ e.gtid <= last /\ e.ts <= now
      BY ZenonT(30), TypeFacts DEF GTIDsInv
    <3>. QED
      BY <1>2, <1>3, <1>6, <3>1
  <2>. QED
    BY ZenonT(30), <2>2, <2>3, <2>4 DEF GTIDsInv
<1>8. \A i \in Closed(parts) : parts[i].max <= last /\ parts[i].max \in Nat
  BY TypeFacts DEF PivotsInv, Closed
<1>9. PivotsInv'
  BY <1>2, <1>3, <1>8 DEF PivotsInv
<1>10. DatedInv'
  BY <1>2, <1>3, <1>5, <1>6, <1>8 DEF DatedInv
<1>. QED
  BY ZenonT(30), <1>4, <1>7, <1>9, <1>10

\* What addOplogPartitions does to the partitions.
LEMMA AddFacts ==
    ASSUME DateInv, addOplogPartitions
    PROVE  LET pivot == LastKey(parts, GTIDs(log))
               lastRef == LastKey(refParts, refs)
           IN  /\ pivot \in GTIDs(log) /\ pivot \in Nat
               /\ parts' \in Seq(Partition) /\ Len(parts') = Len(parts) + 1
               /\ \A i \in Closed(parts) : parts'[i] = parts[i]
               /\ parts'[Len(parts)] = [parts[Len(parts)] EXCEPT !.max = pivot]
               /\ parts'[Len(parts) + 1] = [max |-> NoPivot, createTime |-> now]
               /\ \/ refParts' = refParts
                  \/ /\ refParts' \in Seq(RefPartition) /\ Len(refParts') = Len(refParts) + 1
                     /\ \A i \in Closed(refParts) : refParts'[i] = refParts[i]
                     /\ refParts'[Len(refParts)].max = lastRef
                     /\ refParts'[Len(refParts)].maxRefGTID = pivot
                     /\ refParts'[Len(refParts) + 1] = [max |-> NoPivot, maxRefGTID |-> 0]
<1>. DEFINE pivot == LastKey(parts, GTIDs(log))
            lastRef == LastKey(refParts, refs)
            rp == [refParts EXCEPT ![Len(refParts)].maxRefGTID = pivot]
<1>1. TypeOK /\ GTIDsInv
  BY ZenonT(30) DEF DateInv
<1>2. last < NoPivot /\ last \in Nat /\ NoPivot \in Nat
  BY <1>1, LastBound, TrimAssumption DEF NoPivot
<1>3. GTIDs(log) \in SUBSET (0..NoPivot)
  BY <1>1, <1>2, TypeFacts DEF GTIDs, GTIDsInv
<1>4. /\ pivot # 0
      /\ parts' = Capped(parts, pivot, [max |-> NoPivot, createTime |-> now])
      /\ refParts' = IF lastRef = 0 THEN refParts
                     ELSE Capped(rp, lastRef, [max |-> NoPivot, maxRefGTID |-> 0])
  BY ZenonT(30) DEF addOplogPartitions, Pivot
<1>5. pivot \in GTIDs(log) /\ pivot \in Nat
  BY <1>1, <1>3, <1>4, LastKeyFacts DEF TypeOK
<1>6. lastRef \in Nat
  BY <1>1, LastKeyFacts DEF TypeOK
<1>7. /\ parts \in Seq(Partition) /\ Len(parts) > 0 /\ now \in Nat
      /\ refParts \in Seq(RefPartition) /\ Len(refParts) > 0
      /\ Len(refParts) \in 1..Len(refParts) /\ Len(parts) \in 1..Len(parts)
  BY <1>1 DEF TypeOK
<1>. HIDE DEF pivot, lastRef
<1>8. /\ parts' \in Seq(Partition) /\ Len(parts') = Len(parts) + 1
      /\ \A i \in Closed(parts) : parts'[i] = parts[i]
      /\ parts'[Len(parts)] = [parts[Len(parts)] EXCEPT !.max = pivot]
      /\ parts'[Len(parts) + 1] = [max |-> NoPivot, createTime |-> now]
  <2>1. parts[Len(parts)] \in Partition
    BY ZenonT(30), <1>1, <1>7, TypeFacts
  <2>2. [parts[Len(parts)] EXCEPT !.max = pivot] \in Partition
    BY ZenonT(30), <1>5, <2>1 DEF Partition
  <2>3. [max |-> NoPivot, createTime |-> now] \in Partition
    BY ZenonT(30), <1>2, <1>7 DEF Partition
  <2>. QED
    BY <1>4, <1>7, <2>2, <2>3, CappedFacts
<1>9. ASSUME lastRef # 0
      PROVE  /\ refParts' \in Seq(RefPartition) /\ Len(refParts') = Len(refParts) + 1
             /\ \A i \in Closed(refParts) : refParts'[i] = refParts[i]
             /\ refParts'[Len(refParts)].max = lastRef
             /\ refParts'[Len(refParts)].maxRefGTID = pivot
             /\ refParts'[Len(refParts) + 1] = [max |-> NoPivot, maxRefGTID |-> 0]
  <2>0. refParts[Len(refParts)] \in RefPartition
    BY ZenonT(30), <1>1, <1>7, TypeFacts
  <2>1. [refParts[Len(refParts)] EXCEPT !.maxRefGTID = pivot] \in RefPartition
    BY ZenonT(30), <1>5, <2>0 DEF RefPartition
  <2>2. /\ rp \in Seq(RefPartition) /\ Len(rp) = Len(refParts)
        /\ \A i \in Closed(refParts) : rp[i] = refParts[i]
        /\ rp[Len(refParts)] = [refParts[Len(refParts)] EXCEPT !.maxRefGTID = pivot]
    BY <1>7, <2>1, ExceptSeq DEF Closed
  <2>. HIDE DEF rp
  <2>3. rp[Len(rp)] \in RefPartition /\ rp[Len(rp)].maxRefGTID = pivot
    BY ZenonT(30), <2>0, <2>1, <2>2 DEF RefPartition
  <2>4. [rp[Len(rp)] EXCEPT !.max = lastRef] \in RefPartition
    BY ZenonT(30), <1>6, <2>3 DEF RefPartition
  <2>8. /\ [rp[Len(rp)] EXCEPT !.max = lastRef].max = lastRef
        /\ [rp[Len(rp)] EXCEPT !.max = lastRef].maxRefGTID = pivot
    BY ZenonT(30), <1>6, <2>3 DEF RefPartition
  <2>5. [max |-> NoPivot, maxRefGTID |-> 0] \in RefPartition
    BY ZenonT(30), <1>2 DEF RefPartition
  <2>6. refParts' = Capped(rp, lastRef, [max |-> NoPivot, maxRefGTID |-> 0])
    BY ZenonT(30), <1>4, <1>9
  <2>7. /\ refParts' \in Seq(RefPartition) /\ Len(refParts') = Len(rp) + 1
        /\ \A i \in Closed(rp) : refParts'[i] = rp[i]
        /\ refParts'[Len(rp)] = [rp[Len(rp)] EXCEPT !.max = lastRef]
        /\ refParts'[Len(rp) + 1] = [max |-> NoPivot, maxRefGTID |-> 0]
    <3>1. Len(rp) > 0 /\ rp \in Seq(RefPartition)
      BY ZenonT(30), <1>7, <2>2
    <3>. QED
      BY <2>4, <2>5, <2>6, <3>1, CappedFacts
  <2>. QED
    BY ZenonT(30), <2>2, <2>7, <2>8 DEF Closed
<1>. QED
  BY ZenonT(30), <1>4, <1>5, <1>8, <1>9 DEF pivot, lastRef

LEMMA AddDated == ASSUME DateInv, addOplogPartitions PROVE DateInv'
<1>. DEFINE n == Len(parts)
<1>1. /\ TypeOK /\ GTIDsInv /\ PivotsInv /\ DatedInv
      /\ now' = now /\ primary' = primary /\ txns' = txns /\ last' = last /\ log' = log /\ refs' = refs
  BY ZenonT(30) DEF DateInv, addOplogPartitions
<1>2. PICK pivot \in GTIDs(log) :
         /\ parts' \in Seq(Partition) /\ Len(parts') = n + 1
         /\ \A i \in Closed(parts) : parts'[i] = parts[i]
         /\ parts'[n] = [parts[n] EXCEPT !.max = pivot]
         /\ parts'[n + 1] = [max |-> NoPivot, createTime |-> now]
  BY AddFacts, ZenonT(30)
<1>3. /\ refParts' \in Seq(RefPartition) /\ Len(refParts') > 0
      /\ refParts'[Len(refParts')].max = NoPivot
  BY <1>1, AddFacts DEF TypeOK, PivotsInv
<1>4. /\ n \in Nat /\ n \in 1..n /\ parts[n] \in Partition
      /\ pivot <= last /\ pivot \in Nat /\ now \in Nat
  BY <1>1, TypeFacts DEF GTIDs, GTIDsInv, TypeOK
<1>5. TypeOK'
  BY <1>1, <1>2, <1>3, <1>4 DEF TypeOK
<1>6. GTIDsInv'
  BY ZenonT(30), <1>1 DEF GTIDsInv, Numbered
<1>7. /\ parts'[n].max = pivot /\ parts'[n].createTime = parts[n].createTime
      /\ parts'[n + 1].max = NoPivot /\ parts'[n + 1].createTime = now
  BY <1>2, <1>4 DEF Partition
<1>. HIDE DEF n
<1>8. Closed(parts) = 1..(n - 1) /\ Closed(parts)' = 1..n
  BY <1>2, <1>4 DEF Closed, n
<1>9. PivotsInv'
  <2>0. \A i \in 1..(n - 1) : parts'[i].max <= last
    BY ZenonT(30), <1>1, <1>2, <1>8 DEF PivotsInv
  <2>1. \A i \in 1..n : parts'[i].max <= last
    BY <1>4, <1>7, <2>0
  <2>. QED
    BY ZenonT(30), <1>1, <1>2, <1>3, <1>7, <1>8, <2>1 DEF PivotsInv
<1>10. DatedInv'
  <2>. SUFFICES ASSUME NEW i \in 1..n
                PROVE  /\ \A e \in log : e.gtid <= parts'[i].max => e.ts <= parts'[i + 1].createTime
                       /\ \A t \in Txn : txns[t].stage = "gotGTID" /\ txns[t].gtid <= parts'[i].max
                                           => txns[t].ts <= parts'[i + 1].createTime
    BY ZenonT(30), <1>1, <1>8 DEF DatedInv
  <2>1. CASE i = n
    BY ZenonT(30), <1>1, <1>7, <2>1 DEF GTIDsInv
  <2>2. CASE i \in 1..(n - 1)
    <3>1. parts'[i].max = parts[i].max /\ parts'[i + 1].createTime = parts[i + 1].createTime
      <4>1. CASE i + 1 = n
        BY ZenonT(30), <1>2, <1>7, <1>8, <2>2, <4>1
      <4>2. CASE i + 1 \in 1..(n - 1)
        BY ZenonT(30), <1>2, <1>8, <2>2, <4>2
      <4>. QED
        BY <1>4, <2>2, <4>1, <4>2
    <3>. QED
      BY ZenonT(30), <1>1, <1>8, <2>2, <3>1 DEF DatedInv
  <2>. QED
    BY <1>4, <2>1, <2>2
<1>. QED
  BY ZenonT(30), <1>5, <1>6, <1>9, <1>10 DEF DateInv

\* What Trim does to the partitions.
LEMMA TrimFacts ==
    ASSUME DateInv, NEW n \in 0..(Len(parts) - 1), Trim(n)
    PROVE  LET m == RefsToDrop(parts[n].max)
           IN  /\ m \in 0..(Len(refParts) - 1)
               /\ \A i \in 1..m : refParts[i].maxRefGTID <= parts[n].max
               /\ parts' \in Seq(Partition) /\ Len(parts') = Len(parts) - n
               /\ \A i \in 1..(Len(parts) - n) : parts'[i] = parts[n + i]
               /\ refParts' \in Seq(RefPartition) /\ Len(refParts') = Len(refParts) - m
               /\ \A i \in 1..(Len(refParts) - m) : refParts'[i] = refParts[m + i]
<1>. DEFINE m == RefsToDrop(parts[n].max)
            old == {i \in Closed(refParts) : refParts[i].maxRefGTID <= parts[n].max}
<1>1. /\ parts \in Seq(Partition) /\ refParts \in Seq(RefPartition) /\ Len(refParts) > 0
  BY ZenonT(30) DEF DateInv, TypeOK
<1>2. m \in 0..(Len(refParts) - 1) /\ 1..m \subseteq old
  BY ZenonT(30), <1>1, DroppableFacts DEF RefsToDrop
<1>3. parts' = SubSeq(parts, n + 1, Len(parts)) /\ refParts' = SubSeq(refParts, m + 1, Len(refParts))
  BY ZenonT(30) DEF Trim
<1>4. \A i \in 1..m : refParts[i].maxRefGTID <= parts[n].max
  BY ZenonT(30), <1>2
<1>. HIDE DEF m, old
<1>5. /\ parts' \in Seq(Partition) /\ Len(parts') = Len(parts) - n
      /\ \A i \in 1..(Len(parts) - n) : parts'[i] = parts[n + i]
  BY ZenonT(30), <1>1, <1>3, DropFacts
<1>6. /\ refParts' \in Seq(RefPartition) /\ Len(refParts') = Len(refParts) - m
      /\ \A i \in 1..(Len(refParts) - m) : refParts'[i] = refParts[m + i]
  BY ZenonT(30), <1>1, <1>2, <1>3, DropFacts
<1>. QED
  BY ZenonT(30), <1>2, <1>4, <1>5, <1>6 DEF m

LEMMA TrimDated == ASSUME DateInv, NEW n \in 0..(Len(parts) - 1), Trim(n) PROVE DateInv'
<1>. DEFINE k == Len(parts)
<1>1. /\ TypeOK /\ GTIDsInv /\ PivotsInv /\ DatedInv
      /\ now' = now /\ primary' = primary /\ txns' = txns /\ last' = last
      /\ log' \subseteq log /\ refs' \subseteq refs
  BY ZenonT(30) DEF DateInv, Trim
<1>2. /\ parts' \in Seq(Partition) /\ Len(parts') = k - n
      /\ \A i \in 1..(k - n) : parts'[i] = parts[n + i]
  BY ZenonT(30), TrimFacts
<1>3. PICK m \in 0..(Len(refParts) - 1) :
         /\ refParts' \in Seq(RefPartition) /\ Len(refParts') = Len(refParts) - m
         /\ \A i \in 1..(Len(refParts) - m) : refParts'[i] = refParts[m + i]
  BY ZenonT(30), TrimFacts
<1>4. k \in Nat /\ Len(refParts) \in Nat /\ k - n > 0 /\ Len(refParts) - m > 0
  BY <1>1, TypeFacts
<1>5. TypeOK'
  BY ZenonT(30), <1>1, <1>2, <1>3, <1>4 DEF TypeOK
<1>6. GTIDsInv'
  BY ZenonT(30), <1>1 DEF GTIDsInv, Numbered
<1>. HIDE DEF k
<1>7. Closed(parts) = 1..(k - 1) /\ Closed(parts)' = 1..(k - n - 1)
  BY ZenonT(30), <1>2, <1>4 DEF Closed, k
<1>8. \A i \in 1..(k - n - 1) : /\ n + i \in 1..(k - 1)
                              /\ parts'[i] = parts[n + i] /\ parts'[i + 1] = parts[(n + i) + 1]
  BY <1>2, <1>4
<1>9. parts'[Len(parts')] = parts[k] /\ refParts'[Len(refParts')] = refParts[Len(refParts)]
  <2>1. k - n \in 1..(k - n) /\ n + (k - n) = k
    BY <1>4
  <2>2. /\ Len(refParts) - m \in 1..(Len(refParts) - m)
        /\ m + (Len(refParts) - m) = Len(refParts)
    BY <1>4
  <2>. QED
    BY ZenonT(30), <1>2, <1>3, <2>1, <2>2
<1>10. PivotsInv'
  <2>1. \A i \in 1..(k - n - 1) : parts'[i].max <= last
    BY ZenonT(30), <1>1, <1>7, <1>8 DEF PivotsInv
  <2>2. parts[k].max = NoPivot /\ refParts[Len(refParts)].max = NoPivot
    BY ZenonT(30), <1>1 DEF PivotsInv, k
  <2>. QED
    BY ZenonT(30), <1>1, <1>7, <1>9, <2>1, <2>2 DEF PivotsInv
<1>11. DatedInv'
  <2>1. \A i \in 1..(k - 1) :
           /\ \A e \in log : e.gtid <= parts[i].max => e.ts <= parts[i + 1].createTime
           /\ \A t \in Txn : txns[t].stage = "gotGTID" /\ txns[t].gtid <= parts[i].max
                                => txns[t].ts <= parts[i + 1].createTime
    BY ZenonT(30), <1>1, <1>7 DEF DatedInv
  <2>2. \A i \in 1..(k - n - 1) : \A e \in log' :
           e.gtid <= parts'[i].max => e.ts <= parts'[i + 1].createTime
    BY ZenonT(30), <1>1, <1>8, <2>1
  <2>3. \A i \in 1..(k - n - 1) : \A t \in Txn :
           txns'[t].stage = "gotGTID" /\ txns'[t].gtid <= parts'[i].max
               => txns'[t].ts <= parts'[i + 1].createTime
    BY ZenonT(30), <1>1, <1>8, <2>1
  <2>. QED
    BY ZenonT(30), <1>7, <2>2, <2>3 DEF DatedInv
<1>. QED
  BY ZenonT(30), <1>5, <1>6, <1>10, <1>11 DEF DateInv

LEMMA StartDated == Init => DateInv
<1>. SUFFICES ASSUME Init PROVE DateInv
  BY ZenonT(30)
<1>1. NoPivot \in Nat
  BY TrimAssumption DEF NoPivot
<1>2. \A t \in Txn : txns[t] = NoTxn
  BY ZenonT(30) DEF Init
<1>3. /\ Len(parts) = 1 /\ parts[1] = [max |-> NoPivot, createTime |-> 0]
      /\ Len(refParts) = 1 /\ refParts[1] = [max |-> NoPivot, maxRefGTID |-> 0]
      /\ parts \in Seq(Partition) /\ refParts \in Seq(RefPartition)
  BY <1>1 DEF Init, Partition, RefPartition
<1>4. NoTxn \in Transaction
  BY TrimAssumption DEF NoTxn, Transaction
<1>5. TypeOK
  BY <1>3, <1>4 DEF Init, TypeOK
<1>6. Numbered = {}
  BY <1>2 DEF Numbered, NoTxn
<1>7. GTIDsInv
  BY <1>2, <1>6, FS_EmptySet DEF GTIDsInv, Init, NoTxn
<1>8. PivotsInv /\ DatedInv
  BY <1>3 DEF PivotsInv, DatedInv, Closed
<1>. QED
  BY ZenonT(30), <1>5, <1>7, <1>8 DEF DateInv

LEMMA StepDated == ASSUME DateInv, [Next]_vars PROVE DateInv'
<1>1. ASSUME NEW t \in Txn, Spill(t) \/ GetGTID(t) \/ LogAndCommit(t) \/ Abort(t)
      PROVE  DateInv'
  BY ZenonT(30), <1>1, SpillDated, GetGTIDDated, LogAndCommitDated, AbortDated
<1>2. ASSUME NEW t \in Txn, NEW n \in 0..MaxRows, replicateFullTransactionToOplog(t, n)
      PROVE  DateInv'
  BY ZenonT(30), <1>2, CopyDated
<1>3. CASE addOplogPartitions
  BY ZenonT(30), <1>3, AddDated
<1>4. parts \in Seq(Partition) /\ Len(parts) > 0
  BY ZenonT(30) DEF DateInv, TypeOK
<1>5. ASSUME NEW ts, trimOplogWithTS(ts) PROVE DateInv'
  BY ZenonT(30), <1>4, <1>5, DroppableFacts, TrimDated DEF trimOplogWithTS
<1>6. ASSUME NEW g, trimOplogwithGTID(g) PROVE DateInv'
  BY ZenonT(30), <1>4, <1>6, DroppableFacts, TrimDated DEF trimOplogwithGTID
<1>7. CASE ChangeState
  <2>1. /\ now' = now /\ primary' \in BOOLEAN /\ txns' = txns /\ last' = last /\ log' = log
        /\ parts' = parts /\ refs' = refs /\ refParts' = refParts
    BY ZenonT(30), <1>7 DEF ChangeState
  <2>. QED
    <3>1. TypeOK'
      BY ZenonT(30), <2>1 DEF DateInv, TypeOK
    <3>2. GTIDsInv'
      BY ZenonT(30), <2>1 DEF DateInv, GTIDsInv, Numbered
    <3>3. PivotsInv'
      BY ZenonT(30), <2>1 DEF DateInv, PivotsInv, Closed
    <3>4. DatedInv'
      BY ZenonT(30), <2>1 DEF DateInv, DatedInv, Closed
    <3>. QED
      BY ZenonT(30), <3>1, <3>2, <3>3, <3>4 DEF DateInv
<1>8. CASE Tick
  <2>1. /\ TypeOK /\ GTIDsInv /\ PivotsInv /\ DatedInv /\ now \in Nat /\ now' = now + 1
        /\ primary' = primary /\ txns' = txns /\ last' = last /\ log' = log
        /\ parts' = parts /\ refs' = refs /\ refParts' = refParts
    BY ZenonT(30), <1>8 DEF Tick, DateInv, TypeOK
  <2>2. TypeOK' /\ PivotsInv' /\ DatedInv'
    BY <2>1 DEF TypeOK, PivotsInv, DatedInv
  <2>3. Numbered' = Numbered
    BY ZenonT(30), <2>1 DEF Numbered
  <2>4. GTIDsInv'
    BY <2>1, <2>3, TypeFacts DEF GTIDsInv
  <2>. QED
    BY ZenonT(30), <2>2, <2>4 DEF DateInv
<1>9. CASE UNCHANGED vars
  BY ZenonT(30), <1>9 DEF vars, DateInv, TypeOK, GTIDsInv, Numbered, PivotsInv, DatedInv
<1>. QED
  BY ZenonT(30), <1>1, <1>2, <1>3, <1>5, <1>6, <1>7, <1>8, <1>9 DEF Next

\* For any number of transactions, rows and partitions, trimming up to a time
\* drops no entry that is younger (trimOplogWithTS).
THEOREM EntriesAreDated == Spec => []PartitionsAreDated
<1>1. DateInv => PartitionsAreDated
  <2>. SUFFICES ASSUME DateInv, NEW e \in log, partitionWithPK(parts, e.gtid) < Len(parts)
                PROVE  e.ts <= parts[partitionWithPK(parts, e.gtid) + 1].createTime
    BY ZenonT(30) DEF PartitionsAreDated
  <2>1. TypeOK /\ GTIDsInv /\ PivotsInv /\ DatedInv
    BY ZenonT(30) DEF DateInv
  <2>2. e.gtid \in 0..NoPivot
    <3>1. e.gtid \in Nat /\ e.gtid <= last
      BY ZenonT(30), <2>1, TypeFacts DEF GTIDsInv
    <3>2. last \in Nat /\ last < NoPivot /\ NoPivot \in Nat
      BY <2>1, LastBound, TrimAssumption DEF NoPivot
    <3>. QED
      BY <3>1, <3>2
  <2>3. \A p \in Partition : p.max \in Nat
    BY ZenonT(30) DEF Partition
  <2>4. /\ partitionWithPK(parts, e.gtid) \in 1..Len(parts)
        /\ e.gtid <= parts[partitionWithPK(parts, e.gtid)].max
    BY ZenonT(30), <2>1, <2>2, <2>3, PartitionFacts DEF TypeOK, PivotsInv
  <2>. QED
    <3>. DEFINE i == partitionWithPK(parts, e.gtid)
    <3>1. i < Len(parts) /\ i \in 1..Len(parts) /\ Len(parts) \in Nat
      BY ZenonT(30), <2>1, <2>4, TypeFacts
    <3>. HIDE DEF i
    <3>2. i \in Closed(parts)
      BY <3>1 DEF Closed
    <3>. QED
      BY ZenonT(30), <2>1, <2>4, <3>2 DEF DatedInv, i
<1>. QED
  BY <1>1, StartDated, StepDated, PTL DEF Spec

\* trimOplogWithTS, which never looks at an entry, removes none that is younger
\* than the time it is given.
TakesOnlyOld(ts) == trimOplogWithTS(ts) => \A e \in log \ log' : e.ts <= ts

\* For any number of transactions, rows and partitions, every step of
\* trimOplogWithTS is such a step.
THEOREM TrimmingTakesOnlyOld == Spec => [][\A ts \in Nat : TakesOnlyOld(ts)]_vars
<1>1. ASSUME DateInv, NEW ts \in Nat PROVE TakesOnlyOld(ts)
  <2>. SUFFICES ASSUME trimOplogWithTS(ts), NEW e \in log, e \notin log' PROVE e.ts <= ts
    BY ZenonT(30) DEF TakesOnlyOld
  <2>. DEFINE old == {i \in Closed(parts) : parts[i + 1].createTime <= ts}
              n == Droppable(parts, old)
  <2>0. Trim(n)
    BY ZenonT(30) DEF trimOplogWithTS
  <2>1. TypeOK /\ DatedInv
    BY ZenonT(30), <1>1 DEF DateInv
  <2>2. n \in 0..(Len(parts) - 1) /\ 1..n \subseteq old
    BY ZenonT(30), <2>1, DroppableFacts DEF TypeOK
  <2>. HIDE DEF n
  <2>3. n > 0 /\ ~ (e.gtid > parts[n].max)
    BY ZenonT(30), <2>0 DEF Trim
  <2>4. n \in Closed(parts) /\ parts[n + 1].createTime <= ts
    <3>1. n \in 1..n
      BY <2>2, <2>3
    <3>2. n \in old
      BY <2>2, <3>1, ZenonT(30)
    <3>. QED
      BY ZenonT(30), <3>2
  <2>5. /\ e.gtid \in Nat /\ e.ts \in Nat /\ Len(parts) \in Nat
        /\ parts[n].max \in Nat /\ parts[n + 1].createTime \in Nat
    BY <2>1, <2>2, <2>3, TypeFacts
  <2>6. e.ts <= parts[n + 1].createTime
    BY <2>1, <2>3, <2>4, <2>5 DEF DatedInv
  <2>. QED
    BY <2>4, <2>5, <2>6
<1>2. DateInv => [\A ts \in Nat : TakesOnlyOld(ts)]_vars
  BY ZenonT(30), <1>1
<1>. QED
  BY <1>2, StartDated, StepDated, PTL DEF Spec

-----------------------------------------------------------------------------
(* The rows of an entry are kept.                                          *)

\* Transactions share no rows, and a transaction's rows are not below the key
\* its partition is looked up with.
LEMMA RowsFacts ==
    ASSUME NEW t \in Txn, NEW n \in 0..MaxRows
    PROVE  /\ \A k \in RowsOf(t, n) : k \in Nat /\ Key(t, 0) <= k
           /\ \A u \in Txn, m \in 0..MaxRows : t # u => RowsOf(t, n) \cap RowsOf(u, m) = {}
           /\ RowsOf(t, 0) = {}
           /\ RowsOf(t, n + 1) = RowsOf(t, n) \cup {Key(t, n + 1)}
           /\ Key(t, 0) \in 0..NoPivot
<1>1. MaxRows \in Nat /\ 1..n \subseteq 0..MaxRows /\ n \in Nat
  BY TrimAssumption
<1>2. \A k \in RowsOf(t, n) : k \in Nat /\ Key(t, 0) <= k
  BY <1>1, KeyFacts DEF RowsOf
<1>3. ASSUME NEW u \in Txn, NEW m \in 0..MaxRows, t # u
      PROVE  RowsOf(t, n) \cap RowsOf(u, m) = {}
  <2>1. 1..m \subseteq 0..MaxRows
    BY <1>1
  <2>2. \A r \in 1..n, s \in 1..m : Key(t, r) # Key(u, s)
    BY ZenonT(30), <1>1, <1>3, <2>1, KeyFacts
  <2>. QED
    BY ZenonT(30), <2>2 DEF RowsOf
<1>4. RowsOf(t, 0) = {}
  BY DEF RowsOf
<1>5. RowsOf(t, n + 1) = RowsOf(t, n) \cup {Key(t, n + 1)}
  <2>1. 1..(n + 1) = 1..n \cup {n + 1}
    BY <1>1
  <2>. QED
    BY ZenonT(30), <2>1 DEF RowsOf
<1>6. Key(t, 0) \in 0..NoPivot
  BY <1>1, KeyFacts
<1>. QED
  BY ZenonT(30), <1>2, <1>3, <1>4, <1>5, <1>6

LEMMA SpillKeepsRows == ASSUME DateInv, RowsInv, NEW t \in Txn, Spill(t) PROVE RowsInv'
<1>1. /\ TypeOK /\ refs' = refs \cup {Key(t, txns[t].rows + 1)} /\ log' = log /\ refParts' = refParts
      /\ txns[t].stage # "done" /\ txns[t].rows \in 0..MaxRows
  BY ZenonT(30), TypeFacts DEF DateInv, Spill
<1>2. /\ txns'[t].rows = txns[t].rows + 1
      /\ txns'[t].stage # "none" /\ txns'[t].stage # "done"
      /\ \A u \in Txn \ {t} : txns'[u] = txns[u]
  BY ZenonT(30), <1>1 DEF TypeOK, Transaction, Spill
<1>3. RowsOf(t, txns[t].rows) \subseteq refs
  BY ZenonT(30), <1>1, RowsFacts, TypeFacts DEF RowsInv
<1>4. RowsOf(t, txns'[t].rows) \subseteq refs'
  BY <1>1, <1>2, <1>3, RowsFacts
<1>5. \A u \in Txn : /\ txns'[u].stage = "none" => txns'[u].rows = 0
                     /\ txns'[u].stage \in {"live", "gotGTID"} => RowsOf(u, txns'[u].rows) \subseteq refs'
  BY ZenonT(30), <1>1, <1>2, <1>4 DEF RowsInv
<1>6. \A e \in log' : txns'[e.oid].stage = "done"
  BY ZenonT(30), <1>1, <1>2, TypeFacts DEF RowsInv
<1>7. RefsAreKept' /\ Covered'
  BY ZenonT(30), <1>1 DEF RowsInv, RefsAreKept, Covered
<1>. QED
  BY ZenonT(30), <1>5, <1>6, <1>7 DEF RowsInv

LEMMA GetGTIDKeepsRows == ASSUME DateInv, RowsInv, NEW t \in Txn, GetGTID(t) PROVE RowsInv'
<1>1. /\ TypeOK /\ refs' = refs /\ log' = log /\ refParts' = refParts
      /\ txns[t].stage \in {"none", "live"} /\ txns[t].rows \in 0..MaxRows
  BY ZenonT(30), TypeFacts DEF DateInv, GetGTID
<1>2. /\ txns'[t].rows = txns[t].rows /\ txns'[t].stage = "gotGTID"
      /\ \A u \in Txn \ {t} : txns'[u] = txns[u]
  BY ZenonT(30), <1>1 DEF TypeOK, Transaction, GetGTID
<1>3. RowsOf(t, txns[t].rows) \subseteq refs
  BY ZenonT(30), <1>1, RowsFacts DEF RowsInv
<1>4. \A u \in Txn : /\ txns'[u].stage = "none" => txns'[u].rows = 0
                     /\ txns'[u].stage \in {"live", "gotGTID"} => RowsOf(u, txns'[u].rows) \subseteq refs'
  BY ZenonT(30), <1>1, <1>2, <1>3 DEF RowsInv
<1>5. \A e \in log' : txns'[e.oid].stage = "done"
  BY ZenonT(30), <1>1, <1>2, TypeFacts DEF RowsInv
<1>6. RefsAreKept' /\ Covered'
  BY ZenonT(30), <1>1 DEF RowsInv, RefsAreKept, Covered
<1>. QED
  BY ZenonT(30), <1>4, <1>5, <1>6 DEF RowsInv

LEMMA LogAndCommitKeepsRows ==
    ASSUME DateInv, RowsInv, NEW t \in Txn, LogAndCommit(t) PROVE RowsInv'
<1>1. /\ TypeOK /\ PivotsInv /\ refs' = refs /\ log' = log \cup {EntryOf(t)}
      /\ txns[t].stage = "gotGTID" /\ txns[t].rows \in 0..MaxRows /\ txns[t].gtid \in Nat
      /\ refParts' = IF txns[t].rows = 0 THEN refParts ELSE MaxRefGTIDs(t)
  BY ZenonT(30), TypeFacts DEF DateInv, LogAndCommit
<1>2. /\ txns'[t].stage = "done"
      /\ \A u \in Txn \ {t} : txns'[u] = txns[u]
  BY ZenonT(30), <1>1 DEF TypeOK, Transaction, LogAndCommit
<1>3. /\ EntryOf(t).oid = t /\ EntryOf(t).rows = txns[t].rows /\ EntryOf(t).gtid = txns[t].gtid
  BY ZenonT(30) DEF EntryOf
<1>4. \A e \in log' : txns'[e.oid].stage = "done"
  BY ZenonT(30), <1>1, <1>2, <1>3, TypeFacts DEF RowsInv
<1>5. \A u \in Txn : /\ txns'[u].stage = "none" => txns'[u].rows = 0
                     /\ txns'[u].stage \in {"live", "gotGTID"} => RowsOf(u, txns'[u].rows) \subseteq refs'
  BY ZenonT(30), <1>1, <1>2 DEF RowsInv
<1>6. RefsAreKept'
  BY ZenonT(30), <1>1, <1>3 DEF RowsInv, RefsAreKept
<1>7. /\ Closed(refParts') = Closed(refParts)
      /\ \A i \in Closed(refParts) :
            /\ i \in 1..Len(refParts)
            /\ refParts'[i].max = refParts[i].max /\ refParts[i].maxRefGTID <= refParts'[i].maxRefGTID
            /\ refParts[i].maxRefGTID \in Nat /\ refParts'[i].maxRefGTID \in Nat
  <2>1. CASE txns[t].rows = 0
    BY <1>1, <2>1, TypeFacts DEF Closed
  <2>2. CASE txns[t].rows # 0
    <3>1. refParts' = MaxRefGTIDs(t) /\ Len(refParts) \in Nat
      BY ZenonT(30), <1>1, <2>2, TypeFacts
    <3>2. /\ Len(refParts') = Len(refParts)
          /\ \A i \in 1..Len(refParts) :
                /\ refParts'[i] \in RefPartition
                /\ refParts'[i].max = refParts[i].max
                /\ refParts[i].maxRefGTID <= refParts'[i].maxRefGTID
      BY <1>1, <3>1, MaxRefGTIDsFacts
    <3>3. \A i \in 1..Len(refParts) :
             refParts'[i].maxRefGTID \in Nat /\ refParts[i].maxRefGTID \in Nat
      BY ZenonT(30), <1>1, <3>2, TypeFacts DEF RefPartition
    <3>. QED
      BY <3>1, <3>2, <3>3 DEF Closed
  <2>. QED
    BY ZenonT(30), <2>1, <2>2
<1>8. ASSUME NEW i \in Closed(refParts), txns[t].rows > 0, Key(t, 0) <= refParts[i].max
      PROVE  txns[t].gtid <= refParts'[i].maxRefGTID
  <2>1. Key(t, 0) \in 0..NoPivot /\ \A p \in RefPartition : p.max \in Nat
    BY ZenonT(30), <1>1, RowsFacts DEF RefPartition
  <2>2. partitionWithPK(refParts, Key(t, 0)) <= i
    BY ZenonT(30), <1>1, <1>7, <1>8, <2>1, PartitionFacts DEF TypeOK, PivotsInv
  <2>3. refParts' = MaxRefGTIDs(t)
    BY <1>1, <1>8
  <2>. QED
    BY ZenonT(30), <1>1, <2>2, <2>3, MaxRefGTIDsFacts
<1>9. Covered'
  <2>. SUFFICES ASSUME NEW e \in log', NEW i \in Closed(refParts), e.rows > 0, Key(e.oid, 0) <= refParts[i].max
                PROVE  e.gtid <= refParts'[i].maxRefGTID
    BY ZenonT(30), <1>7 DEF Covered
  <2>1. CASE e \in log
    <3>1. e.gtid <= refParts[i].maxRefGTID
      BY ZenonT(30), <2>1 DEF RowsInv, Covered
    <3>. QED
      BY <1>1, <1>7, <2>1, <3>1, TypeFacts
  <2>2. CASE e = EntryOf(t)
    BY ZenonT(30), <1>3, <1>8, <2>2
  <2>. QED
    BY ZenonT(30), <1>1, <2>1, <2>2
<1>. QED
  BY ZenonT(30), <1>4, <1>5, <1>6, <1>9 DEF RowsInv

LEMMA AbortKeepsRows == ASSUME DateInv, RowsInv, NEW t \in Txn, Abort(t) PROVE RowsInv'
<1>1. /\ TypeOK /\ refs' = refs \ RowsOf(t, txns[t].rows) /\ log' = log /\ refParts' = refParts
      /\ txns[t].stage # "done" /\ txns[t].rows \in 0..MaxRows
  BY ZenonT(30), TypeFacts DEF DateInv, Abort
<1>2. txns'[t].stage = "done" /\ \A u \in Txn \ {t} : txns'[u] = txns[u]
  BY ZenonT(30), <1>1 DEF TypeOK, Transaction, Abort
<1>3. \A u \in Txn \ {t}, n \in 0..MaxRows : RowsOf(u, n) \subseteq refs => RowsOf(u, n) \subseteq refs'
  BY ZenonT(30), <1>1, RowsFacts
<1>4. \A u \in Txn : /\ txns'[u].stage = "none" => txns'[u].rows = 0
                     /\ txns'[u].stage \in {"live", "gotGTID"} => RowsOf(u, txns'[u].rows) \subseteq refs'
  BY ZenonT(30), <1>1, <1>2, <1>3, TypeFacts DEF RowsInv
<1>5. \A e \in log : txns[e.oid].stage = "done" /\ e.oid # t /\ e.oid \in Txn /\ e.rows \in 0..MaxRows
  BY ZenonT(30), <1>1, TypeFacts DEF RowsInv
<1>6. \A e \in log' : txns'[e.oid].stage = "done"
  BY ZenonT(30), <1>1, <1>2, <1>5
<1>7. RefsAreKept'
  BY ZenonT(30), <1>1, <1>3, <1>5 DEF RowsInv, RefsAreKept
<1>8. Covered'
  BY ZenonT(30), <1>1 DEF RowsInv, Covered
<1>. QED
  BY ZenonT(30), <1>4, <1>6, <1>7, <1>8 DEF RowsInv

\* A copied transaction has no rows in a closed partition, which would not be
\* told of its GTID.
LEMMA CopyKeepsRows ==
    ASSUME ~ OldCopies, DateInv, RowsInv, NEW t \in Txn, NEW n \in 0..MaxRows,
           replicateFullTransactionToOplog(t, n)
    PROVE  RowsInv'
<1>1. PICK ts :
         /\ log' = log \cup {[gtid |-> last + 1, ts |-> ts, oid |-> t, rows |-> n]}
         /\ txns' = [txns EXCEPT ![t] = [stage |-> "done", rows |-> n, gtid |-> last + 1, ts |-> ts]]
  BY ZenonT(30) DEF replicateFullTransactionToOplog
<1>2. /\ TypeOK /\ PivotsInv /\ refs' = refs \cup RowsOf(t, n) /\ refParts' = refParts
      /\ txns[t].stage = "none"
      /\ n = 0 \/ partitionWithPK(refParts, Key(t, 0)) = Len(refParts)
  BY ZenonT(30) DEF DateInv, replicateFullTransactionToOplog
<1>. DEFINE new == [gtid |-> last + 1, ts |-> ts, oid |-> t, rows |-> n]
<1>3. log' = log \cup {new} /\ new.oid = t /\ new.rows = n
  BY ZenonT(30), <1>1
<1>. HIDE DEF new
<1>4. txns'[t].stage = "done" /\ \A u \in Txn \ {t} : txns'[u] = txns[u]
  BY ZenonT(30), <1>1, <1>2 DEF TypeOK
<1>5. \A u \in Txn : /\ txns'[u].stage = "none" => txns'[u].rows = 0
                     /\ txns'[u].stage \in {"live", "gotGTID"} => RowsOf(u, txns'[u].rows) \subseteq refs'
  BY ZenonT(30), <1>2, <1>4 DEF RowsInv
<1>6. \A e \in log' : txns'[e.oid].stage = "done"
  BY ZenonT(30), <1>2, <1>3, <1>4, TypeFacts DEF RowsInv
<1>7. RefsAreKept'
  BY ZenonT(30), <1>2, <1>3 DEF RowsInv, RefsAreKept
<1>8. ASSUME NEW i \in Closed(refParts), n > 0 PROVE ~ (Key(t, 0) <= refParts[i].max)
  <2>1. Key(t, 0) \in 0..NoPivot /\ \A p \in RefPartition : p.max \in Nat
    BY ZenonT(30), RowsFacts DEF RefPartition
  <2>2. /\ i \in 1..Len(refParts) /\ Len(refParts) \in Nat /\ i < Len(refParts)
        /\ partitionWithPK(refParts, Key(t, 0)) = Len(refParts)
    BY <1>2, <1>8, TypeFacts DEF Closed
  <2>3. Key(t, 0) <= refParts[i].max => partitionWithPK(refParts, Key(t, 0)) <= i
    BY ZenonT(30), <1>2, <2>1, <2>2, PartitionFacts DEF TypeOK, PivotsInv
  <2>. QED
    BY <2>2, <2>3
<1>9. Covered'
  BY ZenonT(30), <1>2, <1>3, <1>8 DEF RowsInv, Covered
<1>. QED
  BY ZenonT(30), <1>5, <1>6, <1>7, <1>9 DEF RowsInv

LEMMA AddKeepsRows == ASSUME DateInv, RowsInv, addOplogPartitions PROVE RowsInv'
<1>. DEFINE pivot == LastKey(parts, GTIDs(log))
            n == Len(refParts)
<1>1. /\ TypeOK /\ GTIDsInv /\ PivotsInv
      /\ txns' = txns /\ log' = log /\ refs' = refs
  BY ZenonT(30) DEF DateInv, addOplogPartitions
<1>2. ASSUME NEW e \in log PROVE e.gtid <= pivot
  <2>1. last < NoPivot /\ last \in Nat /\ NoPivot \in Nat
    BY <1>1, LastBound, TrimAssumption DEF NoPivot
  <2>2. GTIDs(log) \in SUBSET (0..NoPivot)
    BY <1>1, <2>1, TypeFacts DEF GTIDs, GTIDsInv
  <2>3. /\ pivot \in GTIDs(log) /\ partitionWithPK(parts, pivot) = Len(parts)
        /\ partitionWithPK(parts, e.gtid) = Len(parts) => e.gtid <= pivot
    BY ZenonT(30), <1>1, <2>2, LastKeyFacts DEF GTIDs, TypeOK, addOplogPartitions
  <2>. HIDE DEF pivot
  <2>4. e.gtid \in 0..NoPivot /\ pivot \in 0..NoPivot
    BY ZenonT(30), <2>2, <2>3 DEF GTIDs
  <2>5. \A p \in Partition : p.max \in Nat
    BY ZenonT(30) DEF Partition
  <2>6. CASE partitionWithPK(parts, e.gtid) # Len(parts)
    <3>. DEFINE i == partitionWithPK(parts, e.gtid)
    <3>1. i \in 1..Len(parts) /\ e.gtid <= parts[i].max
      BY ZenonT(30), <1>1, <2>4, <2>5, PartitionFacts DEF TypeOK, PivotsInv
    <3>2. pivot <= parts[i].max => Len(parts) <= i
      BY ZenonT(30), <1>1, <2>3, <2>4, <2>5, <3>1, PartitionFacts DEF TypeOK, PivotsInv
    <3>3. Len(parts) \in Nat /\ parts[i].max \in Nat
      BY ZenonT(30), <1>1, <3>1, TypeFacts
    <3>. HIDE DEF i
    <3>4. i # Len(parts)
      BY ZenonT(30), <2>6 DEF i
    <3>. QED
      BY <2>4, <3>1, <3>2, <3>3, <3>4
  <2>. QED
    BY ZenonT(30), <2>3, <2>6
<1>3. CASE refParts' = refParts
  BY ZenonT(30), <1>1, <1>3 DEF RowsInv, RefsAreKept, Covered
<1>4. CASE /\ Len(refParts') = n + 1
           /\ \A i \in Closed(refParts) : refParts'[i] = refParts[i]
           /\ refParts'[n].maxRefGTID = pivot
  <2>1. n \in Nat /\ n > 0
    BY ZenonT(30), <1>1, TypeFacts DEF TypeOK
  <2>2. \A i \in Closed(refParts') : i \in Closed(refParts) \/ i = n
    BY <1>4, <2>1 DEF Closed
  <2>3. Covered'
    BY ZenonT(30), <1>1, <1>2, <1>4, <2>2 DEF RowsInv, Covered
  <2>. QED
    BY ZenonT(30), <1>1, <2>3 DEF RowsInv, RefsAreKept
<1>. QED
  BY ZenonT(30), <1>3, <1>4, AddFacts

\* Rows that are dropped are not those of an entry that is left: its GTID is
\* above the oplog's pivot, so above the maxRefGTID of every partition dropped.
LEMMA TrimKeepsRows ==
    ASSUME DateInv, RowsInv, NEW n \in 0..(Len(parts) - 1), Trim(n) PROVE RowsInv'
<1>. DEFINE pivot == parts[n].max
            m == RefsToDrop(pivot)
            k == Len(refParts)
<1>1. /\ TypeOK /\ txns' = txns /\ n > 0
      /\ m > 0 => LiveRowsStay(refParts[m].max)
      /\ log' = {e \in log : e.gtid > pivot}
      /\ refs' = IF m = 0 THEN refs ELSE {r \in refs : r > refParts[m].max}
  BY ZenonT(30) DEF DateInv, Trim
<1>2. /\ m \in 0..(k - 1)
      /\ \A i \in 1..m : refParts[i].maxRefGTID <= pivot
      /\ Len(refParts') = k - m
      /\ \A i \in 1..(k - m) : refParts'[i] = refParts[m + i]
  BY ZenonT(30), TrimFacts
<1>3. /\ k \in Nat /\ pivot \in Nat
      /\ \A i \in 1..k : refParts[i].max \in Nat /\ refParts[i].maxRefGTID \in Nat
      /\ \A e \in log : e.gtid \in Nat /\ e.oid \in Txn /\ e.rows \in 0..MaxRows
  BY <1>1, TypeFacts
<1>. HIDE DEF pivot, m, k
<1>4. ASSUME NEW e \in log, e.gtid > pivot PROVE RowsOf(e.oid, e.rows) \subseteq refs'
  <2>1. RowsOf(e.oid, e.rows) \subseteq refs
    BY ZenonT(30) DEF RowsInv, RefsAreKept
  <2>2. CASE m = 0
    BY ZenonT(30), <1>1, <2>1, <2>2
  <2>3. CASE e.rows = 0
    <3>1. RowsOf(e.oid, 0) = {}
      BY ZenonT(30), <1>3, RowsFacts
    <3>. QED
      BY ZenonT(30), <2>3, <3>1
  <2>4. CASE m > 0 /\ e.rows > 0
    <3>1. m \in 1..m /\ m \in 1..k /\ m \in Closed(refParts)
      BY <1>2, <1>3, <2>4 DEF Closed, k
    <3>2. ~ (Key(e.oid, 0) <= refParts[m].max)
      <4>1. ~ (e.gtid <= refParts[m].maxRefGTID)
        BY <1>2, <1>3, <1>4, <3>1
      <4>. QED
        BY ZenonT(30), <2>4, <3>1, <4>1 DEF RowsInv, Covered
    <3>3. Key(e.oid, 0) \in Nat /\ refParts[m].max \in Nat
      BY <1>3, <3>1, RowsFacts
    <3>4. \A r \in RowsOf(e.oid, e.rows) : r > refParts[m].max
      BY <1>3, <3>2, <3>3, RowsFacts
    <3>. QED
      BY ZenonT(30), <1>1, <2>1, <2>4, <3>4
  <2>. QED
    BY <1>2, <1>3, <2>2, <2>3, <2>4
<1>5. RefsAreKept'
  BY ZenonT(30), <1>1, <1>4 DEF RefsAreKept
<1>6. \A t \in Txn : txns[t].stage \in {"live", "gotGTID"} => RowsOf(t, txns[t].rows) \subseteq refs'
  <2>1. CASE m = 0
    BY ZenonT(30), <1>1, <2>1 DEF RowsInv
  <2>2. CASE m > 0
    BY ZenonT(30), <1>1, <2>2 DEF RowsInv, LiveRowsStay
  <2>. QED
    BY <1>2, <1>3, <2>1, <2>2
<1>7. Covered'
  <2>1. \A i \in Closed(refParts') : m + i \in Closed(refParts) /\ refParts'[i] = refParts[m + i]
    BY <1>2, <1>3 DEF Closed, k
  <2>. QED
    BY ZenonT(30), <1>1, <2>1 DEF RowsInv, Covered
<1>. QED
  BY ZenonT(30), <1>1, <1>5, <1>6, <1>7 DEF RowsInv

LEMMA StartKeepsRows == Init => RowsInv
<1>1. Init => /\ log = {} /\ \A t \in Txn : txns[t].stage = "none" /\ txns[t].rows = 0
  BY DEF Init, NoTxn
<1>. QED
  BY ZenonT(30), <1>1 DEF RowsInv, RefsAreKept, Covered

LEMMA StepKeepsRows == ASSUME ~ OldCopies, DateInv, RowsInv, [Next]_vars PROVE RowsInv'
<1>1. ASSUME NEW t \in Txn, Spill(t) \/ GetGTID(t) \/ LogAndCommit(t) \/ Abort(t)
      PROVE  RowsInv'
  BY ZenonT(30), <1>1, SpillKeepsRows, GetGTIDKeepsRows, LogAndCommitKeepsRows, AbortKeepsRows
<1>2. ASSUME NEW t \in Txn, NEW n \in 0..MaxRows, replicateFullTransactionToOplog(t, n)
      PROVE  RowsInv'
  BY ZenonT(30), <1>2, CopyKeepsRows
<1>3. CASE addOplogPartitions
  BY ZenonT(30), <1>3, AddKeepsRows
<1>4. parts \in Seq(Partition) /\ Len(parts) > 0
  BY ZenonT(30) DEF DateInv, TypeOK
<1>5. ASSUME NEW ts, trimOplogWithTS(ts) PROVE RowsInv'
  BY ZenonT(30), <1>4, <1>5, DroppableFacts, TrimKeepsRows DEF trimOplogWithTS
<1>6. ASSUME NEW g, trimOplogwithGTID(g) PROVE RowsInv'
  BY ZenonT(30), <1>4, <1>6, DroppableFacts, TrimKeepsRows DEF trimOplogwithGTID
<1>7. CASE ChangeState \/ Tick \/ UNCHANGED vars
  <2>1. txns' = txns /\ log' = log /\ refs' = refs /\ refParts' = refParts
    BY ZenonT(30), <1>7 DEF ChangeState, Tick, vars
  <2>. QED
    BY ZenonT(30), <2>1 DEF RowsInv, RefsAreKept, Covered
<1>. QED
  BY ZenonT(30), <1>1, <1>2, <1>3, <1>5, <1>6, <1>7 DEF Next

\* As long as no copied transaction is older than the last partition of
\* oplog.refs, no entry of the oplog loses its rows, for any number of
\* transactions, rows and partitions and in whatever order the OIDs and the
\* GTIDs are (logTransactionOpsRef, trimOplogRefs).
THEOREM RowsAreKept == ASSUME ~ OldCopies PROVE Spec => []RefsAreKept
<1>1. DateInv /\ RowsInv => RefsAreKept
  BY ZenonT(30) DEF RowsInv
<1>2. DateInv /\ RowsInv /\ [Next]_vars => (DateInv /\ RowsInv)'
  BY ZenonT(30), StepDated, StepKeepsRows
<1>. QED
  BY <1>1, <1>2, StartDated, StartKeepsRows, PTL DEF Spec

=============================================================================
