------------------------------ MODULE OplogTrim ------------------------------
(***************************************************************************)
(* Partitions of the oplog and of oplog.refs, and how they are trimmed     *)
(* (oplog.cpp, the partitions of collection.cpp).                          *)
(*                                                                         *)
(* The operations of a large transaction are rows of oplog.refs, whose key *)
(* is the transaction's OID and a sequence number; its entry in the oplog, *)
(* whose key is the GTID, has only the OID.  Both collections are split at *)
(* pivots, at the same moments, but OIDs and GTIDs are in different        *)
(* orders: an OID is as old as the first spill, a GTID as the commit.      *)
(* Each closed partition of oplog.refs therefore has a maxRefGTID, and is  *)
(* dropped when the oplog is trimmed up to it.                             *)
(*                                                                         *)
(* The member is primary and logs transactions of its own, or secondary    *)
(* and copies those of another one.  Transaction t has OID t, if any; OIDs *)
(* begin with the time, so that those drawn later are larger.  All clocks  *)
(* read the same time.                                                     *)
(***************************************************************************)
EXTENDS Naturals, Sequences, FiniteSets, FiniteSetsExt

CONSTANTS
    MaxTxns, MaxRows, MaxTime, MaxParts,   \* bounds
    OldCopies   \* may a copied transaction be older than the last partition of oplog.refs?

ASSUME TrimAssumption ==
    /\ {MaxTxns, MaxRows, MaxTime, MaxParts} \subseteq Nat
    /\ OldCopies \in BOOLEAN

Txn == 1..MaxTxns

\* MaxKey as a pivot.
NoPivot == MaxTxns * (MaxRows + 1) + MaxRows + 1

\* {oid, seq}, as a number in the same order.
Key(t, seq) == t * (MaxRows + 1) + seq

VARIABLES
    now,       \* curTimeMillis64
    primary,   \* the member's state
    txns,      \* its transactions, and those it has copied
    last,      \* the last GTID given out or copied
    log,       \* the entries of the oplog
    parts,     \* the oplog's partitions: max, createTime
    refs,      \* the keys of the rows of oplog.refs
    refParts   \* its partitions: max, maxRefGTID (0 where there is none)

vars == <<now, primary, txns, last, log, parts, refs, refParts>>

NoTxn == [stage |-> "none", rows |-> 0, gtid |-> 0, ts |-> 0]

-----------------------------------------------------------------------------
(* PartitionedCollection.                                                  *)

\* partitionWithPK: the first partition whose pivot is not below the key.
partitionWithPK(ps, key) == Min({i \in DOMAIN ps : key <= ps[i].max})

\* The largest key of the last partition, committed or not; 0 for none.
LastKey(ps, keys) == Max({k \in keys : partitionWithPK(ps, k) = Len(ps)} \cup {0})

\* capLastPartition and appendNewPartition.
Capped(ps, pivot, new) ==
    Append([ps EXCEPT ![Len(ps)].max = pivot], new)

GTIDs(entries) == {e.gtid : e \in entries}
RowsOf(t, n) == {Key(t, s) : s \in 1..n}

-----------------------------------------------------------------------------
(* Transactions of a primary.                                              *)

\* OID::gen of the first spill: later than all there are.
Youngest(t) == \A u \in Txn : txns[u].stage # "none" => u < t

\* TxnOplog::spill writes a row of oplog.refs, also during rootCommit.
Spill(t) ==
    /\ primary
    /\ \/ txns[t].stage = "none" /\ Youngest(t)
       \/ txns[t].stage = "live"
       \/ txns[t].stage = "gotGTID" /\ txns[t].rows > 0
    /\ txns[t].rows < MaxRows
    /\ refs' = refs \cup {Key(t, txns[t].rows + 1)}
    /\ txns' = [txns EXCEPT ![t].rows = @ + 1,
                            ![t].stage = IF @ = "none" THEN "live" ELSE @]
    /\ UNCHANGED <<now, primary, last, log, parts, refParts>>

\* getGTIDForPrimary, also of a transaction that did not spill.
GetGTID(t) ==
    /\ primary
    /\ txns[t].stage = "live" \/ (txns[t].stage = "none" /\ Youngest(t))
    /\ last' = last + 1
    /\ txns' = [txns EXCEPT ![t].stage = "gotGTID", ![t].gtid = last + 1, ![t].ts = now]
    /\ UNCHANGED <<now, primary, log, parts, refs, refParts>>

EntryOf(t) == [gtid |-> txns[t].gtid, ts |-> txns[t].ts, oid |-> t, rows |-> txns[t].rows]

MaxRefGTIDsOffByOne(t) ==
    [i \in DOMAIN refParts |->
        IF i >= partitionWithPK(refParts, Key(t, 0)) /\ i < Len(refParts) - 1
           /\ refParts[i].maxRefGTID < txns[t].gtid
        THEN [refParts[i] EXCEPT !.maxRefGTID = txns[t].gtid] ELSE refParts[i]]

\* updateMaxRefGTID of every closed partition that may have rows of t.
MaxRefGTIDs(t) ==
    [i \in DOMAIN refParts |->
        IF i >= partitionWithPK(refParts, Key(t, 0)) /\ i < Len(refParts)
           /\ refParts[i].maxRefGTID < txns[t].gtid
        THEN [refParts[i] EXCEPT !.maxRefGTID = txns[t].gtid] ELSE refParts[i]]

\* logTransactionOps or logTransactionOpsRef, under a read lock that keeps
\* partitions from being added or dropped, and the commit, which changes
\* nothing here: a partition's last key counts uncommitted entries too.
LogAndCommit(t) ==
    /\ txns[t].stage = "gotGTID"
    /\ log' = log \cup {EntryOf(t)}
    /\ refParts' = IF txns[t].rows = 0 THEN refParts ELSE MaxRefGTIDs(t)
    /\ txns' = [txns EXCEPT ![t].stage = "done"]
    /\ UNCHANGED <<now, primary, last, parts, refs>>

\* The transaction's rows go with it.
Abort(t) ==
    /\ txns[t].stage \in {"live", "gotGTID"}
    /\ refs' = refs \ RowsOf(t, txns[t].rows)
    /\ txns' = [txns EXCEPT ![t].stage = "done"]
    /\ UNCHANGED <<now, primary, last, log, parts, refParts>>

-----------------------------------------------------------------------------
(* Secondaries.                                                            *)

\* replicateFullTransactionToOplog: the rows and the entry, under one read
\* lock.  The transaction may have spilled before others that were copied
\* earlier.
replicateFullTransactionToOplog(t, n) ==
    /\ ~ primary /\ txns[t].stage = "none"
    /\ OldCopies \/ n = 0 \/ partitionWithPK(refParts, Key(t, 0)) = Len(refParts)
    /\ refs' = refs \cup RowsOf(t, n)
    /\ \E ts \in {now} \cup (IF now = 0 THEN {} ELSE {now - 1}) :
          /\ \A e \in log : e.ts <= ts
          /\ log' = log \cup {[gtid |-> last + 1, ts |-> ts, oid |-> t, rows |-> n]}
          /\ txns' = [txns EXCEPT ![t] =
                [stage |-> "done", rows |-> n, gtid |-> last + 1, ts |-> ts]]
    /\ last' = last + 1
    /\ UNCHANGED <<now, primary, parts, refParts>>

\* The member becomes primary or steps down, without transactions under way.
ChangeState ==
    /\ \A t \in Txn : txns[t].stage \in {"none", "done"}
    /\ primary' = ~ primary
    /\ UNCHANGED <<now, txns, last, log, parts, refs, refParts>>

-----------------------------------------------------------------------------
(* The partition thread, and the commands replAddPartition, replTrimOplog. *)

PivotIsNext(ps, keys) == LastKey(ps, keys) + 1

\* The pivot of a partition being closed.
Pivot(ps, keys) == LastKey(ps, keys)

\* addOplogPartitions, under a write lock.  An empty last partition cannot be
\* closed: of the oplog that is an error, of oplog.refs it is put up with.
addOplogPartitions ==
    /\ LastKey(parts, GTIDs(log)) # 0
    /\ Len(parts) < MaxParts
    /\ LET pivot == Pivot(parts, GTIDs(log))
       IN  /\ parts' = Capped(parts, pivot, [max |-> NoPivot, createTime |-> now])
           /\ refParts' = IF LastKey(refParts, refs) = 0 THEN refParts
                  ELSE Capped([refParts EXCEPT ![Len(refParts)].maxRefGTID = pivot],
                              LastKey(refParts, refs), [max |-> NoPivot, maxRefGTID |-> 0])
    /\ UNCHANGED <<now, primary, txns, last, log, refs>>

\* The partitions of ps that may be dropped: all but the last.
Closed(ps) == 1..(Len(ps) - 1)

\* How many partitions a loop drops from the front when it stops at the first
\* one that is not in old.
Droppable(ps, old) == Max({k \in 0..(Len(ps) - 1) : 1..k \subseteq old})

\* trimOplogRefs.
RefsToDrop(maxGTID) ==
    Droppable(refParts, {i \in Closed(refParts) : refParts[i].maxRefGTID <= maxGTID})

\* Rows of transactions under way are not dropped: a transaction ends before
\* the partition in which it began is trimmed.
LiveRowsStay(pivot) ==
    \A t \in Txn : txns[t].stage \in {"live", "gotGTID"} =>
        \A k \in RowsOf(t, txns[t].rows) : k > pivot

\* Drop n partitions of the oplog, and those of oplog.refs that go with them,
\* in one transaction.
Trim(n) ==
    /\ n > 0
    /\ LET pivot == parts[n].max
           m == RefsToDrop(pivot)
       IN  /\ m > 0 => LiveRowsStay(refParts[m].max)
           /\ parts' = SubSeq(parts, n + 1, Len(parts))
           /\ log' = {e \in log : e.gtid > pivot}
           /\ refParts' = SubSeq(refParts, m + 1, Len(refParts))
           /\ refs' = IF m = 0 THEN refs ELSE {k \in refs : k > refParts[m].max}
    /\ UNCHANGED <<now, primary, txns, last>>

\* trimOplogWithTS of a time, trimOplogwithGTID of a GTID.
trimOplogWithTS(ts) ==
    Trim(Droppable(parts, {i \in Closed(parts) : parts[i + 1].createTime <= ts}))
trimOplogwithGTID(g) ==
    Trim(Droppable(parts, {i \in Closed(parts) : parts[i].max <= g}))

Tick ==
    /\ now < MaxTime
    /\ now' = now + 1
    /\ UNCHANGED <<primary, txns, last, log, parts, refs, refParts>>

-----------------------------------------------------------------------------

\* createOplog: one partition each.
Init ==
    /\ now = 0 /\ primary \in BOOLEAN /\ last = 0
    /\ txns = [t \in Txn |-> NoTxn]
    /\ log = {} /\ parts = <<[max |-> NoPivot, createTime |-> 0]>>
    /\ refs = {} /\ refParts = <<[max |-> NoPivot, maxRefGTID |-> 0]>>

Next ==
    \/ \E t \in Txn :
          \/ Spill(t) \/ GetGTID(t) \/ LogAndCommit(t) \/ Abort(t)
          \/ \E n \in 0..MaxRows : replicateFullTransactionToOplog(t, n)
    \/ addOplogPartitions
    \/ \E ts \in 0..MaxTime : trimOplogWithTS(ts)
    \/ \E g \in 1..MaxTxns : trimOplogwithGTID(g)
    \/ ChangeState
    \/ Tick

Spec == Init /\ [][Next]_vars

-----------------------------------------------------------------------------
(* Properties.                                                             *)

\* As long as an entry is in the oplog its operations are in oplog.refs: "so
\* when it comes time to trimming, we don't accidentally trim a piece of
\* oplog.refs that is still referenced by an existing piece of the oplog"
\* (logTransactionOpsRef).
RefsAreKept ==
    \A e \in log : RowsOf(e.oid, e.rows) \subseteq refs

\* Trimming up to a time drops no entry that is younger: trimOplogWithTS looks
\* only at the time the next partition was created, so no entry may be younger
\* than the partition after its own, though a primary may write it there long
\* after that one was added.
PartitionsAreDated ==
    \A e \in log :
        LET i == partitionWithPK(parts, e.gtid)
        IN  i < Len(parts) => e.ts <= parts[i + 1].createTime

=============================================================================
