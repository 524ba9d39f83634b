------------------------------ MODULE OplogTail ------------------------------
(***************************************************************************)
(* A tailable cursor on the oplog of a member (indexcursor.cpp,            *)
(* cursor.cpp, ops/query.cpp), as other members use to replicate, next to  *)
(* the transactions whose entries it reads and the GTIDManager that bounds *)
(* it.                                                                     *)
(*                                                                         *)
(* Entries are not written in the order of their GTIDs, and the cursor     *)
(* sees uncommitted ones.  It relies on minLiveGTID: nothing below it will *)
(* still appear.  The cursor fetches rows in bulk, so its buffer may reach *)
(* beyond the bound; it then goes back.                                    *)
(*                                                                         *)
(* The oplog has a closed part and a last partition: how many partitions   *)
(* the closed part has makes no difference to the cursor.  Transactions    *)
(* that have a GTID do not fail.  Entries written after a rollback are     *)
(* those of a primary elected later, above everything undone.  A cursor is *)
(* followed until a rollback, during which reads are refused.              *)
(*                                                                         *)
(* An operator whose name extends another's with a fault is that operator  *)
(* with a plausible bug, and nothing uses it.                              *)
(***************************************************************************)
EXTENDS GTIDManager

CONSTANTS
    MaxEntries, \* bound on the entries of the oplog
    Races       \* BOOLEAN: may a partition be added, and the last one entered, while
                \* entries that belong below are under way?

ASSUME TailAssumption ==
    /\ Races \in BOOLEAN
    /\ MaxPrimarySeqNo > 0

VARIABLES
    rows,      \* GTIDs of the entries, committed or not
    committed, \* those that are committed
    pivot,     \* the last GTID of the closed partitions
    cursor,    \* IndexCursor, with the partition it is in and what it does next
    seen       \* what it has returned

tailVars == <<rows, committed, pivot, cursor, seen>>

allVars == <<vars, tailVars>>

LastGTID(S) == CHOOSE g \in S : \A h \in S : Le(h, g)

Closed == [pc |-> "closed", start |-> InitialGTID, inLast |-> FALSE, ok |-> FALSE,
           curr |-> InitialGTID, end |-> InitialGTID, buf |-> {}, pos |-> InitialGTID]

CloseCursor == cursor' = Closed /\ seen' = {}

\* A query or getMore is under way, with a read lock.
InOperation == cursor.pc \in {"positioned", "next", "seek"}

-----------------------------------------------------------------------------
(* Transactions and the GTIDManager.                                       *)

\* Nothing undone by a rollback was above this entry.
AboveUndone(gtid) == Lt(pivot, gtid)

\* The bound on the model.
Room == Cardinality(rows \union liveGTIDs) < MaxEntries

BeginEntry ==
    /\ Room
    /\ BeginCommit
    /\ AboveUndone(lastLiveGTID')
    /\ UNCHANGED tailVars

\* logTransactionOps of a primary's transaction that has its GTID.
InsertEntry ==
    /\ \E gtid \in liveGTIDs \ rows : rows' = rows \union {gtid}
    /\ UNCHANGED <<vars, committed, pivot, cursor, seen>>

\* replicateFullTransactionToOplog of the producer; one entry at a time.
CopyEntry ==
    /\ Room
    /\ role = "secondary" /\ rows = committed
    /\ lastLiveGTID = LastGTID(committed)
    /\ \E gtid \in OplogGTIDs :
          /\ Lt(lastLiveGTID, gtid) /\ AboveUndone(gtid)
          /\ rows' = rows \union {gtid}
    /\ UNCHANGED <<vars, committed, pivot, cursor, seen>>

CommitEntry ==
    /\ \E gtid \in rows \ committed : committed' = committed \union {gtid}
    /\ UNCHANGED <<vars, rows, pivot, cursor, seen>>

\* noteLiveGTIDDone follows the commit ...
EndEntry ==
    /\ EndCommit
    /\ liveGTIDs \ liveGTIDs' \subseteq committed
    /\ UNCHANGED tailVars

\* ... and so does noteGTIDAdded.
NoteEntry ==
    /\ Produce
    /\ lastLiveGTID' \in committed
    /\ UNCHANGED tailVars

\* Uncommitted entries are gone, and the cursor with its process.
RestartMember ==
    /\ Restart
    /\ lastLiveGTID' = IF committed = {} THEN InitialGTID ELSE LastGTID(committed)
    /\ rows' = committed
    /\ CloseCursor
    /\ UNCHANGED <<committed, pivot>>

\* The initial sync brings a first entry; a restarted member has its own.
GoLiveMember ==
    /\ GoLive
    /\ committed # {} => lastLiveGTID' = LastGTID(committed)
    /\ committed' = committed \union {lastLiveGTID'}
    /\ rows' = committed'
    /\ UNCHANGED <<pivot, cursor, seen>>

\* The producer is stopped, so it has noted what it wrote.
AssumePrimaryMember ==
    /\ AssumePrimary
    /\ rows = committed /\ lastLiveGTID = LastGTID(committed)
    /\ UNCHANGED tailVars

RollbackMember ==
    /\ Rollback
    /\ ~ InOperation
    /\ rows = committed /\ lastLiveGTID = LastGTID(committed)
    /\ lastLiveGTID' \in committed
    /\ committed' = {g \in committed : Le(g, lastLiveGTID')}
    /\ rows' = committed'
    /\ CloseCursor
    /\ UNCHANGED pivot

\* addPartition, under a write lock: cursors are invalidated.
AddPartition ==
    /\ ~ InOperation
    /\ \E g \in rows : Lt(pivot, g)
    /\ ~ Races => rows = committed /\ liveGTIDs = {}
    /\ pivot' = LastGTID(rows)
    /\ CloseCursor
    /\ UNCHANGED <<vars, rows, committed>>

-----------------------------------------------------------------------------
(* The cursor.                                                             *)

Partition(c) == {g \in rows : Lt(pivot, g) = c.inLast}

\* The rows a bulk fetch may bring from S: some first ones, or none if S has none.
Batches(S) == IF S = {} THEN {{}} ELSE {{h \in S : Le(h, g)} : g \in S}

\* The cursor is on the first row fetched, the others are in its buffer.
Fetched(c, batch) ==
    IF batch = {} THEN [c EXCEPT !.ok = FALSE, !.buf = {}]
    ELSE [c EXCEPT !.ok = TRUE, !.curr = MinGTID(batch), !.buf = batch \ {MinGTID(batch)},
                   !.pos = LastGTID(batch)]

\* findKey fetches a single row.
FindKey(c, key) ==
    LET above == {g \in Partition(c) : Le(key, g)}
    IN  Fetched(c, IF above = {} THEN {} ELSE {MinGTID(above)})

CheckEndInclusive(c) ==
    IF c.inLast /\ c.ok /\ Lt(c.end, c.curr) THEN [c EXCEPT !.ok = FALSE] ELSE c

\* checkEnd: only the cursor on the last partition is tailable and has an end.
CheckEnd(c) ==
    IF c.inLast /\ c.ok /\ Le(c.end, c.curr) THEN [c EXCEPT !.ok = FALSE] ELSE c

\* makeSubCursor on a partition, from start on.
MakeSubCursor(start, inLast) ==
    FindKey([Closed EXCEPT !.pc = "positioned", !.start = start, !.inLast = inLast], start)

Reading(c) == [c EXCEPT !.pc = "reading"]

\* The results of _advance: from the buffer, or from the next bulk fetch.
Advanced(c) ==
    IF c.buf # {}
      THEN {[c EXCEPT !.ok = TRUE, !.curr = MinGTID(c.buf), !.buf = @ \ {MinGTID(c.buf)}]}
      ELSE {Fetched(c, batch) : batch \in Batches({g \in Partition(c) : Lt(c.pos, g)})}

\* The query of a replicating member begins at an entry that it has: the
\* constructor positions the cursor there ...
Open ==
    /\ cursor.pc = "closed"
    /\ role # "startup"
    /\ \E gtid \in committed :
          /\ Lt(gtid, minLiveGTID)
          /\ cursor' = MakeSubCursor(gtid, Lt(pivot, gtid))
    /\ UNCHANGED <<vars, rows, committed, pivot, seen>>

\* ... and setTailable reads the bound after that.
SetTailable ==
    /\ cursor.pc = "positioned"
    /\ cursor' = IF cursor.inLast THEN CheckEnd(Reading([cursor EXCEPT !.end = minLiveGTID]))
                                  ELSE Reading(cursor)
    /\ UNCHANGED <<vars, rows, committed, pivot, seen>>

\* processGetMore returns the current row, and advance goes to the next.
Return ==
    /\ cursor.pc = "reading" /\ cursor.ok
    /\ seen' = seen \union {cursor.curr}
    /\ \E c \in Advanced(cursor) : cursor' = CheckEnd(c)
    /\ UNCHANGED <<vars, rows, committed, pivot>>

RefreshKeepsPosition ==
    /\ cursor.pc = "reading" /\ ~ cursor.ok /\ cursor.inLast
    /\ cursor' = [cursor EXCEPT !.pc = "next", !.end = minLiveGTID]
    /\ UNCHANGED <<vars, rows, committed, pivot, seen>>

\* advance of a tailable cursor that is not ok: read the bound again, and go on
\* from the last row, or go back to the old bound if the cursor went beyond it.
Refresh ==
    /\ cursor.pc = "reading" /\ ~ cursor.ok /\ cursor.inLast
    /\ cursor' = IF Lt(cursor.curr, cursor.end)
                   THEN [cursor EXCEPT !.pc = "next", !.end = minLiveGTID]
                   ELSE [cursor EXCEPT !.pc = "seek", !.curr = cursor.end, !.end = minLiveGTID]
    /\ UNCHANGED <<vars, rows, committed, pivot, seen>>

FetchNext ==
    /\ cursor.pc = "next"
    /\ \E c \in Advanced(cursor) : cursor' = CheckEnd(Reading(c))
    /\ UNCHANGED <<vars, rows, committed, pivot, seen>>

Seek ==
    /\ cursor.pc = "seek"
    /\ cursor' = CheckEnd(Reading(FindKey(cursor, cursor.curr)))
    /\ UNCHANGED <<vars, rows, committed, pivot, seen>>

\* PartitionedCursor::advance: at the end of the closed partitions a new cursor
\* on the last one is made, and setTailable follows.
EnterLastPartition ==
    /\ cursor.pc = "reading" /\ ~ cursor.ok /\ ~ cursor.inLast
    /\ LET last == {g \in rows : Lt(pivot, g)}
       IN  ~ Races /\ last # {} => Lt(MinGTID(last), minLiveGTID)
    /\ cursor' = MakeSubCursor(cursor.start, TRUE)
    /\ UNCHANGED <<vars, rows, committed, pivot, seen>>

-----------------------------------------------------------------------------

\* A member without an oplog, or with the entry replSetInitiate wrote.
TailInit ==
    /\ Init
    /\ committed \in {{}, {[primarySeqNo |-> 1, GTSeqNo |-> 0]}}
    /\ rows = committed
    /\ pivot = InitialGTID
    /\ cursor = Closed
    /\ seen = {}

TailNext ==
    \/ BeginEntry \/ InsertEntry \/ CopyEntry \/ CommitEntry \/ EndEntry \/ NoteEntry
    \/ RestartMember \/ GoLiveMember \/ AssumePrimaryMember \/ RollbackMember
    \/ (StartAlone \/ Relinquish \/ StartApply \/ EndApply) /\ UNCHANGED tailVars
    \/ AddPartition
    \/ Open \/ SetTailable \/ Return \/ Refresh \/ FetchNext \/ Seek \/ EnterLastPartition

TailSpec == TailInit /\ [][TailNext]_allVars

-----------------------------------------------------------------------------
(* Properties.                                                             *)

\* The cursor skips no entry: none appears behind the last one it returned,
\* though entries are written in another order than that of their GTIDs.
\* This is what replication rests on.
CursorMissesNothing ==
    \A s \in seen : \A g \in rows : Le(cursor.start, g) /\ Lt(g, s) => g \in seen

\* "uncommitted data cannot be returned" (queryWithQueryOptimizer).
CursorReturnsCommitted == seen \subseteq committed

=============================================================================
