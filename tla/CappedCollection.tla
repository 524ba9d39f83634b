-------------------------- MODULE CappedCollection --------------------------
(***************************************************************************)
(* A capped collection (src/mongo/db/collection.cpp) under concurrent nested *)
(* transactions: primary keys handed out in order, the set of the least      *)
(* uncommitted keys that bounds tailable cursors, the count and the size      *)
(* kept in memory (CappedCollectionRollback, txn_context.cpp), and the        *)
(* trimming of the oldest documents.  A second copy of the collection, on a   *)
(* secondary, gets the documents in the order the transactions committed.     *)
(*                                                                         *)
(* A level of a client's stack is a transaction: the inserts, deletes and      *)
(* updates it has logged, in order, and its CappedCollectionRollback.  A       *)
(* transaction sees the committed documents and its own.  Every document has   *)
(* size 2 and an update may shrink it to 1.  An operation is logged with its   *)
(* kind, the key and, for a delete, the size of the document.                 *)
(*                                                                         *)
(* An operator whose name extends another's with a fault is that operator     *)
(* with a plausible bug, and nothing uses it.                                *)
(***************************************************************************)
EXTENDS Naturals, Integers, Sequences, FiniteSets, FiniteSetsExt

CONSTANTS
    Clients,
    MaxObjects,   \* _maxObjects
    MaxSize,      \* _maxSize
    K,            \* documents after which trimming may stop early
    MaxDepth,     \* bound: transactions of a client
    MaxPK,        \* bound: documents inserted
    MaxTxns,      \* bound: transactions begun
    Updates,      \* BOOLEAN: documents may be shrunk
    Secondaries,  \* BOOLEAN: there is a secondary
    CommitsFail   \* BOOLEAN: writing the oplog entry of a commit may throw

VARIABLES
    nextPK, uncommittedMinPKs, currentObjects, currentSize, lastDeletedPK,
    committed,    \* documents in the collection
    shrunk,       \* those of size 1
    client,       \* each client's stack and what it is about to do
    log,          \* the operations of each committed transaction, in commit order
    secondary,    \* the secondary's copy of the collection and its applier
    reader,       \* a tailable cursor on each copy: how far it has read, and what
    begun,
    verifyFailed, \* verify(n == 1) in noteComplete failed
    drifted,      \* an abort undid an update, or the exception of a commit was swallowed
    trimmed,      \* trimmedObjects of the holder of _deleteMutex
    passed,       \* documents trimming has passed while their insert was uncommitted
    dropped       \* least keys of children that transfer has dropped

collVars == <<nextPK, uncommittedMinPKs, currentObjects, currentSize, lastDeletedPK>>

\* What the properties remember.
history == <<passed, dropped>>

vars == <<collVars, committed, shrunk, client, log, secondary, reader, begun, verifyFailed,
          drifted, trimmed, history>>

NoPK == 0  \* an empty BSONObj; keys start at 1

SizeOf(pk) == IF pk \in shrunk THEN 1 ELSE 2

-----------------------------------------------------------------------------
(* Transactions and their rollback information. *)

NewTxn == [ops |-> <<>>, minPK |-> NoPK, n |-> 0, size |-> 0]

\* The keys of the operations of a kind.
Keys(kind, ops) == {op[2] : op \in {o \in Range(ops) : o[1] = kind}}

Live(c) == client[c].stack # <<>>

Innermost(stack) == stack[Len(stack)]

Below(stack) == SubSeq(stack, 1, Len(stack) - 1)

Top(c) == Innermost(client[c].stack)

SetTop(c, t, pc) == [client EXCEPT ![c].stack[Len(client[c].stack)] = t, ![c].pc = pc]

Own(kind, c) == UNION {Keys(kind, t.ops) : t \in Range(client[c].stack)}

Visible(c) == (committed \union Own("insert", c)) \ Own("delete", c)

\* Deletes and updates hold row locks until their root transaction ends.
Locked(c, pk) ==
    \E d \in Clients \ {c} : pk \in Own("delete", d) \union Own("update", d)

TransferForgetsDeltas(child, parent) ==
    [ops |-> parent.ops \o child.ops,
     minPK |-> IF parent.minPK = NoPK THEN child.minPK ELSE parent.minPK,
     n |-> parent.n, size |-> parent.size]

\* CappedCollectionRollback::transfer.
Transfer(child, parent) ==
    [ops |-> parent.ops \o child.ops,
     minPK |-> IF parent.minPK = NoPK THEN child.minPK ELSE parent.minPK,
     n |-> parent.n + child.n, size |-> parent.size + child.size]

\* The key of the child that only the set remembers after that.
Dropped(child, parent) == IF parent.minPK = NoPK THEN {} ELSE {child.minPK} \ {NoPK}

\* The key a tailable cursor stops at: the least uncommitted, or the next one.
MinUnsafeKey(uncommitted, next) == IF uncommitted # {} THEN Min(uncommitted) ELSE next

-----------------------------------------------------------------------------
Init ==
    /\ nextPK = 1 /\ uncommittedMinPKs = {}
    /\ currentObjects = 0 /\ currentSize = 0 /\ lastDeletedPK = NoPK
    /\ committed = {} /\ shrunk = {}
    /\ client = [c \in Clients |-> [stack |-> <<>>, pc |-> "idle", pk |-> NoPK, ended |-> NewTxn]]
    /\ log = <<>>
    /\ secondary = [nextPK |-> 1, uncommitted |-> {}, rows |-> {}, n |-> 0, size |-> 0,
                    at |-> 1, done |-> 0, pc |-> "apply"]
    /\ reader = [copy \in {"primary", "secondary"} |-> [upTo |-> 1, seen |-> {}]]
    /\ begun = 0
    /\ verifyFailed = FALSE /\ drifted = FALSE /\ trimmed = 0 /\ passed = {} /\ dropped = {}

Begin(c) ==
    /\ client[c].pc = "idle"
    /\ Len(client[c].stack) < MaxDepth /\ begun < MaxTxns
    /\ begun' = begun + 1
    /\ client' = [client EXCEPT ![c].stack = Append(@, NewTxn)]
    /\ UNCHANGED <<collVars, committed, shrunk, log, secondary, reader, verifyFailed, drifted, trimmed, history>>

GetNextPKNotesAll(c) ==
    /\ client[c].pc = "idle" /\ Live(c)
    /\ nextPK <= MaxPK
    /\ nextPK' = nextPK + 1
    /\ uncommittedMinPKs' = uncommittedMinPKs \union {nextPK}
    /\ client' = [client EXCEPT ![c].pc = "insert", ![c].pk = nextPK]
    /\ UNCHANGED <<currentObjects, currentSize, lastDeletedPK, committed, shrunk, log,
                   secondary, reader, begun, verifyFailed, drifted, trimmed, history>>

\* getNextPK and noteUncommittedPK, under _mutex: this transaction's first key
\* is uncommitted from here on.
GetNextPK(c) ==
    /\ client[c].pc = "idle" /\ Live(c)
    /\ nextPK <= MaxPK
    /\ nextPK' = nextPK + 1
    /\ uncommittedMinPKs' = IF Top(c).minPK = NoPK THEN uncommittedMinPKs \union {nextPK}
                                                   ELSE uncommittedMinPKs
    /\ client' = [client EXCEPT ![c].pc = "insert", ![c].pk = nextPK]
    /\ UNCHANGED <<currentObjects, currentSize, lastDeletedPK, committed, shrunk, log,
                   secondary, reader, begun, verifyFailed, drifted, trimmed, history>>

\* checkUniqueAndInsert: note the insert and do it.  A duplicate in a unique
\* index throws after the note, and the transaction has to abort.
CheckUniqueAndInsert(c) ==
    /\ client[c].pc = "insert"
    /\ LET pk == client[c].pk
           t == Top(c)
           noted == [t EXCEPT !.minPK = IF @ = NoPK THEN pk ELSE @,
                              !.n = @ + 1, !.size = @ + 2]
       IN  \/ client' = SetTop(c, [noted EXCEPT !.ops = Append(@, <<"insert", pk>>)], "trim")
           \/ client' = SetTop(c, noted, "abort")
    /\ currentObjects' = currentObjects + 1
    /\ currentSize' = currentSize + 2
    /\ UNCHANGED <<nextPK, uncommittedMinPKs, lastDeletedPK, committed, shrunk, log, secondary,
                   reader, begun, verifyFailed, drifted, trimmed, history>>

IsGorged(n, size) == n > MaxObjects \/ size > MaxSize

DeleteMutexIsFree == \A d \in Clients : client[d].pc # "delete"

\* checkGorged, and trim up to its loop: a collection that is small enough leaves
\* nothing to do, otherwise the client takes _deleteMutex.
CheckGorged(c) ==
    /\ client[c].pc = "trim"
    /\ IF IsGorged(currentObjects, currentSize)
         THEN /\ DeleteMutexIsFree
              /\ client' = [client EXCEPT ![c].pc = "delete"]
              /\ trimmed' = 0
         ELSE client' = [client EXCEPT ![c].pc = "idle"] /\ UNCHANGED trimmed
    /\ UNCHANGED <<collVars, committed, shrunk, log, secondary, reader, begun, verifyFailed, drifted,
                   history>>

Deleted(t, pk) == [t EXCEPT !.n = @ - 1, !.size = @ - SizeOf(pk)]

\* _deleteObject of a document another transaction has locked: the cursor throws,
\* or the delete does, when it has been counted already.
TrimThrows(c, pk) ==
    /\ Locked(c, pk)
    /\ \/ /\ client' = SetTop(c, Deleted(Top(c), pk), "abort")
          /\ currentObjects' = currentObjects - 1 /\ currentSize' = currentSize - SizeOf(pk)
       \/ client' = [client EXCEPT ![c].pc = "abort"] /\ UNCHANGED <<currentObjects, currentSize>>
    /\ UNCHANGED <<lastDeletedPK, trimmed, passed>>

TrimDeletesLocked(c, pk) ==
    /\ currentObjects' = currentObjects - 1 /\ currentSize' = currentSize - SizeOf(pk)
    /\ lastDeletedPK' = pk
    /\ trimmed' = trimmed + 1
    /\ passed' = passed \union {p \in 1..pk : p \notin committed \union Own("insert", c)}
    /\ \E pc \in {"idle", "delete"} :
          /\ IF pc = "delete" THEN IsGorged(currentObjects', currentSize')
                             ELSE ~ IsGorged(currentObjects', currentSize') \/ trimmed' >= K
          /\ client' = SetTop(c, [Deleted(Top(c), pk) EXCEPT
                                    !.ops = Append(@, <<"delete", pk, SizeOf(pk)>>)], pc)

\* A document is gone.  The loop ends when the collection is small enough, and
\* may end when K documents are gone and the new one has its room.
TrimDeletes(c, pk) ==
    /\ ~ Locked(c, pk)
    /\ currentObjects' = currentObjects - 1 /\ currentSize' = currentSize - SizeOf(pk)
    /\ lastDeletedPK' = pk
    /\ trimmed' = trimmed + 1
    /\ passed' = passed \union {p \in 1..pk : p \notin committed \union Own("insert", c)}
    /\ \E pc \in {"idle", "delete"} :
          /\ IF pc = "delete" THEN IsGorged(currentObjects', currentSize')
                             ELSE ~ IsGorged(currentObjects', currentSize') \/ trimmed' >= K
          /\ client' = SetTop(c, [Deleted(Top(c), pk) EXCEPT
                                    !.ops = Append(@, <<"delete", pk, SizeOf(pk)>>)], pc)

\* A round of trim's loop, which goes on from the last deleted key.
Trim(c) ==
    /\ client[c].pc = "delete"
    /\ LET older == {pk \in Visible(c) : pk >= lastDeletedPK}
       IN  IF older = {}
             THEN /\ client' = [client EXCEPT ![c].pc = "idle"]
                  /\ UNCHANGED <<collVars, trimmed, passed>>
             ELSE /\ TrimThrows(c, Min(older)) \/ TrimDeletes(c, Min(older))
                  /\ UNCHANGED <<nextPK, uncommittedMinPKs>>
    /\ UNCHANGED <<committed, shrunk, log, secondary, reader, begun, verifyFailed, drifted,
                   dropped>>

\* updateObject: a document may only shrink.
UpdateObject(c) ==
    /\ Updates
    /\ client[c].pc = "idle" /\ Live(c)
    /\ \E pk \in Visible(c) \ shrunk :
          /\ ~ Locked(c, pk)
          /\ shrunk' = shrunk \union {pk}
          /\ client' = SetTop(c, [Top(c) EXCEPT !.ops = Append(@, <<"update", pk>>)], "idle")
          /\ currentSize' = currentSize - 1
    /\ UNCHANGED <<nextPK, uncommittedMinPKs, currentObjects, lastDeletedPK, committed, log,
                   secondary, reader, begun, verifyFailed, drifted, trimmed, history>>

CommitChildCompletes(c) ==
    /\ client[c].pc = "idle"
    /\ Len(client[c].stack) > 1
    /\ LET parents == Below(client[c].stack)
       IN  client' = [client EXCEPT ![c].stack =
                        [parents EXCEPT ![Len(parents)] = Transfer(Top(c), @)]]
    /\ dropped' = dropped \union Dropped(Top(c), Innermost(Below(client[c].stack)))
    /\ uncommittedMinPKs' = uncommittedMinPKs \ {Top(c).minPK}
    /\ UNCHANGED <<nextPK, currentObjects, currentSize, lastDeletedPK, committed, shrunk, log,
                   secondary, reader, begun, verifyFailed, drifted,
                   trimmed, passed>>

CommitChild(c) ==
    /\ client[c].pc = "idle"
    /\ Len(client[c].stack) > 1
    /\ LET parents == Below(client[c].stack)
       IN  client' = [client EXCEPT ![c].stack =
                        [parents EXCEPT ![Len(parents)] = Transfer(Top(c), @)]]
    /\ dropped' = dropped \union Dropped(Top(c), Innermost(Below(client[c].stack)))
    /\ UNCHANGED <<collVars, committed, shrunk, log, secondary, reader, begun, verifyFailed, drifted,
                   trimmed, passed>>

\* The storage transaction of the root commits; the rollback items follow.
CommitRoot(c) ==
    /\ client[c].pc = "idle"
    /\ Len(client[c].stack) = 1
    /\ client' = [client EXCEPT ![c].stack = <<>>, ![c].pc = "noteCommit", ![c].ended = Top(c)]
    /\ committed' = (committed \union Keys("insert", Top(c).ops)) \ Keys("delete", Top(c).ops)
    /\ shrunk' = shrunk \ Keys("delete", Top(c).ops)
    /\ log' = IF Secondaries THEN Append(log, Top(c).ops) ELSE log
    /\ UNCHANGED <<collVars, secondary, reader, begun, verifyFailed, drifted, trimmed, history>>

\* rootCommit throws: the exception is swallowed and the rollback items are
\* committed, but the storage transaction never is, and ends by aborting.
CommitRootThrows(c) ==
    /\ CommitsFail
    /\ client[c].pc = "idle"
    /\ Len(client[c].stack) = 1 /\ Top(c).ops # <<>>
    /\ client' = [client EXCEPT ![c].stack = <<>>, ![c].pc = "noteCommit", ![c].ended = Top(c)]
    /\ shrunk' = shrunk \ (Keys("update", Top(c).ops) \union Keys("insert", Top(c).ops))
    /\ drifted' = TRUE
    /\ UNCHANGED <<collVars, committed, log, secondary, reader, begun, verifyFailed, trimmed, history>>

\* noteComplete.
NoteComplete(minPK) ==
    /\ uncommittedMinPKs' = uncommittedMinPKs \ {minPK}
    /\ verifyFailed' = (verifyFailed \/ (minPK # NoPK /\ minPK \notin uncommittedMinPKs))

NoteCommit(c) ==
    /\ client[c].pc = "noteCommit"
    /\ NoteComplete(client[c].ended.minPK)
    /\ client' = [client EXCEPT ![c].pc = "idle", ![c].ended = NewTxn, ![c].pk = NoPK]
    /\ UNCHANGED <<nextPK, currentObjects, currentSize, lastDeletedPK, committed, shrunk, log,
                   secondary, reader, begun, drifted, trimmed, history>>

Abort(c) ==
    /\ client[c].pc \in {"idle", "abort"} /\ Live(c)
    /\ client' = [client EXCEPT ![c].stack = Below(@), ![c].pc = "noteAbort", ![c].ended = Top(c)]
    /\ shrunk' = shrunk \ (Keys("update", Top(c).ops) \union Keys("insert", Top(c).ops))
    /\ drifted' = (drifted \/ Keys("update", Top(c).ops) # {})
    /\ UNCHANGED <<collVars, committed, log, secondary, reader, begun, verifyFailed, trimmed, history>>

\* noteAbort, called for a transaction that touched the collection.
NoteAbort(c) ==
    /\ client[c].pc = "noteAbort"
    /\ NoteComplete(client[c].ended.minPK)
    /\ currentObjects' = currentObjects - client[c].ended.n
    /\ currentSize' = currentSize - client[c].ended.size
    /\ client' = [client EXCEPT ![c].pc = IF client[c].ended.minPK # NoPK THEN "forget" ELSE "idle",
                                ![c].ended = NewTxn, ![c].pk = NoPK]
    /\ UNCHANGED <<nextPK, lastDeletedPK, committed, shrunk, log, secondary, reader, begun, drifted,
                   trimmed, history>>

NoteAbortKeepsDeleted(c) ==
    /\ client[c].pc = "forget"
    /\ DeleteMutexIsFree
    /\ client' = [client EXCEPT ![c].pc = "idle"]
    /\ UNCHANGED <<collVars, committed, shrunk, log, secondary, reader, begun, verifyFailed, drifted,
                   trimmed, history>>

\* The rest of noteAbort, under _deleteMutex: the deletes are undone, and trimming
\* has to start over.
NoteAbortForgets(c) ==
    /\ client[c].pc = "forget"
    /\ DeleteMutexIsFree
    /\ lastDeletedPK' = NoPK
    /\ client' = [client EXCEPT ![c].pc = "idle"]
    /\ UNCHANGED <<nextPK, uncommittedMinPKs, currentObjects, currentSize, committed, shrunk, log,
                   secondary, reader, begun, verifyFailed, drifted, trimmed, history>>

-----------------------------------------------------------------------------
(* The secondary applies one transaction at a time with the keys it brings     *)
(* (insertObjectWithPK); its tailable cursors use the same bound.             *)

\* The count and the size change with every operation, whether or not the document
\* it names is there.
Counted(op) ==
    LET sign == CASE op[1] = "insert" -> 1 [] op[1] = "delete" -> -1 [] OTHER -> 0
        bytes == CASE op[1] = "insert" -> 2 [] op[1] = "delete" -> - op[3] [] OTHER -> -1
    IN  [secondary EXCEPT !.n = @ + sign, !.size = @ + bytes, !.done = @ + 1]

SecondaryApplyNotesNothing ==
    /\ secondary.pc = "apply" /\ secondary.at <= Len(log)
    /\ secondary.done < Len(log[secondary.at])
    /\ LET op == log[secondary.at][secondary.done + 1]
       IN  secondary' = IF op[1] = "insert"
                          THEN [Counted(op) EXCEPT !.nextPK = IF op[2] >= @ THEN op[2] + 1 ELSE @]
                          ELSE Counted(op)
    /\ UNCHANGED <<collVars, committed, shrunk, client, log, reader, begun, verifyFailed, drifted,
                   trimmed, history>>

SecondaryApply ==
    /\ secondary.pc = "apply" /\ secondary.at <= Len(log)
    /\ secondary.done < Len(log[secondary.at])
    /\ LET op == log[secondary.at][secondary.done + 1]
           noted == Keys("insert", SubSeq(log[secondary.at], 1, secondary.done)) # {}
       IN  secondary' = IF op[1] = "insert"
                          THEN [Counted(op) EXCEPT
                                  !.nextPK = IF op[2] >= @ THEN op[2] + 1 ELSE @,
                                  !.uncommitted = IF noted THEN @ ELSE @ \union {op[2]}]
                          ELSE Counted(op)
    /\ UNCHANGED <<collVars, committed, shrunk, client, log, reader, begun, verifyFailed, drifted,
                   trimmed, history>>

SecondaryCommit ==
    /\ secondary.pc = "apply" /\ secondary.at <= Len(log)
    /\ secondary.done = Len(log[secondary.at])
    /\ LET ops == log[secondary.at]
       IN  secondary' = [secondary EXCEPT
                           !.rows = (@ \union Keys("insert", ops)) \ Keys("delete", ops),
                           !.pc = "note"]
    /\ UNCHANGED <<collVars, committed, shrunk, client, log, reader, begun, verifyFailed, drifted,
                   trimmed, history>>

SecondaryNoteCommit ==
    /\ secondary.pc = "note"
    /\ secondary' = [secondary EXCEPT !.uncommitted = {}, !.at = @ + 1, !.done = 0, !.pc = "apply"]
    /\ UNCHANGED <<collVars, committed, shrunk, client, log, reader, begun, verifyFailed, drifted,
                   trimmed, history>>

\* A tailable cursor reads what is below the bound and goes on from there.
Read(copy, rows, bound) ==
    /\ bound > reader[copy].upTo
    /\ reader' = [reader EXCEPT
                    ![copy].upTo = bound,
                    ![copy].seen = @ \union {pk \in rows : reader[copy].upTo <= pk /\ pk < bound}]
    /\ UNCHANGED <<collVars, committed, shrunk, client, log, secondary, begun, verifyFailed, drifted,
                   trimmed, history>>

ReadPrimary == Read("primary", committed, MinUnsafeKey(uncommittedMinPKs, nextPK))

ReadSecondary ==
    /\ Secondaries
    /\ Read("secondary", secondary.rows, MinUnsafeKey(secondary.uncommitted, secondary.nextPK))

Next ==
    \/ \E c \in Clients :
          \/ Begin(c) \/ GetNextPK(c) \/ CheckUniqueAndInsert(c) \/ CheckGorged(c) \/ Trim(c)
          \/ UpdateObject(c)
          \/ CommitChild(c) \/ CommitRoot(c) \/ CommitRootThrows(c) \/ NoteCommit(c)
          \/ Abort(c) \/ NoteAbort(c) \/ NoteAbortForgets(c)
    \/ SecondaryApply \/ SecondaryCommit \/ SecondaryNoteCommit
    \/ ReadPrimary \/ ReadSecondary

Spec == Init /\ [][Next]_vars

-----------------------------------------------------------------------------
(* Properties *)

Quiet == \A c \in Clients : client[c].stack = <<>> /\ client[c].pc = "idle"

Levels ==
    (UNION {Range(client[c].stack) : c \in Clients}) \union {client[c].ended : c \in Clients}

\* A tailable cursor on the primary misses nothing: no document appears behind
\* what it has read ("to ensure that they never miss any data", collection.h).
PrimaryReaderMissesNothing ==
    {pk \in committed : pk < reader["primary"].upTo} \subseteq reader["primary"].seen

\* On a secondary, whose applier inserts with the primary's keys, the same holds
\* as long as transactions commit in the order of their keys.
CommitsInKeyOrder ==
    \A i, j \in 1..Len(log) : i < j =>
        \A p \in Keys("insert", log[i]), q \in Keys("insert", log[j]) : p < q

SecondaryReaderMissesNothing ==
    CommitsInKeyOrder =>
        {pk \in secondary.rows : pk < reader["secondary"].upTo} \subseteq reader["secondary"].seen

\* A secondary counts what the log tells it to, without looking (_deleteObject
\* with NO_LOCKTREE): between two transactions its count and its size are those of
\* its documents, so no two transactions have trimmed the same document, none has
\* trimmed one that is not committed before it, and each knew the document's size.
SecondaryStatsAreExact ==
    LET applied == UNION {Range(log[i]) : i \in 1..(secondary.at - 1)}
        updated == {op[2] : op \in {o \in applied : o[1] = "update"}}
        SizeThere(pk) == IF pk \in updated THEN 1 ELSE 2
    IN  (secondary.pc = "apply" /\ secondary.done = 0) =>
            /\ secondary.n = Cardinality(secondary.rows)
            /\ secondary.size = MapThenSumSet(SizeThere, secondary.rows)

\* Every transaction with an insert keeps its least key in the set until it is
\* done, so that noteComplete always finds the key it removes; and no key stays
\* when no transaction is live ("On commit/abort, the any primary keys inserted
\* ... are noted so we can properly maintain the min uncommitted key",
\* collection.h), but for those that a transfer into a parent with an insert of
\* its own has dropped.
LeastKeysAreNoted ==
    /\ ~ verifyFailed
    /\ \A t \in Levels : t.minPK # NoPK => t.minPK \in uncommittedMinPKs
    /\ Quiet => uncommittedMinPKs \subseteq dropped

\* The count and the size in memory are those of the collection, also after
\* aborts ("kept valid on txn abort", collection.h), unless they have drifted.
StatsAreExact ==
    (Quiet /\ ~ drifted) =>
        /\ currentObjects = Cardinality(committed)
        /\ currentSize = MapThenSumSet(SizeOf, committed)

\* Trimming goes on from the last key it deleted, so no older document may be
\* left behind by then, whatever was aborted in between; only a document it
\* passed before its insert was committed may be.
NothingOlderIsLeft ==
    (Quiet /\ ~ drifted) => \A pk \in committed \ passed : pk >= lastDeletedPK

=============================================================================
