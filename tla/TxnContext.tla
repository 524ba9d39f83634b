------------------------------ MODULE TxnContext ------------------------------
(***************************************************************************)
(* A transaction of src/mongo/db/txn_context.cpp with both of its logs: its *)
(* operations for the oplog (TxnOplog) and, of those on the chunk that is    *)
(* being moved, for the log of the migration (SpillableVector).  Both follow *)
(* every begin, commit and abort; an operation goes to the second only if    *)
(* it is in the chunk's range.                                             *)
(***************************************************************************)
EXTENDS Naturals, Sequences, SequencesExt

CONSTANTS
    MemLimit,                     \* of TxnOplog
    MaxSize, Header,              \* of SpillableVector
    Sizes, MaxDepth, MaxOps, MaxTxns

VARIABLES
    roots, begun, nextOp,         \* of the stack of transactions
    txns, refs, oplog, member,    \* of TxnOplog
    vectors, seqNo, migrateRefs, migrateLog, crashed, harm, done, expected

stackVars == <<roots, begun, nextOp>>
oplogVars == <<txns, refs, oplog, member>>
shardingVars == <<vectors, seqNo, migrateRefs, migrateLog, crashed, harm, done, expected>>
vars == <<stackVars, oplogVars, shardingVars>>

O == INSTANCE TxnOplog
V == INSTANCE SpillableVector WITH Aborts <- TRUE

Init == O!Init /\ V!Init

BeginTxn == O!BeginTxn /\ V!BeginTxn

\* OpLogHelpers: for replication, and for sharding when shouldLogOp says so.
LogOp(size) ==
    /\ O!LogOpForReplication(size)
    /\ V!LogOpForSharding(size) \/ UNCHANGED shardingVars

\* TxnContext::commitChild
CommitChild == O!CommitChild /\ V!CommitChild

\* TxnContext::commitRoot: one storage transaction for both logs.  With a builder
\* that was never created the process dies before it commits.
CommitRoot ==
    /\ V!CommitRoot
    /\ IF crashed' THEN O!Abort ELSE O!CommitRoot

\* TxnContext::abort
Abort == O!Abort /\ V!Abort

\* Another member replicates the oplog; the migration's log stays here.
Member ==
    /\ O!Replicate \/ O!ApplyTransaction \/ O!RollbackTransaction
    /\ UNCHANGED shardingVars

Next ==
    \/ BeginTxn \/ CommitChild \/ CommitRoot \/ Abort \/ Member
    \/ \E size \in Sizes : LogOp(size)

Spec == Init /\ [][Next]_vars

-----------------------------------------------------------------------------
(* Properties: those of the two logs, and of both together.                *)

\* The verifies of spill and finishChildCommit hold whenever they are reached.
VerifiesHold == O!VerifiesHold

\* The entry of a root holds its operations exactly once and in the order they
\* were made, however children nest, spill, commit and abort.
EntriesAreTransactions == O!EntriesAreTransactions

\* A member has applied the operations of the entries it applied, in their
\* order, and rolling entries back undoes exactly that.
MemberHasAppliedPrefix == O!MemberHasAppliedPrefix

\* Who reads the log of the migration gets the operations of each committed
\* transaction that are in the chunk's range, in the order they were made; in
\* some order when a child of it has spilled, and not when a child that has
\* spilled aborts or an operation fills an object by itself.
MigrateLogIsExact == V!MigrateLogIsExact

=============================================================================
