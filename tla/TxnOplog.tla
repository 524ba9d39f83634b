------------------------------- MODULE TxnOplog -------------------------------
(***************************************************************************)
(* How the operations of a nested transaction reach the oplog (class        *)
(* TxnOplog, src/mongo/db/txn_context.cpp) and how another member copies,    *)
(* applies and rolls back what it finds there (src/mongo/db/oplog.cpp).      *)
(*                                                                         *)
(* A transaction keeps its operations in memory and, above a limit, spills   *)
(* them as a row of oplog.refs keyed by an identifier of the root and a      *)
(* sequence number.  The entry of a root that spilled refers to the rows,    *)
(* and readers find the operations by increasing sequence number: the whole  *)
(* difficulty is that parents and children spill at different times.         *)
(*                                                                         *)
(* rows are the rows a transaction has inserted: the storage engine gives    *)
(* them to the parent when it commits and drops them when it aborts.  An     *)
(* operation is a pair of its number and its size.                          *)
(***************************************************************************)
EXTENDS Naturals, Sequences, SequencesExt, FiniteSets, TLC

CONSTANTS
    MemLimit,   \* txnMemLimit
    Sizes,      \* sizes of an operation
    MaxDepth,   \* bound: transactions on the stack
    MaxOps,     \* bound: operations made
    MaxTxns     \* bound: transactions begun

VARIABLES
    txns,       \* the stack of TxnOplogs, root first
    refs,       \* oplog.refs: <<oid, seq>> -> operations
    oplog,      \* the committed entries
    roots,      \* root transactions begun: OID::gen gives each its own oid
    begun,      \* transactions begun
    nextOp,     \* operations made
    member      \* another member: copied entries, its oplog.refs, what it applied

vars == <<txns, refs, oplog, roots, begun, nextOp, member>>

NoOid == 0

Ops == (1..MaxOps) \X Sizes

-----------------------------------------------------------------------------
(* TxnOplog.  A stack of them is a value ts; a method of the one at level i   *)
(* returns the stack after it.  An operator whose name extends another's      *)
(* with a fault is that operator with a plausible bug, and nothing uses it.  *)

NewSameSeq(ts) ==
    [m |-> <<>>, spilled |-> FALSE, oid |-> NoOid, rows |-> <<>>,
     seq |-> IF ts = <<>> THEN 1 ELSE Last(ts).seq]

New(ts) ==
    [m |-> <<>>, spilled |-> FALSE, oid |-> NoOid, rows |-> <<>>,
     seq |-> IF ts = <<>> THEN 1 ELSE Last(ts).seq + 1]

IsEmpty(t) == ~ t.spilled /\ t.m = <<>>

MemSize(m) == FoldLeft(LAMBDA sum, op : sum + op[2], 0, m)

\* getOid: every transaction from i up to the root has the oid afterwards.
GetOid(ts, i) ==
    [j \in 1..i |-> [ts[j] EXCEPT !.oid = roots]] \o SubSeq(ts, i + 1, Len(ts))

\* The row is inserted by the innermost transaction, the only one that may.
Spill(ts, i) ==
    IF ts[i].m = <<>> THEN ts
    ELSE LET seq == ts[i].seq + 1
         IN  [GetOid(ts, i) EXCEPT
                ![i].seq = seq,
                ![i].m = <<>>,
                ![Len(ts)].rows = (<<roots, seq>> :> ts[i].m) @@ @]

AppendOp(ts, i, op) ==
    LET pushed == [ts EXCEPT ![i].seq = @ + 1, ![i].m = Append(@, op)]
    IN  IF MemSize(pushed[i].m) > MemLimit
          THEN [Spill(pushed, i) EXCEPT ![i].spilled = TRUE]
          ELSE pushed

\* The last transaction of ts hands its operations to its parent: when it has
\* spilled the parent spills first, under a smaller sequence number.
FinishChildCommitLate(ts) ==
    LET child == Last(ts)
        parent == Len(ts) - 1
        numbered == [ts EXCEPT ![parent].seq = child.seq + 1]
        spilled == IF child.spilled
                     THEN [Spill(numbered, parent) EXCEPT ![parent].spilled = TRUE]
                     ELSE numbered
    IN  FoldLeft(LAMBDA s, op : AppendOp(s, parent, op), spilled, child.m)

FinishChildCommit(ts) ==
    LET child == Last(ts)
        parent == Len(ts) - 1
        spilled == IF child.spilled
                     THEN [Spill(ts, parent) EXCEPT ![parent].spilled = TRUE]
                     ELSE ts
        numbered == [spilled EXCEPT ![parent].seq = child.seq + 1]
    IN  FoldLeft(LAMBDA s, op : AppendOp(s, parent, op), numbered, child.m)

\* The entry rootCommit writes for the root t, once it has spilled what is left.
RootEntry(t) == IF t.spilled THEN [ref |-> t.oid, ops |-> <<>>]
                             ELSE [ref |-> NoOid, ops |-> t.m]

-----------------------------------------------------------------------------
(* What readers of an entry do with oplog.refs. *)

MaxSeq == 2 * MaxOps * MaxDepth + 2 * MaxTxns + 2  \* above every sequence number in use

RowAt(rows, oid, seq) == IF <<oid, seq>> \in DOMAIN rows THEN rows[<<oid, seq>>] ELSE <<>>

\* applyRefOp: from 0, the row with the next greater sequence number.
ApplyRefOp(rows, oid) ==
    LET upTo[seq \in 0..MaxSeq] ==
            IF seq = 0 THEN <<>> ELSE upTo[seq - 1] \o RowAt(rows, oid, seq)
    IN  upTo[MaxSeq]

\* applyTransactionFromOplog: the operations in the order they are applied.
ApplyOrder(rows, entry) ==
    IF entry.ref # NoOid THEN ApplyRefOp(rows, entry.ref) ELSE entry.ops

\* rollbackRefOp: from the greatest sequence number down, each row backwards.
RollbackRefOpForward(rows, oid) ==
    LET downTo[seq \in 0..MaxSeq] ==
            IF seq = 0 THEN <<>> ELSE RowAt(rows, oid, seq) \o downTo[seq - 1]
    IN  downTo[MaxSeq]

RollbackRefOp(rows, oid) ==
    LET downTo[seq \in 0..MaxSeq] ==
            IF seq = 0 THEN <<>> ELSE Reverse(RowAt(rows, oid, seq)) \o downTo[seq - 1]
    IN  downTo[MaxSeq]

RollbackOrder(rows, entry) ==
    IF entry.ref # NoOid THEN RollbackRefOp(rows, entry.ref) ELSE Reverse(entry.ops)

\* Undoing op on the data d: it should be the last thing done, and when it is
\* not, the pair <<0, n>> keeps note of it.
Undo(d, op) ==
    IF d # <<>> /\ Last(d) = op THEN Front(d) ELSE Append(d, <<0, op[1]>>)

-----------------------------------------------------------------------------
Init ==
    /\ txns = <<>>
    /\ refs = <<>>
    /\ oplog = <<>>
    /\ roots = 0
    /\ begun = 0
    /\ nextOp = 0
    /\ member = [oplog |-> <<>>, refs |-> <<>>, data |-> <<>>, applied |-> 0]

\* Client::TransactionStack::beginTxn.
BeginTxn ==
    /\ Len(txns) < MaxDepth /\ begun < MaxTxns
    /\ begun' = begun + 1
    /\ roots' = IF txns = <<>> THEN roots + 1 ELSE roots
    /\ txns' = Append(txns, New(txns))
    /\ UNCHANGED <<refs, oplog, nextOp, member>>

LogOpForReplication(size) ==
    /\ txns # <<>> /\ nextOp < MaxOps
    /\ nextOp' = nextOp + 1
    /\ txns' = AppendOp(txns, Len(txns), <<nextOp', size>>)
    /\ UNCHANGED <<refs, oplog, roots, begun, member>>

CommitChild ==
    /\ Len(txns) > 1
    /\ LET ts == FinishChildCommit(txns)
       IN  txns' = [Front(ts) EXCEPT ![Len(ts) - 1].rows = Last(ts).rows @@ @]
    /\ UNCHANGED <<refs, oplog, roots, begun, nextOp, member>>

CommitRoot ==
    /\ Len(txns) = 1
    /\ txns' = <<>>
    /\ IF IsEmpty(txns[1])
         THEN UNCHANGED <<refs, oplog>>
         ELSE LET root == IF txns[1].spilled THEN Spill(txns, 1)[1] ELSE txns[1]
              IN  /\ refs' = root.rows @@ refs
                  /\ oplog' = Append(oplog, RootEntry(root))
    /\ UNCHANGED <<roots, begun, nextOp, member>>

\* commitRoot also ends here when writing the entry throws: it catches, and the
\* storage transaction is never committed.
Abort ==
    /\ txns # <<>>
    /\ txns' = Front(txns)
    /\ UNCHANGED <<refs, oplog, roots, begun, nextOp, member>>

-----------------------------------------------------------------------------
(* Another member, which copies the entries in order. *)

RowsOf(rows, oid) == {key \in DOMAIN rows : key[1] = oid}

\* replicateFullTransactionToOplog.
Replicate ==
    /\ Len(member.oplog) < Len(oplog)
    /\ LET entry == oplog[Len(member.oplog) + 1]
           copied == [key \in RowsOf(refs, entry.ref) |-> refs[key]]
       IN  member' = [member EXCEPT !.oplog = Append(@, entry), !.refs = copied @@ @]
    /\ UNCHANGED <<txns, refs, oplog, roots, begun, nextOp>>

\* applyTransactionFromOplog.
ApplyTransaction ==
    /\ member.applied < Len(member.oplog)
    /\ LET entry == member.oplog[member.applied + 1]
       IN  member' = [member EXCEPT !.applied = @ + 1,
                                    !.data = @ \o ApplyOrder(member.refs, entry)]
    /\ UNCHANGED <<txns, refs, oplog, roots, begun, nextOp>>

\* rollbackTransactionFromOplog of the last entry, once all are applied, and
\* purgeEntryFromOplog.
RollbackTransaction ==
    /\ member.oplog # <<>> /\ member.applied = Len(member.oplog)
    /\ LET entry == Last(member.oplog)
           kept == DOMAIN member.refs \ RowsOf(member.refs, entry.ref)
       IN  member' = [oplog |-> Front(member.oplog),
                      refs |-> [key \in kept |-> member.refs[key]],
                      data |-> FoldLeft(Undo, member.data, RollbackOrder(member.refs, entry)),
                      applied |-> member.applied - 1]
    /\ UNCHANGED <<txns, refs, oplog, roots, begun, nextOp>>

Next ==
    \/ BeginTxn \/ CommitChild \/ CommitRoot \/ Abort
    \/ \E size \in Sizes : LogOpForReplication(size)
    \/ Replicate \/ ApplyTransaction \/ RollbackTransaction

Spec == Init /\ [][Next]_vars

-----------------------------------------------------------------------------
(* Properties *)

\* The verifies of spill and finishChildCommit hold whenever they are reached: a
\* child is numbered above its parent, and all the ancestors of a transaction
\* that has spilled share the identifier.
VerifiesHold ==
    \A i \in DOMAIN txns :
        /\ i > 1 => txns[i].seq > txns[i - 1].seq
        /\ txns[i].spilled => \A j \in 1..i : txns[j].oid = roots

\* The operations of the transactions on the stack and of the entries of the
\* oplog, as a reader sees them.
Done(t) == ApplyRefOp(t.rows, roots) \o t.m

Nested == INSTANCE NestedTxn
            WITH txns <- [i \in DOMAIN txns |-> Done(txns[i])],
                 log <- [i \in DOMAIN oplog |-> ApplyOrder(refs, oplog[i])]

\* However children nest, spill, commit and abort, the entry of a root holds
\* its operations exactly once and in the order they were made.
EntriesAreTransactions == Nested!Spec

\* A member has applied the operations of the entries it applied, in their
\* order, and rolling entries back takes it back to where it was before them.
MemberHasAppliedPrefix ==
    member.data = FlattenSeq([i \in 1..member.applied |-> ApplyOrder(refs, oplog[i])])

=============================================================================
