--------------------------- MODULE SpillableVector ---------------------------
(***************************************************************************)
(* How the operations of a nested transaction reach the log of a chunk       *)
(* migration (class SpillableVector, src/mongo/db/spillable_vector.cpp, as    *)
(* TxnContext uses it) and how the receiving side reads them back             *)
(* (SpillableVectorIterator).                                               *)
(*                                                                         *)
(* A vector holds operations until their size reaches a limit.  From then on *)
(* it builds objects of the collection of references, keyed by the root's     *)
(* identifier and a sequence number all the vectors of a stack share, and     *)
(* writes each one when it is full.  A write belongs to the innermost        *)
(* transaction: rows are what a transaction has written, as in TxnOplog.      *)
(*                                                                         *)
(* done and expected are what the client did, by NestedTxn; no operation of   *)
(* the vectors reads them.  An operator whose name extends another's with a    *)
(* fault is that operator with a plausible bug, and nothing uses it.          *)
(***************************************************************************)
EXTENDS Naturals, Sequences, SequencesExt, FiniteSets, TLC

CONSTANTS
    MaxSize,     \* _maxSize
    Header,      \* size of an object's _id
    Sizes,       \* sizes of an operation
    MaxDepth,    \* bound: transactions on the stack
    MaxOps,      \* bound: operations made
    MaxTxns,     \* bound: transactions begun
    Aborts       \* BOOLEAN: a transaction may abort

VARIABLES
    vectors,     \* the stack of SpillableVectors, root first
    seqNo,       \* _seq of the root, which every vector counts in
    roots,       \* root transactions begun: each has its own oid
    migrateRefs, \* the collection of references: <<oid, seq>> -> operations
    migrateLog,  \* the log of the migration
    crashed,     \* a builder was used that was never created
    harm,        \* what was done to the root under way, of Harms
    done, expected, nextOp, begun

clientVars == <<done, expected>>

vars == <<vectors, seqNo, roots, migrateRefs, migrateLog, crashed, harm, clientVars, nextOp,
          begun>>

\* A child that spills takes its parents' operations out of their vectors into
\* objects with lower numbers than its own: whatever the parents append later
\* goes there too ("reordered").  When the child aborts, those objects may never
\* be written, and its numbers are missing; a number is missing, too, after an
\* operation that fills an object by itself ("broken").
Harms == {"none", "reordered", "broken"}

Ops == (1..MaxOps) \X Sizes

Client == INSTANCE NestedTxn WITH txns <- done, log <- expected

-----------------------------------------------------------------------------
(* SpillableVector.  The methods take and return a record of the stack, the   *)
(* sequence number and crashed; i is the level they are called on.            *)

State == [vs |-> vectors, seq |-> seqNo, crashed |-> FALSE, skipped |-> FALSE]

New == [vec |-> <<>>, curSize |-> 0, inited |-> FALSE, cur |-> <<>>, curSeq |-> 0,
        rows |-> <<>>]

SizeOf(ops) == FoldLeft(LAMBDA sum, op : sum + op[2], 0, ops)

Spilling(v) == v.curSize >= MaxSize

InitCurObj(s, i) ==
    [s EXCEPT !.seq = @ + 1,
              !.vs[i].inited = TRUE, !.vs[i].cur = <<>>, !.vs[i].curSeq = s.seq]

SpillCurObj(s, i) ==
    IF ~ s.vs[i].inited THEN [s EXCEPT !.crashed = TRUE]
    ELSE IF s.vs[i].cur = <<>> THEN s
    ELSE [s EXCEPT !.vs[Len(s.vs)].rows =
                       (<<roots, s.vs[i].curSeq>> :> s.vs[i].cur) @@ @]

SpillOneObjectInPlace(s, i, op) ==
    LET first == IF s.vs[i].inited THEN s ELSE InitCurObj(s, i)
    IN  [first EXCEPT !.vs[i].cur = IF Header + SizeOf(@) + op[2] >= MaxSize
                                      THEN <<op>> ELSE Append(@, op)]

SpillOneObject(s, i, op) ==
    LET first == IF s.vs[i].inited THEN s ELSE InitCurObj(s, i)
        cur == first.vs[i].cur
        full == Header + SizeOf(cur) + op[2] >= MaxSize
        room == IF full THEN InitCurObj(SpillCurObj(first, i), i) ELSE first
    IN  [room EXCEPT !.vs[i].cur = Append(@, op), !.skipped = @ \/ (full /\ cur = <<>>)]

\* What vector i holds goes to its current object.
SpillVec(s, i) ==
    [FoldLeft(LAMBDA t, op : SpillOneObject(t, i, op), s, s.vs[i].vec) EXCEPT
        !.vs[i].vec = <<>>]

\* Ancestors first, "to get the sequence numbers right".
SpillAllObjects(s, i) == FoldLeft(SpillVec, s, [j \in 1..i |-> j])

AppendOp(s, i, op) ==
    LET grown == [s EXCEPT !.vs[i].curSize = @ + op[2]]
        spilled == IF ~ Spilling(s.vs[i]) /\ Spilling(grown.vs[i])
                     THEN SpillAllObjects(grown, i) ELSE grown
    IN  IF Spilling(grown.vs[i]) THEN SpillOneObject(spilled, i, op)
        ELSE [spilled EXCEPT !.vs[i].vec = Append(@, op)]

Finish(s, i) == IF Spilling(s.vs[i]) THEN SpillCurObj(s, i) ELSE s

\* transfer() of the innermost vector to its parent.
Transfer(s) ==
    LET child == Len(s.vs)
        parent == child - 1
        finished == Finish(s, child)
        grown == [finished EXCEPT
                    !.vs[parent].vec = IF Spilling(s.vs[child]) THEN @ ELSE @ \o s.vs[child].vec,
                    !.vs[parent].curSize = @ + s.vs[child].curSize]
    IN  IF Spilling(grown.vs[parent]) THEN SpillAllObjects(grown, parent) ELSE grown

\* What the log of the migration gets for a root; harm is not in the code's entry.
Entry(v) ==
    [ref |-> IF Spilling(v) THEN roots ELSE 0, a |-> IF Spilling(v) THEN <<>> ELSE v.vec,
     harm |-> harm]

\* The harm done once the methods have left s.
HarmIn(s) ==
    IF harm = "broken" \/ s.skipped THEN "broken"
    ELSE IF \E i \in 2..Len(s.vs) : Spilling(s.vs[i]) THEN "reordered"
    ELSE harm

-----------------------------------------------------------------------------
(* SpillableVectorIterator. *)

SeqsOf(oid) == {key[2] : key \in {k \in DOMAIN migrateRefs : k[1] = oid}}

\* verify(seqElt.Long() == _seq) holds of every object the iterator gets to.
CanRead(entry) ==
    entry.ref # 0 => SeqsOf(entry.ref) = 0..(Cardinality(SeqsOf(entry.ref)) - 1)

ReadRefs(oid) ==
    FlattenSeq([n \in 1..Cardinality(SeqsOf(oid)) |-> migrateRefs[<<oid, n - 1>>]])

ReadEntry(entry) == IF entry.ref # 0 THEN ReadRefs(entry.ref) ELSE entry.a

-----------------------------------------------------------------------------
Init ==
    /\ vectors = <<>> /\ seqNo = 0 /\ roots = 0
    /\ migrateRefs = <<>> /\ migrateLog = <<>>
    /\ crashed = FALSE /\ harm = "none"
    /\ nextOp = 0 /\ begun = 0
    /\ Client!Init

BeginTxn ==
    /\ ~ crashed
    /\ Len(vectors) < MaxDepth /\ begun < MaxTxns
    /\ begun' = begun + 1
    /\ vectors' = Append(vectors, New)
    /\ IF vectors = <<>> THEN roots' = roots + 1 /\ seqNo' = 0 /\ harm' = "none"
                         ELSE UNCHANGED <<roots, seqNo, harm>>
    /\ Client!Begin
    /\ UNCHANGED <<migrateRefs, migrateLog, crashed, nextOp>>

\* TxnContext::logOpForSharding.
LogOpForSharding(size) ==
    LET op == <<nextOp + 1, size>>
        s == AppendOp(State, Len(vectors), op) IN
    /\ ~ crashed
    /\ vectors # <<>> /\ nextOp < MaxOps
    /\ nextOp' = nextOp + 1
    /\ vectors' = s.vs
    /\ seqNo' = s.seq
    /\ crashed' = s.crashed
    /\ harm' = HarmIn(s)
    /\ done' = [done EXCEPT ![Len(done)] = Append(@, op)]
    /\ UNCHANGED <<roots, migrateRefs, migrateLog, expected, begun>>

\* TxnContext::commitChild: an empty vector is not transferred.
CommitChild ==
    /\ ~ crashed
    /\ Len(vectors) > 1
    /\ LET child == Len(vectors)
           s == IF Last(vectors).curSize = 0 THEN State ELSE Transfer(State)
       IN  /\ vectors' = [Front(s.vs) EXCEPT ![child - 1].rows = Last(s.vs).rows @@ @]
           /\ seqNo' = s.seq
           /\ crashed' = s.crashed
           /\ harm' = HarmIn(s)
    /\ Client!CommitChild
    /\ UNCHANGED <<roots, migrateRefs, migrateLog, nextOp, begun>>

\* TxnContext::commitRoot and writeTxnOpsToMigrateLog.
CommitRoot ==
    /\ ~ crashed
    /\ Len(vectors) = 1
    /\ LET s == Finish(State, 1)
       IN  /\ crashed' = s.crashed
           /\ IF vectors[1].curSize = 0 \/ s.crashed
                THEN UNCHANGED <<migrateRefs, migrateLog>>
                ELSE /\ migrateRefs' = s.vs[1].rows @@ migrateRefs
                     /\ migrateLog' = Append(migrateLog, Entry(vectors[1]))
           /\ IF s.crashed THEN Client!Abort ELSE Client!CommitRoot
    /\ vectors' = <<>>
    /\ UNCHANGED <<seqNo, roots, harm, nextOp, begun>>

Abort ==
    /\ ~ crashed /\ Aborts
    /\ vectors # <<>>
    /\ vectors' = Front(vectors)
    /\ harm' = IF Len(vectors) > 1 /\ Spilling(Last(vectors)) THEN "broken" ELSE harm
    /\ Client!Abort
    /\ UNCHANGED <<seqNo, roots, migrateRefs, migrateLog, crashed, nextOp, begun>>

Next ==
    \/ BeginTxn \/ CommitChild \/ CommitRoot \/ Abort
    \/ \E size \in Sizes : LogOpForSharding(size)

Spec == Init /\ [][Next]_vars

-----------------------------------------------------------------------------
(* Properties *)

\* Who reads the log of the migration gets the operations of each transaction
\* that committed, in the order they were made, and no verify of the iterator
\* fails: it is for "reconstructing the originally appended objects"
\* (spillable_vector.h:96-99).  Two conditions: no operation fills an object by
\* itself, and no child spills.  With children that spill and then commit, the
\* reader still gets every operation once, in some order.  A builder that was
\* never created is used only after a child has spilled.
MigrateLogIsExact ==
    /\ crashed => harm # "none"
    /\ Len(migrateLog) = Len(expected)
    /\ \A i \in DOMAIN migrateLog :
          LET entry == migrateLog[i]
              read == ReadEntry(entry)
          IN  /\ entry.harm = "none" => CanRead(entry) /\ read = expected[i]
              /\ entry.harm = "reordered" => /\ CanRead(entry)
                                             /\ Len(read) = Len(expected[i])
                                             /\ ToSet(read) = ToSet(expected[i])

=============================================================================
