------------------------------ MODULE NestedTxn ------------------------------
(***************************************************************************)
(* What a client may expect of nested transactions: the operations of a     *)
(* committed child follow those its parent had, those of an aborted one      *)
(* leave no trace, and a root that commits adds its operations, in the       *)
(* order they were made, to the log.  TxnOplog (for the oplog) and           *)
(* SpillableVector (for the log of a chunk migration) implement it.          *)
(***************************************************************************)
EXTENDS Sequences, SequencesExt

CONSTANT Ops

VARIABLES txns,  \* the operations of each transaction on the stack, root first
          log    \* what the committed roots did

Init ==
    /\ txns = <<>>
    /\ log = <<>>

Begin ==
    /\ txns' = Append(txns, <<>>)
    /\ UNCHANGED log

LogOp ==
    /\ txns # <<>>
    /\ \E op \in Ops : txns' = [txns EXCEPT ![Len(txns)] = Append(@, op)]
    /\ UNCHANGED log

CommitChild ==
    /\ Len(txns) > 1
    /\ LET parent == Len(txns) - 1
       IN  txns' = [Front(txns) EXCEPT ![parent] = @ \o Last(txns)]
    /\ UNCHANGED log

CommitRoot ==
    /\ Len(txns) = 1
    /\ txns' = <<>>
    /\ log' = IF txns[1] = <<>> THEN log ELSE Append(log, txns[1])

Abort ==
    /\ txns # <<>>
    /\ txns' = Front(txns)
    /\ UNCHANGED log

Next == Begin \/ LogOp \/ CommitChild \/ CommitRoot \/ Abort

Spec == Init /\ [][Next]_<<txns, log>>

=============================================================================
