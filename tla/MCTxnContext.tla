---------------------------- MODULE MCTxnContext ----------------------------
(* TxnContext on small instances: operations that fit into the memory of     *)
(* either log, fill it, or do not fit.                                     *)
EXTENDS TxnContext
=============================================================================
