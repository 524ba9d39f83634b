-------------------------- MODULE MCBackgroundSync --------------------------
(* Instance of BackgroundSync for TLC: the oplog starts with the entry      *)
(* replSetInitiate writes.                                                  *)
EXTENDS BackgroundSync

MCFirstGTID == [primarySeqNo |-> 1, GTSeqNo |-> 0]

\* A bound: a behaviour that a new configuration has disturbed is not followed
\* into a shutdown as well.
NotBoth == ~ (Disturbed /\ shutdown # "none")

=============================================================================
