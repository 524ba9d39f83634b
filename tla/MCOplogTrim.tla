---------------------------- MODULE MCOplogTrim ----------------------------
(* OplogTrim with three transactions of up to two rows.                    *)
EXTENDS OplogTrim
=============================================================================
