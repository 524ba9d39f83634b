---------------------------- MODULE MCOplogTail ----------------------------
(* OplogTail for TLC: every bound is given in the configuration file.      *)
EXTENDS OplogTail
=============================================================================
