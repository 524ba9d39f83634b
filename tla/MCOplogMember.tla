---------------------------- MODULE MCOplogMember ----------------------------
EXTENDS OplogMember
=============================================================================
