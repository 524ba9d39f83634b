---------------------------- MODULE MCConsensus ----------------------------
EXTENDS Consensus
OneVoteEach == [m \in Member |-> 1]
=============================================================================
