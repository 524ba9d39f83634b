---------------------------- MODULE MCElections ----------------------------
EXTENDS Elections
OneVoteEach == [m \in 0..(N - 1) |-> 1]
\* The first member is preferred to the next.
Descending == [m \in 0..(N - 1) |-> N - m]
=============================================================================
