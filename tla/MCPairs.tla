------------------------------- MODULE MCPairs -------------------------------
EXTENDS Pairs, TLC
CONSTANTS q1, q2
MCRequests == {q1, q2}
Alike == Permutations(MCRequests)
=============================================================================
