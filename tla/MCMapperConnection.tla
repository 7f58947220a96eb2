------------------------ MODULE MCMapperConnection ------------------------
EXTENDS MapperConnection, TLC

CONSTANTS r1, r2, m1, k1, k2

MCReads == {r1, r2}
MCSub == {r1, r2, m1}
MCMutation == {m1}
MCSocket == {k1, k2}
MCSmallSub == {r1, m1}
Symmetry == Permutations(MCReads) \cup Permutations(MCSocket)
=============================================================================
