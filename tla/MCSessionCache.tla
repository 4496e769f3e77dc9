--------------------------- MODULE MCSessionCache ---------------------------
EXTENDS SessionCache, TLC

Symmetry == Permutations(Conns)

\* Nothing is asked of the table after disorder, which never ends.
InOrder == orderly
=============================================================================
