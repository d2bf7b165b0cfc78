----------------------------- MODULE MCScoping -----------------------------
EXTENDS Scoping

CONSTANTS a, b

MCNames == {a, b}

\* A name only matters by whether it is the other.
Symmetry == Permutations(MCNames)
=============================================================================
