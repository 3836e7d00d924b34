----------------------------- MODULE MCListener -----------------------------
EXTENDS Listener, TLC

CONSTANTS a, b

MCIds == {a, b}

\* Identities are only compared.
MCSymmetry == Permutations(MCIds)
=============================================================================
