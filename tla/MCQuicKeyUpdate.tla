-------------------------- MODULE MCQuicKeyUpdate --------------------------
EXTENDS QuicKeyUpdate, TLC
Symmetry == Permutations(Endpoint)
=============================================================================
