----------------------------- MODULE MCKeyStore -----------------------------
EXTENDS KeyStore, TLC

CONSTANTS p1, p2, d1, d2

TwoClients == {p1, p2}

OneDir  == {d1}
TwoDirs == {d1, d2}

SharedSymmetry == Permutations(TwoClients) \cup Permutations(TwoDirs)
=============================================================================
