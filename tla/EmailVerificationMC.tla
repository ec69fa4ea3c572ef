------------------------- MODULE EmailVerificationMC -------------------------
EXTENDS EmailVerification, TLC

Symmetry == Permutations(Calls) \cup Permutations(CodeIds)
=============================================================================
