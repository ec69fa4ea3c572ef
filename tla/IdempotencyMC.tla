--------------------------- MODULE IdempotencyMC ---------------------------
EXTENDS Idempotency, TLC

Symmetry == Permutations(Keys) \cup Permutations(RunIds)
=============================================================================
