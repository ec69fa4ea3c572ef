--------------------------- MODULE VoiceComposeMC ---------------------------
EXTENDS VoiceCompose, TLC

Symmetry == Permutations(Keys) \cup Permutations(RunIds)
=============================================================================
