---------------------------- MODULE PushTokensMC ----------------------------
EXTENDS PushTokens, TLC

Symmetry == Permutations(Users) \cup Permutations(Tokens) \cup Permutations(Sends)
=============================================================================
