--------------------------- MODULE ConversationsMC ---------------------------
EXTENDS MessageReader, TLC

Symmetry ==
  Permutations(Calls) \cup Permutations(ConvIds) \cup Permutations(MessageIds)
    \cup Permutations(Users)

(* Where there are conversations of old, what is sent matters less: two    *)
(* messages are enough, and one where a pair has two of them.              *)
FewMessages == Cardinality(old) + Cardinality(DOMAIN message) <= 3
=============================================================================
