------------------------------- MODULE ChatMC -------------------------------
EXTENDS Chat, TLC

CONSTANTS u1, u2, u3, c1, s1, s2, s3, t1, t2, m1, m2

Pair == [c \in Conversations |-> {u1, u2}]
Owner == [s \in Sockets |-> IF s = s1 THEN u1 ELSE IF s = s2 THEN u2 ELSE u3]

(* The two participants, each with a socket, are alike, and calls are.     *)
Swap == u1 :> u2 @@ u2 :> u1 @@ s1 :> s2 @@ s2 :> s1
Alike == {Swap} \cup Permutations(Calls)
=============================================================================
