----------------------------- MODULE RateLimitMC -----------------------------
EXTENDS RateLimit, TLC

CONSTANTS k1, k2, s1

Http == {k1, k2}
Socket == {s1}
Limits == [k \in RateKeys |-> IF k = k2 THEN 1 ELSE 2]
=============================================================================
