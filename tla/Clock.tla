-------------------------------- MODULE Clock --------------------------------
(***************************************************************************)
(* The clock of the process, which the maps it keeps in memory read: the   *)
(* results of Idempotency and the buckets of RateLimit.                    *)
(***************************************************************************)
EXTENDS Integers

CONSTANT MaxTime      \* the bound on the clock
ASSUME MaxTimeAssumption == MaxTime \in Nat

VARIABLE now          \* Date.now()

Elapse == now < MaxTime /\ now' = now + 1
=============================================================================
