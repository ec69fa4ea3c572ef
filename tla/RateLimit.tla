------------------------------ MODULE RateLimit ------------------------------
(***************************************************************************)
(* The fixed windows that limit requests: RateLimitGuard, which lets an    *)
(* HTTP request through or refuses it before its handler runs, and         *)
(* assertSocketRate of ChatGateway.  Neither awaits anything, so that a    *)
(* request is one step.  The guard's buckets are in memory, one for each   *)
(* identity, method and path; expired ones go in a sweep once in a while.  *)
(* A socket keeps its two buckets itself, for as long as it lives.  The    *)
(* process is not restarted: then all counts would begin anew.             *)
(***************************************************************************)
EXTENDS Clock, FiniteSets, Sequences

CONSTANTS
  HttpKeys,     \* identity:method:path of requests
  SocketKeys,   \* a socket's events of one kind
  Limit,        \* requests per window, by key: policy(path), or the event's
  Window,       \* 60 seconds
  SweepEvery,   \* 500 requests
  MaxRefused    \* the bound on requests refused in one window

RateKeys == HttpKeys \cup SocketKeys

ASSUME KeysAssumption == HttpKeys \cap SocketKeys = {}
ASSUME LimitAssumption == Limit \in [RateKeys -> Nat \ {0}]
ASSUME NumbersAssumption ==
  /\ Window \in Nat \ {0} /\ SweepEvery \in Nat \ {0}
  /\ MaxRefused \in Nat

VARIABLES
  bucket,       \* key -> [count, resetAt]
  sinceSweep,   \* requestsSinceSweep of the guard
  passed        \* history: when the requests of each key were let through

rateVars == <<now, bucket, sinceSweep, passed>>
-----------------------------------------------------------------------------
Bucket == [count : Nat \ {0}, resetAt : Nat]

Current(k) == k \in DOMAIN bucket /\ bucket[k].resetAt > now

RateInit ==
  /\ now = 0
  /\ bucket = [k \in {} |-> 0]
  /\ sinceSweep = 0
  /\ passed = [k \in RateKeys |-> <<>>]

(* Mutant: the window begins anew with every request.                      *)
Prolonged(k) ==
  [count |-> IF Current(k) THEN bucket[k].count + 1 ELSE 1, resetAt |-> now + Window]

(* Mutant: a count that was never begun.                                   *)
Uncounted(k) ==
  [count |-> IF Current(k) THEN bucket[k].count ELSE 0, resetAt |-> now + Window]

(* The bucket of the key with one request more.                            *)
Counted(k) ==
  IF Current(k) THEN [bucket[k] EXCEPT !.count = @ + 1]
                ELSE [count |-> 1, resetAt |-> now + Window]

Filled(k) ==
  [x \in DOMAIN bucket \cup {k} |-> IF x = k THEN Counted(k) ELSE bucket[x]]

(* Mutant: the sweep drops the buckets that still count.                   *)
SweptCurrent(map) == [k \in {k \in DOMAIN map : k \notin HttpKeys \/ map[k].resetAt <= now} |-> map[k]]

(* Mutant: a bucket that expires this very moment is kept.                 *)
SweptLate(map) == [k \in {k \in DOMAIN map : k \notin HttpKeys \/ map[k].resetAt >= now} |-> map[k]]

(* The guard's expired buckets are dropped.                                *)
Swept(map) == [k \in {k \in DOMAIN map : k \notin HttpKeys \/ map[k].resetAt > now} |-> map[k]]

LetThrough(k) == passed' = [passed EXCEPT ![k] = Append(@, now)]

(* canActivate returns true: one request in SweepEvery sweeps.             *)
Pass(k) ==
  /\ k \in HttpKeys /\ Counted(k).count <= Limit[k]
  /\ LetThrough(k)
  /\ IF sinceSweep + 1 >= SweepEvery
       THEN sinceSweep' = 0 /\ bucket' = Swept(Filled(k))
       ELSE sinceSweep' = sinceSweep + 1 /\ bucket' = Filled(k)
  /\ UNCHANGED now

(* canActivate throws RATE_LIMITED, before it comes to the sweep.          *)
Refuse(k) ==
  /\ k \in HttpKeys /\ Counted(k).count > Limit[k]
  /\ Counted(k).count <= Limit[k] + MaxRefused
  /\ bucket' = Filled(k)
  /\ UNCHANGED <<now, sinceSweep, passed>>

(* assertSocketRate returns, or throws.                                    *)
SocketEvent(k) ==
  /\ k \in SocketKeys
  /\ Counted(k).count <= Limit[k] + MaxRefused
  /\ bucket' = Filled(k)
  /\ IF Counted(k).count <= Limit[k] THEN LetThrough(k) ELSE UNCHANGED passed
  /\ UNCHANGED <<now, sinceSweep>>

RateTick ==
  /\ Elapse
  /\ UNCHANGED <<bucket, sinceSweep, passed>>

RateNext ==
  \/ \E k \in RateKeys : Pass(k) \/ Refuse(k) \/ SocketEvent(k)
  \/ RateTick

RateSpec == RateInit /\ [][RateNext]_rateVars
-----------------------------------------------------------------------------
(* The variables range over the values their names say.                    *)
RateTypeOK ==
  /\ now \in 0..MaxTime
  /\ DOMAIN bucket \subseteq RateKeys /\ bucket \in [DOMAIN bucket -> Bucket]
  /\ sinceSweep \in 0..(SweepEvery - 1)
  /\ passed \in [RateKeys -> Seq(0..MaxTime)]

(* A window is fixed, so that two of them may meet in a burst, but that is *)
(* all: of 2 * Limit + 1 requests in a row the last is let through more    *)
(* than a window after the first, whatever the sweep has dropped.          *)
TwiceTheLimit ==
  \A k \in RateKeys : \A i \in DOMAIN passed[k] :
    i + 2 * Limit[k] \in DOMAIN passed[k]
      => passed[k][i + 2 * Limit[k]] > passed[k][i] + Window

(* Who would be refused now has had as many requests as the limit let      *)
(* through within the last window: refusals do not prolong themselves.     *)
RefusedForAReason ==
  \A k \in RateKeys : Counted(k).count > Limit[k] =>
    /\ Len(passed[k]) >= Limit[k]
    /\ passed[k][Len(passed[k]) - Limit[k] + 1] > now - Window

(* What a client may count on, and what it is held to.                     *)
LimitsKept == TwiceTheLimit /\ RefusedForAReason

(* The requests of the guard let through at a time or later.               *)
PassedSince(at) ==
  UNION {{<<k, i>> : i \in {j \in DOMAIN passed[k] : passed[k][j] >= at}} : k \in HttpKeys}

(* The guard's map does not grow with the clients it has ever seen: a      *)
(* bucket that has expired is dropped before SweepEvery more requests.     *)
ExpiredGo ==
  \A k \in DOMAIN bucket \cap HttpKeys :
    ~Current(k) => Cardinality(PassedSince(bucket[k].resetAt)) < SweepEvery
=============================================================================
