---------------------------- MODULE Idempotency ----------------------------
(***************************************************************************)
(* IdempotencyService (src/common/idempotency/idempotency.service.ts): the *)
(* in-memory map that lets a repeated request share the promise of the     *)
(* first one.  A cache key is a scope (the route, for mail and drafts also *)
(* the owner) joined to the client's Idempotency-Key; a request without    *)
(* that header is never cached and does not appear here, and one that      *)
(* finds a live entry is handed its promise, which changes nothing.        *)
(*                                                                         *)
(* The service sets no limit on how long an operation runs.  MaxRun is     *)
(* the environment's bound, and RunsEndInTime the assumption under which   *)
(* the service does what its tests say.                                    *)
(***************************************************************************)
EXTENDS Clock, FiniteSets

CONSTANTS
  Keys,         \* cache keys, scope included
  RunIds,       \* supply of promises: the bound on operations ever started
  TTL,          \* 10 minutes
  MaxRun,       \* the longest that an operation runs
  PruneSize,    \* 500: the size of the map from which expired entries go
  MaxRestarts   \* the bound on restarts of the process

ASSUME TimesAssumption == TTL \in Nat /\ MaxRun \in Nat
ASSUME MaxRestartsAssumption == MaxRestarts \in Nat

(* Not an ASSUME: the service does not see to it.                          *)
RunsEndInTime == MaxRun < TTL

VARIABLES
  process,      \* restarts so far: an entry lives as long as its process
  entries,      \* cache key -> [run, expiresAt]
  run           \* every operation started, and what has become of it

vars == <<now, process, entries, run>>
-----------------------------------------------------------------------------
Runs == DOMAIN run
Entry == [run : RunIds, expiresAt : Nat]
Run == [key : Keys, started : Nat, process : 0..MaxRestarts,
        state : {"running", "done", "failed"}]

Running(o) == run[o].state = "running" /\ run[o].process = process
Live(k) == k \in DOMAIN entries /\ entries[k].expiresAt > now

(* The map without the entries of a set of keys.                           *)
Without(map, K) == [k \in DOMAIN map \ K |-> map[k]]

(* Mutant: prune drops what expires next, the newest entry included.       *)
PruneAll(map) == IF Cardinality(DOMAIN map) < PruneSize THEN map ELSE Without(map, DOMAIN map)

Prune(map) ==
  IF Cardinality(DOMAIN map) < PruneSize
    THEN map
    ELSE Without(map, {k \in DOMAIN map : map[k].expiresAt <= now})

Init ==
  /\ now = 0
  /\ process = 0
  /\ entries = [k \in {} |-> 0]
  /\ run = [o \in {} |-> 0]

(* run(scope, key, operation) without a live entry: the operation starts,  *)
(* its promise is stored under the key, and expired entries are pruned.    *)
Start(k) ==
  /\ ~Live(k)
  /\ \E o \in RunIds \ Runs :
       /\ run' = [x \in Runs \cup {o} |->
            IF x = o THEN [key |-> k, started |-> now, process |-> process,
                           state |-> "running"]
            ELSE run[x]]
       /\ entries' = Prune([x \in DOMAIN entries \cup {k} |->
            IF x = k THEN [run |-> o, expiresAt |-> now + TTL] ELSE entries[x]])
  /\ UNCHANGED <<now, process>>

Succeed(o) ==
  /\ Running(o)
  /\ run' = [run EXCEPT ![o].state = "done"]
  /\ UNCHANGED <<now, process, entries>>

(* Mutant: the entry is emptied instead of deleted.                        *)
FailEmptied(o) ==
  /\ Running(o)
  /\ run' = [run EXCEPT ![o].state = "failed"]
  /\ entries' = [k \in DOMAIN entries |-> IF k = run[o].key THEN <<>> ELSE entries[k]]
  /\ UNCHANGED <<now, process>>

(* The catch deletes whatever entry the key has now.                       *)
Fail(o) ==
  /\ Running(o)
  /\ run' = [run EXCEPT ![o].state = "failed"]
  /\ entries' = Without(entries, {run[o].key})
  /\ UNCHANGED <<now, process>>

(* The clock moves, but an operation ends within MaxRun.                   *)
Tick ==
  /\ \A o \in Runs : Running(o) => now < run[o].started + MaxRun
  /\ Elapse
  /\ UNCHANGED <<process, entries, run>>

(* The process is restarted: the map is lost, and with it every run.       *)
Restart ==
  /\ process < MaxRestarts
  /\ process' = process + 1
  /\ entries' = [k \in {} |-> 0]
  /\ UNCHANGED <<now, run>>

Next ==
  \/ \E k \in Keys : Start(k)
  \/ \E o \in Runs : Succeed(o) \/ Fail(o)
  \/ Tick \/ Restart

Spec == Init /\ [][Next]_vars
-----------------------------------------------------------------------------
(* The variables range over the values their names say.                    *)
TypeOK ==
  /\ now \in Nat /\ process \in 0..MaxRestarts
  /\ DOMAIN entries \subseteq Keys /\ entries \in [DOMAIN entries -> Entry]
  /\ Runs \subseteq RunIds /\ run \in [Runs -> Run]

(* "Shares one in-flight result for the same key": while an operation      *)
(* runs, and as long as its result is kept, the process starts no other    *)
(* one for the key.  Two operations of one key, neither of which failed,   *)
(* start at least TTL apart.                                               *)
OncePerWindow ==
  \A o, p \in Runs :
    /\ o # p /\ run[o].key = run[p].key /\ run[o].process = run[p].process
    /\ run[o].state # "failed" /\ run[p].state # "failed"
    => \/ run[o].started >= run[p].started + TTL
       \/ run[p].started >= run[o].started + TTL

(* "Does not cache failures": no key leads to an operation that failed, or *)
(* to one of another key.                                                  *)
FailuresForgotten ==
  \A k \in DOMAIN entries :
    /\ run[entries[k].run].state # "failed"
    /\ run[entries[k].run].key = k

(* A retry runs again only once the first attempt failed, its result       *)
(* expired, or the process was restarted: an entry that has not expired    *)
(* leaves the map in no other way, prune included.                         *)
OnlyFailureForgets ==
  \A k \in DOMAIN entries :
    Live(k) /\ k \notin DOMAIN entries' =>
      process' # process \/ run'[entries[k].run].state = "failed"

EntriesKept == [][OnlyFailureForgets]_vars
=============================================================================
