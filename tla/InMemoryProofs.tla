--------------------------- MODULE InMemoryProofs ---------------------------
(***************************************************************************)
(* Proofs about the two maps that the process keeps in memory: the results *)
(* of Idempotency, and further down the buckets of RateLimit.              *)
(*                                                                         *)
(* Of Idempotency, for any keys, any number of operations and restarts,    *)
(* and any times: OncePerWindow and EntriesKept hold under RunsEndInTime,  *)
(* the other invariants without it.                                        *)
(***************************************************************************)
EXTENDS Idempotency, RateLimit, FiniteSetTheorems, TLAPS

LEMMA PruneKeeps ==
  ASSUME NEW map
  PROVE  /\ DOMAIN Prune(map) \subseteq DOMAIN map
         /\ \A k \in DOMAIN Prune(map) : Prune(map)[k] = map[k]
         /\ \A k \in DOMAIN map : map[k].expiresAt > now /\ TypeOK /\ map[k].expiresAt \in Nat
              => k \in DOMAIN Prune(map)
  BY DEF Prune, Without, TypeOK

LEMMA TypeStep ==
  ASSUME TypeOK, [Next]_vars
  PROVE  TypeOK'
  <1> USE DEF TypeOK, Runs
  <1>1. ASSUME NEW k \in Keys, Start(k) PROVE TypeOK'
    <2>1. PICK o \in RunIds \ Runs :
            /\ run' = [x \in Runs \cup {o} |->
                 IF x = o THEN [key |-> k, started |-> now, process |-> process,
                                state |-> "running"]
                 ELSE run[x]]
            /\ entries' = Prune([x \in DOMAIN entries \cup {k} |->
                 IF x = k THEN [run |-> o, expiresAt |-> now + TTL] ELSE entries[x]])
      BY <1>1 DEF Start
    <2>2. PICK map : map = [x \in DOMAIN entries \cup {k} |->
                 IF x = k THEN [run |-> o, expiresAt |-> now + TTL] ELSE entries[x]]
      OBVIOUS
    <2>3. map \in [DOMAIN entries \cup {k} -> Entry]
      BY <2>2, TimesAssumption DEF Entry
    <2>4. DOMAIN entries' \subseteq Keys /\ entries' \in [DOMAIN entries' -> Entry]
      BY <2>1, <2>2, <2>3, PruneKeeps DEF Prune, Without
    <2>5. run' \in [Runs' -> Run] /\ Runs' \subseteq RunIds
      BY <2>1 DEF Run
    <2> QED
      BY <1>1, <2>4, <2>5 DEF Start
  <1>2. ASSUME NEW o \in Runs, Succeed(o) \/ Fail(o) PROVE TypeOK'
    <2>1. run' \in [Runs -> Run]
      BY <1>2 DEF Succeed, Fail, Run
    <2> QED
      BY <1>2, <2>1 DEF Succeed, Fail, Without, Entry
  <1>3. CASE Tick
    BY <1>3 DEF Tick, Elapse
  <1>4. CASE Restart
    BY <1>4, MaxRestartsAssumption DEF Restart
  <1>5. CASE UNCHANGED vars
    BY <1>5 DEF vars
  <1> QED
    BY <1>1, <1>2, <1>3, <1>4, <1>5 DEF Next

(* The variables range over the values their names say.                    *)
THEOREM TypeCorrect == Spec => []TypeOK
  <1>1. Init => TypeOK
    BY MaxRestartsAssumption DEF Init, TypeOK, Runs
  <1> QED
    BY <1>1, TypeStep, PTL DEF Spec
-----------------------------------------------------------------------------
(* An entry is that of an operation of its key, in this process, that has  *)
(* not failed.                                                             *)
EntryInv ==
  \A k \in DOMAIN entries :
    /\ entries[k].run \in Runs
    /\ run[entries[k].run].key = k
    /\ run[entries[k].run].process = process
    /\ run[entries[k].run].state # "failed"
    /\ entries[k].expiresAt = run[entries[k].run].started + TTL

(* Conversely, an operation less than TTL old that has not failed still    *)
(* has its entry: this is where the catch, which deletes whatever entry    *)
(* the key has, must not meet the entry of a later operation.              *)
WindowInv ==
  \A o \in Runs :
    /\ run[o].started <= now
    /\ run[o].process <= process
    /\ Running(o) => now <= run[o].started + MaxRun
    /\ run[o].process = process /\ run[o].state # "failed"
         /\ now < run[o].started + TTL
       => run[o].key \in DOMAIN entries /\ entries[run[o].key].run = o

IInv == EntryInv /\ WindowInv /\ OncePerWindow

(* What Start does, with the map before it is pruned named.                *)
LEMMA StartFacts ==
  ASSUME TypeOK, NEW k \in Keys, Start(k)
  PROVE  \E o \in RunIds \ Runs :
           /\ Runs' = Runs \cup {o} /\ \A x \in Runs : run'[x] = run[x]
           /\ run'[o] = [key |-> k, started |-> now, process |-> process,
                         state |-> "running"]
           /\ DOMAIN entries' \subseteq DOMAIN entries \cup {k}
           /\ \A x \in DOMAIN entries' :
                IF x = k THEN entries'[x].run = o /\ entries'[x].expiresAt = now + TTL
                         ELSE entries'[x] = entries[x]
           /\ \A x \in DOMAIN entries :
                x # k /\ entries[x].expiresAt > now => x \in DOMAIN entries'
           /\ TTL > 0 => k \in DOMAIN entries'
           /\ now' = now /\ process' = process
  <1>1. PICK o \in RunIds \ Runs :
          /\ run' = [x \in Runs \cup {o} |->
               IF x = o THEN [key |-> k, started |-> now, process |-> process,
                              state |-> "running"]
               ELSE run[x]]
          /\ entries' = Prune([x \in DOMAIN entries \cup {k} |->
               IF x = k THEN [run |-> o, expiresAt |-> now + TTL] ELSE entries[x]])
    BY DEF Start
  <1>2. PICK map : map = [x \in DOMAIN entries \cup {k} |->
               IF x = k THEN [run |-> o, expiresAt |-> now + TTL] ELSE entries[x]]
    OBVIOUS
  <1>3. map \in [DOMAIN entries \cup {k} -> Entry]
    BY <1>2, TimesAssumption DEF Entry, TypeOK
  <1>4. entries' = Prune(map)
    BY <1>1, <1>2
  <1>5. /\ DOMAIN entries' \subseteq DOMAIN map
        /\ \A x \in DOMAIN entries' : entries'[x] = map[x]
        /\ \A x \in DOMAIN map : map[x].expiresAt > now => x \in DOMAIN entries'
    BY <1>3, <1>4, PruneKeeps DEF Entry
  <1>6. map[k].run = o /\ map[k].expiresAt = now + TTL
    BY <1>2
  <1>7. \A x \in DOMAIN entries : x # k => map[x] = entries[x]
    BY <1>2
  <1>8. DOMAIN map = DOMAIN entries \cup {k}
    BY <1>2
  <1>9. TTL > 0 => k \in DOMAIN entries'
    <2>1. k \in DOMAIN map
      BY <1>8
    <2>2. TTL > 0 => map[k].expiresAt > now
      BY <1>6, TimesAssumption DEF TypeOK
    <2> QED BY <1>5, <2>1, <2>2
  <1>10. /\ DOMAIN entries' \subseteq DOMAIN entries \cup {k}
         /\ \A x \in DOMAIN entries' :
              IF x = k THEN entries'[x].run = o /\ entries'[x].expiresAt = now + TTL
                       ELSE entries'[x] = entries[x]
         /\ \A x \in DOMAIN entries :
              x # k /\ entries[x].expiresAt > now => x \in DOMAIN entries'
    BY <1>5, <1>6, <1>7, <1>8
  <1>11. /\ Runs' = Runs \cup {o} /\ \A x \in Runs : run'[x] = run[x]
         /\ run'[o] = [key |-> k, started |-> now, process |-> process,
                       state |-> "running"]
    BY <1>1 DEF Runs
  <1>12. now' = now /\ process' = process
    BY DEF Start
  <1> QED
    BY <1>9, <1>10, <1>11, <1>12

LEMMA EntryStep ==
  ASSUME TypeOK, EntryInv, [Next]_vars
  PROVE  EntryInv'
  <1>1. ASSUME NEW k \in Keys, Start(k) PROVE EntryInv'
    <2>1. PICK o \in RunIds \ Runs :
            /\ Runs' = Runs \cup {o} /\ \A x \in Runs : run'[x] = run[x]
            /\ run'[o] = [key |-> k, started |-> now, process |-> process,
                          state |-> "running"]
            /\ DOMAIN entries' \subseteq DOMAIN entries \cup {k}
            /\ \A x \in DOMAIN entries' :
                 IF x = k THEN entries'[x].run = o /\ entries'[x].expiresAt = now + TTL
                          ELSE entries'[x] = entries[x]
            /\ process' = process
      BY <1>1, StartFacts
    <2> QED
      BY <2>1 DEF EntryInv
  <1>2. ASSUME NEW o \in Runs, Succeed(o) PROVE EntryInv'
    BY <1>2 DEF Succeed, EntryInv, TypeOK, Runs, Run
  <1>3. ASSUME NEW o \in Runs, Fail(o) PROVE EntryInv'
    <2>1. /\ DOMAIN entries' = DOMAIN entries \ {run[o].key}
          /\ \A k \in DOMAIN entries' : entries'[k] = entries[k]
      BY <1>3 DEF Fail, Without
    <2>2. ASSUME NEW k \in DOMAIN entries'
          PROVE  entries[k].run \in Runs /\ entries[k].run # o
      BY <2>1 DEF EntryInv
    <2>3. \A x \in Runs : x # o => run'[x] = run[x]
      BY <1>3 DEF Fail, TypeOK
    <2>4. Runs' = Runs /\ process' = process
      BY <1>3 DEF Fail, TypeOK, Runs
    <2> QED
      BY <2>1, <2>2, <2>3, <2>4 DEF EntryInv
  <1>4. CASE Tick \/ UNCHANGED vars
    BY <1>4 DEF Tick, Elapse, vars, EntryInv, Runs
  <1>5. CASE Restart
    BY <1>5 DEF Restart, EntryInv
  <1> QED
    BY <1>1, <1>2, <1>3, <1>4, <1>5 DEF Next

LEMMA WindowStep ==
  ASSUME TypeOK, IInv, RunsEndInTime, [Next]_vars
  PROVE  WindowInv' /\ OncePerWindow'
  <1> USE DEF IInv
  <1>1. ASSUME NEW k \in Keys, Start(k) PROVE WindowInv' /\ OncePerWindow'
    <2>1. PICK o \in RunIds \ Runs :
            /\ Runs' = Runs \cup {o} /\ \A x \in Runs : run'[x] = run[x]
            /\ run'[o] = [key |-> k, started |-> now, process |-> process,
                          state |-> "running"]
            /\ \A x \in DOMAIN entries' :
                 IF x = k THEN entries'[x].run = o /\ entries'[x].expiresAt = now + TTL
                          ELSE entries'[x] = entries[x]
            /\ \A x \in DOMAIN entries :
                 x # k /\ entries[x].expiresAt > now => x \in DOMAIN entries'
            /\ TTL > 0 => k \in DOMAIN entries'
            /\ now' = now /\ process' = process
      BY <1>1, StartFacts
    <2>2. ASSUME NEW x \in Runs, run[x].key = k, run[x].process = process,
                 run[x].state # "failed", now < run[x].started + TTL
          PROVE  FALSE
      <3>1. k \in DOMAIN entries /\ entries[k].run = x
        BY <2>2 DEF WindowInv
      <3>2. entries[k].expiresAt = run[x].started + TTL
        BY <3>1 DEF EntryInv
      <3> QED
        BY <1>1, <2>2, <3>1, <3>2, TimesAssumption DEF Start, Live, TypeOK, Run
    <2>3. OncePerWindow'
      <3>1. ASSUME NEW x \in Runs, run[x].key = k, run[x].process = process,
                   run[x].state # "failed"
            PROVE  now >= run[x].started + TTL
        BY <2>2, <3>1, TimesAssumption DEF TypeOK, Run
      <3> QED
        BY <2>1, <3>1 DEF OncePerWindow
    <2>4. TTL > 0
      BY TimesAssumption DEF RunsEndInTime
    <2>5. ASSUME NEW x \in Runs,
                 run[x].process = process, run[x].state # "failed",
                 now < run[x].started + TTL
          PROVE  run[x].key \in DOMAIN entries' /\ entries'[run[x].key].run = x
      <3>1. run[x].key # k
        BY <2>2, <2>5
      <3>2. /\ run[x].key \in DOMAIN entries /\ entries[run[x].key].run = x
            /\ entries[run[x].key].expiresAt = run[x].started + TTL
        BY <2>5 DEF WindowInv, EntryInv
      <3>3. entries[run[x].key].expiresAt > now
        BY <2>5, <3>2, TimesAssumption DEF TypeOK, Run
      <3> QED
        BY <2>1, <3>1, <3>2, <3>3
    <2>6. \A x \in Runs : Running(x)' = Running(x)
      BY <2>1 DEF Running
    <2>7. WindowInv'
      BY <2>1, <2>4, <2>5, <2>6, TimesAssumption DEF WindowInv, Running, TypeOK
    <2> QED
      BY <2>3, <2>7
  <1>2. ASSUME NEW o \in Runs, Succeed(o) PROVE WindowInv' /\ OncePerWindow'
    <2>1. /\ run' = [run EXCEPT ![o].state = "done"]
          /\ UNCHANGED <<now, process, entries>>
          /\ run[o].state = "running"
      BY <1>2 DEF Succeed, Running
    <2>2. Runs' = Runs /\ \A x \in Runs :
            /\ run'[x].key = run[x].key /\ run'[x].started = run[x].started
            /\ run'[x].process = run[x].process
            /\ run'[x].state # "failed" <=> run[x].state # "failed"
            /\ run'[x].state = "running" => run[x].state = "running"
      BY <2>1 DEF Run, Runs, TypeOK
    <2>3. WindowInv'
      BY <2>1, <2>2 DEF WindowInv, Running
    <2>4. OncePerWindow'
      BY <2>2 DEF OncePerWindow
    <2> QED
      BY <2>3, <2>4
  <1>3. ASSUME NEW o \in Runs, Fail(o) PROVE WindowInv' /\ OncePerWindow'
    <2>1. /\ run' = [run EXCEPT ![o].state = "failed"]
          /\ entries' = Without(entries, {run[o].key})
          /\ UNCHANGED <<now, process>>
          /\ Running(o)
      BY <1>3 DEF Fail
    <2>2. Runs' = Runs /\ \A x \in Runs :
            /\ run'[x].key = run[x].key /\ run'[x].started = run[x].started
            /\ run'[x].process = run[x].process
            /\ x # o => run'[x].state = run[x].state
      BY <2>1 DEF Run, Runs, TypeOK
    <2>3. run'[o].state = "failed"
      BY <2>1 DEF Run, Runs, TypeOK
    <2>4. /\ DOMAIN entries' = DOMAIN entries \ {run[o].key}
          /\ \A k \in DOMAIN entries' : entries'[k] = entries[k]
      BY <2>1 DEF Without
    <2>5. run[o].key \in DOMAIN entries /\ entries[run[o].key].run = o
      BY <2>1, TimesAssumption DEF WindowInv, Running, RunsEndInTime, Run, TypeOK
    <2>6. WindowInv'
      <3>1. \A x \in Runs : x # o /\ run[x].key \in DOMAIN entries
                             /\ entries[run[x].key].run = x => run[x].key # run[o].key
        BY <2>5
      <3>2. \A x \in Runs : run'[x].started <= now' /\ run'[x].process <= process'
        BY <2>1, <2>2 DEF WindowInv
      <3>3. \A x \in Runs : Running(x)' => x # o /\ Running(x)
        BY <2>1, <2>2, <2>3 DEF Running
      <3>4. ASSUME NEW x \in Runs, x # o, run[x].process = process,
                   run[x].state # "failed", now < run[x].started + TTL
            PROVE  run[x].key \in DOMAIN entries' /\ entries'[run[x].key].run = x
        BY <2>4, <3>1, <3>4 DEF WindowInv
      <3>5. \A x \in Runs : Running(x)' => now' <= run'[x].started + MaxRun
        BY <2>1, <2>2, <3>3 DEF WindowInv
      <3>6. \A x \in Runs :
              /\ run'[x].process = process' /\ run'[x].state # "failed"
              /\ now' < run'[x].started + TTL
              => x # o /\ run[x].process = process /\ run[x].state # "failed"
                       /\ now < run[x].started + TTL
        BY <2>1, <2>2, <2>3
      <3> QED
        BY <2>2, <3>2, <3>4, <3>5, <3>6 DEF WindowInv
    <2>7. OncePerWindow'
      BY <2>2, <2>3 DEF OncePerWindow
    <2> QED
      BY <2>6, <2>7
  <1>4. CASE Tick
    <2>1. OncePerWindow'
      BY <1>4 DEF Tick, Elapse, OncePerWindow, Runs
    <2>2. WindowInv'
      BY <1>4, TimesAssumption DEF Tick, Elapse, WindowInv, Running, Run, Runs, TypeOK
    <2> QED
      BY <2>1, <2>2
  <1>5. CASE Restart
    <2>1. OncePerWindow'
      BY <1>5 DEF Restart, OncePerWindow, Runs
    <2>2. WindowInv'
      BY <1>5, MaxRestartsAssumption DEF Restart, WindowInv, Running, Run, Runs, TypeOK
    <2> QED
      BY <2>1, <2>2
  <1>6. CASE UNCHANGED vars
    BY <1>6 DEF vars, WindowInv, Running, OncePerWindow, Runs
  <1> QED
    BY <1>1, <1>2, <1>3, <1>4, <1>5, <1>6 DEF Next

(* "Does not cache failures": holds whatever the operations last.          *)
THEOREM DoesNotCacheFailures == Spec => []FailuresForgotten
  <1>1. Init => EntryInv
    BY DEF Init, EntryInv
  <1>2. TypeOK /\ EntryInv /\ [Next]_vars => EntryInv'
    BY EntryStep
  <1>3. EntryInv => FailuresForgotten
    BY DEF EntryInv, FailuresForgotten
  <1> QED
    BY <1>1, <1>2, <1>3, TypeCorrect, PTL DEF Spec

LEMMA InvCorrect ==
  ASSUME RunsEndInTime
  PROVE  Spec => []IInv
  <1>1. Init => IInv
    BY DEF Init, IInv, EntryInv, WindowInv, OncePerWindow, Runs
  <1>2. TypeOK /\ IInv /\ [Next]_vars => IInv'
    BY EntryStep, WindowStep DEF IInv
  <1> QED
    BY <1>1, <1>2, TypeCorrect, PTL DEF Spec

(* "Shares one in-flight result for the same key": if operations end       *)
(* before their entries expire, two operations of one key that did not     *)
(* fail start at least TTL apart in one process.                           *)
THEOREM SharesInFlight ==
  ASSUME RunsEndInTime
  PROVE  Spec => []OncePerWindow
  <1>1. IInv => OncePerWindow
    BY DEF IInv
  <1> QED
    BY <1>1, InvCorrect, PTL

(* A live entry leaves the map only by a failure or a restart.             *)
THEOREM LiveEntriesStay ==
  ASSUME RunsEndInTime
  PROVE  Spec => EntriesKept
  <1>1. TypeOK /\ IInv /\ [Next]_vars => [OnlyFailureForgets]_vars
    <2> SUFFICES ASSUME TypeOK, IInv, Next, NEW k \in DOMAIN entries,
                        Live(k), k \notin DOMAIN entries', process' = process
                 PROVE  run'[entries[k].run].state = "failed"
      BY DEF OnlyFailureForgets
    <2>1. ASSUME NEW x \in Keys, Start(x) PROVE FALSE
      <3>1. x # k
        BY <2>1 DEF Start
      <3> QED
        BY <2>1, <3>1, StartFacts DEF Live
    <2>2. ASSUME NEW o \in Runs, Fail(o) PROVE run'[entries[k].run].state = "failed"
      <3>1. k = run[o].key
        BY <2>2 DEF Fail, Without
      <3>2. entries[run[o].key].run = o
        BY <2>2, TimesAssumption
           DEF Fail, IInv, WindowInv, Running, RunsEndInTime, Run, Runs, TypeOK
      <3> QED
        BY <2>2, <3>1, <3>2 DEF Fail, Run, Runs, TypeOK
    <2>3. ~Restart
      BY DEF Restart, TypeOK
    <2>4. entries' = entries => FALSE
      OBVIOUS
    <2> QED
      BY <2>1, <2>2, <2>3, <2>4 DEF Next, Succeed, Tick, Elapse
  <1> QED
    BY <1>1, InvCorrect, TypeCorrect, PTL DEF Spec, EntriesKept
-----------------------------------------------------------------------------
(***************************************************************************)
(* Of RateLimit, for any keys, limits and windows, and any interval        *)
(* between sweeps.                                                         *)
(***************************************************************************)
LEMMA RateNumbers ==
  /\ HttpKeys \cap SocketKeys = {}
  /\ Limit \in [RateKeys -> Nat \ {0}]
  /\ Window \in Nat \ {0} /\ SweepEvery \in Nat \ {0}
  /\ MaxTime \in Nat /\ MaxRefused \in Nat
BY KeysAssumption, LimitAssumption, NumbersAssumption, MaxTimeAssumption

LEMMA CountedType ==
  ASSUME RateTypeOK, NEW k \in RateKeys
  PROVE  /\ Counted(k) \in Bucket
         /\ Counted(k).resetAt > now
         /\ Current(k) => /\ Counted(k).count = bucket[k].count + 1
                          /\ Counted(k).resetAt = bucket[k].resetAt
         /\ ~Current(k) => /\ Counted(k).count = 1
                           /\ Counted(k).resetAt = now + Window
BY RateNumbers DEF RateTypeOK, Counted, Current, Bucket

(* What a request does to the buckets, with a sweep or without: its own    *)
(* has counted it, the others are as they were or have expired.            *)
Stored(k) == bucket' \in {Filled(k), Swept(Filled(k))} /\ UNCHANGED now

LEMMA StoredType ==
  ASSUME RateTypeOK, NEW k \in RateKeys, Stored(k)
  PROVE  DOMAIN bucket' \subseteq RateKeys /\ bucket' \in [DOMAIN bucket' -> Bucket]
<1>1. /\ DOMAIN Filled(k) \subseteq RateKeys
      /\ Filled(k) \in [DOMAIN Filled(k) -> Bucket]
  BY CountedType DEF RateTypeOK, Filled
<1> QED BY <1>1 DEF Stored, Swept

LEMMA StoredOwn ==
  ASSUME RateTypeOK, NEW k \in RateKeys, Stored(k)
  PROVE  Current(k)' /\ bucket'[k] = Counted(k)
BY CountedType DEF Stored, Swept, Filled, Current, Bucket

LEMMA StoredOthers ==
  ASSUME RateTypeOK, NEW k \in RateKeys, Stored(k), NEW x \in RateKeys \ {k}
  PROVE  /\ Current(x)' <=> Current(x)
         /\ x \in DOMAIN bucket' => x \in DOMAIN bucket /\ bucket'[x] = bucket[x]
BY DEF RateTypeOK, Stored, Swept, Filled, Current, Bucket

LEMMA LetThroughType ==
  ASSUME RateTypeOK, NEW k \in RateKeys, LetThrough(k) \/ UNCHANGED passed
  PROVE  passed' \in [RateKeys -> Seq(0..MaxTime)]
<1>1. Append(passed[k], now) \in Seq(0..MaxTime)
  BY DEF RateTypeOK
<1> QED BY <1>1 DEF RateTypeOK, LetThrough

LEMMA RateTypeStep == RateTypeOK /\ [RateNext]_rateVars => RateTypeOK'
<1> SUFFICES ASSUME RateTypeOK, [RateNext]_rateVars PROVE RateTypeOK'
  OBVIOUS
<1>1. ASSUME NEW k \in RateKeys,
             Pass(k) \/ Refuse(k) \/ SocketEvent(k)
      PROVE  RateTypeOK'
  <2>1. Stored(k) /\ (LetThrough(k) \/ UNCHANGED passed)
    BY <1>1 DEF Pass, Refuse, SocketEvent, Stored
  <2>2. sinceSweep' \in 0..(SweepEvery - 1)
    BY <1>1, RateNumbers
    DEF Pass, Refuse, SocketEvent, RateTypeOK
  <2> QED BY <2>1, <2>2, StoredType, LetThroughType DEF RateTypeOK, Stored
<1>2. CASE RateTick
  BY <1>2, RateNumbers DEF RateTick, Elapse, RateTypeOK
<1>3. CASE UNCHANGED rateVars
  BY <1>3 DEF rateVars, RateTypeOK
<1> QED BY <1>1, <1>2, <1>3 DEF RateNext

(* The clock, the buckets, the guard's count and the history range over    *)
(* the values their names say.                                             *)
THEOREM RateTypeCorrect == RateSpec => []RateTypeOK
<1>1. RateInit => RateTypeOK
  BY RateNumbers DEF RateInit, RateTypeOK
<1> QED BY <1>1, RateTypeStep, PTL DEF RateSpec
-----------------------------------------------------------------------------
(* A current bucket stands for a window that began when it was made.       *)
Began(k) == bucket[k].resetAt - Window

(* The requests of the window that were let through, which are the last.   *)
Counts(k) == IF bucket[k].count < Limit[k] THEN bucket[k].count ELSE Limit[k]

(* s: when the requests of a key were let through.  Those of the current   *)
(* window are the last inside many; those before it belong to windows that *)
(* do not meet it, so that all but limit many of them were let through     *)
(* more than a whole window before start.                                  *)
InWindow(s, start, inside, limit) ==
  /\ inside <= Len(s)
  /\ \A i \in DOMAIN s : i > Len(s) - inside => start <= s[i]
  /\ \A i \in DOMAIN s : i <= Len(s) - inside => s[i] < start
  /\ \A i \in DOMAIN s : i + limit <= Len(s) - inside => s[i] + Window < start

(* Between windows: the same of a window that would begin at the moment t. *)
Between(s, t, limit) ==
  /\ \A i \in DOMAIN s : s[i] < t
  /\ \A i \in DOMAIN s : i + limit <= Len(s) => s[i] + Window < t

KeyInv(k) ==
  /\ \A i \in DOMAIN passed[k] : passed[k][i] <= now
  /\ Current(k) => /\ bucket[k].resetAt <= now + Window
                   /\ InWindow(passed[k], Began(k), Counts(k), Limit[k])
  /\ ~Current(k) => Between(passed[k], now, Limit[k])

WindowsInv == \A k \in RateKeys : KeyInv(k)

RateInv == RateTypeOK /\ WindowsInv /\ TwiceTheLimit

(* One more request in the window.                                         *)
LEMMA OneMoreInWindow ==
  ASSUME NEW s \in Seq(Nat), NEW start \in Int, NEW limit \in Nat \ {0},
         NEW inside \in Nat, NEW t \in Nat, start <= t,
         InWindow(s, start, inside, limit)
  PROVE  InWindow(Append(s, t), start, inside + 1, limit)
<1> DEFINE a == Append(s, t)
<1>1. /\ Len(a) = Len(s) + 1 /\ DOMAIN a = 1..Len(s) + 1 /\ DOMAIN s = 1..Len(s)
      /\ a[Len(s) + 1] = t /\ Len(s) \in Nat
      /\ \A i \in 1..Len(s) : a[i] = s[i]
  OBVIOUS
<1> QED BY <1>1 DEF InWindow

(* The first request of a new window.                                      *)
LEMMA FirstInWindow ==
  ASSUME NEW s \in Seq(Nat), NEW limit \in Nat \ {0}, NEW t \in Nat,
         Between(s, t, limit)
  PROVE  InWindow(Append(s, t), t, 1, limit)
<1> DEFINE a == Append(s, t)
<1>1. /\ Len(a) = Len(s) + 1 /\ DOMAIN a = 1..Len(s) + 1 /\ DOMAIN s = 1..Len(s)
      /\ a[Len(s) + 1] = t /\ Len(s) \in Nat
      /\ \A i \in 1..Len(s) : a[i] = s[i]
  OBVIOUS
<1> QED BY <1>1 DEF InWindow, Between

(* A window that is over.                                                  *)
LEMMA WindowEnds ==
  ASSUME Window \in Nat, NEW s \in Seq(Nat),
         NEW start \in Int, NEW limit \in Nat \ {0},
         NEW inside \in 0..limit, NEW t \in Nat, start + Window <= t,
         \A i \in DOMAIN s : s[i] < t,
         InWindow(s, start, inside, limit)
  PROVE  Between(s, t, limit)
<1>1. Len(s) \in Nat /\ DOMAIN s = 1..Len(s) /\ \A i \in DOMAIN s : s[i] \in Nat
  OBVIOUS
<1>2. ASSUME NEW i \in DOMAIN s, i + limit <= Len(s) PROVE s[i] + Window < t
  <2>1. i <= Len(s) - inside
    BY <1>1, <1>2
  <2>2. s[i] < start
    BY <2>1 DEF InWindow
  <2> QED BY <1>1, <2>2
<1> QED BY <1>2 DEF Between

(* A request that is let through is the last of 2 * limit + 1 at most a    *)
(* window after the first.                                                 *)
BurstOf(s, limit) ==
  \A i \in DOMAIN s : i + 2 * limit \in DOMAIN s => s[i + 2 * limit] > s[i] + Window

LEMMA BurstInWindow ==
  ASSUME Window \in Nat, NEW s \in Seq(Nat),
         NEW start \in Int, NEW limit \in Nat \ {0},
         NEW inside \in 1..limit, BurstOf(s, limit),
         NEW t \in Nat, start <= t, InWindow(Append(s, t), start, inside, limit)
  PROVE  BurstOf(Append(s, t), limit)
<1> DEFINE a == Append(s, t)
<1>1. /\ Len(a) = Len(s) + 1 /\ DOMAIN a = 1..Len(s) + 1 /\ DOMAIN s = 1..Len(s)
      /\ a[Len(s) + 1] = t /\ Len(s) \in Nat
      /\ \A i \in 1..Len(s) : a[i] = s[i] /\ s[i] \in Nat
  OBVIOUS
<1>2. ASSUME NEW i \in DOMAIN a, i + 2 * limit \in DOMAIN a
      PROVE  a[i + 2 * limit] > a[i] + Window
  <2>1. CASE i + 2 * limit = Len(a)
    <3>1. i + limit <= Len(a) - inside /\ i \in 1..Len(s)
      BY <1>1, <1>2, <2>1
    <3>2. a[i] + Window < start
      BY <3>1, <1>2 DEF InWindow
    <3>3. a[i + 2 * limit] = t
      BY <1>1, <2>1
    <3>4. a[i] \in Nat /\ Window \in Nat
      BY <1>1, <3>1
    <3> HIDE DEF a
    <3> QED BY <3>2, <3>3, <3>4
  <2>2. CASE i + 2 * limit # Len(a)
    <3>1. i \in DOMAIN s /\ i + 2 * limit \in DOMAIN s
      BY <1>1, <1>2, <2>2
    <3> QED BY <1>1, <3>1 DEF BurstOf
  <2> QED BY <2>1, <2>2
<1> QED BY <1>2 DEF BurstOf
LEMMA LimitType ==
  \A k \in RateKeys : Limit[k] \in Nat \ {0}
BY RateNumbers

LEMMA PassedType ==
  ASSUME RateTypeOK, NEW k \in RateKeys
  PROVE  passed[k] \in Seq(Nat) /\ \A i \in DOMAIN passed[k] : passed[k][i] \in Nat
<1>1. passed[k] \in Seq(0..MaxTime)
  BY DEF RateTypeOK
<1> QED BY <1>1, RateNumbers DEF RateTypeOK

LEMMA InsideType ==
  ASSUME RateTypeOK, NEW k \in RateKeys, Current(k)
  PROVE  Counts(k) \in 1..Limit[k] /\ Began(k) \in Int
BY LimitType, RateNumbers
DEF RateTypeOK, Current, Bucket, Counts, Began

(* A key that a step leaves alone.                                         *)
LEMMA KeyStays ==
  ASSUME NEW x \in RateKeys, KeyInv(x), now' = now, passed'[x] = passed[x],
         Current(x)' <=> Current(x), Current(x) => bucket'[x] = bucket[x]
  PROVE  KeyInv(x)'
BY DEF KeyInv, Began, Counts

(* A request is let through.                                               *)
LEMMA PassedKey ==
  ASSUME RateInv, NEW k \in RateKeys, Stored(k), LetThrough(k),
         Counted(k).count <= Limit[k]
  PROVE  KeyInv(k)' /\ BurstOf(passed'[k], Limit[k])
<1> DEFINE s == passed[k]
           t == now
<1>1. RateTypeOK /\ KeyInv(k) /\ BurstOf(s, Limit[k])
  BY DEF RateInv, WindowsInv, TwiceTheLimit, BurstOf
<1>2. s \in Seq(Nat) /\ t \in Nat /\ Limit[k] \in Nat \ {0} /\ Window \in Nat \ {0}
  BY <1>1, PassedType, LimitType, RateNumbers DEF RateTypeOK
<1>3. passed'[k] = Append(s, t)
  BY <1>1 DEF LetThrough, RateTypeOK
<1>4. /\ Current(k)' /\ bucket'[k] = Counted(k) /\ now' = t
      /\ Counted(k).count \in Nat \ {0} /\ Counted(k).resetAt \in Nat
  BY <1>1, StoredOwn, CountedType DEF Stored, Bucket
<1>5. Counts(k)' = Counted(k).count /\ Began(k)' = Counted(k).resetAt - Window
  BY <1>2, <1>4 DEF Counts, Began
<1>6. \A i \in DOMAIN passed'[k] : passed'[k][i] <= now'
  <2>1. \A i \in DOMAIN s : s[i] <= t
    BY <1>1 DEF KeyInv
  <2> HIDE DEF s, t
  <2> QED BY <1>2, <1>3, <1>4, <2>1
<1>7. /\ InWindow(passed'[k], Began(k)', Counts(k)', Limit[k])
      /\ Began(k)' \in Int /\ Began(k)' <= t /\ Counts(k)' \in 1..Limit[k]
      /\ Counted(k).resetAt <= t + Window
  <2>1. CASE Current(k)
    <3>1. /\ Counted(k).count = bucket[k].count + 1
          /\ Counted(k).resetAt = bucket[k].resetAt
          /\ bucket[k].count \in Nat /\ bucket[k].resetAt \in Nat
      BY <1>1, <2>1, CountedType DEF RateTypeOK, Current, Bucket
    <3>2. Counts(k) = bucket[k].count
      BY <1>2, <3>1 DEF Counts
    <3>3. InWindow(s, Began(k), Counts(k), Limit[k]) /\ bucket[k].resetAt <= t + Window
      BY <1>1, <2>1 DEF KeyInv
    <3>4. Began(k)' = Began(k) /\ Began(k) \in Int /\ Began(k) <= t
      BY <1>2, <1>5, <3>1, <3>3 DEF Began
    <3>5. InWindow(Append(s, t), Began(k), Counts(k) + 1, Limit[k])
      BY <1>2, <3>1, <3>2, <3>3, <3>4, OneMoreInWindow
    <3> QED BY <1>2, <1>3, <1>5, <3>1, <3>2, <3>3, <3>4, <3>5
  <2>2. CASE ~Current(k)
    <3>1. Counted(k).count = 1 /\ Counted(k).resetAt = t + Window
      BY <1>1, <2>2, CountedType
    <3>2. InWindow(Append(s, t), t, 1, Limit[k])
      BY <1>1, <1>2, <2>2, FirstInWindow DEF KeyInv
    <3> QED BY <1>2, <1>3, <1>5, <3>1, <3>2
  <2> QED BY <2>1, <2>2
<1>8. BurstOf(Append(s, t), Limit[k])
  BY <1>1, <1>2, <1>3, <1>7, BurstInWindow
<1> QED BY <1>3, <1>4, <1>6, <1>7, <1>8 DEF KeyInv

(* A request is refused: the window has had its limit.                     *)
LEMMA RefusedKey ==
  ASSUME RateInv, NEW k \in RateKeys, Stored(k), passed' = passed,
         Counted(k).count > Limit[k]
  PROVE  KeyInv(k)'
<1>1. RateTypeOK /\ KeyInv(k) /\ Limit[k] \in Nat \ {0}
  BY LimitType DEF RateInv, WindowsInv, RateTypeOK
<1>2. Current(k)' /\ bucket'[k] = Counted(k) /\ now' = now
  BY <1>1, StoredOwn DEF Stored
<1>3. Current(k)
  BY <1>1, CountedType
<1>4. /\ bucket[k].count \in Nat /\ Counted(k).count = bucket[k].count + 1
      /\ Counted(k).resetAt = bucket[k].resetAt
  BY <1>1, <1>3, CountedType DEF RateTypeOK, Current, Bucket
<1>5. Counts(k)' = Counts(k) /\ Began(k)' = Began(k)
  BY <1>1, <1>2, <1>4 DEF Counts, Began
<1> QED BY <1>1, <1>2, <1>3, <1>4, <1>5 DEF KeyInv

LEMMA TickKey ==
  ASSUME RateInv, RateTick, NEW k \in RateKeys
  PROVE  KeyInv(k)'
<1>1. /\ now' = now + 1 /\ now \in Nat /\ bucket' = bucket /\ passed' = passed
      /\ RateTypeOK /\ KeyInv(k)
  BY DEF RateTick, Elapse, RateInv, WindowsInv, RateTypeOK
<1>2. passed[k] \in Seq(Nat) /\ Limit[k] \in Nat \ {0} /\ Window \in Nat \ {0}
      /\ \A i \in DOMAIN passed[k] : passed[k][i] \in Nat
  BY <1>1, PassedType, LimitType, RateNumbers DEF RateTypeOK
<1>3. \A i \in DOMAIN passed[k] : passed[k][i] < now'
  BY <1>1, <1>2 DEF KeyInv
<1>4. CASE Current(k)'
  <2>1. Current(k) /\ bucket[k].resetAt \in Nat
    BY <1>1, <1>4 DEF Current, RateTypeOK, Bucket
  <2>2. Began(k)' = Began(k) /\ Counts(k)' = Counts(k)
    BY <1>1 DEF Began, Counts
  <2> QED BY <1>1, <1>2, <1>3, <1>4, <2>1, <2>2 DEF KeyInv
<1>5. CASE Current(k) /\ ~Current(k)'
  <2>1. Counts(k) \in 1..Limit[k] /\ Began(k) \in Int /\ Began(k) + Window <= now'
    BY <1>1, <1>2, <1>5, InsideType
    DEF Current, Began, RateTypeOK, Bucket
  <2>2. Between(passed[k], now', Limit[k])
    BY <1>1, <1>2, <1>3, <1>5, <2>1, WindowEnds DEF KeyInv
  <2> QED BY <1>1, <1>2, <1>3, <1>5, <2>2 DEF KeyInv
<1>6. CASE ~Current(k) /\ ~Current(k)'
  BY <1>1, <1>2, <1>3, <1>6 DEF KeyInv, Between
<1> QED BY <1>4, <1>5, <1>6

LEMMA RateStep == RateInv /\ [RateNext]_rateVars => RateInv'
<1> SUFFICES ASSUME RateInv, [RateNext]_rateVars
             PROVE  WindowsInv' /\ TwiceTheLimit'
  BY RateTypeStep DEF RateInv
<1>1. RateTypeOK /\ WindowsInv /\ TwiceTheLimit
  BY DEF RateInv
<1>2. ASSUME NEW k \in RateKeys,
             Pass(k) \/ Refuse(k) \/ SocketEvent(k)
      PROVE  WindowsInv' /\ TwiceTheLimit'
  <2>1. /\ Stored(k)
        /\ \/ LetThrough(k) /\ Counted(k).count <= Limit[k]
           \/ passed' = passed /\ Counted(k).count > Limit[k]
    BY <1>1, <1>2, CountedType, LimitType
    DEF Pass, Refuse, SocketEvent, Stored, Bucket, RateTypeOK
  <2>2. KeyInv(k)' /\ BurstOf(passed'[k], Limit[k])
    <3>1. BurstOf(passed[k], Limit[k])
      BY <1>1 DEF TwiceTheLimit, BurstOf
    <3> QED BY <2>1, <3>1, PassedKey, RefusedKey
  <2>3. ASSUME NEW x \in RateKeys \ {k} PROVE KeyInv(x)' /\ passed'[x] = passed[x]
    <3>1. now' = now /\ passed'[x] = passed[x]
      BY <1>1, <2>1 DEF Stored, LetThrough, RateTypeOK
    <3>2. Current(x)' <=> Current(x)
      BY <1>1, <2>1, StoredOthers
    <3>3. Current(x) => bucket'[x] = bucket[x]
      BY <1>1, <2>1, <3>2, StoredOthers DEF Current
    <3> QED BY <1>1, <3>1, <3>2, <3>3, KeyStays DEF WindowsInv
  <2>4. WindowsInv'
    BY <2>2, <2>3 DEF WindowsInv
  <2>5. \A x \in RateKeys : BurstOf(passed'[x], Limit[x])
    BY <1>1, <2>2, <2>3 DEF TwiceTheLimit, BurstOf
  <2> QED BY <2>4, <2>5 DEF TwiceTheLimit, BurstOf
<1>3. CASE RateTick
  BY <1>1, <1>3, TickKey DEF WindowsInv, TwiceTheLimit, RateTick, Elapse
<1>4. CASE UNCHANGED rateVars
  BY <1>1, <1>4
  DEF rateVars, WindowsInv, KeyInv, Current, Began, Counts,
      TwiceTheLimit
<1> QED BY <1>2, <1>3, <1>4 DEF RateNext

(* Every window's bucket counts the requests let through in it, and those  *)
(* before it lie before its start, whatever the sweep has dropped.         *)
THEOREM Windows == RateSpec => []RateInv
<1>1. RateInit => RateInv
  <2> SUFFICES ASSUME RateInit PROVE RateInv
    OBVIOUS
  <2>1. RateTypeOK
    BY RateNumbers DEF RateInit, RateTypeOK
  <2>2. WindowsInv /\ TwiceTheLimit
    BY DEF RateInit, WindowsInv, KeyInv, Current, Between, TwiceTheLimit
  <2> QED BY <2>1, <2>2 DEF RateInv
<1> QED BY <1>1, RateStep, PTL DEF RateSpec

(* At most twice the limit goes through in a window's time, and who is     *)
(* refused has had the limit within the last window.                       *)
THEOREM LimitsAreKept == RateSpec => []LimitsKept
<1>1. RateInv => RefusedForAReason
  <2> SUFFICES ASSUME RateInv, NEW k \in RateKeys, Counted(k).count > Limit[k]
               PROVE  /\ Len(passed[k]) >= Limit[k]
                      /\ passed[k][Len(passed[k]) - Limit[k] + 1] > now - Window
    BY DEF RefusedForAReason
  <2>1. RateTypeOK /\ KeyInv(k) /\ Limit[k] \in Nat \ {0} /\ Window \in Nat \ {0}
    BY LimitType, RateNumbers DEF RateInv, WindowsInv
  <2>2. Current(k)
    BY <2>1, CountedType
  <2>3. bucket[k].count \in Nat /\ Counted(k).count = bucket[k].count + 1
        /\ bucket[k].resetAt \in Nat /\ bucket[k].resetAt > now /\ now \in Nat
    BY <2>1, <2>2, CountedType DEF RateTypeOK, Current, Bucket
  <2>4. Counts(k) = Limit[k]
    BY <2>1, <2>3 DEF Counts
  <2>5. passed[k] \in Seq(Nat) /\ \A i \in DOMAIN passed[k] : passed[k][i] \in Nat
    BY <2>1, PassedType
  <2>6. InWindow(passed[k], Began(k), Limit[k], Limit[k])
    BY <2>1, <2>2, <2>4 DEF KeyInv
  <2>7. Limit[k] <= Len(passed[k]) /\ Len(passed[k]) \in Nat
        /\ DOMAIN passed[k] = 1..Len(passed[k])
    BY <2>5, <2>6 DEF InWindow
  <2>8. Len(passed[k]) - Limit[k] + 1 \in DOMAIN passed[k]
    BY <2>1, <2>7
  <2>9. Began(k) <= passed[k][Len(passed[k]) - Limit[k] + 1]
    BY <2>1, <2>6, <2>7, <2>8 DEF InWindow
  <2>10. now - Window < Began(k) /\ Began(k) \in Int
    BY <2>1, <2>3 DEF Began
  <2>11. passed[k][Len(passed[k]) - Limit[k] + 1] \in Nat
    BY <2>5, <2>8
  <2> QED BY <2>1, <2>3, <2>7, <2>9, <2>10, <2>11
<1>2. RateInv => LimitsKept
  BY <1>1 DEF RateInv, LimitsKept
<1> QED BY <1>2, Windows, PTL
-----------------------------------------------------------------------------
(* A bucket of the guard that is kept has seen no more requests let        *)
(* through since it expired than the guard has since it last swept.        *)
SweepOf(k) ==
  /\ IsFiniteSet(PassedSince(bucket[k].resetAt))
  /\ Cardinality(PassedSince(bucket[k].resetAt)) <= sinceSweep

SweepInv == \A k \in DOMAIN bucket \cap HttpKeys : SweepOf(k)

(* A request that is let through adds itself at most.                      *)
LEMMA OneMorePassed ==
  ASSUME RateTypeOK, NEW k \in RateKeys, LetThrough(k),
         NEW at, IsFiniteSet(PassedSince(at))
  PROVE  /\ IsFiniteSet(PassedSince(at)')
         /\ Cardinality(PassedSince(at)') <= Cardinality(PassedSince(at)) + 1
         /\ k \notin HttpKeys => PassedSince(at)' = PassedSince(at)
<1> DEFINE x == <<k, Len(passed[k]) + 1>>
           P == PassedSince(at)
<1>1. /\ passed'[k] = Append(passed[k], now) /\ passed[k] \in Seq(0..MaxTime)
      /\ DOMAIN passed' = DOMAIN passed
      /\ \A y \in HttpKeys \ {k} : passed'[y] = passed[y]
  BY DEF LetThrough, RateTypeOK, RateKeys
<1>2. /\ DOMAIN passed'[k] = DOMAIN passed[k] \cup {Len(passed[k]) + 1}
      /\ \A i \in DOMAIN passed[k] : passed'[k][i] = passed[k][i]
  BY <1>1
<1>3. P' \subseteq P \cup {x}
  BY <1>1, <1>2 DEF PassedSince
<1>4. IsFiniteSet(P \cup {x}) /\ Cardinality(P \cup {x}) <= Cardinality(P) + 1
      /\ Cardinality(P) \in Nat
  BY FS_AddElement, FS_CardinalityType
<1>5. IsFiniteSet(P') /\ Cardinality(P') <= Cardinality(P \cup {x})
  BY <1>3, <1>4, FS_Subset
<1>6. Cardinality(P') \in Nat /\ Cardinality(P \cup {x}) \in Nat
  BY <1>4, <1>5, FS_CardinalityType
<1>7. k \notin HttpKeys => P' = P
  BY <1>1 DEF PassedSince
<1> QED BY <1>4, <1>5, <1>6, <1>7

(* A current bucket has not expired, and an expired one is not touched but *)
(* by a sweep, which drops it.                                             *)
LEMMA SweepStep == RateInv /\ SweepInv /\ [RateNext]_rateVars => SweepInv'
<1> SUFFICES ASSUME RateInv, SweepInv, [RateNext]_rateVars,
                    NEW x \in DOMAIN bucket' \cap HttpKeys
             PROVE  SweepOf(x)'
  BY DEF SweepInv
<1>1. RateTypeOK /\ RateTypeOK' /\ WindowsInv' /\ x \in RateKeys
  BY RateTypeStep, RateStep DEF RateInv, RateKeys
<1>2. /\ now' \in Nat /\ bucket'[x].resetAt \in Nat
      /\ sinceSweep \in Nat /\ sinceSweep' \in Nat
  BY <1>1, RateNumbers DEF RateTypeOK, Bucket
<1>3. CASE Current(x)'
  <2>1. \A k \in HttpKeys : \A i \in DOMAIN passed'[k] :
          passed'[k][i] <= now' /\ passed'[k][i] \in Nat
    <3> SUFFICES ASSUME NEW k \in HttpKeys
                 PROVE  \A i \in DOMAIN passed'[k] :
                          passed'[k][i] <= now' /\ passed'[k][i] \in Nat
      OBVIOUS
    <3>1. k \in RateKeys
      BY DEF RateKeys
    <3>2. passed'[k] \in Seq(Nat)
      <4>1. passed'[k] \in Seq(0..MaxTime)
        BY <1>1, <3>1 DEF RateTypeOK
      <4> QED BY <1>1, <4>1, RateNumbers DEF RateTypeOK
    <3>3. \A i \in DOMAIN passed'[k] : passed'[k][i] \in Nat
      BY <3>2
    <3> QED BY <1>1, <3>1, <3>3 DEF WindowsInv, KeyInv
  <2>2. bucket'[x].resetAt > now'
    BY <1>3 DEF Current
  <2>3. PassedSince(bucket[x].resetAt)' = {}
    BY <1>2, <2>1, <2>2, RateNumbers DEF PassedSince
  <2> QED BY <1>2, <2>3, FS_EmptySet DEF SweepOf
<1>4. ASSUME ~Current(x)', x \in DOMAIN bucket, bucket'[x] = bucket[x],
             NEW k \in RateKeys, sinceSweep' >= sinceSweep,
             \/ passed' = passed
             \/ LetThrough(k) /\ (k \in HttpKeys => sinceSweep' = sinceSweep + 1)
      PROVE  SweepOf(x)'
  <2>1. PICK at : at = bucket[x].resetAt
    OBVIOUS
  <2>2. IsFiniteSet(PassedSince(at)) /\ Cardinality(PassedSince(at)) <= sinceSweep
    BY <1>4, <2>1 DEF SweepInv, SweepOf
  <2>3. Cardinality(PassedSince(at)) \in Nat
    BY <2>2, FS_CardinalityType
  <2>4. /\ IsFiniteSet(PassedSince(at)')
        /\ Cardinality(PassedSince(at)') <= sinceSweep'
    <3>1. CASE passed' = passed
      <4>1. PassedSince(at)' = PassedSince(at)
        BY <3>1 DEF PassedSince
      <4> QED BY <1>2, <1>4, <2>2, <2>3, <4>1
    <3>2. CASE LetThrough(k) /\ (k \in HttpKeys => sinceSweep' = sinceSweep + 1)
      <4>1. /\ IsFiniteSet(PassedSince(at)')
            /\ Cardinality(PassedSince(at)') <= Cardinality(PassedSince(at)) + 1
            /\ k \notin HttpKeys => PassedSince(at)' = PassedSince(at)
        BY <1>1, <2>2, <3>2, OneMorePassed
      <4>2. Cardinality(PassedSince(at)') \in Nat
        BY <4>1, FS_CardinalityType
      <4> QED BY <1>2, <1>4, <2>2, <2>3, <3>2, <4>1, <4>2
    <3> QED BY <1>4, <3>1, <3>2
  <2>5. PassedSince(at)' = PassedSince(bucket[x].resetAt)'
    BY <1>4, <2>1 DEF PassedSince
  <2> QED BY <2>4, <2>5 DEF SweepOf
<1>5. ASSUME ~Current(x)', NEW k \in RateKeys,
             Pass(k) \/ Refuse(k) \/ SocketEvent(k)
      PROVE  SweepOf(x)'
  <2>1. Stored(k)
    BY <1>5 DEF Pass, Refuse, SocketEvent, Stored
  <2>2. x # k
    BY <1>1, <1>5, <2>1, StoredOwn
  <2>3. x \in DOMAIN bucket /\ bucket'[x] = bucket[x] /\ now' = now
    BY <1>1, <2>1, <2>2, StoredOthers DEF Stored
  <2>4. bucket' # Swept(Filled(k))
    BY <1>5, <2>2, <2>3, <1>2 DEF Swept, Filled, Current
  <2>5. /\ sinceSweep' >= sinceSweep
        /\ \/ passed' = passed
           \/ LetThrough(k) /\ (k \in HttpKeys => sinceSweep' = sinceSweep + 1)
    BY <1>1, <1>2, <1>5, <2>4, RateNumbers
    DEF Pass, Refuse, SocketEvent, RateTypeOK
  <2> QED BY <1>4, <1>5, <2>3, <2>5
<1>6. CASE ~Current(x)' /\ (RateTick \/ UNCHANGED rateVars)
  BY <1>1, <1>2, <1>4, <1>6 DEF RateTick, Elapse, rateVars
<1> QED BY <1>3, <1>5, <1>6 DEF RateNext

(* A bucket of the guard that has expired is gone before SweepEvery more   *)
(* requests are let through.                                               *)
THEOREM ExpiredBucketsGo == RateSpec => []ExpiredGo
<1>1. RateInit => SweepInv
  BY DEF RateInit, SweepInv
<1>2. RateInv /\ SweepInv => ExpiredGo
  <2> SUFFICES ASSUME RateInv, SweepInv, NEW k \in DOMAIN bucket \cap HttpKeys
               PROVE  Cardinality(PassedSince(bucket[k].resetAt)) < SweepEvery
    BY DEF ExpiredGo, Cardinality
  <2>1. Cardinality(PassedSince(bucket[k].resetAt)) \in Nat
        /\ Cardinality(PassedSince(bucket[k].resetAt)) <= sinceSweep
    BY FS_CardinalityType DEF SweepInv, SweepOf
  <2> QED BY <2>1, RateNumbers DEF RateInv, RateTypeOK
<1> QED BY <1>1, <1>2, Windows, SweepStep, PTL DEF RateSpec
=============================================================================
