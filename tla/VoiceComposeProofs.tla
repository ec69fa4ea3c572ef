------------------------- MODULE VoiceComposeProofs -------------------------
(* VoiceCompose keeps its types and its deadline, and implements           *)
(* Idempotency.                                                            *)
EXTENDS VoiceCompose, TLAPS

(* What is done to the map of entries keeps its type.                      *)
EntriesOK == DOMAIN entries \subseteq Keys /\ entries \in [DOMAIN entries -> Idem!Entry]

LEMMA PruneType ==
  ASSUME NEW map, DOMAIN map \subseteq Keys, map \in [DOMAIN map -> Idem!Entry]
  PROVE  /\ DOMAIN Idem!Prune(map) \subseteq Keys
         /\ Idem!Prune(map) \in [DOMAIN Idem!Prune(map) -> Idem!Entry]
BY DEF Idem!Prune, Idem!Without

LEMMA ForgottenType ==
  ASSUME EntriesOK, NEW k
  PROVE  /\ DOMAIN Forgotten(k) \subseteq Keys
         /\ Forgotten(k) \in [DOMAIN Forgotten(k) -> Idem!Entry]
BY DEF EntriesOK, Forgotten, Idem!Without

(* One operation moves on, or ends.                                        *)
LEMMA GotoType ==
  ASSUME TypeOK, NEW o \in Ops, NEW step \in {"second", "writing"}, op' = Goto(o, step)
  PROVE  Ops' = Ops /\ op' \in [Ops -> Op]
BY DEF TypeOK, Goto, Ops, Op

LEMMA OverType ==
  ASSUME TypeOK, NEW o \in Ops, NEW outcome \in Outcomes, op' = Over(o, outcome)
  PROVE  Ops' = Ops /\ op' \in [Ops -> Op]
BY DEF TypeOK, Over, Ops, Op

LEMMA ResolveType ==
  ASSUME TypeOK, NEW o \in Ops, NEW outcome \in Outcomes, Resolve(o, outcome),
         UNCHANGED <<now, process>>
  PROVE  TypeOK'
BY OverType DEF Resolve, TypeOK

LEMMA RejectType ==
  ASSUME TypeOK, NEW o \in Ops, NEW outcome \in Outcomes, Reject(o, outcome),
         UNCHANGED <<now, process>>
  PROVE  TypeOK'
BY OverType, ForgottenType DEF Reject, TypeOK, EntriesOK

LEMMA StepType ==
  ASSUME TypeOK, NEW o \in Ops, NEW step \in {"second", "writing"}, op' = Goto(o, step),
         UNCHANGED <<now, process, entries>>
  PROVE  TypeOK'
BY GotoType DEF TypeOK

LEMMA RequestFailsType ==
  ASSUME TypeOK, NEW o \in Ops, NEW code \in Outcomes, RequestFails(o, code),
         UNCHANGED <<now, process>>
  PROVE  TypeOK'
<1>1. CASE op' = Goto(o, "second") /\ UNCHANGED entries
  BY <1>1, StepType
<1>2. CASE Reject(o, IF now >= op[o].started + Deadline THEN "TIMEOUT" ELSE code)
  BY <1>2, RejectType DEF Outcomes
<1> QED BY <1>1, <1>2 DEF RequestFails

LEMMA StartType ==
  ASSUME TypeOK, NEW k \in Keys, Start(k)
  PROVE  TypeOK'
<1>1. PICK o \in RunIds \ Ops, step \in {"rejecting", "first"} :
        /\ op' = [x \in Ops \cup {o} |-> IF x = o THEN NewOp(k, step) ELSE op[x]]
        /\ entries' = Idem!Prune([x \in DOMAIN entries \cup {k} |->
             IF x = k THEN [run |-> o, expiresAt |-> now + TTL] ELSE entries[x]])
  BY DEF Start
<1>2. NewOp(k, step) \in Op
  BY DEF NewOp, Op, TypeOK, Outcomes
<1>3. Ops' = Ops \cup {o} /\ op' \in [Ops' -> Op]
  BY <1>1, <1>2 DEF Ops, TypeOK
<1> DEFINE map == [x \in DOMAIN entries \cup {k} |->
             IF x = k THEN [run |-> o, expiresAt |-> now + TTL] ELSE entries[x]]
<1>4. DOMAIN map \subseteq Keys /\ map \in [DOMAIN map -> Idem!Entry]
  BY TimesAssumption DEF TypeOK, Idem!Entry
<1>5. DOMAIN entries' \subseteq Keys /\ entries' \in [DOMAIN entries' -> Idem!Entry]
  BY <1>1, <1>4, PruneType
<1> QED BY <1>3, <1>5 DEF Start, TypeOK

LEMMA TranscribedType ==
  ASSUME TypeOK, NEW o \in Ops, Transcribed(o) PROVE TypeOK'
<1>1. UNCHANGED <<now, process>>
  BY DEF Transcribed
<1>2. CASE op' = Goto(o, "second") /\ UNCHANGED entries
  BY <1>1, <1>2, StepType
<1>3. CASE op' = Goto(o, "writing") /\ UNCHANGED entries
  BY <1>1, <1>3, StepType
<1>4. CASE Reject(o, "unusable")
  BY <1>1, <1>4, RejectType DEF Outcomes
<1>5. CASE Resolve(o, "needs_transcript_confirmation")
  BY <1>1, <1>5, ResolveType DEF Outcomes, Resolved
<1> QED BY <1>2, <1>3, <1>4, <1>5 DEF Transcribed

LEMMA TypeStep == TypeOK /\ [Next]_vars => TypeOK'
<1> SUFFICES ASSUME TypeOK, [Next]_vars PROVE TypeOK'
  OBVIOUS
<1>1. ASSUME NEW k \in Keys, Start(k) PROVE TypeOK'
  BY <1>1, StartType
<1>2. ASSUME NEW o \in Ops, RejectAudio(o) PROVE TypeOK'
  BY <1>2, RejectType DEF RejectAudio, Outcomes
<1>3. ASSUME NEW o \in Ops, Transcribed(o) PROVE TypeOK'
  BY <1>3, TranscribedType
<1>4. ASSUME NEW o \in Ops, ProviderFails(o) \/ Abort(o) PROVE TypeOK'
  BY <1>4, RequestFailsType DEF ProviderFails, Abort, Outcomes
<1>5. ASSUME NEW o \in Ops, Written(o) PROVE TypeOK'
  BY <1>5, ResolveType DEF Written, Outcomes, Resolved
<1>6. CASE Tick
  BY <1>6 DEF Tick, TypeOK, Ops
<1>7. CASE Restart
  BY <1>7, TimesAssumption DEF Restart, TypeOK, Ops
<1>8. CASE UNCHANGED vars
  BY <1>8 DEF vars, TypeOK, Ops
<1> QED BY <1>1, <1>2, <1>3, <1>4, <1>5, <1>6, <1>7, <1>8 DEF Next

(* The variables keep their types, for any keys, times and bounds.         *)
THEOREM TypeCorrect == Spec => []TypeOK
<1>1. Init => TypeOK
  BY TimesAssumption DEF Init, TypeOK, Ops
<1> QED BY <1>1, TypeStep, PTL DEF Spec
-----------------------------------------------------------------------------
(* What is known of when an operation came to its step.                    *)
InTime(o) ==
  /\ op[o].process <= process
  /\ op[o].started <= op[o].since /\ op[o].since <= now
  /\ At(o, "first") => op[o].since = op[o].started
  /\ At(o, "first") \/ At(o, "second") =>
       op[o].since <= op[o].started + Deadline /\ now <= op[o].since + Remaining(o)
  /\ At(o, "writing") =>
       op[o].since <= op[o].started + Deadline /\ now <= op[o].since + ComposeTime

TimeInv == \A o \in Ops : InTime(o)

(* Operations that a step leaves alone stay in time.                       *)
LEMMA OthersInTime ==
  ASSUME TypeOK, TimeInv, UNCHANGED <<now, process>>, NEW x \in Ops, op'[x] = op[x]
  PROVE  InTime(x)'
<1>1. InTime(x)
  BY DEF TimeInv
<1> QED BY <1>1 DEF InTime, At, Running, Remaining

(* The time a request is given ends by the deadline.                       *)
LEMMA RemainingBound ==
  ASSUME TypeOK, NEW o \in Ops, op[o].since <= op[o].started + Deadline
  PROVE  /\ Remaining(o) \in Nat
         /\ op[o].since + Remaining(o) <= op[o].started + Deadline
BY TimesAssumption DEF TypeOK, Op, Remaining

LEMMA GotoInTime ==
  ASSUME TypeOK, TimeInv, UNCHANGED <<now, process>>, NEW o \in Ops,
         NEW step \in {"second", "writing"}, At(o, "first") \/ At(o, "second"),
         op' = Goto(o, step)
  PROVE  TimeInv'
<1>1. /\ op[o] \in Op /\ now \in Nat
      /\ now <= op[o].started + Deadline /\ op[o].started <= now /\ op[o].process <= process
  <2>1. InTime(o) /\ op[o] \in Op /\ now \in Nat
    BY DEF TimeInv, TypeOK
  <2>2. op[o].since <= op[o].started + Deadline /\ now <= op[o].since + Remaining(o)
    BY <2>1 DEF InTime
  <2>3. /\ Remaining(o) \in Nat
        /\ op[o].since + Remaining(o) <= op[o].started + Deadline
    BY <2>2, RemainingBound
  <2>4. now <= op[o].started + Deadline
    BY <2>1, <2>2, <2>3, TimesAssumption DEF Op
  <2>5. op[o].started <= now /\ op[o].process <= process
    BY <2>1 DEF InTime, Op
  <2> QED BY <2>1, <2>4, <2>5
<1>2. /\ Ops' = Ops
      /\ op'[o] = [op[o] EXCEPT !.step = step, !.since = now]
      /\ \A x \in Ops : x # o => op'[x] = op[x]
  BY DEF Goto, Ops, TypeOK
<1>3. /\ op'[o].step = step /\ op'[o].since = now
      /\ op'[o].started = op[o].started /\ op'[o].process = op[o].process
  BY <1>1, <1>2 DEF Op
<1>4. Remaining(o)' \in Nat
  BY <1>1, <1>3, TimesAssumption DEF Remaining, Op
<1>5. ~At(o, "first")'
  BY <1>3 DEF At
<1>6. InTime(o)'
  BY <1>1, <1>3, <1>4, <1>5, TimesAssumption DEF InTime, Op
<1> QED BY <1>2, <1>6, OthersInTime DEF TimeInv

LEMMA OverInTime ==
  ASSUME TypeOK, TimeInv, UNCHANGED <<now, process>>, NEW o \in Ops, NEW outcome,
         op' = Over(o, outcome)
  PROVE  TimeInv'
<1>1. /\ Ops' = Ops
      /\ op'[o] = [op[o] EXCEPT !.step = "over", !.outcome = outcome]
      /\ \A x \in Ops : x # o => op'[x] = op[x]
  BY DEF Over, Ops, TypeOK
<1>2. op[o] \in Op /\ InTime(o)
  BY DEF TypeOK, TimeInv
<1>3. /\ op'[o].step = "over" /\ op'[o].since = op[o].since
      /\ op'[o].started = op[o].started /\ op'[o].process = op[o].process
  BY <1>1, <1>2 DEF Op
<1>4. InTime(o)'
  BY <1>2, <1>3 DEF InTime, At, Running
<1> QED BY <1>1, <1>4, OthersInTime DEF TimeInv

LEMMA RequestFailsInTime ==
  ASSUME TypeOK, TimeInv, UNCHANGED <<now, process>>, NEW o \in Ops, NEW code,
         RequestFails(o, code)
  PROVE  TimeInv'
BY GotoInTime, OverInTime DEF RequestFails, Reject

LEMMA StartInTime ==
  ASSUME TypeOK, TimeInv, NEW k \in Keys, Start(k)
  PROVE  TimeInv'
<1>1. PICK o \in RunIds \ Ops, step \in {"rejecting", "first"} :
        op' = [x \in Ops \cup {o} |-> IF x = o THEN NewOp(k, step) ELSE op[x]]
  BY DEF Start
<1>2. /\ Ops' = Ops \cup {o} /\ op'[o] = NewOp(k, step)
      /\ \A x \in Ops : op'[x] = op[x]
      /\ UNCHANGED <<now, process>>
  BY <1>1 DEF Ops, Start
<1>3. /\ op'[o].step = step /\ op'[o].since = now /\ op'[o].started = now
      /\ op'[o].process = process
  BY <1>2 DEF NewOp
<1>4. now \in Nat /\ process \in Nat
  BY TimesAssumption DEF TypeOK
<1>5. Remaining(o)' \in Nat
  BY <1>2, <1>3, <1>4, TimesAssumption DEF Remaining
<1>6. InTime(o)'
  BY <1>2, <1>3, <1>4, <1>5, TimesAssumption DEF InTime, At
<1> QED BY <1>2, <1>6, OthersInTime DEF TimeInv

LEMMA TickInTime ==
  ASSUME TypeOK, TimeInv, Tick
  PROVE  TimeInv'
<1> SUFFICES ASSUME NEW o \in Ops PROVE InTime(o)'
  BY DEF TimeInv, Tick, Ops
<1>1. InTime(o) /\ op[o] \in Op /\ now \in Nat
  BY DEF TimeInv, TypeOK
<1>2. op' = op /\ process' = process /\ now' = now + 1
  BY DEF Tick
<1>3. \A step : At(o, step)' = At(o, step)
  BY <1>2 DEF At, Running
<1>4. Remaining(o)' = Remaining(o)
  BY <1>2 DEF Remaining
<1>5. /\ At(o, "first") \/ At(o, "second") => now < op[o].since + Remaining(o)
      /\ At(o, "writing") => now < op[o].since + ComposeTime
  BY DEF Tick
<1>6. Remaining(o) \in Int
  BY <1>1, TimesAssumption DEF Remaining, Op
<1>7. /\ op[o].process <= process /\ op[o].started <= op[o].since /\ op[o].since <= now + 1
  BY <1>1 DEF InTime, Op
<1>8. /\ At(o, "first") \/ At(o, "second") => now + 1 <= op[o].since + Remaining(o)
      /\ At(o, "writing") => now + 1 <= op[o].since + ComposeTime
  BY <1>1, <1>5, <1>6, TimesAssumption DEF Op
<1> QED BY <1>1, <1>2, <1>3, <1>4, <1>7, <1>8 DEF InTime

LEMMA RestartInTime ==
  ASSUME TypeOK, TimeInv, Restart
  PROVE  TimeInv'
<1> SUFFICES ASSUME NEW o \in Ops PROVE InTime(o)'
  BY DEF TimeInv, Restart, Ops
<1>1. InTime(o) /\ op[o] \in Op /\ process \in Nat
  BY TimesAssumption DEF TimeInv, TypeOK
<1>2. op' = op /\ process' = process + 1 /\ now' = now
  BY DEF Restart
<1>3. op[o].process <= process' /\ op[o].process # process'
  BY <1>1, <1>2, TimesAssumption DEF InTime, Op
<1> QED BY <1>1, <1>2, <1>3 DEF InTime, At, Running

LEMMA TimeStep == TypeOK /\ TimeInv /\ [Next]_vars => TimeInv'
<1> SUFFICES ASSUME TypeOK, TimeInv, [Next]_vars PROVE TimeInv'
  OBVIOUS
<1>1. ASSUME NEW k \in Keys, Start(k) PROVE TimeInv'
  BY <1>1, StartInTime
<1>2. ASSUME NEW o \in Ops, RejectAudio(o) PROVE TimeInv'
  BY <1>2, OverInTime DEF RejectAudio, Reject
<1>3. ASSUME NEW o \in Ops, Transcribed(o) PROVE TimeInv'
  BY <1>3, OverInTime, GotoInTime DEF Transcribed, Reject, Resolve
<1>4. ASSUME NEW o \in Ops, ProviderFails(o) \/ Abort(o) PROVE TimeInv'
  BY <1>4, RequestFailsInTime DEF ProviderFails, Abort
<1>5. ASSUME NEW o \in Ops, Written(o) PROVE TimeInv'
  BY <1>5, OverInTime DEF Written, Resolve
<1>6. CASE Tick
  BY <1>6, TickInTime
<1>7. CASE Restart
  BY <1>7, RestartInTime
<1>8. CASE UNCHANGED vars
  BY <1>8 DEF vars, TimeInv, InTime, At, Running, Remaining, Ops
<1> QED BY <1>1, <1>2, <1>3, <1>4, <1>5, <1>6, <1>7, <1>8 DEF Next

(* Every operation is in time for the step it is at.                       *)
THEOREM InTimeAlways == Spec => [](TypeOK /\ TimeInv)
<1>1. Init => TimeInv
  BY DEF Init, TimeInv, Ops
<1> QED BY <1>1, TimeStep, TypeCorrect, PTL DEF Spec

(* A transcription is over by its deadline, whatever its two requests do.  *)
THEOREM TranscriptionsEndInTime == Spec => []DeadlineKept
<1>1. TypeOK /\ TimeInv => DeadlineKept
  <2> SUFFICES ASSUME TypeOK, TimeInv, NEW o \in Ops, At(o, "first") \/ At(o, "second")
               PROVE  now <= op[o].started + Deadline
    BY DEF DeadlineKept
  <2>1. InTime(o) /\ op[o] \in Op /\ now \in Nat
    BY DEF TimeInv, TypeOK
  <2>2. op[o].since <= op[o].started + Deadline /\ now <= op[o].since + Remaining(o)
    BY <2>1 DEF InTime
  <2> QED BY <2>1, <2>2, RemainingBound, TimesAssumption DEF Op
<1> QED BY <1>1, InTimeAlways, PTL
-----------------------------------------------------------------------------
(* The promise of an operation that a step leaves alone is left alone.     *)
LEMMA RunFacts ==
  /\ DOMAIN Run = Ops
  /\ \A o \in Ops : /\ Run[o].key = op[o].key /\ Run[o].started = op[o].started
                    /\ Run[o].process = op[o].process
                    /\ Run[o].state = IF op[o].step # "over" THEN "running"
                         ELSE IF op[o].outcome \in Resolved THEN "done" ELSE "failed"
BY DEF Run

LEMMA RunMoves ==
  ASSUME TypeOK, NEW o \in Ops, NEW step \in {"second", "writing"}, op[o].step # "over",
         op' = Goto(o, step)
  PROVE  Run' = Run
<1>1. /\ Ops' = Ops /\ \A x \in Ops :
        /\ op'[x].key = op[x].key /\ op'[x].started = op[x].started
        /\ op'[x].process = op[x].process /\ op'[x].outcome = op[x].outcome
        /\ (op'[x].step # "over") = (op[x].step # "over")
  BY DEF TypeOK, Op, Ops, Goto
<1> QED BY <1>1 DEF Run

LEMMA RunEnds ==
  ASSUME TypeOK, NEW o \in Ops, NEW outcome, op' = Over(o, outcome)
  PROVE  Run' = [Run EXCEPT ![o].state = IF outcome \in Resolved THEN "done" ELSE "failed"]
<1>1. /\ Ops' = Ops /\ \A x \in Ops :
        /\ op'[x].key = op[x].key /\ op'[x].started = op[x].started
        /\ op'[x].process = op[x].process
        /\ x # o => op'[x] = op[x]
  BY DEF TypeOK, Op, Ops, Over
<1>2. op'[o].step = "over" /\ op'[o].outcome = outcome
  BY DEF TypeOK, Op, Ops, Over
<1> DEFINE state == IF outcome \in Resolved THEN "done" ELSE "failed"
           ended == [key |-> op[o].key, started |-> op[o].started,
                     process |-> op[o].process, state |-> state]
<1>3. Run' = [x \in Ops |-> IF x = o THEN ended ELSE Run[x]]
  BY <1>1, <1>2 DEF Run
<1>4. [Run[o] EXCEPT !.state = state] = ended
  BY DEF Run
<1>5. [Run EXCEPT ![o].state = state]
        = [x \in Ops |-> IF x = o THEN [Run[o] EXCEPT !.state = state] ELSE Run[x]]
  <2> HIDE DEF state
  <2> QED BY RunFacts
<1> QED BY <1>3, <1>4, <1>5

LEMMA ResolveImplements ==
  ASSUME TypeOK, NEW o \in Ops, Running(o), NEW outcome \in Resolved, Resolve(o, outcome),
         UNCHANGED <<now, process>>
  PROVE  Idem!Succeed(o)
<1>1. Idem!Running(o)
  BY RunFacts DEF Running, Idem!Running
<1> QED BY <1>1, RunEnds DEF Resolve, Idem!Succeed

LEMMA RejectImplements ==
  ASSUME TypeOK, NEW o \in Ops, Running(o), NEW outcome, outcome \notin Resolved,
         Reject(o, outcome), UNCHANGED <<now, process>>
  PROVE  Idem!Fail(o)
<1>1. Idem!Running(o)
  BY RunFacts DEF Running, Idem!Running
<1>2. entries' = Idem!Without(entries, {Run[o].key})
  BY RunFacts DEF Reject, Forgotten
<1> QED BY <1>1, <1>2, RunEnds DEF Reject, Idem!Fail

LEMMA StartImplements ==
  ASSUME TypeOK, NEW k \in Keys, Start(k)
  PROVE  Idem!Start(k)
<1>1. PICK o \in RunIds \ Ops, step \in {"rejecting", "first"} :
        /\ op' = [x \in Ops \cup {o} |-> IF x = o THEN NewOp(k, step) ELSE op[x]]
        /\ entries' = Idem!Prune([x \in DOMAIN entries \cup {k} |->
             IF x = k THEN [run |-> o, expiresAt |-> now + TTL] ELSE entries[x]])
  BY DEF Start
<1>2. Ops' = Ops \cup {o} /\ op'[o] = NewOp(k, step) /\ \A x \in Ops : op'[x] = op[x]
  BY <1>1 DEF Ops
<1>3. /\ op'[o].key = k /\ op'[o].started = now /\ op'[o].process = process
      /\ op'[o].step # "over"
  BY <1>2 DEF NewOp
<1>4. Run' = [x \in Ops \cup {o} |->
        IF x = o THEN [key |-> k, started |-> now, process |-> process, state |-> "running"]
                 ELSE Run[x]]
  BY <1>2, <1>3 DEF Run
<1>5. Idem!Runs = Ops
  BY RunFacts DEF Idem!Runs
<1> QED BY <1>1, <1>4, <1>5 DEF Start, Idem!Start

LEMMA TickImplements ==
  ASSUME TypeOK, TimeInv, Tick
  PROVE  Idem!Tick
<1>1. ASSUME NEW o \in Ops, Running(o) PROVE now < op[o].started + MaxRun
  <2>1. InTime(o) /\ op[o] \in Op /\ now \in Nat
    BY DEF TimeInv, TypeOK
  <2>2. CASE At(o, "first") \/ At(o, "second")
    <3>1. now < op[o].since + Remaining(o) /\ op[o].since <= op[o].started + Deadline
      BY <2>1, <2>2 DEF Tick, InTime
    <3> QED BY <2>1, <3>1, RemainingBound, TimesAssumption DEF MaxRun, Op
  <2>3. CASE At(o, "writing")
    <3>1. now < op[o].since + ComposeTime /\ op[o].since <= op[o].started + Deadline
      BY <2>1, <2>3 DEF Tick, InTime
    <3> QED BY <2>1, <3>1, TimesAssumption DEF MaxRun, Op
  <2>4. ~At(o, "rejecting")
    BY DEF Tick
  <2> QED BY <1>1, <2>1, <2>2, <2>3, <2>4 DEF At, Running, Op
<1>2. \A o \in Idem!Runs : Idem!Running(o) => now < Run[o].started + MaxRun
  BY <1>1, RunFacts DEF Idem!Runs, Idem!Running, Running
<1>3. Run' = Run
  BY DEF Tick, Run, Ops
<1> QED BY <1>2, <1>3 DEF Tick, Idem!Tick, Idem!Elapse

LEMMA Implements == TypeOK /\ TimeInv /\ [Next]_vars => [Idem!Next]_Idem!vars
<1> SUFFICES ASSUME TypeOK, TimeInv, [Next]_vars PROVE [Idem!Next]_Idem!vars
  OBVIOUS
<1>0. Idem!Runs = Ops
  BY RunFacts DEF Idem!Runs
<1>a. ASSUME NEW o \in Ops, NEW step \in {"second", "writing"}, op[o].step # "over",
             op' = Goto(o, step), UNCHANGED <<now, process, entries>>
      PROVE  UNCHANGED Idem!vars
  BY <1>a, RunMoves DEF Idem!vars
<1>b. ASSUME NEW o \in Ops, NEW code \in {"TIMEOUT", "PROVIDER_UNAVAILABLE"},
             RequestFails(o, code), UNCHANGED <<now, process>>
      PROVE  [Idem!Next]_Idem!vars
  <2>1. Running(o) /\ op[o].step # "over"
    BY <1>b DEF RequestFails, At, Running
  <2>2. CASE op' = Goto(o, "second") /\ UNCHANGED entries
    BY <1>a, <1>b, <2>1, <2>2
  <2>3. CASE Reject(o, IF now >= op[o].started + Deadline THEN "TIMEOUT" ELSE code)
    <3>1. Idem!Fail(o)
      BY <1>b, <2>1, <2>3, RejectImplements DEF Resolved
    <3> QED BY <1>0, <3>1 DEF Idem!Next
  <2> QED BY <1>b, <2>2, <2>3 DEF RequestFails
<1>1. ASSUME NEW k \in Keys, Start(k) PROVE Idem!Next
  BY <1>1, StartImplements DEF Idem!Next
<1>2. ASSUME NEW o \in Ops, RejectAudio(o) PROVE Idem!Next
  <2>1. Idem!Fail(o)
    BY <1>2, RejectImplements DEF RejectAudio, At, Resolved
  <2> QED BY <1>0, <2>1 DEF Idem!Next
<1>3. ASSUME NEW o \in Ops, Transcribed(o) PROVE [Idem!Next]_Idem!vars
  <2>1. Running(o) /\ op[o].step # "over" /\ UNCHANGED <<now, process>>
    BY <1>3 DEF Transcribed, At, Running
  <2>2. CASE \E step \in {"second", "writing"} : op' = Goto(o, step) /\ UNCHANGED entries
    BY <1>a, <2>1, <2>2
  <2>3. CASE Reject(o, "unusable")
    <3>1. Idem!Fail(o)
      BY <2>1, <2>3, RejectImplements DEF Resolved
    <3> QED BY <1>0, <3>1 DEF Idem!Next
  <2>4. CASE Resolve(o, "needs_transcript_confirmation")
    <3>1. Idem!Succeed(o)
      BY <2>1, <2>4, ResolveImplements DEF Resolved
    <3> QED BY <1>0, <3>1 DEF Idem!Next
  <2> QED BY <1>3, <2>2, <2>3, <2>4 DEF Transcribed
<1>4. ASSUME NEW o \in Ops, ProviderFails(o) \/ Abort(o) PROVE [Idem!Next]_Idem!vars
  BY <1>4, <1>b DEF ProviderFails, Abort
<1>5. ASSUME NEW o \in Ops, Written(o) PROVE Idem!Next
  <2>1. Idem!Succeed(o)
    BY <1>5, ResolveImplements DEF Written, At, Resolved
  <2> QED BY <1>0, <2>1 DEF Idem!Next
<1>6. CASE Tick
  BY <1>6, TickImplements DEF Idem!Next
<1>7. CASE Restart
  <2>1. Run' = Run
    BY <1>7 DEF Restart, Run, Ops
  <2> QED BY <1>7, <2>1 DEF Restart, Idem!Restart, Idem!Next
<1>8. CASE UNCHANGED vars
  BY <1>8 DEF vars, Idem!vars, Run, Ops
<1> QED BY <1>1, <1>2, <1>3, <1>4, <1>5, <1>6, <1>7, <1>8 DEF Next

(* The idempotent operation of compose-from-audio does what Idempotency    *)
(* specifies: every operation ends before its entry expires, requests of   *)
(* one key share it, and a rejected one leaves no entry.                   *)
THEOREM ComposeIsIdempotent == Spec => ImplementsIdempotency
<1>1. Init => Idem!Init
  BY DEF Init, Idem!Init, Run, Ops
<1> QED BY <1>1, Implements, InTimeAlways, PTL DEF Spec, ImplementsIdempotency, Idem!Spec
=============================================================================
