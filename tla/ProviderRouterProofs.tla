------------------------- MODULE ProviderRouterProofs -------------------------
(***************************************************************************)
(* The circuit breaker, proved for any number of providers and requests,   *)
(* and the check of the emails, proved for any transcripts and emails.     *)
(* What a request holds of the list it read plays no part in the breaker:  *)
(* HealthInv asks of a request only when its call began, and that of no    *)
(* value but that it is a number.  Then the types, and TimeInv: when each  *)
(* call of a request is due, from which AnsweredInTime follows.            *)
(***************************************************************************)
EXTENDS ProviderRouter, FiniteSetTheorems, TLAPS

Fields == DOMAIN Fresh

(* The health map and the calls hold numbers, and no call began later than *)
(* now.                                                                    *)
HealthOK ==
  /\ now \in Nat /\ fails \in [Providers -> Nat] /\ openUntil \in [Providers -> Nat]
  /\ DOMAIN req = Requests
  /\ \A r \in Requests :
       DOMAIN req[r] = Fields /\ req[r].since \in Nat /\ req[r].since <= now

HealthInv == HealthOK /\ CircuitJustified /\ OpenMeansQuiet

(* The parts of HealthInv that are about one provider or one request.      *)
Justified(p) == openUntil[p] # Never => fails[p] >= Threshold /\ openUntil[p] <= now + Cooldown
Quiet(p, r) ==
  CallTo(r, p) /\ openUntil[p] # Never => req[r].since + Cooldown <= openUntil[p]
-----------------------------------------------------------------------------
(* What the records of a request say after each assignment.                *)
LEMMA FreshFields ==
  /\ "since" \in Fields /\ "phase" \in Fields /\ "provider" \in Fields
  /\ "list" \in Fields /\ "began" \in Fields /\ "start" \in Fields /\ "reasons" \in Fields
  /\ Fresh.since = 0 /\ Fresh.phase = "idle"
BY DEF Fresh, Fields

LEMMA AnsweredFields ==
  ASSUME NEW a
  PROVE  DOMAIN Answered(a) = Fields /\ Answered(a).since = 0 /\ Answered(a).phase = "answered"
BY DEF Answered, Fresh, Fields

LEMMA ValidatedFields ==
  ASSUME NEW r, NEW m, NEW email, NEW v, v = Validated(r, m, email)
  PROVE  /\ DOMAIN v = Fields /\ v.since = 0 /\ v.phase # "calling"
         /\ v.answer = "completed" => Valid(Normalised(Transcript[r]), email) /\ v.email = email
<1>1. CASE v = [Answered("completed") EXCEPT !.email = email]
            /\ Valid(Normalised(Transcript[r]), email)
  BY <1>1 DEF Answered, Fresh, Fields
<1>2. CASE v = [Fresh EXCEPT !.phase = "arriving", !.mode = "repair", !.began = m.began]
  BY <1>2 DEF Fresh, Fields
<1>3. CASE v = Answered("draft_invalid")
  BY <1>3 DEF Answered, Fresh, Fields
<1> QED BY <1>1, <1>2, <1>3 DEF Validated

LEMMA CallFields ==
  ASSUME NEW m, DOMAIN m = Fields, NEW o
  PROVE  /\ DOMAIN Call(m, o) = Fields /\ Call(m, o).since = now
         /\ Call(m, o).phase = "calling" /\ Call(m, o).provider = ProviderAt(m, o)
BY DEF Call, Fresh, Fields

(* A request that is no longer calling constrains no circuit.  The shape   *)
(* of every step but a call: one request's record is replaced by one that  *)
(* waits for no provider.                                                  *)
LEMMA NotCalling ==
  ASSUME HealthInv, NEW r \in Requests, NEW m,
         DOMAIN m = Fields, m.since \in Nat, m.since <= now, m.phase # "calling",
         req' = [req EXCEPT ![r] = m], now' = now
  PROVE  /\ DOMAIN req' = Requests
         /\ \A s \in Requests :
              /\ DOMAIN req'[s] = Fields /\ req'[s].since \in Nat /\ req'[s].since <= now'
              /\ \A p \in Providers :
                   CallTo(s, p)' => CallTo(s, p) /\ req'[s].since = req[s].since
BY DEF HealthInv, HealthOK, CallTo, In

LEMMA InitHealth == Init => HealthInv
<1> SUFFICES ASSUME Init PROVE HealthInv
  OBVIOUS
<1>1. HealthOK
  <2>1. \A r \in Requests : req[r] = Fresh
    BY DEF Init
  <2>2. DOMAIN req = Requests /\ now = 0
    BY DEF Init
  <2>3. fails \in [Providers -> Nat] /\ openUntil \in [Providers -> Nat]
    BY DEF Init, Never
  <2> QED BY <2>1, <2>2, <2>3, FreshFields DEF HealthOK, Fields
<1>2. CircuitJustified
  BY DEF Init, CircuitJustified
<1>3. OpenMeansQuiet
  BY DEF Init, OpenMeansQuiet
<1> QED BY <1>1, <1>2, <1>3 DEF HealthInv

(* The loop keeps what holds of the circuits it is handed: those of the    *)
(* next state, but for the provider it calls, whose circuit it closes.     *)
LEMMA SearchKeeps ==
  ASSUME HealthInv, NEW r \in Requests, NEW m, NEW circuits \in [Providers -> Nat],
         DOMAIN m = Fields, now' = now, fails' \in [Providers -> Nat],
         \A p \in Providers :
           circuits[p] # Never => fails'[p] >= Threshold /\ circuits[p] <= now + Cooldown,
         \A p \in Providers, s \in Requests :
           s # r /\ CallTo(s, p) /\ circuits[p] # Never => req[s].since + Cooldown <= circuits[p],
         Search(r, m, circuits)
  PROVE  HealthInv'
<1>1. openUntil' \in [Providers -> Nat]
      /\ \A p \in Providers : openUntil'[p] # Never => openUntil'[p] = circuits[p]
  BY DEF Search, Never
<1>2. CircuitJustified'
  BY <1>1 DEF CircuitJustified
<1>3. CASE req' = [req EXCEPT ![r] = GiveUp(m)]
  <2>1. DOMAIN GiveUp(m) = Fields /\ GiveUp(m).since = 0 /\ GiveUp(m).phase = "answered"
    BY AnsweredFields DEF GiveUp
  <2>2. HealthOK'
    BY <1>1, <1>3, <2>1, NotCalling DEF HealthInv, HealthOK
  <2>3. OpenMeansQuiet'
    <3> SUFFICES ASSUME NEW p \in Providers, NEW s \in Requests,
                        CallTo(s, p)', openUntil'[p] # Never
                 PROVE  req'[s].since + Cooldown <= openUntil'[p]
      BY DEF OpenMeansQuiet
    <3>1. s # r /\ req'[s] = req[s]
      BY <1>3, <2>1 DEF CallTo, In, HealthInv, HealthOK
    <3> QED BY <1>1, <3>1 DEF CallTo, In
  <2> QED BY <1>2, <2>2, <2>3 DEF HealthInv
<1>4. CASE \E o \in Callable(m) :
             /\ req' = [req EXCEPT ![r] = Call(m, o)]
             /\ openUntil' = [circuits EXCEPT ![ProviderAt(m, o)] = Never]
  <2> PICK o : /\ req' = [req EXCEPT ![r] = Call(m, o)]
               /\ openUntil' = [circuits EXCEPT ![ProviderAt(m, o)] = Never]
    BY <1>4
  <2>1. /\ DOMAIN Call(m, o) = Fields /\ Call(m, o).since = now
        /\ Call(m, o).phase = "calling" /\ Call(m, o).provider = ProviderAt(m, o)
    BY CallFields
  <2>2. HealthOK'
    BY <1>1, <2>1 DEF HealthInv, HealthOK
  <2>3. OpenMeansQuiet'
    <3> SUFFICES ASSUME NEW p \in Providers, NEW s \in Requests,
                        CallTo(s, p)', openUntil'[p] # Never
                 PROVE  req'[s].since + Cooldown <= openUntil'[p]
      BY DEF OpenMeansQuiet
    <3>1. s # r
      <4> SUFFICES ASSUME s = r PROVE FALSE
        OBVIOUS
      <4>1. p = ProviderAt(m, o)
        BY <2>1 DEF CallTo, HealthInv, HealthOK
      <4> QED BY <4>1
    <3>2. req'[s] = req[s]
      BY <3>1 DEF HealthInv, HealthOK
    <3> QED BY <1>1, <3>1, <3>2 DEF CallTo, In
  <2> QED BY <1>2, <2>2, <2>3 DEF HealthInv
<1> QED BY <1>3, <1>4 DEF Search

(* A step that leaves the circuits and the failures alone, and one request *)
(* waiting for no provider.                                                *)
LEMMA Untouched ==
  ASSUME HealthInv, NEW r \in Requests, NEW m,
         DOMAIN m = Fields, m.since \in Nat, m.since <= now, m.phase # "calling",
         req' = [req EXCEPT ![r] = m], UNCHANGED <<now, fails, openUntil>>
  PROVE  HealthInv'
<1>1. HealthOK'
  BY NotCalling DEF HealthInv, HealthOK
<1>2. CircuitJustified'
  BY DEF HealthInv, CircuitJustified
<1>3. OpenMeansQuiet'
  BY NotCalling DEF HealthInv, OpenMeansQuiet
<1> QED BY <1>1, <1>2, <1>3 DEF HealthInv

LEMMA ArriveHealth ==
  ASSUME HealthInv, NEW r \in Requests, Arrive(r) PROVE HealthInv'
<1>0. PICK list \in Available :
        \/ req' = [req EXCEPT ![r] = Answered("NO_AI_PROVIDER_AVAILABLE")]
        \/ req' = [req EXCEPT ![r] =
              [[req[r] EXCEPT !.list = list,
                  !.began = IF In(r, "idle") THEN now ELSE @]
                 EXCEPT !.phase = "routing", !.start = counter % Len(list)]]
  BY DEF Arrive
<1>1. PICK m : m = [req[r] EXCEPT !.list = list,
                      !.began = IF In(r, "idle") THEN now ELSE @]
  OBVIOUS
<1>2. DOMAIN m = Fields /\ m.since = req[r].since /\ m.phase = req[r].phase
  BY <1>1 DEF HealthInv, HealthOK
<1>3. CASE req' = [req EXCEPT ![r] = Answered("NO_AI_PROVIDER_AVAILABLE")]
  <2> PICK n : n = Answered("NO_AI_PROVIDER_AVAILABLE")
    OBVIOUS
  <2>1. DOMAIN n = Fields /\ n.since = 0 /\ n.phase = "answered"
    BY AnsweredFields
  <2>2. /\ n.since \in Nat /\ n.since <= now /\ n.phase # "calling"
        /\ UNCHANGED <<now, fails, openUntil>>
    BY <2>1 DEF HealthInv, HealthOK, Arrive
  <2> QED BY <1>3, <2>1, <2>2, Untouched
<1>4. CASE req' = [req EXCEPT ![r] =
             [m EXCEPT !.phase = "routing", !.start = counter % Len(list)]]
  <2> PICK n : n = [m EXCEPT !.phase = "routing", !.start = counter % Len(list)]
    OBVIOUS
  <2>1. DOMAIN n = Fields /\ n.since = m.since /\ n.phase = "routing"
    BY <1>2, FreshFields
  <2>2. n.since \in Nat /\ n.since <= now /\ UNCHANGED <<now, fails, openUntil>>
    BY <1>2, <2>1 DEF HealthInv, HealthOK, Arrive
  <2> QED BY <1>4, <2>1, <2>2, Untouched
<1> QED BY <1>0, <1>1, <1>3, <1>4

LEMMA RouteHealth ==
  ASSUME HealthInv, NEW r \in Requests, Route(r) PROVE HealthInv'
<1>1. Search(r, req[r], openUntil) /\ now' = now /\ fails' = fails
  BY DEF Route
<1> QED BY <1>1, SearchKeeps
        DEF HealthInv, HealthOK, CircuitJustified, OpenMeansQuiet

LEMMA FailHealth ==
  ASSUME HealthInv, NEW r \in Requests, NEW error, Fail(r, error) PROVE HealthInv'
<1> PICK p : p = req[r].provider
  OBVIOUS
<1> PICK m : m = [req[r] EXCEPT !.reasons = @ \cup {error}]
  OBVIOUS
<1>1. /\ fails' = [fails EXCEPT ![p] = @ + 1] /\ now' = now
      /\ Search(r, m, Opened(p))
  BY DEF Fail, RegisterFailure
<1>2. DOMAIN m = Fields
  BY DEF HealthInv, HealthOK
<1>3. Opened(p) \in [Providers -> Nat] /\ fails' \in [Providers -> Nat]
  <2>1. now \in Nat /\ now + Cooldown \in Nat /\ openUntil \in [Providers -> Nat]
        /\ fails \in [Providers -> Nat]
    BY LimitsAssumption DEF HealthInv, HealthOK
  <2>2. [openUntil EXCEPT ![p] = now + Cooldown] \in [Providers -> Nat]
    BY <2>1
  <2>3. [fails EXCEPT ![p] = @ + 1] \in [Providers -> Nat]
    <3>1. CASE p \in Providers
      BY <2>1, <3>1
    <3>2. CASE p \notin Providers
      BY <2>1, <3>2
    <3> QED BY <3>1, <3>2
  <2> QED BY <1>1, <2>1, <2>2, <2>3 DEF Opened
<1>4. \A q \in Providers : Opened(p)[q] # openUntil[q] =>
        q = p /\ Opened(p)[q] = now + Cooldown /\ fails[q] + 1 >= Threshold
  BY DEF Opened, HealthInv, HealthOK
<1>5. \A q \in Providers : Opened(p)[q] # Never =>
        fails'[q] >= Threshold /\ Opened(p)[q] <= now + Cooldown
  BY <1>1, <1>4, LimitsAssumption DEF HealthInv, HealthOK, CircuitJustified
<1>6. \A q \in Providers, s \in Requests :
        CallTo(s, q) /\ Opened(p)[q] # Never => req[s].since + Cooldown <= Opened(p)[q]
  BY <1>4, LimitsAssumption DEF HealthInv, HealthOK, OpenMeansQuiet
<1> QED BY <1>1, <1>2, <1>3, <1>5, <1>6, SearchKeeps

LEMMA SucceedHealth ==
  ASSUME HealthInv, NEW r \in Requests, Succeed(r) PROVE HealthInv'
<1> PICK p : p = req[r].provider
  OBVIOUS
<1>1. /\ fails' = [fails EXCEPT ![p] = 0] /\ openUntil' = [openUntil EXCEPT ![p] = Never]
      /\ now' = now
  BY DEF Succeed, RegisterSuccess
<1>2. PICK email \in Drafts : req' = [req EXCEPT ![r] = Validated(r, req[r], email)]
  BY DEF Succeed
<1> PICK m : m = Validated(r, req[r], email)
  OBVIOUS
<1>3. DOMAIN m = Fields /\ m.since = 0 /\ m.phase # "calling"
  BY ValidatedFields
<1>4. /\ DOMAIN req' = Requests
      /\ \A s \in Requests :
           /\ DOMAIN req'[s] = Fields /\ req'[s].since \in Nat /\ req'[s].since <= now'
           /\ \A q \in Providers :
                CallTo(s, q)' => CallTo(s, q) /\ req'[s].since = req[s].since
  <2>1. m.since \in Nat /\ m.since <= now
    BY <1>3 DEF HealthInv, HealthOK
  <2> QED BY <1>1, <1>2, <1>3, <2>1, NotCalling
<1>5. HealthOK'
  <2>1. openUntil' \in [Providers -> Nat] /\ fails' \in [Providers -> Nat]
    BY <1>1 DEF HealthInv, HealthOK, Never
  <2> QED BY <1>1, <1>4, <2>1 DEF HealthOK, HealthInv
<1>6. CircuitJustified'
  BY <1>1 DEF HealthInv, HealthOK, CircuitJustified
<1>7. OpenMeansQuiet'
  <2>1. \A q \in Providers : openUntil'[q] # Never => openUntil'[q] = openUntil[q]
    BY <1>1 DEF HealthInv, HealthOK
  <2> QED BY <1>4, <2>1 DEF HealthInv, OpenMeansQuiet
<1> QED BY <1>5, <1>6, <1>7 DEF HealthInv

LEMMA RefuseHealth ==
  ASSUME HealthInv, NEW r \in Requests, Refuse(r) PROVE HealthInv'
<1> PICK m : m = Answered("EMAIL_GENERATION_FAILED")
  OBVIOUS
<1>1. DOMAIN m = Fields /\ m.since = 0 /\ m.phase = "answered"
  BY AnsweredFields
<1>2. m.since \in Nat /\ m.since <= now /\ m.phase # "calling"
  BY <1>1 DEF HealthInv, HealthOK
<1>3. req' = [req EXCEPT ![r] = m] /\ UNCHANGED <<now, fails, openUntil>>
  BY DEF Refuse
<1> QED BY <1>1, <1>2, <1>3, Untouched

LEMMA TickHealth == ASSUME HealthInv, Tick PROVE HealthInv'
<1>1. now' = now + 1 /\ UNCHANGED <<fails, openUntil, req>>
  BY DEF Tick
<1>2. HealthOK'
  BY <1>1 DEF HealthInv, HealthOK
<1>3. CircuitJustified'
  BY <1>1, LimitsAssumption DEF HealthInv, HealthOK, CircuitJustified
<1>4. OpenMeansQuiet'
  BY <1>1 DEF HealthInv, OpenMeansQuiet, CallTo, In
<1> QED BY <1>2, <1>3, <1>4 DEF HealthInv

LEMMA NextHealth == HealthInv /\ [Next]_vars => HealthInv'
<1> SUFFICES ASSUME HealthInv, [Next]_vars PROVE HealthInv'
  OBVIOUS
<1>1. CASE UNCHANGED vars
  BY <1>1 DEF vars, HealthInv, HealthOK, CircuitJustified, OpenMeansQuiet, CallTo, In
<1>2. CASE Tick
  BY <1>2, TickHealth
<1>3. ASSUME NEW r \in Requests, Proceed(r) PROVE HealthInv'
  BY <1>3, ArriveHealth, RouteHealth, SucceedHealth, RefuseHealth, FailHealth
     DEF Proceed, TimeOut
<1> QED BY <1>1, <1>2, <1>3 DEF Next

(* The inductive invariant of the circuit breaker.                         *)
THEOREM Health == Spec => []HealthInv
<1>1. HealthInv /\ [Next]_vars => HealthInv'
  BY NextHealth
<1> QED BY <1>1, InitHealth, PTL DEF Spec

(* No circuit is open without Threshold failures, nor for longer than one  *)
(* cooldown, and calls to its provider began before it was opened.         *)
THEOREM BreakerIsSound == Spec => []BreakerHolds
<1>1. HealthInv => BreakerHolds
  BY DEF HealthInv, BreakerHolds
<1> QED BY <1>1, Health, PTL

(* The loop closes no circuit whose cooldown is not over.                  *)
LEMMA SearchClosesNone ==
  ASSUME HealthInv, NEW r, NEW m, NEW circuits \in [Providers -> Nat], Search(r, m, circuits),
         NEW p \in Providers, openUntil[p] > now, circuits[p] >= openUntil[p]
  PROVE  openUntil'[p] >= openUntil[p]
<1>1. CASE openUntil' = circuits
  BY <1>1
<1>2. ASSUME NEW o \in Callable(m), openUntil' = [circuits EXCEPT ![ProviderAt(m, o)] = Never]
      PROVE  openUntil'[p] >= openUntil[p]
  <2>1. openUntil[ProviderAt(m, o)] <= now
    BY DEF Callable, Healthy
  <2>2. p # ProviderAt(m, o)
    <3> SUFFICES ASSUME p = ProviderAt(m, o) PROVE FALSE
      OBVIOUS
    <3> QED BY <2>1 DEF HealthInv, HealthOK
  <2> QED BY <1>2, <2>2
<1> QED BY <1>1, <1>2 DEF Search

LEMMA NextKeepsCooldown ==
  ASSUME HealthInv, [Next]_vars PROVE [ClosedEarlyBySuccess]_vars
<1> SUFFICES ASSUME NEW p \in Providers, openUntil[p] > now, openUntil'[p] < openUntil[p]
             PROVE  \E r \in Requests :
                      /\ CallTo(r, p) /\ req[r].since + Cooldown <= openUntil[p]
                      /\ req'[r].phase # "calling" /\ fails'[p] = 0
  BY DEF ClosedEarlyBySuccess
<1> USE LimitsAssumption
<1>1. openUntil \in [Providers -> Nat] /\ now \in Nat
  BY DEF HealthInv, HealthOK
<1>2. openUntil' # openUntil
  BY <1>1
<1>3. PICK r \in Requests : Proceed(r)
  BY <1>2 DEF Next, Tick, vars
<1>4. ~Arrive(r) /\ ~Refuse(r)
  BY <1>2 DEF Arrive, Refuse
<1>5. ~Route(r)
  <2> SUFFICES ASSUME Route(r) PROVE FALSE
    OBVIOUS
  <2>1. openUntil'[p] >= openUntil[p]
    BY <1>1, SearchClosesNone DEF Route
  <2>2. openUntil'[p] \in Nat
    BY RouteHealth DEF HealthInv, HealthOK
  <2> QED BY <1>1, <2>1, <2>2
<1>6. ASSUME NEW error, Fail(r, error) PROVE FALSE
  <2> PICK q : q = req[r].provider
    OBVIOUS
  <2> PICK m : m = [req[r] EXCEPT !.reasons = @ \cup {error}]
    OBVIOUS
  <2>1. Search(r, m, Opened(q))
    BY <1>6 DEF Fail
  <2>2. Opened(q) \in [Providers -> Nat] /\ Opened(q)[p] >= openUntil[p]
    <3>1. now + Cooldown \in Nat /\ openUntil[p] <= now + Cooldown
      BY <1>1 DEF HealthInv, CircuitJustified, Never
    <3>2. [openUntil EXCEPT ![q] = now + Cooldown] \in [Providers -> Nat]
      BY <1>1, <3>1
    <3>3. Opened(q) \in [Providers -> Nat]
      BY <1>1, <3>2 DEF Opened
    <3>4. Opened(q)[p] = openUntil[p] \/ Opened(q)[p] = now + Cooldown
      BY <1>1 DEF Opened
    <3> QED BY <1>1, <3>1, <3>3, <3>4
  <2>3. openUntil'[p] >= openUntil[p]
    BY <2>1, <2>2, SearchClosesNone
  <2>4. openUntil'[p] \in Nat
    BY <1>6, FailHealth DEF HealthInv, HealthOK
  <2> QED BY <1>1, <2>3, <2>4
<1>7. Succeed(r)
  BY <1>3, <1>4, <1>5, <1>6 DEF Proceed, TimeOut
<1>8. req[r].provider = p /\ CallTo(r, p) /\ fails'[p] = 0
  <2>1. openUntil' = [openUntil EXCEPT ![req[r].provider] = Never]
        /\ fails' = [fails EXCEPT ![req[r].provider] = 0] /\ In(r, "calling")
    BY <1>7 DEF Succeed, RegisterSuccess
  <2>2. req[r].provider = p
    BY <1>1, <2>1
  <2>3. fails \in [Providers -> Nat]
    BY DEF HealthInv, HealthOK
  <2> QED BY <2>1, <2>2, <2>3 DEF CallTo
<1>9. req'[r].phase # "calling"
  <2>1. PICK email \in Drafts : req' = [req EXCEPT ![r] = Validated(r, req[r], email)]
    BY <1>7 DEF Succeed
  <2>2. Validated(r, req[r], email).phase # "calling"
    BY ValidatedFields
  <2> QED BY <2>1, <2>2 DEF HealthInv, HealthOK
<1>10. req[r].since + Cooldown <= openUntil[p]
  BY <1>1, <1>8 DEF HealthInv, OpenMeansQuiet, Never
<1> QED BY <1>8, <1>9, <1>10

(* Only a success that was under way closes a circuit before its time.     *)
THEOREM CooldownsAreKept == Spec => CooldownKept
<1>1. HealthInv /\ [Next]_vars => [ClosedEarlyBySuccess]_vars
  BY NextKeepsCooldown
<1> QED BY <1>1, Health, PTL DEF Spec, CooldownKept
-----------------------------------------------------------------------------
(* The check of an email, for any numbers.  A number and the other forms   *)
(* that the check accepts for it are the same by value.                    *)
LEMMA Rows ==
  /\ DOMAIN NumberWords = 1 .. 6
  /\ NumberWords[1] = [word |-> "vingt", digits |-> "20"]
  /\ NumberWords[2] = [word |-> "twenty", digits |-> "20"]
  /\ NumberWords[3] = [word |-> "dix", digits |-> "10"]
  /\ NumberWords[4] = [word |-> "ten", digits |-> "10"]
  /\ NumberWords[5] = [word |-> "quinze", digits |-> "15"]
  /\ NumberWords[6] = [word |-> "fifteen", digits |-> "15"]
BY DEF NumberWords

LEMMA DigitsOfWord ==
  ASSUME NEW i \in DOMAIN NumberWords
  PROVE  DigitsOf(NumberWords[i].word) = NumberWords[i].digits
<1> DEFINE table == {NumberWords[j] : j \in DOMAIN NumberWords}
           row == CHOOSE x \in table : x.word = NumberWords[i].word
<1>1. \A j \in DOMAIN NumberWords : NumberWords[j].word = NumberWords[i].word => j = i
  BY Rows
<1>2. row \in table /\ row.word = NumberWords[i].word
  OBVIOUS
<1>3. row = NumberWords[i]
  BY <1>1, <1>2
<1>4. DigitsOf(NumberWords[i].word) = row.digits
  BY DEF DigitsOf
<1> QED BY <1>3, <1>4

LEMMA WordsAndDigits ==
  /\ \A n \in Words : DigitsOf(n) \in {"10", "15", "20"}
  /\ \A n \in Numerals \cup Unlisted : DigitsOf(n) = n
<1>1. \A n \in Words : DigitsOf(n) \in {"10", "15", "20"}
  BY Rows, DigitsOfWord DEF Words
<1>2. \A n \in Numerals \cup Unlisted : DigitsOf(n) = n
  <2> SUFFICES ASSUME NEW n \in Numerals \cup Unlisted PROVE DigitsOf(n) = n
    OBVIOUS
  <2>1. n \notin Words
    BY NumeralsAssumption
  <2> QED BY <2>1 DEF Words, DigitsOf
<1> QED BY <1>1, <1>2

LEMMA RowKeepsValue ==
  ASSUME NEW n, NEW other \in RowOf(n)
  PROVE  DigitsOf(other) = DigitsOf(n)
<1> DEFINE rows == {i \in DOMAIN NumberWords :
                      n \in {NumberWords[i].word, NumberWords[i].digits}}
           first == CHOOSE i \in rows : \A j \in rows : i <= j
<1>1. CASE rows = {}
  BY <1>1 DEF RowOf
<1>2. CASE rows # {}
  <2>1. \E i \in rows : \A j \in rows : i <= j
    BY <1>2, Rows
  <2>2. first \in rows
    BY <2>1
  <2>3. RowOf(n) = {NumberWords[first].word, NumberWords[first].digits}
    BY <1>2 DEF RowOf
  <2> HIDE DEF first
  <2>4. NumberWords[first].digits \in Numerals
    BY <2>2, Rows, NumeralsAssumption
  <2>5. DigitsOf(NumberWords[first].digits) = NumberWords[first].digits
    BY <2>4, WordsAndDigits
  <2> QED BY <2>2, <2>3, <2>5, DigitsOfWord
<1> QED BY <1>1, <1>2

Forms == Numerals \cup Words \cup Unlisted

(* A decimal has no other form, and no longer number contains it.          *)
LEMMA DecimalsAreThemselves ==
  ASSUME NEW n \in Numerals, Halves[n] # {}
  PROVE  RowOf(n) = {n} /\ \A m \in Forms : n \in Within(m) => m = n
<1>1. RowOf(n) = {n}
  BY Rows, NumeralsAssumption DEF RowOf, Words
<1>2. \A m \in Forms : n \in Within(m) => m = n
  BY NumeralsAssumption DEF Within, Forms
<1> QED BY <1>1, <1>2

(* What a number contains besides itself: the halves of a decimal and the  *)
(* listed words of a compound.                                             *)
LEMMA WithinIsANumber ==
  ASSUME NEW m \in Forms, NEW n \in Within(m)
  PROVE  /\ n \in Forms
         /\ n # m => \/ m \in Numerals /\ n \in Numerals /\ n \in Halves[m]
                     \/ m \in Unlisted /\ n \in Words
<1>1. CASE m \in Numerals
  <2>1. \A h \in Halves[m] : h \in Numerals
    BY <1>1, NumeralsAssumption
  <2>2. Within(m) = {m} \cup Halves[m]
    BY <1>1 DEF Within
  <2>3. n = m \/ (n \in Halves[m] /\ n \in Numerals)
    BY <2>1, <2>2
  <2>4. n \in Forms
    BY <1>1, <2>3 DEF Forms
  <2> QED BY <1>1, <2>3, <2>4
<1>2. CASE m \in Unlisted
  <2>1. Parts[m] \in SUBSET Words /\ m \notin Numerals
    BY <1>2, NumeralsAssumption
  <2>2. Within(m) = {m} \cup Parts[m]
    BY <1>2, <2>1 DEF Within
  <2> QED BY <1>2, <2>1, <2>2 DEF Forms
<1>3. CASE m \in Words
  BY <1>3, NumeralsAssumption DEF Within, Forms
<1> QED BY <1>1, <1>2, <1>3 DEF Forms

(* Every number that the check recognises in a text is the number of a     *)
(* fact, or a half of one; when the fact is present elsewhere, so is the   *)
(* number.                                                                 *)
LEMMA FactIsRecognised ==
  ASSUME NEW there, NEW fact, FactIsPresent(fact, there),
         fact.number \in Numerals \cup Words \cup Matched
  PROVE  DigitsOf(fact.number) \in Recognised(there)
<1>1. PICK other \in RowOf(fact.number) : \E x \in there : other \in Within(x.number)
  BY DEF FactIsPresent, Contains
<1>2. DigitsOf(other) = DigitsOf(fact.number)
  BY <1>1, RowKeepsValue
<1>3. DigitsOf(fact.number) \notin Unlisted \ Matched
  BY WordsAndDigits, NumeralsAssumption
<1> QED BY <1>1, <1>2, <1>3 DEF Recognised

LEMMA PresentIsRecognised ==
  ASSUME NEW here \in SUBSET Mention, NEW there \in SUBSET Mention,
         \A fact \in Facts(here) : FactIsPresent(fact, there)
  PROVE  Recognised(here) \subseteq Recognised(there)
<1> SUFFICES ASSUME NEW m \in here, NEW n \in Within(m.number),
                    DigitsOf(n) \notin Unlisted \ Matched
             PROVE  DigitsOf(n) \in Recognised(there)
  BY DEF Recognised
<1>1. m.number \in Forms
  BY DEF Mention, Forms
<1>2. \A k : Bare(k).number = k
  BY DEF Bare
<1>3. CASE n \in Words
  <2>1. Bare(n) \in Facts(here)
    BY <1>3 DEF Facts
  <2> QED BY <1>2, <1>3, <2>1, FactIsRecognised
<1>4. CASE n = m.number /\ n \in Unlisted
  <2>1. n \in Matched
    BY <1>4, WordsAndDigits
  <2>2. Bare(n) \in Facts(here)
    BY <1>4, <2>1 DEF Facts
  <2> QED BY <1>2, <2>1, <2>2, FactIsRecognised
<1>5. CASE m.number \in Numerals
  <2>1. PICK fact \in Facts(here) : fact.number = m.number
    <3>1. CASE m.label \notin Units
      <4>1. Bare(m.number) \in Facts(here)
        BY <1>5, <3>1 DEF Facts
      <4> QED BY <1>2, <4>1
    <3>2. CASE m.label \in Units
      <4>1. m \in Facts(here)
        BY <1>5, <3>2, NumeralsAssumption DEF Facts
      <4> QED BY <4>1
    <3> QED BY <3>1, <3>2
  <2>2. CASE n = m.number
    BY <1>5, <2>1, <2>2, FactIsRecognised
  <2>3. CASE n # m.number
    <3>1. Halves[m.number] # {}
      BY <1>1, <1>5, <2>3, WithinIsANumber, NumeralsAssumption
    <3>2. PICK other \in RowOf(m.number) : \E x \in there : other \in Within(x.number)
      BY <2>1 DEF FactIsPresent, Contains
    <3>3. PICK x \in there : other \in Within(x.number)
      BY <3>2
    <3>4. x.number \in Forms
      BY DEF Mention, Forms
    <3>5. x.number = m.number
      BY <1>5, <3>1, <3>2, <3>3, <3>4, DecimalsAreThemselves
    <3> QED BY <3>5 DEF Recognised
  <2> QED BY <2>2, <2>3
<1> QED BY <1>1, <1>3, <1>4, <1>5, WithinIsANumber DEF Forms

(* The normaliser takes the decimal commas from a text, and leaves their   *)
(* halves.                                                                 *)
LEMMA NormalisedMentions ==
  ASSUME NEW text \in SUBSET Mention PROVE Normalised(text) \in SUBSET Mention
<1> SUFFICES ASSUME NEW m \in Normalised(text) PROVE m \in Mention
  OBVIOUS
<1>1. CASE m \in text
  BY <1>1
<1>2. ASSUME NEW x \in text, x.number \in Commas, NEW h \in Halves[x.number], m = Bare(h)
      PROVE  m \in Mention
  <2>1. h \in Numerals
    BY <1>2, NumeralsAssumption
  <2> QED BY <1>2, <2>1 DEF Mention, Bare
<1> QED BY <1>1, <1>2 DEF Normalised

LEMMA NormalisedRecognised ==
  ASSUME NEW text \in SUBSET Mention
  PROVE  Recognised(Normalised(text)) = Recognised(text) \ Commas
<1>1. ASSUME NEW m \in Normalised(text), NEW n \in Within(m.number),
             DigitsOf(n) \notin Unlisted \ Matched
      PROVE  DigitsOf(n) \in Recognised(text) /\ DigitsOf(n) \notin Commas
  <2>1. CASE m \in text /\ m.number \notin Commas
    <3>1. m.number \in Forms
      BY <2>1 DEF Mention, Forms
    <3>2. n \in Words \/ n \in Unlisted \/ (n \in Numerals /\ n \notin Commas)
      BY <1>1, <2>1, <3>1, WithinIsANumber, NumeralsAssumption DEF Forms
    <3>3. DigitsOf(n) \notin Commas
      BY <3>2, WordsAndDigits, NumeralsAssumption
    <3> QED BY <1>1, <2>1, <3>3 DEF Recognised
  <2>2. ASSUME NEW x \in text, x.number \in Commas, NEW h \in Halves[x.number], m = Bare(h)
        PROVE  DigitsOf(n) \in Recognised(text) /\ DigitsOf(n) \notin Commas
    <3>1. h \in Numerals /\ Halves[h] = {} /\ h \in Within(x.number)
      BY <2>2, NumeralsAssumption DEF Within
    <3>2. n = h
      BY <1>1, <2>2, <3>1 DEF Within, Bare
    <3>3. DigitsOf(n) \notin Commas
      BY <3>1, <3>2, WordsAndDigits, NumeralsAssumption
    <3> QED BY <1>1, <2>2, <3>1, <3>2, <3>3 DEF Recognised
  <2> QED BY <2>1, <2>2 DEF Normalised
<1>2. ASSUME NEW m \in text, NEW n \in Within(m.number), DigitsOf(n) \notin Commas,
             DigitsOf(n) \notin Unlisted \ Matched
      PROVE  DigitsOf(n) \in Recognised(Normalised(text))
  <2>1. CASE m.number \notin Commas
    <3>1. m \in Normalised(text)
      BY <2>1 DEF Normalised
    <3> QED BY <1>2, <3>1 DEF Recognised
  <2>2. CASE m.number \in Commas
    <3>1. n \in Halves[m.number] /\ n \in Numerals
      BY <1>2, <2>2, NumeralsAssumption, WordsAndDigits DEF Within
    <3>2. Bare(n) \in Normalised(text)
      BY <2>2, <3>1 DEF Normalised
    <3>3. Bare(n).number = n /\ n \in Within(n)
      BY <3>1 DEF Bare, Within
    <3> QED BY <1>2, <3>2, <3>3 DEF Recognised
  <2> QED BY <2>1, <2>2
<1>3. Recognised(Normalised(text)) \subseteq Recognised(text) \ Commas
  BY <1>1 DEF Recognised
<1>4. Recognised(text) \ Commas \subseteq Recognised(Normalised(text))
  <2> SUFFICES ASSUME NEW d \in Recognised(text), d \notin Commas
               PROVE  d \in Recognised(Normalised(text))
    OBVIOUS
  <2>1. /\ d \notin Unlisted \ Matched
        /\ \E m \in text : \E n \in Within(m.number) : d = DigitsOf(n)
    BY DEF Recognised
  <2> QED BY <1>2, <2>1
<1> QED BY <1>3, <1>4

(* An email that passes has the recognised numbers of its transcript.      *)
LEMMA ValidKeepsRecognised ==
  ASSUME NEW text \in SUBSET Mention, NEW email \in Email, Valid(Normalised(text), email)
  PROVE  KeepsRecognised(text, email)
<1> PICK said : said = Normalised(text)
  OBVIOUS
<1> PICK all : all = email.subject \cup email.body
  OBVIOUS
<1>1. said \in SUBSET Mention /\ Recognised(said) = Recognised(text) \ Commas
  BY NormalisedMentions, NormalisedRecognised
<1>2. /\ email.body \in SUBSET Mention /\ email.subject \in SUBSET Mention
      /\ all \in SUBSET Mention
  BY DEF Email
<1>3. Recognised(said) \subseteq Recognised(email.body)
  <2>1. \A fact \in Facts(said) : FactIsPresent(fact, email.body)
    BY DEF Valid, MissingFacts
  <2> QED BY <1>1, <1>2, <2>1, PresentIsRecognised
<1>4. Recognised(all) \subseteq Recognised(said)
  <2>1. \A fact \in Facts(all) : FactIsPresent(fact, said)
    BY DEF Valid, UnsupportedFacts
  <2> QED BY <1>1, <1>2, <2>1, PresentIsRecognised
<1>5. Recognised(email.body) \subseteq Recognised(all) /\ Recognised(email.subject) \subseteq Recognised(all)
  BY DEF Recognised
<1> QED BY <1>1, <1>3, <1>4, <1>5 DEF KeepsRecognised

(* A step of a request answers nothing that is completed, keeps what it    *)
(* was answered, or hands on an email that has passed.                     *)
LEMMA CompletedKept ==
  ASSUME HealthInv, CompletedKeepsRecognised, NEW r \in Requests, NEW m,
         req' = [req EXCEPT ![r] = m],
         m.answer = "completed" => KeepsRecognised(Transcript[r], m.email)
  PROVE  CompletedKeepsRecognised'
BY DEF CompletedKeepsRecognised, HealthInv, HealthOK

LEMMA AnswerNotCompleted ==
  ASSUME HealthInv, CompletedKeepsRecognised, NEW r \in Requests, NEW a, a # "completed",
         req' = [req EXCEPT ![r] = Answered(a)]
  PROVE  CompletedKeepsRecognised'
<1> PICK m : m = Answered(a)
  OBVIOUS
<1>1. m.answer # "completed"
  BY DEF Answered, Fresh
<1> QED BY <1>1, CompletedKept

LEMMA SearchCompletes ==
  ASSUME HealthInv, CompletedKeepsRecognised, NEW r \in Requests, NEW m, NEW circuits,
         DOMAIN m = Fields, m.answer = req[r].answer, m.email = req[r].email,
         Search(r, m, circuits)
  PROVE  CompletedKeepsRecognised'
<1>1. CASE req' = [req EXCEPT ![r] = GiveUp(m)]
  <2> DEFINE a == CASE m.reasons = {"timeout"} -> "AI_PROVIDER_TIMEOUT"
                    [] m.reasons = {"invalid"} -> "INVALID_AI_RESPONSE"
                    [] OTHER -> "NO_AI_PROVIDER_AVAILABLE"
  <2>1. a # "completed"
    OBVIOUS
  <2>2. GiveUp(m) = Answered(a)
    BY DEF GiveUp
  <2> HIDE DEF a
  <2> QED BY <1>1, <2>1, <2>2, AnswerNotCompleted
<1>2. ASSUME NEW o, req' = [req EXCEPT ![r] = Call(m, o)] PROVE CompletedKeepsRecognised'
  <2> PICK n : n = Call(m, o)
    OBVIOUS
  <2>1. n.answer = req[r].answer /\ n.email = req[r].email
    BY DEF Call, Fields, Fresh
  <2> QED BY <1>2, <2>1, CompletedKept DEF CompletedKeepsRecognised
<1> QED BY <1>1, <1>2 DEF Search

LEMMA NextCompletes ==
  HealthInv /\ CompletedKeepsRecognised /\ [Next]_vars => CompletedKeepsRecognised'
<1> SUFFICES ASSUME HealthInv, CompletedKeepsRecognised, [Next]_vars
             PROVE  CompletedKeepsRecognised'
  OBVIOUS
<1>1. CASE UNCHANGED vars \/ Tick
  BY <1>1 DEF vars, Tick, CompletedKeepsRecognised
<1>2. ASSUME NEW r \in Requests, Arrive(r) PROVE CompletedKeepsRecognised'
  <2>0. PICK list \in Available :
          \/ req' = [req EXCEPT ![r] = Answered("NO_AI_PROVIDER_AVAILABLE")]
          \/ req' = [req EXCEPT ![r] =
                [[req[r] EXCEPT !.list = list,
                    !.began = IF In(r, "idle") THEN now ELSE @]
                   EXCEPT !.phase = "routing", !.start = counter % Len(list)]]
    BY <1>2 DEF Arrive
  <2>1. PICK m : m = [req[r] EXCEPT !.list = list,
                        !.began = IF In(r, "idle") THEN now ELSE @]
    OBVIOUS
  <2>2. CASE req' = [req EXCEPT ![r] = Answered("NO_AI_PROVIDER_AVAILABLE")]
    BY <2>2, AnswerNotCompleted
  <2>3. CASE req' = [req EXCEPT ![r] =
               [m EXCEPT !.phase = "routing", !.start = counter % Len(list)]]
    <3> PICK n : n = [m EXCEPT !.phase = "routing", !.start = counter % Len(list)]
      OBVIOUS
    <3>1. n.answer = req[r].answer /\ n.email = req[r].email
      BY <2>1 DEF HealthInv, HealthOK, Fields, Fresh
    <3> QED BY <2>3, <3>1, CompletedKept DEF CompletedKeepsRecognised
  <2> QED BY <2>0, <2>1, <2>2, <2>3
<1>3. ASSUME NEW r \in Requests, Route(r) PROVE CompletedKeepsRecognised'
  BY <1>3, SearchCompletes DEF Route, HealthInv, HealthOK
<1>4. ASSUME NEW r \in Requests, Succeed(r) PROVE CompletedKeepsRecognised'
  <2>1. PICK email \in Drafts : req' = [req EXCEPT ![r] = Validated(r, req[r], email)]
    BY <1>4 DEF Succeed
  <2> PICK v : v = Validated(r, req[r], email)
    OBVIOUS
  <2>2. Transcript[r] \in SUBSET Mention /\ email \in Email
    BY TextsAssumption
  <2>3. v.answer = "completed" => KeepsRecognised(Transcript[r], v.email)
    BY <2>2, ValidatedFields, ValidKeepsRecognised
  <2> QED BY <2>1, <2>3, CompletedKept
<1>5. ASSUME NEW r \in Requests, Refuse(r) PROVE CompletedKeepsRecognised'
  BY <1>5, AnswerNotCompleted DEF Refuse
<1>6. ASSUME NEW r \in Requests, NEW error, Fail(r, error) PROVE CompletedKeepsRecognised'
  <2> PICK m : m = [req[r] EXCEPT !.reasons = @ \cup {error}]
    OBVIOUS
  <2>1. DOMAIN m = Fields /\ m.answer = req[r].answer /\ m.email = req[r].email
    BY DEF HealthInv, HealthOK, Fields, Fresh
  <2>2. Search(r, m, Opened(req[r].provider))
    BY <1>6 DEF Fail
  <2> QED BY <2>1, <2>2, SearchCompletes
<1> QED BY <1>1, <1>2, <1>3, <1>4, <1>5, <1>6 DEF Next, Proceed, TimeOut

(* Every email that is handed on has the numbers of its transcript that    *)
(* the check recognises and no others that it would, for any transcripts   *)
(* and whatever emails the providers write.  Of the numbers it does not    *)
(* recognise nothing is claimed.                                           *)
THEOREM CompletedEmailsKeepRecognisedNumbers == Spec => []CompletedKeepsRecognised
<1>1. Init => CompletedKeepsRecognised
  BY DEF Init, CompletedKeepsRecognised, Fresh
<1>2. HealthInv /\ CompletedKeepsRecognised /\ [Next]_vars => CompletedKeepsRecognised'
  BY NextCompletes
<1> QED BY <1>1, <1>2, Health, PTL DEF Spec
-----------------------------------------------------------------------------
(* What a request holds: the list it read, and its place in it.            *)
LEMMA ProvidersFinite ==
  /\ IsFiniteSet(Providers) /\ Order[1] \in Providers
<1>1. Order \in Seq({Order[i] : i \in DOMAIN Order}) /\ Order # <<>>
  BY OrderAssumption
<1>2. DOMAIN Order = 1..Len(Order) /\ Len(Order) \in Nat /\ 1 \in DOMAIN Order
  BY <1>1
<1>3. IsFiniteSet(DOMAIN Order)
  BY <1>2, FS_Interval
<1>4. Order \in Surjection(DOMAIN Order, Providers)
  <2>1. Order \in [1..Len(Order) -> Providers]
    BY <1>1 DEF Providers
  <2> QED BY <1>2, <2>1 DEF Surjection, Providers
<1>5. IsFiniteSet(Providers)
  BY <1>3, <1>4, FS_Surjection
<1> QED BY <1>2, <1>5 DEF Providers

LEMMA AvailableType ==
  ASSUME NEW list \in Available
  PROVE  list \in Seq(Providers)
<1> PICK usable : usable = Providers \ invalid
  OBVIOUS
<1>1. Cardinality(usable) \in Nat
  BY ProvidersFinite, FS_Difference, FS_CardinalityType
<1>2. PICK n \in Nat : list \in [1 .. n -> Providers]
  BY <1>1 DEF Available
<1> QED BY <1>2

LEMMA FreshType == Fresh \in Request /\ \A a \in Answers : Answered(a) \in Request
<1>1. <<>> \in Seq(Providers) /\ Order[1] \in Providers
  BY ProvidersFinite
<1>2. NoEmail \in Email /\ "none" \in Answers
  BY DEF NoEmail, Email, Answers
<1> QED BY <1>1, <1>2 DEF Fresh, Answered, Request

LEMMA ValidatedType ==
  ASSUME NEW r \in Requests, NEW m \in Request, NEW email \in Drafts
  PROVE  Validated(r, m, email) \in Request
<1>1. email \in Email /\ m.began \in Nat
  BY TextsAssumption DEF Request
<1>2. [Answered("completed") EXCEPT !.email = email] \in Request
  BY <1>1, FreshType DEF Request, Answers
<1>3. [Fresh EXCEPT !.phase = "arriving", !.mode = "repair", !.began = m.began] \in Request
  BY <1>1, FreshType DEF Request
<1>4. Answered("draft_invalid") \in Request
  BY FreshType DEF Answers
<1> QED BY <1>2, <1>3, <1>4 DEF Validated

LEMMA ProviderAtType ==
  ASSUME NEW m \in Request, NEW o \in m.offset .. Len(m.list) - 1
  PROVE  ProviderAt(m, o) \in Providers
<1>1. m.list \in Seq(Providers) /\ m.offset \in Nat /\ m.start \in Nat
  BY DEF Request
<1>2. Len(m.list) \in Nat \ {0} /\ m.start + o \in Nat
  BY <1>1
<1>3. (m.start + o) % Len(m.list) \in 0 .. Len(m.list) - 1
  BY <1>2
<1> QED BY <1>1, <1>2, <1>3 DEF ProviderAt

LEMMA CallType ==
  ASSUME NEW m \in Request, NEW o \in m.offset .. Len(m.list) - 1, now \in Nat
  PROVE  Call(m, o) \in Request
<1>1. ProviderAt(m, o) \in Providers
  BY ProviderAtType
<1>2. o + 1 \in Nat /\ m.attempts + 1 \in Nat
  BY DEF Request
<1> QED BY <1>1, <1>2 DEF Call, Request

LEMMA SearchType ==
  ASSUME req \in [Requests -> Request], now \in Nat,
         NEW r \in Requests, NEW m \in Request,
         NEW circuits \in [Providers -> Nat], Search(r, m, circuits)
  PROVE  req' \in [Requests -> Request] /\ openUntil' \in [Providers -> Nat]
<1>1. CASE req' = [req EXCEPT ![r] = GiveUp(m)] /\ openUntil' = circuits
  <2>1. GiveUp(m) \in Request
    BY FreshType DEF GiveUp, Answers
  <2> QED BY <1>1, <2>1
<1>2. ASSUME NEW o \in Callable(m), req' = [req EXCEPT ![r] = Call(m, o)],
             openUntil' = [circuits EXCEPT ![ProviderAt(m, o)] = Never]
      PROVE  req' \in [Requests -> Request] /\ openUntil' \in [Providers -> Nat]
  <2>1. o \in m.offset .. Len(m.list) - 1
    BY DEF Callable
  <2>2. Call(m, o) \in Request
    BY <2>1, CallType
  <2> QED BY <1>2, <2>2 DEF Never
<1> QED BY <1>1, <1>2 DEF Search

LEMMA ArriveType ==
  ASSUME TypeOK, NEW r \in Requests, Arrive(r) PROVE TypeOK'
<1>0. /\ req \in [Requests -> Request] /\ now \in Nat /\ counter \in Nat
      /\ UNCHANGED <<now, fails, openUntil, invalid>>
  BY LimitsAssumption DEF TypeOK, Arrive
<1>1. PICK list \in Available :
        \/ /\ req' = [req EXCEPT ![r] = Answered("NO_AI_PROVIDER_AVAILABLE")]
           /\ counter' = counter
        \/ /\ Len(list) # 0 /\ counter' = NextCount
           /\ req' = [req EXCEPT ![r] =
                [[req[r] EXCEPT !.list = list,
                    !.began = IF In(r, "idle") THEN now ELSE @]
                   EXCEPT !.phase = "routing", !.start = counter % Len(list)]]
  BY DEF Arrive
<1>2. list \in Seq(Providers)
  BY AvailableType
<1>3. CASE /\ req' = [req EXCEPT ![r] = Answered("NO_AI_PROVIDER_AVAILABLE")]
           /\ counter' = counter
  <2>1. Answered("NO_AI_PROVIDER_AVAILABLE") \in Request
    BY FreshType DEF Answers
  <2>2. req' \in [Requests -> Request]
    BY <1>0, <1>3, <2>1
  <2> QED BY <1>0, <1>3, <2>2 DEF TypeOK
<1>4. CASE /\ Len(list) # 0 /\ counter' = NextCount
           /\ req' = [req EXCEPT ![r] =
                [[req[r] EXCEPT !.list = list,
                    !.began = IF In(r, "idle") THEN now ELSE @]
                   EXCEPT !.phase = "routing", !.start = counter % Len(list)]]
  <2>1. PICK start : start = counter % Len(list)
    OBVIOUS
  <2>2. Len(list) \in Nat \ {0}
    BY <1>2, <1>4
  <2>3. start \in Nat
    BY <1>0, <2>1, <2>2
  <2>4. PICK n : n = [[req[r] EXCEPT !.list = list,
                         !.began = IF In(r, "idle") THEN now ELSE @]
                        EXCEPT !.phase = "routing", !.start = start]
    OBVIOUS
  <2>5. n \in Request
    BY <1>0, <1>2, <2>3, <2>4 DEF Request
  <2>6. req' \in [Requests -> Request]
    BY <1>0, <1>4, <2>1, <2>4, <2>5
  <2>7. counter' \in 0 .. Wrap - 1
    BY <1>0, <1>4, LimitsAssumption DEF NextCount
  <2> QED BY <1>0, <2>6, <2>7 DEF TypeOK
<1> QED BY <1>1, <1>3, <1>4

LEMMA FailType ==
  ASSUME TypeOK, NEW r \in Requests, NEW error \in Errors, Fail(r, error) PROVE TypeOK'
<1>1. /\ req \in [Requests -> Request] /\ now \in Nat /\ fails \in [Providers -> Nat]
      /\ openUntil \in [Providers -> Nat] /\ invalid \subseteq Providers
      /\ counter \in 0 .. Wrap - 1
  BY DEF TypeOK
<1> PICK p, m : p = req[r].provider /\ m = [req[r] EXCEPT !.reasons = @ \cup {error}]
  OBVIOUS
<1>2. p \in Providers /\ m \in Request
  BY <1>1 DEF Request
<1>3. RegisterFailure(p, error) /\ Search(r, m, Opened(p)) /\ UNCHANGED <<now, counter>>
  BY DEF Fail
<1>4. Opened(p) \in [Providers -> Nat]
  BY <1>1, <1>2, LimitsAssumption DEF Opened
<1>5. req' \in [Requests -> Request] /\ openUntil' \in [Providers -> Nat]
  BY <1>1, <1>2, <1>3, <1>4, SearchType
<1>6. fails' \in [Providers -> Nat] /\ invalid' \subseteq Providers
  BY <1>1, <1>2, <1>3 DEF RegisterFailure
<1> QED BY <1>1, <1>3, <1>5, <1>6 DEF TypeOK

(* A timeout is an error for which a request turns to another provider.    *)
LEMMA TimeoutIsAnError == "timeout" \in Errors
<1>1. Kind("aborted") = "timeout"
  BY DEF Kind
<1>2. Reason("aborted") = "timeout" /\ IsFailoverEligible("aborted")
  BY <1>1 DEF Reason, IsFailoverEligible
<1>3. "aborted" \in Failures
  BY DEF Failures
<1> QED BY <1>2, <1>3 DEF Errors

LEMMA TypeStep == TypeOK /\ [Next]_vars => TypeOK'
<1> SUFFICES ASSUME TypeOK, [Next]_vars PROVE TypeOK'
  OBVIOUS
<1>1. /\ req \in [Requests -> Request] /\ now \in Nat /\ fails \in [Providers -> Nat]
      /\ openUntil \in [Providers -> Nat] /\ invalid \subseteq Providers
      /\ counter \in 0 .. Wrap - 1
  BY DEF TypeOK
<1>2. CASE UNCHANGED vars \/ Tick
  BY <1>1, <1>2 DEF vars, Tick, TypeOK
<1>3. ASSUME NEW r \in Requests, Arrive(r) PROVE TypeOK'
  BY <1>3, ArriveType
<1>4. ASSUME NEW r \in Requests, Route(r) PROVE TypeOK'
  <2>1. req[r] \in Request /\ Search(r, req[r], openUntil)
        /\ UNCHANGED <<now, counter, fails, invalid>>
    BY <1>1, <1>4 DEF Route
  <2> QED BY <1>1, <2>1, SearchType DEF TypeOK
<1>5. ASSUME NEW r \in Requests, Succeed(r) PROVE TypeOK'
  <2>1. PICK email \in Drafts : req' = [req EXCEPT ![r] = Validated(r, req[r], email)]
    BY <1>5 DEF Succeed
  <2>2. Validated(r, req[r], email) \in Request /\ req[r].provider \in Providers
    BY <1>1, ValidatedType DEF Request
  <2>3. req' \in [Requests -> Request]
    BY <1>1, <2>1, <2>2
  <2>4. fails' \in [Providers -> Nat] /\ openUntil' \in [Providers -> Nat]
        /\ UNCHANGED <<now, counter, invalid>>
    BY <1>1, <1>5, <2>2 DEF Succeed, RegisterSuccess, Never
  <2> QED BY <1>1, <2>3, <2>4 DEF TypeOK
<1>6. ASSUME NEW r \in Requests, Refuse(r) PROVE TypeOK'
  <2>1. Answered("EMAIL_GENERATION_FAILED") \in Request
    BY FreshType DEF Answers
  <2>2. req' \in [Requests -> Request] /\ UNCHANGED <<now, counter, fails, openUntil, invalid>>
    BY <1>1, <1>6, <2>1 DEF Refuse
  <2> QED BY <1>1, <2>2 DEF TypeOK
<1>7. ASSUME NEW r \in Requests, TimeOut(r) PROVE TypeOK'
  BY <1>7, FailType, TimeoutIsAnError DEF TimeOut
<1>8. ASSUME NEW r \in Requests, NEW error \in Errors, Fail(r, error) PROVE TypeOK'
  BY <1>8, FailType
<1> QED BY <1>2, <1>3, <1>4, <1>5, <1>6, <1>7, <1>8 DEF Next, Proceed

(* The variables range over the values their names say: a request holds a  *)
(* list of providers, and waits for one of them.                           *)
THEOREM TypeCorrect == Spec => []TypeOK
<1>1. Init => TypeOK
  <2>1. Init => req \in [Requests -> Request]
    BY FreshType DEF Init
  <2> QED BY <2>1, LimitsAssumption DEF Init, TypeOK, Never
<1> QED BY <1>1, TypeStep, PTL DEF Spec
-----------------------------------------------------------------------------
(* When a request is due: every call it has made may have taken a timeout, *)
(* and a repair comes after a search of MaxAttempts calls at most.         *)
CallsBefore(m) == IF m.mode = "repair" THEN MaxAttempts ELSE 0
Due(m) == m.began + (CallsBefore(m) + m.attempts) * Timeout

InTime(m) ==
  /\ m.phase \in {"idle", "arriving", "routing"} => m.attempts = 0
  /\ m.phase \in {"arriving", "routing"} => now <= Due(m)
  /\ m.phase = "calling" =>
       /\ m.attempts \in 1..MaxAttempts
       /\ now <= m.since + Timeout /\ m.since + Timeout <= Due(m)

TimeInv == \A r \in Requests : InTime(req[r])

LEMMA Timeouts ==
  ASSUME NEW n \in Nat
  PROVE  /\ n * Timeout \in Nat /\ (n + 1) * Timeout = n * Timeout + Timeout
         /\ \A k \in Nat : n <= k => n * Timeout <= k * Timeout
<1>1. Timeout \in Nat
  BY LimitsAssumption
<1>2. n * Timeout \in Nat /\ (n + 1) * Timeout = n * Timeout + Timeout
  BY <1>1
<1>3. ASSUME NEW k \in Nat, n <= k PROVE n * Timeout <= k * Timeout
  <2>1. PICK d \in Nat : k = n + d
    <3>1. k - n \in Nat /\ k = n + (k - n)
      BY <1>3
    <3> QED BY <3>1
  <2>2. k * Timeout = n * Timeout + d * Timeout /\ d * Timeout \in Nat
    BY <1>1, <2>1
  <2> QED BY <1>2, <2>2
<1> QED BY <1>2, <1>3

LEMMA DueType ==
  ASSUME NEW m \in Request
  PROVE  /\ Due(m) \in Nat /\ m.began <= Due(m)
         /\ m.attempts \in Nat /\ m.since \in Nat /\ m.began \in Nat
<1>1. CallsBefore(m) + m.attempts \in Nat /\ m.began \in Nat
      /\ m.attempts \in Nat /\ m.since \in Nat
  BY LimitsAssumption DEF CallsBefore, Request
<1> PICK n \in Nat : n = CallsBefore(m) + m.attempts
  BY <1>1
<1>2. n * Timeout \in Nat /\ Due(m) = m.began + n * Timeout
  BY Timeouts DEF Due
<1> QED BY <1>1, <1>2

LEMMA OneMoves ==
  ASSUME TypeOK, TimeInv, NEW r \in Requests, NEW m, InTime(m),
         req' = [req EXCEPT ![r] = m], now' = now
  PROVE  TimeInv'
BY DEF TypeOK, TimeInv, InTime, Due, CallsBefore

LEMMA AnsweredInTimeAnyway == ASSUME NEW a PROVE InTime(Answered(a))
BY DEF InTime, Answered, Fresh

(* A search that has not called more than it may calls once more, or gives *)
(* up.                                                                     *)
LEMMA SearchInTime ==
  ASSUME TypeOK, TimeInv, NEW r \in Requests, NEW m \in Request,
         now <= Due(m), now' = now, NEW circuits, Search(r, m, circuits)
  PROVE  TimeInv'
<1>1. CASE req' = [req EXCEPT ![r] = GiveUp(m)]
  BY <1>1, AnsweredInTimeAnyway, OneMoves DEF GiveUp
<1>2. ASSUME m.attempts < AttemptLimit(m), NEW o \in Callable(m),
             req' = [req EXCEPT ![r] = Call(m, o)]
      PROVE  TimeInv'
  <2> PICK n : n = Call(m, o)
    OBVIOUS
  <2>1. /\ n.phase = "calling" /\ n.attempts = m.attempts + 1 /\ n.since = now
        /\ n.began = m.began /\ n.mode = m.mode
    BY DEF Call, Request
  <2>2. /\ m.attempts \in Nat /\ now \in Nat /\ Timeout \in Nat \ {0}
        /\ MaxAttempts \in Nat \ {0} /\ m.list \in Seq(Providers)
    BY LimitsAssumption DEF Request, TypeOK
  <2>3. n.attempts \in 1..MaxAttempts
    BY <1>2, <2>1, <2>2 DEF AttemptLimit, Smaller
  <2>4. Due(n) = Due(m) + Timeout
    <3> PICK before : before = CallsBefore(m)
      OBVIOUS
    <3>1. before \in Nat /\ before = CallsBefore(n) /\ m.began \in Nat
      BY <2>1, <2>2 DEF CallsBefore, Request
    <3>2. before + n.attempts = (before + m.attempts) + 1 /\ before + m.attempts \in Nat
      BY <2>1, <2>2, <3>1
    <3>3. /\ (before + n.attempts) * Timeout = (before + m.attempts) * Timeout + Timeout
          /\ (before + m.attempts) * Timeout \in Nat
      BY <3>2, Timeouts
    <3> QED BY <2>1, <2>2, <3>1, <3>3 DEF Due
  <2>5. InTime(n)
    BY <2>1, <2>2, <2>3, <2>4, DueType DEF InTime
  <2> QED BY <1>2, <2>5, OneMoves
<1> QED BY <1>1, <1>2 DEF Search

LEMMA ArriveInTime ==
  ASSUME TypeOK, TimeInv, NEW r \in Requests, Arrive(r) PROVE TimeInv'
<1>0. req[r] \in Request /\ now \in Nat /\ now' = now /\ InTime(req[r])
  BY DEF TypeOK, TimeInv, Arrive
<1>1. PICK list \in Available :
        \/ req' = [req EXCEPT ![r] = Answered("NO_AI_PROVIDER_AVAILABLE")]
        \/ req' = [req EXCEPT ![r] =
              [[req[r] EXCEPT !.list = list,
                  !.began = IF In(r, "idle") THEN now ELSE @]
                 EXCEPT !.phase = "routing", !.start = counter % Len(list)]]
  BY DEF Arrive
<1>2. CASE req' = [req EXCEPT ![r] = Answered("NO_AI_PROVIDER_AVAILABLE")]
  BY <1>0, <1>2, AnsweredInTimeAnyway, OneMoves
<1>3. CASE req' = [req EXCEPT ![r] =
             [[req[r] EXCEPT !.list = list,
                 !.began = IF In(r, "idle") THEN now ELSE @]
                EXCEPT !.phase = "routing", !.start = counter % Len(list)]]
  <2> PICK start : start = counter % Len(list)
    OBVIOUS
  <2> PICK n : n = [[req[r] EXCEPT !.list = list,
                       !.began = IF In(r, "idle") THEN now ELSE @]
                      EXCEPT !.phase = "routing", !.start = start]
    OBVIOUS
  <2>1. /\ n.phase = "routing" /\ n.attempts = req[r].attempts /\ n.mode = req[r].mode
        /\ n.began = IF In(r, "idle") THEN now ELSE req[r].began
    BY <1>0 DEF Request
  <2>2. req[r].phase \in {"idle", "arriving"}
    BY DEF Arrive, In
  <2>3. n.attempts = 0
    BY <1>0, <2>1, <2>2 DEF InTime
  <2>4. now <= Due(n)
    <3>1. CASE In(r, "idle")
      <4>1. n.began = now /\ CallsBefore(n) + n.attempts \in Nat
        BY <2>1, <2>3, <3>1, LimitsAssumption DEF CallsBefore
      <4> QED BY <1>0, <4>1, Timeouts DEF Due
    <3>2. CASE ~In(r, "idle")
      <4>1. Due(n) = Due(req[r])
        BY <2>1, <3>2 DEF Due, CallsBefore
      <4> QED BY <1>0, <2>2, <3>2, <4>1 DEF InTime, In
    <3> QED BY <3>1, <3>2
  <2>5. InTime(n)
    BY <2>1, <2>3, <2>4 DEF InTime
  <2> QED BY <1>0, <1>3, <2>5, OneMoves
<1> QED BY <1>1, <1>2, <1>3

(* A call is over before its timer has been due for long: what comes next  *)
(* is in time.                                                             *)
LEMMA CallInTime ==
  ASSUME TypeOK, TimeInv, NEW r \in Requests, In(r, "calling")
  PROVE  now <= Due(req[r]) /\ req[r].attempts \in 1..MaxAttempts
<1>1. req[r] \in Request /\ now \in Nat /\ Timeout \in Nat
  BY LimitsAssumption DEF TypeOK
<1>2. now <= req[r].since + Timeout /\ req[r].since + Timeout <= Due(req[r])
      /\ req[r].attempts \in 1..MaxAttempts
  BY DEF TimeInv, InTime, In
<1> QED BY <1>1, <1>2, DueType

LEMMA SucceedInTime ==
  ASSUME TypeOK, TimeInv, NEW r \in Requests, Succeed(r) PROVE TimeInv'
<1>1. PICK email \in Drafts : req' = [req EXCEPT ![r] = Validated(r, req[r], email)]
  BY DEF Succeed
<1>2. req[r] \in Request /\ now \in Nat /\ now' = now /\ In(r, "calling")
  BY DEF TypeOK, Succeed
<1> PICK v : v = Validated(r, req[r], email)
  OBVIOUS
<1>3. CASE v.phase = "answered"
  BY <1>1, <1>2, <1>3, OneMoves DEF InTime
<1>4. CASE /\ req[r].mode = "generation"
           /\ v = [Fresh EXCEPT !.phase = "arriving", !.mode = "repair",
                                !.began = req[r].began]
  <2>1. /\ v.phase = "arriving" /\ v.mode = "repair" /\ v.began = req[r].began
        /\ v.attempts = 0
    BY <1>4 DEF Fresh
  <2>2. req[r].attempts \in Nat /\ req[r].attempts <= MaxAttempts /\ MaxAttempts \in Nat
    BY <1>2, CallInTime, LimitsAssumption
  <2>3. /\ req[r].attempts * Timeout <= MaxAttempts * Timeout
        /\ req[r].attempts * Timeout \in Nat /\ MaxAttempts * Timeout \in Nat
    BY <2>2, Timeouts
  <2>4. 0 + req[r].attempts = req[r].attempts /\ MaxAttempts + 0 = MaxAttempts
    BY <2>2
  <2>5. /\ Due(req[r]) = req[r].began + req[r].attempts * Timeout
        /\ Due(v) = req[r].began + MaxAttempts * Timeout
    BY <1>4, <2>1, <2>4 DEF Due, CallsBefore
  <2>6. now <= Due(v)
    BY <1>2, <2>3, <2>5, CallInTime, DueType
  <2>7. InTime(v)
    BY <2>1, <2>6 DEF InTime
  <2> QED BY <1>1, <1>2, <2>7, OneMoves
<1>5. \/ v.phase = "answered"
      \/ /\ req[r].mode = "generation"
         /\ v = [Fresh EXCEPT !.phase = "arriving", !.mode = "repair",
                              !.began = req[r].began]
  BY DEF Validated, Answered, Fresh
<1> QED BY <1>3, <1>4, <1>5

LEMMA TimeStep == TypeOK /\ TimeInv /\ [Next]_vars => TimeInv'
<1> SUFFICES ASSUME TypeOK, TimeInv, [Next]_vars PROVE TimeInv'
  OBVIOUS
<1>1. req \in [Requests -> Request] /\ now \in Nat /\ Timeout \in Nat
  BY LimitsAssumption DEF TypeOK
<1>2. CASE UNCHANGED vars
  BY <1>2 DEF vars, TimeInv, InTime, Due, CallsBefore
<1>3. CASE Tick
  <2> SUFFICES ASSUME NEW r \in Requests PROVE InTime(req[r])'
    BY DEF TimeInv
  <2>1. InTime(req[r]) /\ req[r] \in Request /\ req' = req /\ now' = now + 1
    BY <1>1, <1>3 DEF Tick, TimeInv
  <2>2. /\ req[r].phase \notin {"arriving", "routing"}
        /\ req[r].phase = "calling" => now < req[r].since + Timeout
    BY <1>3 DEF Tick, NothingDue, In
  <2>3. req[r].since \in Nat
    BY <2>1, DueType
  <2> QED BY <1>1, <2>1, <2>2, <2>3 DEF InTime, Due, CallsBefore
<1>4. ASSUME NEW r \in Requests, Route(r) PROVE TimeInv'
  <2>1. req[r] \in Request /\ Search(r, req[r], openUntil) /\ now' = now
        /\ now <= Due(req[r])
    BY <1>1, <1>4 DEF Route, TimeInv, InTime, In
  <2> QED BY <2>1, SearchInTime
<1>5. ASSUME NEW r \in Requests, Refuse(r) PROVE TimeInv'
  BY <1>5, AnsweredInTimeAnyway, OneMoves DEF Refuse
<1>6. ASSUME NEW r \in Requests, NEW error \in Errors, Fail(r, error) PROVE TimeInv'
  <2> PICK p, m : p = req[r].provider /\ m = [req[r] EXCEPT !.reasons = @ \cup {error}]
    OBVIOUS
  <2>1. m \in Request /\ Due(m) = Due(req[r])
    BY <1>1 DEF Request, Due, CallsBefore
  <2>2. Search(r, m, Opened(p)) /\ now' = now /\ In(r, "calling")
    BY <1>6 DEF Fail
  <2> QED BY <2>1, <2>2, CallInTime, SearchInTime
<1>7. ASSUME NEW r \in Requests, TimeOut(r) PROVE TimeInv'
  BY <1>6, <1>7, TimeoutIsAnError DEF TimeOut
<1> QED BY <1>2, <1>3, <1>4, <1>5, <1>6, <1>7, ArriveInTime, SucceedInTime DEF Next, Proceed

(* Time does not pass the moment two searches take, for any numbers of     *)
(* providers and attempts and any timeout, whatever the providers do.      *)
THEOREM RequestsAnsweredInTime == Spec => []AnsweredInTime
<1>1. Init => TimeInv
  BY DEF Init, TimeInv, InTime, Fresh
<1>2. TypeOK /\ TimeInv => AnsweredInTime
  <2> SUFFICES ASSUME TypeOK, TimeInv, NEW r \in Requests,
                      req[r].phase \notin {"idle", "answered"}
               PROVE  now <= req[r].began + 2 * MaxAttempts * Timeout
    BY DEF AnsweredInTime
  <2> PICK m : m = req[r]
    OBVIOUS
  <2>1. m \in Request /\ InTime(m) /\ now \in Nat /\ MaxAttempts \in Nat \ {0}
    BY LimitsAssumption DEF TypeOK, TimeInv
  <2>2. m.phase \in {"arriving", "routing", "calling"}
    BY <2>1 DEF Request
  <2>3. m.attempts \in 0..MaxAttempts /\ now <= Due(m)
    BY <2>1, <2>2, CallInTime DEF InTime, In
  <2>4. CallsBefore(m) + m.attempts \in Nat /\ 2 * MaxAttempts \in Nat
        /\ CallsBefore(m) + m.attempts <= 2 * MaxAttempts
    BY <2>1, <2>3 DEF CallsBefore
  <2>5. (CallsBefore(m) + m.attempts) * Timeout <= (2 * MaxAttempts) * Timeout
        /\ (CallsBefore(m) + m.attempts) * Timeout \in Nat
        /\ (2 * MaxAttempts) * Timeout \in Nat
    BY <2>4, Timeouts
  <2> QED BY <2>1, <2>3, <2>5, DueType DEF Due
<1> QED BY <1>1, <1>2, TypeStep, TimeStep, TypeCorrect, PTL DEF Spec
=============================================================================
