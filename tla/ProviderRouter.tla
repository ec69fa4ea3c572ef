---------------------------- MODULE ProviderRouter ----------------------------
(***************************************************************************)
(* AiOrchestratorService.compose over AiProviderRouterService: concurrent  *)
(* requests that look for a provider able to write an email, and the       *)
(* circuit breaker they share.  A request asks the router for an email     *)
(* and, when the email does not pass validation, asks it once more for a   *)
(* repair.  Code between two awaits is one step, since Node runs it alone; *)
(* requests interleave at the await of the round-robin counter and at the  *)
(* call of a provider.                                                     *)
(*                                                                         *)
(* A transcript is never empty here: an empty one is refused before any    *)
(* state is read.  What the providers answer is left open; whether an      *)
(* email they write is handed on is decided by EmailValidation.  Where     *)
(* liveness is checked, MaxTime leaves a request that comes at LastArrival *)
(* the time to finish.                                                     *)
(***************************************************************************)
EXTENDS EmailValidation, FiniteSets

CONSTANTS
  Order,        \* the configured providers, in the order of AI_PROVIDER_ORDER
  Requests,     \* compose requests, each made once
  MaxAttempts,  \* AI_PROVIDER_MAX_ATTEMPTS
  Threshold,    \* AI_CIRCUIT_BREAKER_FAILURE_THRESHOLD
  Cooldown,     \* AI_CIRCUIT_BREAKER_COOLDOWN_MS
  Timeout,      \* AI_PROVIDER_TIMEOUT_MS
  Wrap,         \* Number.MAX_SAFE_INTEGER, where the counter starts over
  Transcript,   \* what was said in each request
  Drafts,       \* the emails that providers may write
  LastArrival,  \* the bound on when a request may come
  MaxTime       \* the bound on the clock

(* onModuleInit refuses to start without a provider, and parseOrder names  *)
(* none twice.                                                             *)
ASSUME OrderAssumption ==
  /\ Order \in Seq({Order[i] : i \in DOMAIN Order}) /\ Order # <<>>
  /\ \A i, j \in DOMAIN Order : Order[i] = Order[j] => i = j
ASSUME LimitsAssumption ==
  /\ MaxAttempts \in Nat \ {0} /\ Threshold \in Nat \ {0}
  /\ Cooldown \in Nat \ {0} /\ Timeout \in Nat \ {0}
  /\ Wrap \in Nat \ {0} /\ LastArrival \in Nat /\ MaxTime \in Nat
ASSUME TextsAssumption ==
  Transcript \in [Requests -> SUBSET Mention] /\ Drafts \subseteq Email

VARIABLES
  now,          \* Date.now()
  counter,      \* InMemoryRoundRobinCounter.counter
  fails,        \* health: provider -> consecutiveFailures
  openUntil,    \* health: provider -> circuitOpenUntil, Never for null
  invalid,      \* invalidConfiguration
  req           \* every request, and where it is

vars == <<now, counter, fails, openUntil, invalid, req>>
-----------------------------------------------------------------------------
Providers == {Order[i] : i \in DOMAIN Order}
Never == 0

(* The answers that the parser refuses.                                    *)
BadAnswers == {"no content", "no object", "no JSON", "wrong fields"}

(* What a call to a provider comes to, if not to an email: a bad answer,   *)
(* an HTTP status, or an error of the SDK.                                 *)
Failures ==
  BadAnswers \cup
  {"401", "403", "404", "408", "429", "500", "502", "503", "504", "another status",
   "model unavailable", "unreachable", "aborted"}

FailoverStatuses == {"408", "429", "500", "502", "503", "504"}

(* The kind of AiProviderError that parse or normalizeSdkError makes of a  *)
(* failure: a status counts before the words of the error, except that a   *)
(* model may be unavailable under any.                                     *)
Kind(failure) ==
  CASE failure = "no content" -> "empty_response"
    [] failure \in {"no object", "no JSON"} -> "invalid_json"
    [] failure = "wrong fields" -> "invalid_output"
    [] failure \in {"401", "403"} -> "authentication"
    [] failure \in {"404", "model unavailable"} -> "unavailable"
    [] failure = "aborted" -> "timeout"
    [] failure = "unreachable" -> "network"
    [] OTHER -> "http"

IsFailoverEligible(failure) == Kind(failure) = "http" => failure \in FailoverStatuses

(* errorReason, as far as the router or the end of its search tells the    *)
(* reasons apart.                                                          *)
Reason(failure) ==
  CASE Kind(failure) \in {"empty_response", "invalid_json", "invalid_output"} -> "invalid"
    [] Kind(failure) \in {"authentication", "timeout"} -> Kind(failure)
    [] OTHER -> "other"

(* The reasons for which a request turns to another provider.              *)
Errors == {Reason(failure) : failure \in {f \in Failures : IsFailoverEligible(f)}}

Answers == {"none", "completed", "draft_invalid", "EMAIL_GENERATION_FAILED",
            "AI_PROVIDER_TIMEOUT", "INVALID_AI_RESPONSE",
            "NO_AI_PROVIDER_AVAILABLE"}

Smaller(a, b) == IF a < b THEN a ELSE b

NoEmail == [subject |-> {}, body |-> {}, formed |-> FALSE]

Fresh == [phase |-> "idle", mode |-> "generation", list |-> <<>>, start |-> 0,
          offset |-> 0, provider |-> Order[1], reasons |-> {},
          attempts |-> 0, since |-> 0, began |-> 0, answer |-> "none", email |-> NoEmail]

Init ==
  /\ now = 0
  /\ counter = 0
  /\ fails = [p \in Providers |-> 0]
  /\ openUntil = [p \in Providers |-> Never]
  /\ invalid = {}
  /\ req = [r \in Requests |-> Fresh]

In(r, phase) == req[r].phase = phase
CallTo(r, p) == In(r, "calling") /\ req[r].provider = p

(* The request is answered: nothing else of it is ever read again.         *)
Answered(a) == [Fresh EXCEPT !.phase = "answered", !.answer = a]

-----------------------------------------------------------------------------
Before(p, q) == \E i, j \in DOMAIN Order : i < j /\ Order[i] = p /\ Order[j] = q

(* getAvailableProviders, as a request reads it once: the one list of the  *)
(* providers not known to be misconfigured that is in their order.         *)
Available ==
  LET usable == Providers \ invalid
  IN {list \in [1 .. Cardinality(usable) -> usable] :
        \A i, j \in DOMAIN list : i < j => Before(list[i], list[j])}

AttemptLimit(m) == Smaller(MaxAttempts, Len(m.list))
ProviderAt(m, offset) == m.list[((m.start + offset) % Len(m.list)) + 1]

(* Mutant: the counter grows without end.                                  *)
UnwrappedCounter == counter + 1

(* RoundRobinCounter.next, past the index it returns.                      *)
NextCount == (counter + 1) % Wrap

(* A request comes to the router: it reads the list of providers and takes *)
(* its place in the round robin.                                           *)
Arrive(r) ==
  /\ \/ In(r, "idle") /\ now <= LastArrival
     \/ In(r, "arriving")
  /\ \E list \in Available :
       LET m == [req[r] EXCEPT !.list = list,
                   !.began = IF In(r, "idle") THEN now ELSE @]
       IN IF Len(list) = 0
            THEN /\ req' = [req EXCEPT ![r] = Answered("NO_AI_PROVIDER_AVAILABLE")]
                 /\ UNCHANGED counter
            ELSE LET start == counter % Len(list)
                 IN /\ req' = [req EXCEPT ![r] =
                         [m EXCEPT !.phase = "routing", !.start = start]]
                    /\ counter' = NextCount
  /\ UNCHANGED <<now, fails, openUntil, invalid>>

(* Mutant: a circuit counts as closed as soon as it was ever opened.       *)
HealthyOnce(p) == openUntil[p] >= Never

(* isProviderHealthy: the circuit was not opened, or its cooldown is over. *)
Healthy(p) == openUntil[p] <= now

(* The offsets of the loop at which a request may still call a provider.   *)
Callable(m) ==
  {o \in m.offset .. Len(m.list) - 1 : Healthy(ProviderAt(m, o))}

(* What a request that calls no further provider is answered.              *)
GiveUp(m) ==
  Answered(CASE m.reasons = {"timeout"} -> "AI_PROVIDER_TIMEOUT"
             [] m.reasons = {"invalid"} -> "INVALID_AI_RESPONSE"
             [] OTHER -> "NO_AI_PROVIDER_AVAILABLE")

Call(m, o) ==
  [m EXCEPT !.phase = "calling", !.offset = o + 1, !.attempts = @ + 1,
     !.provider = ProviderAt(m, o), !.since = now]

(* The rest of the loop, from a request and the circuits as the code       *)
(* before it left them: skip what is open, and close the circuit of the    *)
(* provider called.  The list names no provider twice, so the one that     *)
(* has just failed is not among those looked at.                           *)
Search(r, m, circuits) ==
  LET offsets == IF m.attempts < AttemptLimit(m) THEN Callable(m) ELSE {}
  IN \/ /\ offsets = {}
        /\ req' = [req EXCEPT ![r] = GiveUp(m)]
        /\ openUntil' = circuits
     \/ \E o \in offsets :
          /\ \A other \in offsets : o <= other
          /\ req' = [req EXCEPT ![r] = Call(m, o)]
          /\ openUntil' = [circuits EXCEPT ![ProviderAt(m, o)] = Never]

(* The counter's await is over: the loop starts.                           *)
Route(r) ==
  /\ In(r, "routing")
  /\ Search(r, req[r], openUntil)
  /\ UNCHANGED <<now, counter, fails, invalid>>

-----------------------------------------------------------------------------
(* Mutant: a repaired email is not validated again.                        *)
RepairTrusted(r, m, email) ==
  IF Valid(Normalised(Transcript[r]), email) \/ m.mode = "repair"
    THEN [Answered("completed") EXCEPT !.email = email]
    ELSE [Fresh EXCEPT !.phase = "arriving", !.mode = "repair", !.began = m.began]

(* compose goes on with the email of a provider: one that does not pass is *)
(* repaired once, by a search of its own.                                  *)
Validated(r, m, email) ==
  IF Valid(Normalised(Transcript[r]), email)
    THEN [Answered("completed") EXCEPT !.email = email]
  ELSE IF m.mode = "generation"
    THEN [Fresh EXCEPT !.phase = "arriving", !.mode = "repair", !.began = m.began]
  ELSE Answered("draft_invalid")

RegisterSuccess(p) ==
  /\ fails' = [fails EXCEPT ![p] = 0]
  /\ openUntil' = [openUntil EXCEPT ![p] = Never]

(* registerSuccess, then validation of the email.                          *)
Succeed(r) ==
  /\ In(r, "calling")
  /\ RegisterSuccess(req[r].provider)
  /\ \E email \in Drafts : req' = [req EXCEPT ![r] = Validated(r, req[r], email)]
  /\ UNCHANGED <<now, counter, invalid>>

(* Mutant: the cooldown runs from the start of the clock.                  *)
OpenedFor(p) ==
  IF fails[p] + 1 >= Threshold THEN [openUntil EXCEPT ![p] = Cooldown] ELSE openUntil

Opened(p) ==
  IF fails[p] + 1 >= Threshold THEN [openUntil EXCEPT ![p] = now + Cooldown] ELSE openUntil

(* registerFailure, but for the circuit: Opened is what becomes of that,   *)
(* and the loop goes on from there in the same step.                       *)
RegisterFailure(p, error) ==
  /\ fails' = [fails EXCEPT ![p] = @ + 1]
  /\ invalid' = IF error = "authentication" THEN invalid \cup {p} ELSE invalid

(* registerFailure, then the next turn of the loop, in the same step.      *)
Fail(r, error) ==
  /\ In(r, "calling")
  /\ LET p == req[r].provider
         m == [req[r] EXCEPT !.reasons = @ \cup {error}]
     IN /\ RegisterFailure(p, error)
        /\ Search(r, m, Opened(p))
  /\ UNCHANGED <<now, counter>>

(* An error that is not eligible for failover says nothing of the          *)
(* provider's health and ends the request.                                 *)
Refuse(r) ==
  /\ In(r, "calling")
  /\ \E failure \in Failures : ~IsFailoverEligible(failure)
  /\ req' = [req EXCEPT ![r] = Answered("EMAIL_GENERATION_FAILED")]
  /\ UNCHANGED <<now, counter, fails, openUntil, invalid>>

(* Mutant: only the first search has a timer.                              *)
TimeOutOnce(r) ==
  req[r].mode = "generation" /\ now >= req[r].since + Timeout /\ Fail(r, "timeout")

(* executeWithTimeout: the timer answers when the provider has not.  What  *)
(* the provider says after that is dropped by Promise.race.                *)
TimeOut(r) == now >= req[r].since + Timeout /\ Fail(r, "timeout")

(* Mutant: a call without a timer.                                         *)
NoTimer == TRUE

(* Timers and continuations are run when they are due.                     *)
NothingDue ==
  \A r \in Requests :
    /\ ~In(r, "routing") /\ ~In(r, "arriving")
    /\ In(r, "calling") => now < req[r].since + Timeout

Tick ==
  /\ now < MaxTime
  /\ NothingDue
  /\ now' = now + 1
  /\ UNCHANGED <<counter, fails, openUntil, invalid, req>>

Proceed(r) ==
  \/ Arrive(r) \/ Route(r) \/ Succeed(r) \/ Refuse(r) \/ TimeOut(r)
  \/ \E error \in Errors : Fail(r, error)

Next == Tick \/ \E r \in Requests : Proceed(r)

Spec == Init /\ [][Next]_vars

(* Time passes, and what the event loop owes a request it does: the        *)
(* continuation of an await, and the timer of a call.  Nothing is assumed  *)
(* of the providers.                                                       *)
Owed(r) == ~In(r, "idle") /\ (Arrive(r) \/ Route(r) \/ TimeOut(r))
FairSpec == Spec /\ WF_vars(Tick) /\ \A r \in Requests : WF_vars(Owed(r))
-----------------------------------------------------------------------------
Request ==
  [phase : {"idle", "arriving", "routing", "calling", "answered"},
   mode : {"generation", "repair"}, list : Seq(Providers), start : Nat,
   offset : Nat, provider : Providers, reasons : SUBSET Errors, attempts : Nat,
   since : Nat, began : Nat, answer : Answers, email : Email]

(* The variables range over the values their names say.                    *)
TypeOK ==
  /\ now \in Nat /\ counter \in 0 .. Wrap - 1
  /\ fails \in [Providers -> Nat] /\ openUntil \in [Providers -> Nat]
  /\ invalid \subseteq Providers
  /\ req \in [Requests -> Request]

(* A circuit is open only on account of Threshold failures that no success *)
(* followed, and for a cooldown at most, whatever requests have failed,    *)
(* succeeded or found it expired meanwhile.                                *)
CircuitJustified ==
  \A p \in Providers :
    openUntil[p] # Never => fails[p] >= Threshold /\ openUntil[p] <= now + Cooldown

(* A provider whose circuit is open is left alone: every call that is      *)
(* still waiting for it began before the circuit was opened, by another    *)
(* request, for the last time.                                             *)
OpenMeansQuiet ==
  \A p \in Providers, r \in Requests :
    CallTo(r, p) /\ openUntil[p] # Never => req[r].since + Cooldown <= openUntil[p]

(* The breaker between requests: no circuit is open without its failures,  *)
(* and none that is open is called, in whatever order the calls of several *)
(* requests end.                                                           *)
BreakerHolds == CircuitJustified /\ OpenMeansQuiet

(* An open circuit stays open for its cooldown: it is closed before that   *)
(* only by the success of a call that was under way when it was opened.    *)
(* A request that comes to look for a provider does not close it.          *)
ClosedEarlyBySuccess ==
  \A p \in Providers :
    openUntil[p] > now /\ openUntil'[p] < openUntil[p] =>
      \E r \in Requests :
        /\ CallTo(r, p) /\ req[r].since + Cooldown <= openUntil[p]
        /\ req'[r].phase # "calling" /\ fails'[p] = 0

CooldownKept == [][ClosedEarlyBySuccess]_vars

(* An email that compose hands on has the numbers of the transcript that  *)
(* the check recognises, no more and no fewer of those, whichever of two   *)
(* emails passed and whichever of the recognised words or digits they are  *)
(* written in; a decimal comma makes two.  Numbers that the check does not *)
(* recognise are another matter: the code hands on quatre for trois,       *)
(* vingt-six for vingt-cinq and 30kg for 20kg, and so does this module.    *)
CompletedKeepsRecognised ==
  \A r \in Requests :
    req[r].answer = "completed" => KeepsRecognised(Transcript[r], req[r].email)

(* A request is answered within the timeouts of two searches, whatever the *)
(* providers do: in the meantime the clock does not pass that moment.      *)
AnsweredInTime ==
  \A r \in Requests :
    req[r].phase \notin {"idle", "answered"} =>
      now <= req[r].began + 2 * MaxAttempts * Timeout

(* Every request that comes in is answered, with an email or an error,     *)
(* even when no provider ever answers.                                     *)
EveryRequestAnswered ==
  \A r \in Requests : ~In(r, "idle") ~> In(r, "answered")
=============================================================================
