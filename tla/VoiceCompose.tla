---------------------------- MODULE VoiceCompose ----------------------------
(***************************************************************************)
(* POST /compose/from-audio: ComposeController hands an operation to       *)
(* IdempotencyService; the operation has SpeechService transcribe the      *)
(* recording, in at most two requests to Deepgram under one deadline, and  *)
(* AiOrchestratorService write an email from the transcript.  The scope of *)
(* the cache key is the route alone.  A request without a key runs beside  *)
(* the map and is left out.                                                *)
(*                                                                         *)
(* The time the email takes is bounded by what ProviderRouter shows of a   *)
(* compose request (AnsweredInTime).  Every operation then ends within     *)
(* MaxRun, and the whole implements Idempotency.                           *)
(***************************************************************************)
EXTENDS Integers, FiniteSets

CONSTANTS
  Keys,         \* the Idempotency-Keys of clients
  RunIds,       \* supply of promises: the bound on operations ever started
  TTL,          \* how long an entry lives
  Cap,          \* 20 s: the longest that one request to Deepgram takes
  Deadline,     \* 35 s: the longest that a transcription takes
  ComposeTime,  \* the longest that AiOrchestratorService.compose takes
  PruneSize,    \* the size of the map from which expired entries go
  MaxTime,      \* the bound on the clock
  MaxRestarts   \* the bound on restarts of the process

MaxRun == Deadline + ComposeTime

ASSUME TimesAssumption ==
  /\ TTL \in Nat /\ ComposeTime \in Nat /\ MaxTime \in Nat /\ MaxRestarts \in Nat
  /\ Cap \in Nat \ {0} /\ Deadline \in Nat /\ Cap < Deadline
  /\ MaxRun < TTL

VARIABLES
  now,          \* Date.now()
  process,      \* restarts so far
  entries,      \* IdempotencyService.entries
  op            \* every operation started, and where it is

vars == <<now, process, entries, op>>
-----------------------------------------------------------------------------
Ops == DOMAIN op

(* What Deepgram may have heard, by the thresholds it passes: less than a  *)
(* second, a transcript too short or too uncertain to use, one to be       *)
(* confirmed, and one to go on with.                                       *)
Hearings == {"short", "poor", "doubtful", "clear"}

(* The answers that resolve the promise; the others reject it.  unusable   *)
(* is AUDIO_TOO_SHORT, NO_SPEECH or LOW_CONFIDENCE, and a NETWORK_ERROR    *)
(* counts as PROVIDER_UNAVAILABLE.                                         *)
Resolved == {"completed", "needs_transcript_confirmation", "retryable_error"}
Outcomes ==
  Resolved \cup {"none", "refused", "unusable", "TIMEOUT", "PROVIDER_UNAVAILABLE"}

(* since: when the request of the step was made.                           *)
Op == [key : Keys, started : Nat, process : 0..MaxRestarts, since : Nat,
       step : {"rejecting", "first", "second", "writing", "over"}, outcome : Outcomes]

Running(o) == op[o].step # "over" /\ op[o].process = process
At(o, step) == Running(o) /\ op[o].step = step

Run ==
  [o \in Ops |->
     [key |-> op[o].key, started |-> op[o].started, process |-> op[o].process,
      state |-> IF op[o].step # "over" THEN "running"
                ELSE IF op[o].outcome \in Resolved THEN "done" ELSE "failed"]]

Idem == INSTANCE Idempotency WITH run <- Run

Init ==
  /\ now = 0
  /\ process = 0
  /\ entries = [k \in {} |-> 0]
  /\ op = [o \in {} |-> 0]

(* Mutant: the second request has the whole time of a request.             *)
CapOnly(o) == Cap

(* requestDeepgram: the time after which a request is aborted.             *)
Remaining(o) ==
  LET left == op[o].started + Deadline - op[o].since
  IN IF left < Cap THEN left ELSE Cap

Goto(o, step) == [op EXCEPT ![o].step = step, ![o].since = now]
Over(o, outcome) == [op EXCEPT ![o].step = "over", ![o].outcome = outcome]

(* Mutant: the entry of a rejected promise stays.                          *)
EntryStays(k) == entries

(* The catch of IdempotencyService.run.                                    *)
Forgotten(k) == Idem!Without(entries, {k})

Resolve(o, outcome) == op' = Over(o, outcome) /\ UNCHANGED entries
Reject(o, outcome) == op' = Over(o, outcome) /\ entries' = Forgotten(op[o].key)
-----------------------------------------------------------------------------
(* Mutant: the key of an operation is left out.                            *)
KeylessOp(k, step) ==
  [started |-> now, process |-> process, since |-> now, step |-> step, outcome |-> "none"]

NewOp(k, step) ==
  [key |-> k, started |-> now, process |-> process, since |-> now, step |-> step,
   outcome |-> "none"]

(* A request without a live entry: its operation runs up to the first      *)
(* request to Deepgram, or throws because the language, the recording or   *)
(* the configuration is not acceptable.                                    *)
Start(k) ==
  /\ ~Idem!Live(k)
  /\ \E o \in RunIds \ Ops, step \in {"rejecting", "first"} :
       /\ op' = [x \in Ops \cup {o} |-> IF x = o THEN NewOp(k, step) ELSE op[x]]
       /\ entries' = Idem!Prune([x \in DOMAIN entries \cup {k} |->
            IF x = k THEN [run |-> o, expiresAt |-> now + TTL] ELSE entries[x]])
  /\ UNCHANGED <<now, process>>

RejectAudio(o) ==
  /\ At(o, "rejecting")
  /\ Reject(o, "refused")
  /\ UNCHANGED <<now, process>>

(* Deepgram has transcribed the recording.  A poor transcript of the first *)
(* request is asked for once more; any other is judged.                    *)
Transcribed(o) ==
  /\ At(o, "first") \/ At(o, "second")
  /\ \E heard \in Hearings :
       \/ /\ heard = "poor" /\ At(o, "first")
          /\ op' = Goto(o, "second") /\ UNCHANGED entries
       \/ heard = "poor" /\ At(o, "second") /\ Reject(o, "unusable")
       \/ heard = "short" /\ Reject(o, "unusable")
       \/ heard = "doubtful" /\ Resolve(o, "needs_transcript_confirmation")
       \/ heard = "clear" /\ op' = Goto(o, "writing") /\ UNCHANGED entries
  /\ UNCHANGED <<now, process>>

(* A request fails: the network, a status, or the abort.  The first one is *)
(* repeated, and so is one that Deepgram refused for good, since           *)
(* transcribe tells refusals from failures by a status below 500.          *)
RequestFails(o, code) ==
  \/ At(o, "first") /\ op' = Goto(o, "second") /\ UNCHANGED entries
  \/ At(o, "second") /\ Reject(o, IF now >= op[o].started + Deadline THEN "TIMEOUT" ELSE code)

ProviderFails(o) == RequestFails(o, "PROVIDER_UNAVAILABLE") /\ UNCHANGED <<now, process>>

Abort(o) ==
  /\ now >= op[o].since + Remaining(o)
  /\ RequestFails(o, "TIMEOUT")
  /\ UNCHANGED <<now, process>>

(* AiOrchestratorService.compose has answered or thrown; what it throws is *)
(* caught and becomes an answer.                                           *)
Written(o) ==
  /\ At(o, "writing")
  /\ \E answer \in {"completed", "retryable_error"} : Resolve(o, answer)
  /\ UNCHANGED <<now, process>>

(* Timers are run when they are due.                                       *)
Tick ==
  /\ now < MaxTime
  /\ \A o \in Ops :
       /\ ~At(o, "rejecting")
       /\ At(o, "first") \/ At(o, "second") => now < op[o].since + Remaining(o)
       /\ At(o, "writing") => now < op[o].since + ComposeTime
  /\ now' = now + 1
  /\ UNCHANGED <<process, entries, op>>

Restart ==
  /\ process < MaxRestarts
  /\ process' = process + 1
  /\ entries' = [k \in {} |-> 0]
  /\ UNCHANGED <<now, op>>

Next ==
  \/ \E k \in Keys : Start(k)
  \/ \E o \in Ops : \/ RejectAudio(o) \/ Transcribed(o) \/ ProviderFails(o)
                    \/ Abort(o) \/ Written(o)
  \/ Tick \/ Restart

Spec == Init /\ [][Next]_vars
-----------------------------------------------------------------------------
(* The variables range over the values their names say.                    *)
TypeOK ==
  /\ now \in Nat /\ process \in 0..MaxRestarts
  /\ DOMAIN entries \subseteq Keys /\ entries \in [DOMAIN entries -> Idem!Entry]
  /\ Ops \subseteq RunIds /\ op \in [Ops -> Op]

(* A transcription is over by its deadline, the second request included.   *)
DeadlineKept ==
  \A o \in Ops : At(o, "first") \/ At(o, "second") => now <= op[o].started + Deadline

(* Every operation ends in time for its entry, and what is done to the map *)
(* of entries is what Idempotency does: the requests of one key share one  *)
(* operation, and none that rejected stays.                                *)
ImplementsIdempotency == Idem!Spec

(* "Does not cache failures": a failure that its answer calls retryable is *)
(* not what a request that comes again with the key is handed.             *)
RetryRunsAgain ==
  \A k \in Keys : Idem!Live(k) => op[entries[k].run].outcome # "retryable_error"
=============================================================================
