---------------------------- MODULE Conversations ----------------------------
(***************************************************************************)
(* ConversationsService: direct conversations and the messages sent in     *)
(* them, by REST or through ChatGateway.  Handlers run from await to await *)
(* and interleave there; what a refused call does not change is not seen.  *)
(*                                                                         *)
(* The migration that added directKey gave it to no existing row, so a     *)
(* pair may have conversations of old without a key, even several.         *)
(***************************************************************************)
EXTENDS Naturals, FiniteSets

CONSTANTS
  Users,
  ConvIds,      \* supply of uuids for conversations: a bound
  MessageIds,   \* supply of uuids for messages: a bound
  Calls,        \* calls that may be under way at a time: a bound
  MaxTime,      \* the bound on the clock
  MaxOld,       \* the bound on conversations older than directKey
  None

ASSUME NoneAssumption == None \notin ConvIds
ASSUME LimitsAssumption == MaxTime \in Nat /\ MaxOld \in Nat

VARIABLES
  now,          \* the clock of the server and of the database
  conv,         \* "Conversation" rows: pair, directKey, lastMessageAt
  old,          \* history: the conversations older than directKey
  message,      \* committed "Message" rows
  opened,       \* history: <<u, c>>: c was returned to u by createOrOpenDirect
  failed,       \* history: pairs for which createOrOpenDirect failed
  call          \* what each call is about to do

vars == <<now, conv, old, message, opened, failed, call>>
-----------------------------------------------------------------------------
Pairs == {p \in SUBSET Users : Cardinality(p) = 2}
ConvRow == [pair : Pairs, keyed : BOOLEAN, lastMessageAt : 0..MaxTime]

(* committed is a history: when the transaction ended.                     *)
Message == [conv : ConvIds, from : Users, createdAt : 0..MaxTime,
            committed : 0..MaxTime]

Steps == {"idle", "claimKey", "create", "reopen", "insert", "touch"}
Call == [step : Steps, user : Users \cup {None}, pair : Pairs \cup {{}},
         conv : ConvIds \cup {None}, createdAt : 0..MaxTime]

(* Mutant: a time that is not known yet is null.                           *)
IdleNull == [step |-> "idle", user |-> None, pair |-> {}, conv |-> None, createdAt |-> None]

Idle == [step |-> "idle", user |-> None, pair |-> {}, conv |-> None, createdAt |-> 0]
Task(step, u, pair, c) ==
  [step |-> step, user |-> u, pair |-> pair, conv |-> c, createdAt |-> 0]

At(t, step) == call[t].step = step
Goto(t, c) == call' = [call EXCEPT ![t] = c]
Finish(t) == Goto(t, Idle)

Of(pair) == {c \in DOMAIN conv : conv[c].pair = pair}
Keyed(pair) == {c \in Of(pair) : conv[c].keyed}
Participant(u, c) == c \in DOMAIN conv /\ u \in conv[c].pair

Init ==
  /\ now = 0
  /\ old \in {S \in SUBSET ConvIds : Cardinality(S) <= MaxOld}
  /\ conv \in [old -> {[pair |-> p, keyed |-> FALSE, lastMessageAt |-> 0] : p \in Pairs}]
  /\ message = [m \in {} |-> None]
  /\ opened = {} /\ failed = {}
  /\ call = [t \in Calls |-> Idle]
-----------------------------------------------------------------------------
(* createOrOpenDirect.  findFirst takes any conversation of the two users, *)
(* with the key or without.                                                *)
OpenDirect(t, u, v) ==
  /\ At(t, "idle") /\ u # v
  /\ LET pair == {u, v}
     IN \/ \E c \in Keyed(pair) : opened' = opened \cup {<<u, c>>} /\ UNCHANGED call
        \/ \E c \in Of(pair) \ Keyed(pair) :
             /\ Goto(t, Task("claimKey", u, pair, c))
             /\ UNCHANGED opened
        \/ /\ Of(pair) = {}
           /\ Goto(t, Task("create", u, pair, None))
           /\ UNCHANGED opened
  /\ UNCHANGED <<now, conv, old, message, failed>>

(* Mutant: the key is no unique index.                                     *)
NeverTaken(pair, c) == FALSE

(* The unique index on directKey refuses the key to a second row (P2002).  *)
Taken(pair, c) == Keyed(pair) \ {c} # {}

(* A conversation of old is given its key.  No catch surrounds this write. *)
ClaimKey(t) ==
  /\ At(t, "claimKey")
  /\ LET c == call[t].conv
     IN IF Taken(call[t].pair, c)
          THEN /\ failed' = failed \cup {call[t].pair}
               /\ UNCHANGED <<conv, opened>>
          ELSE /\ conv' = [conv EXCEPT ![c].keyed = TRUE]
               /\ opened' = opened \cup {<<call[t].user, c>>}
               /\ UNCHANGED failed
  /\ Finish(t)
  /\ UNCHANGED <<now, old, message>>

(* Mutant: the second of two that create gets the error.                   *)
FailOnTaken(t) ==
  Finish(t) /\ failed' = failed \cup {call[t].pair}

(* The catch of P2002: another call has created the conversation.          *)
RetryOnTaken(t) ==
  Goto(t, [call[t] EXCEPT !.step = "reopen"]) /\ UNCHANGED failed

CreateConversation(t) ==
  /\ At(t, "create")
  /\ LET pair == call[t].pair
     IN \/ /\ Taken(pair, None)
           /\ RetryOnTaken(t)
           /\ UNCHANGED <<conv, opened>>
        \/ /\ ~Taken(pair, None)
           /\ \E c \in ConvIds \ DOMAIN conv :
                /\ conv' = [x \in DOMAIN conv \cup {c} |->
                     IF x = c THEN [pair |-> pair, keyed |-> TRUE, lastMessageAt |-> 0]
                              ELSE conv[x]]
                /\ opened' = opened \cup {<<call[t].user, c>>}
           /\ Finish(t)
           /\ UNCHANGED failed
  /\ UNCHANGED <<now, old, message>>

Reopen(t) ==
  /\ At(t, "reopen")
  /\ \E c \in Keyed(call[t].pair) : opened' = opened \cup {<<call[t].user, c>>}
  /\ Finish(t)
  /\ UNCHANGED <<now, conv, old, message, failed>>
-----------------------------------------------------------------------------
(* sendMessage, after assertParticipant.                                   *)
SendMessage(t, u, c) ==
  /\ At(t, "idle") /\ Participant(u, c)
  /\ Goto(t, Task("insert", u, {}, c))
  /\ UNCHANGED <<now, conv, old, message, opened, failed>>

(* The transaction: the message gets its time ...                          *)
InsertMessage(t) ==
  /\ At(t, "insert")
  /\ Goto(t, [call[t] EXCEPT !.step = "touch", !.createdAt = now])
  /\ UNCHANGED <<now, conv, old, message, opened, failed>>

(* Mutant: the time is only ever set once.                                 *)
FirstTime(c, at) == IF conv[c].lastMessageAt = 0 THEN at ELSE conv[c].lastMessageAt

LastTime(c, at) == at

(* ... and the conversation takes it over, as the transaction ends.        *)
TouchConversation(t) ==
  /\ At(t, "touch")
  /\ LET c == call[t].conv
         at == call[t].createdAt
     IN /\ conv' = [conv EXCEPT ![c].lastMessageAt = LastTime(c, at)]
        /\ \E m \in MessageIds \ DOMAIN message :
             /\ message' = [x \in DOMAIN message \cup {m} |->
                  IF x = m THEN [conv |-> c, from |-> call[t].user, createdAt |-> at,
                                 committed |-> now]
                           ELSE message[x]]
  /\ Finish(t)
  /\ UNCHANGED <<now, old, opened, failed>>

(* A statement fails, and with it its call: nothing is written.            *)
Break(t) ==
  /\ call[t].step \in {"claimKey", "create", "reopen", "insert", "touch"}
  /\ Finish(t)
  /\ UNCHANGED <<now, conv, old, message, opened, failed>>

Tick ==
  /\ now < MaxTime
  /\ now' = now + 1
  /\ UNCHANGED <<conv, old, message, opened, failed, call>>

Begin(t, u) ==
  \/ \E v \in Users : OpenDirect(t, u, v)
  \/ \E c \in DOMAIN conv : SendMessage(t, u, c)

Continue(t) ==
  \/ ClaimKey(t) \/ CreateConversation(t) \/ Reopen(t) \/ InsertMessage(t)
  \/ TouchConversation(t) \/ Break(t)

Next ==
  \/ Tick
  \/ \E t \in Calls : Continue(t) \/ \E u \in Users : Begin(t, u)

Spec == Init /\ [][Next]_vars
-----------------------------------------------------------------------------
(* The variables range over the values their names say.                    *)
TypeOK ==
  /\ now \in 0..MaxTime
  /\ DOMAIN conv \subseteq ConvIds /\ conv \in [DOMAIN conv -> ConvRow]
  /\ old \subseteq DOMAIN conv
  /\ DOMAIN message \subseteq MessageIds /\ message \in [DOMAIN message -> Message]
  /\ opened \subseteq Users \X ConvIds /\ failed \subseteq Pairs
  /\ call \in [Calls -> Call]

(* Two users who open their conversation are given the same one, whichever *)
(* of them asks, however often and however their calls meet, even when     *)
(* they have several conversations of old.                                 *)
OpensAgree ==
  \A x, y \in opened : conv[x[2]].pair = conv[y[2]].pair => x[2] = y[2]

(* Calls that open a conversation at the same time do not fail each other, *)
(* except for a pair that has several conversations of old.                *)
OpensSucceed ==
  \A p \in failed : \E c, d \in Of(p) \cap old : c # d

(* The time by which conversations are sorted is that of a message, and    *)
(* the newest one unless two sends overlapped: then it may be that of one  *)
(* begun earlier and ended later.                                          *)
LastMessageIsLatest ==
  \A m \in DOMAIN message :
    LET c == message[m].conv
    IN \E n \in DOMAIN message :
         /\ message[n].conv = c /\ conv[c].lastMessageAt = message[n].createdAt
         /\ \/ message[m].createdAt <= message[n].createdAt
            \/ message[m].committed <= message[n].committed
=============================================================================
