------------------------- MODULE ConversationsProofs -------------------------
(* Two users share one conversation, opening it does not fail, and the     *)
(* time the list is sorted by is that of a latest message.  Then the       *)
(* reader of MessageReader: the pages miss nothing.                        *)
EXTENDS MessageReader, FiniteSetTheorems, TLAPS

LEMMA PairOf ==
  ASSUME NEW u \in Users, NEW v \in Users, u # v
  PROVE  {u, v} \in Pairs
<1>1. IsFiniteSet({u}) /\ Cardinality({u}) = 1
  BY FS_Singleton
<1>2. Cardinality({u} \cup {v}) = 2
  BY <1>1, FS_AddElement
<1>3. {u, v} = {u} \cup {v}
  OBVIOUS
<1> QED BY <1>2, <1>3 DEF Pairs

LEMMA IdleType == Idle \in Call /\ Idle.step = "idle"
BY LimitsAssumption DEF Idle, Call, Steps

LEMMA TaskType ==
  ASSUME NEW step \in Steps, NEW u \in Users, NEW pair \in Pairs \cup {{}},
         NEW c \in ConvIds \cup {None}
  PROVE  Task(step, u, pair, c) \in Call
BY LimitsAssumption DEF Task, Call, Steps

LEMMA GotoType ==
  ASSUME TypeOK, NEW t \in Calls, NEW c \in Call, Goto(t, c)
  PROVE  /\ call' \in [Calls -> Call] /\ call'[t] = c
         /\ \A s \in Calls : s # t => call'[s] = call[s]
BY DEF TypeOK, Goto

LEMMA FinishType ==
  ASSUME TypeOK, NEW t \in Calls, Finish(t)
  PROVE  /\ call' \in [Calls -> Call] /\ call'[t] = Idle
         /\ \A s \in Calls : s # t => call'[s] = call[s]
BY GotoType, IdleType DEF Finish
-----------------------------------------------------------------------------
LEMMA OpenDirectType ==
  ASSUME TypeOK, NEW t \in Calls, NEW u \in Users, NEW v \in Users, OpenDirect(t, u, v)
  PROVE  TypeOK'
<1> DEFINE pair == {u, v}
<1>1. pair \in Pairs
  BY PairOf DEF OpenDirect
<1>2. UNCHANGED <<now, conv, old, message, failed>>
  BY DEF OpenDirect
<1>3. \A c \in Of(pair) : c \in ConvIds
  BY DEF Of, TypeOK
<1>4. CASE \E c \in Keyed(pair) : opened' = opened \cup {<<u, c>>} /\ UNCHANGED call
  BY <1>2, <1>3, <1>4 DEF TypeOK, Keyed
<1>5. ASSUME NEW c \in Of(pair), UNCHANGED opened,
             Goto(t, Task("claimKey", u, pair, c))
      PROVE  TypeOK'
  <2>1. Task("claimKey", u, pair, c) \in Call
    BY <1>1, <1>3, TaskType DEF Steps
  <2> QED BY <1>2, <1>5, <2>1, GotoType DEF TypeOK
<1>6. CASE UNCHANGED opened /\ Goto(t, Task("create", u, pair, None))
  <2>1. Task("create", u, pair, None) \in Call
    BY <1>1, TaskType DEF Steps
  <2> QED BY <1>2, <1>6, <2>1, GotoType DEF TypeOK
<1> QED BY <1>4, <1>5, <1>6 DEF OpenDirect

LEMMA SendMessageType ==
  ASSUME TypeOK, NEW t \in Calls, NEW u \in Users, NEW c \in DOMAIN conv, SendMessage(t, u, c)
  PROVE  TypeOK'
<1>1. Task("insert", u, {}, c) \in Call
  BY TaskType DEF Steps, TypeOK
<1> QED BY <1>1, GotoType DEF SendMessage, TypeOK

(* What is known of a call's own fields: users and pairs are real.         *)
Serves(c) ==
  /\ c.step # "idle" => c.user \in Users
  /\ c.step \in {"claimKey", "create", "reopen"} => c.pair \in Pairs
  /\ c.step = "claimKey" => c.conv \in old /\ conv[c.conv].pair = c.pair
  /\ c.step = "create" => \A d \in old : conv[d].pair # c.pair
  /\ c.step \in {"insert", "touch"} => c.conv \in DOMAIN conv

CallsServe == \A t \in Calls : Serves(call[t])

(* The rows that opening relies on: a conversation that is not of old has  *)
(* its key and is the only one of its pair, and what was handed to a user  *)
(* is the conversation with the key.                                       *)
KeysInv ==
  /\ \A c \in DOMAIN conv \ old : conv[c].keyed /\ \A d \in old : conv[d].pair # conv[c].pair
  /\ \A c, d \in DOMAIN conv :
       conv[c].keyed /\ conv[d].keyed /\ conv[c].pair = conv[d].pair => c = d
  /\ \A x \in opened : x[2] \in DOMAIN conv /\ conv[x[2]].keyed

MessagesInv ==
  \A m \in DOMAIN message : message[m].conv \in DOMAIN conv /\ message[m].committed <= now

Inv ==
  TypeOK /\ CallsServe /\ KeysInv /\ OpensSucceed /\ MessagesInv /\ LastMessageIsLatest

(* Rows are never deleted, their pair never changes, and a key once given  *)
(* is kept.                                                                *)
Grows ==
  /\ old' = old /\ DOMAIN conv \subseteq DOMAIN conv'
  /\ \A c \in DOMAIN conv : conv'[c].pair = conv[c].pair /\ (conv[c].keyed => conv'[c].keyed)

LEMMA OldOf ==
  ASSUME TypeOK, Grows, NEW p
  PROVE  (Of(p) \cap old)' = Of(p) \cap old
BY DEF TypeOK, Grows, Of

LEMMA StillServes ==
  ASSUME TypeOK, Grows, NEW c, Serves(c)
  PROVE  Serves(c)'
BY DEF Serves, Grows, TypeOK

(* A call moves on to c, the others stay as they are.                      *)
LEMMA OneCallMoves ==
  ASSUME TypeOK, CallsServe, Grows, NEW t \in Calls, NEW c, call'[t] = c, Serves(c)',
         \A s \in Calls : s # t => call'[s] = call[s]
  PROVE  CallsServe'
<1> SUFFICES ASSUME NEW s \in Calls PROVE Serves(call[s])'
  BY DEF CallsServe
<1>1. CASE s = t
  BY <1>1
<1>2. CASE s # t
  <2>1. Serves(call[s])
    BY DEF CallsServe
  <2>2. call'[s] = call[s]
    BY <1>2
  <2> QED BY <2>1, <2>2, StillServes DEF Serves
<1> QED BY <1>1, <1>2

(* A step that touches no row.                                             *)
LEMMA RowsStay ==
  ASSUME Inv, UNCHANGED <<now, conv, old, message, opened, failed>>
  PROVE  Grows /\ KeysInv' /\ OpensSucceed' /\ MessagesInv' /\ LastMessageIsLatest'
<1>1. Grows
  BY DEF Grows
<1>2. KeysInv'
  BY DEF Inv, KeysInv, Of
<1>3. OpensSucceed'
  BY DEF Inv, OpensSucceed, Of
<1>4. MessagesInv' /\ LastMessageIsLatest'
  BY DEF Inv, MessagesInv, LastMessageIsLatest
<1> QED BY <1>1, <1>2, <1>3, <1>4

LEMMA OnlyCallMoves ==
  ASSUME Inv, UNCHANGED <<now, conv, old, message, opened, failed>>,
         NEW t \in Calls, NEW c \in Call, Goto(t, c), Serves(c)
  PROVE  Inv'
<1>1. TypeOK
  BY DEF Inv
<1>2. call' \in [Calls -> Call] /\ call'[t] = c /\ \A s \in Calls : s # t => call'[s] = call[s]
  BY <1>1, GotoType
<1>3. Grows /\ KeysInv' /\ OpensSucceed' /\ MessagesInv' /\ LastMessageIsLatest'
  BY RowsStay
<1>4. Serves(c)'
  BY <1>1, <1>3, StillServes
<1>5. CallsServe'
  BY <1>1, <1>2, <1>3, <1>4, OneCallMoves DEF Inv
<1>6. TypeOK'
  BY <1>1, <1>2 DEF TypeOK
<1> QED BY <1>3, <1>5, <1>6 DEF Inv

LEMMA IdleServes == Serves(Idle) /\ Serves(Idle)'
BY IdleType DEF Serves

LEMMA BreakInv == ASSUME Inv, NEW t \in Calls, Break(t) PROVE Inv'
BY IdleType, IdleServes, OnlyCallMoves DEF Break, Finish
-----------------------------------------------------------------------------
LEMMA OpenDirectInv ==
  ASSUME Inv, NEW t \in Calls, NEW u \in Users, NEW v \in Users, OpenDirect(t, u, v)
  PROVE  Inv'
<1> DEFINE pair == {u, v}
<1>1. TypeOK /\ TypeOK' /\ pair \in Pairs
  BY OpenDirectType, PairOf DEF Inv, OpenDirect
<1>2. UNCHANGED <<now, conv, old, message, failed>>
  BY DEF OpenDirect
<1>3. ASSUME NEW c \in Keyed(pair), opened' = opened \cup {<<u, c>>}, UNCHANGED call
      PROVE  Inv'
  <2>1. Grows
    BY <1>2 DEF Grows
  <2>2. CallsServe'
    BY <1>1, <1>3, <2>1, StillServes DEF Inv, CallsServe, Serves
  <2>3. KeysInv'
    BY <1>2, <1>3 DEF Inv, KeysInv, Keyed, Of
  <2>4. OpensSucceed' /\ MessagesInv' /\ LastMessageIsLatest'
    BY <1>2 DEF Inv, OpensSucceed, Of, MessagesInv, LastMessageIsLatest
  <2> QED BY <1>1, <2>2, <2>3, <2>4 DEF Inv
<1>4. ASSUME NEW c \in Of(pair) \ Keyed(pair), UNCHANGED opened,
             Goto(t, Task("claimKey", u, pair, c))
      PROVE  Inv'
  <2> DEFINE k == Task("claimKey", u, pair, c)
  <2>1. k.step = "claimKey" /\ k.user = u /\ k.pair = pair /\ k.conv = c
    BY DEF Task
  <2>2. k \in Call
    BY <1>1, TaskType DEF Steps, Of, TypeOK
  <2>3. c \in old /\ conv[c].pair = pair
    BY DEF Inv, KeysInv, Of, Keyed
  <2>4. Serves(k)
    BY <1>1, <2>1, <2>3 DEF Serves
  <2> QED BY <1>2, <1>4, <2>2, <2>4, OnlyCallMoves
<1>5. ASSUME Of(pair) = {}, UNCHANGED opened, Goto(t, Task("create", u, pair, None))
      PROVE  Inv'
  <2> DEFINE k == Task("create", u, pair, None)
  <2>1. k.step = "create" /\ k.user = u /\ k.pair = pair
    BY DEF Task
  <2>2. k \in Call
    BY <1>1, TaskType DEF Steps
  <2>3. Serves(k)
    BY <1>1, <1>5, <2>1 DEF Serves, Of, TypeOK
  <2> QED BY <1>2, <1>5, <2>2, <2>3, OnlyCallMoves
<1> QED BY <1>3, <1>4, <1>5 DEF OpenDirect

(* A conversation of old is given its key, or another of old has it.       *)
LEMMA ClaimKeyInv == ASSUME Inv, NEW t \in Calls, ClaimKey(t) PROVE Inv'
<1> DEFINE c == call[t].conv
           p == call[t].pair
           u == call[t].user
<1>1. TypeOK /\ u \in Users /\ p \in Pairs /\ c \in Of(p) \cap old /\ c \in DOMAIN conv
  BY DEF Inv, CallsServe, Serves, ClaimKey, At, Of, TypeOK
<1>2. call' \in [Calls -> Call] /\ call'[t] = Idle /\ \A s \in Calls : s # t => call'[s] = call[s]
  BY <1>1, FinishType DEF ClaimKey
<1>3. CASE Taken(p, c)
  <2>1. failed' = failed \cup {p} /\ UNCHANGED <<now, conv, old, message, opened>>
    BY <1>3 DEF ClaimKey
  <2>2. PICK d \in Keyed(p) : d # c
    BY <1>3 DEF Taken
  <2>3. d \in Of(p) \cap old
    BY <1>1, <2>2 DEF Inv, KeysInv, Keyed, Of
  <2>4. OpensSucceed'
    BY <1>1, <2>1, <2>2, <2>3 DEF Inv, OpensSucceed, Of
  <2>5. Grows
    BY <2>1 DEF Grows
  <2>6. CallsServe'
    BY <1>1, <1>2, <2>5, IdleServes, OneCallMoves DEF Inv
  <2>7. KeysInv'
    BY <2>1 DEF Inv, KeysInv, Of
  <2>8. MessagesInv' /\ LastMessageIsLatest'
    BY <2>1 DEF Inv, MessagesInv, LastMessageIsLatest
  <2>9. TypeOK'
    BY <1>1, <1>2, <2>1 DEF TypeOK
  <2> QED BY <2>4, <2>6, <2>7, <2>8, <2>9 DEF Inv
<1>4. CASE ~Taken(p, c)
  <2>1. /\ conv' = [conv EXCEPT ![c].keyed = TRUE] /\ opened' = opened \cup {<<u, c>>}
        /\ UNCHANGED <<now, old, message, failed>>
    BY <1>4 DEF ClaimKey
  <2>2. /\ DOMAIN conv' = DOMAIN conv
        /\ conv'[c] = [conv[c] EXCEPT !.keyed = TRUE]
        /\ \A x \in DOMAIN conv : x # c => conv'[x] = conv[x]
    BY <1>1, <2>1 DEF TypeOK
  <2>3. conv[c] \in ConvRow /\ conv[c].pair = p
    BY <1>1 DEF TypeOK, Of
  <2>4. /\ conv'[c].keyed /\ conv'[c].pair = p /\ conv'[c].lastMessageAt = conv[c].lastMessageAt
        /\ conv'[c] \in ConvRow
    BY <2>2, <2>3 DEF ConvRow
  <2>5. Grows
    BY <2>1, <2>2, <2>3, <2>4 DEF Grows
  <2>6. CallsServe'
    BY <1>1, <1>2, <2>5, IdleServes, OneCallMoves DEF Inv
  <2>7. KeysInv'
    <3>1. \A x \in DOMAIN conv' \ old' :
            conv'[x].keyed /\ \A d \in old' : conv'[d].pair # conv'[x].pair
      BY <1>1, <2>1, <2>2, <2>5 DEF Inv, KeysInv, Grows, TypeOK
    <3>2. \A x \in DOMAIN conv : conv[x].keyed /\ conv[x].pair = p => x = c
      BY <1>4 DEF Taken, Keyed, Of
    <3>3. \A x, y \in DOMAIN conv' :
            conv'[x].keyed /\ conv'[y].keyed /\ conv'[x].pair = conv'[y].pair => x = y
      <4>1. \A x \in DOMAIN conv : conv'[x].pair = conv[x].pair
        BY <2>2, <2>3, <2>4
      <4> QED BY <2>2, <2>4, <3>2, <4>1 DEF Inv, KeysInv
    <3>4. \A x \in opened' : x[2] \in DOMAIN conv' /\ conv'[x[2]].keyed
      BY <1>1, <2>1, <2>2, <2>4 DEF Inv, KeysInv
    <3> QED BY <3>1, <3>3, <3>4 DEF KeysInv
  <2>8. OpensSucceed'
    BY <1>1, <2>1, <2>5, OldOf DEF Inv, OpensSucceed
  <2>9. MessagesInv' /\ LastMessageIsLatest'
    <3>1. \A x \in DOMAIN conv : conv'[x].lastMessageAt = conv[x].lastMessageAt
      BY <2>2, <2>4
    <3> QED BY <2>1, <2>2, <3>1 DEF Inv, MessagesInv, LastMessageIsLatest
  <2>10. TypeOK'
    <3>1. conv' \in [DOMAIN conv' -> ConvRow]
      BY <1>1, <2>1, <2>2, <2>4 DEF TypeOK
    <3>2. opened' \subseteq Users \X ConvIds
      BY <1>1, <2>1 DEF TypeOK
    <3> QED BY <1>1, <1>2, <2>1, <2>2, <3>1, <3>2 DEF TypeOK
  <2> QED BY <2>6, <2>7, <2>8, <2>9, <2>10 DEF Inv
<1> QED BY <1>3, <1>4

(* The unique index lets one of two calls create the conversation.         *)
LEMMA CreateConversationInv ==
  ASSUME Inv, NEW t \in Calls, CreateConversation(t) PROVE Inv'
<1> DEFINE p == call[t].pair
           u == call[t].user
<1>1. /\ TypeOK /\ u \in Users /\ p \in Pairs /\ call[t] \in Call
      /\ \A d \in old : conv[d].pair # p
  BY DEF Inv, CallsServe, Serves, CreateConversation, At, TypeOK
<1>2. CASE Taken(p, None)
  <2> DEFINE k == [call[t] EXCEPT !.step = "reopen"]
  <2>1. Goto(t, k) /\ UNCHANGED <<now, conv, old, message, opened, failed>>
    BY <1>2 DEF CreateConversation, RetryOnTaken
  <2>2. k \in Call /\ k.step = "reopen" /\ k.user = u /\ k.pair = p
    BY <1>1 DEF Call, Steps
  <2>3. Serves(k)
    BY <1>1, <2>2 DEF Serves
  <2> QED BY <2>1, <2>2, <2>3, OnlyCallMoves
<1>3. CASE ~Taken(p, None)
  <2>1. PICK c \in ConvIds \ DOMAIN conv :
          /\ conv' = [x \in DOMAIN conv \cup {c} |->
               IF x = c THEN [pair |-> p, keyed |-> TRUE, lastMessageAt |-> 0] ELSE conv[x]]
          /\ opened' = opened \cup {<<u, c>>}
    BY <1>3 DEF CreateConversation
  <2>2. /\ Finish(t) /\ UNCHANGED <<now, old, message, failed>>
    BY <1>3 DEF CreateConversation
  <2>3. call' \in [Calls -> Call] /\ call'[t] = Idle /\ \A s \in Calls : s # t => call'[s] = call[s]
    BY <1>1, <2>2, FinishType
  <2>4. /\ DOMAIN conv' = DOMAIN conv \cup {c}
        /\ conv'[c] = [pair |-> p, keyed |-> TRUE, lastMessageAt |-> 0]
        /\ \A x \in DOMAIN conv : conv'[x] = conv[x]
    BY <2>1
  <2>5. Grows
    BY <2>2, <2>4 DEF Grows
  <2>6. CallsServe'
    BY <1>1, <2>3, <2>5, IdleServes, OneCallMoves DEF Inv
  <2>7. c \notin old /\ old \subseteq DOMAIN conv
    BY <1>1, <2>1 DEF TypeOK
  <2>8. KeysInv'
    <3>1. \A x \in DOMAIN conv' \ old' :
            conv'[x].keyed /\ \A d \in old' : conv'[d].pair # conv'[x].pair
      BY <1>1, <2>2, <2>4, <2>7 DEF Inv, KeysInv
    <3>2. \A x \in DOMAIN conv : ~(conv[x].keyed /\ conv[x].pair = p)
      <4>1. None \notin Keyed(p)
        BY <1>1, NoneAssumption DEF Keyed, Of, TypeOK
      <4> QED BY <1>3, <4>1 DEF Taken, Keyed, Of
    <3>3. \A x, y \in DOMAIN conv' :
            conv'[x].keyed /\ conv'[y].keyed /\ conv'[x].pair = conv'[y].pair => x = y
      BY <2>4, <3>2 DEF Inv, KeysInv
    <3>4. \A x \in opened' : x[2] \in DOMAIN conv' /\ conv'[x[2]].keyed
      BY <2>1, <2>4 DEF Inv, KeysInv
    <3> QED BY <3>1, <3>3, <3>4 DEF KeysInv
  <2>9. OpensSucceed'
    BY <1>1, <2>2, <2>5, OldOf DEF Inv, OpensSucceed
  <2>10. MessagesInv' /\ LastMessageIsLatest'
    <3>1. \A m \in DOMAIN message :
            message[m].conv \in DOMAIN conv /\ conv'[message[m].conv] = conv[message[m].conv]
      BY <2>4 DEF Inv, MessagesInv
    <3> QED BY <2>2, <2>4, <3>1 DEF Inv, MessagesInv, LastMessageIsLatest
  <2>11. TypeOK'
    <3>1. conv'[c] \in ConvRow
      BY <1>1, <2>4, LimitsAssumption DEF ConvRow
    <3>2. conv' \in [DOMAIN conv' -> ConvRow]
      BY <1>1, <2>1, <2>4, <3>1 DEF TypeOK
    <3>3. DOMAIN conv' \subseteq ConvIds /\ old' \subseteq DOMAIN conv'
      BY <1>1, <2>2, <2>4 DEF TypeOK
    <3>4. opened' \subseteq Users \X ConvIds
      BY <1>1, <2>1 DEF TypeOK
    <3> QED BY <1>1, <2>2, <2>3, <3>2, <3>3, <3>4 DEF TypeOK
  <2> QED BY <2>6, <2>8, <2>9, <2>10, <2>11 DEF Inv
<1> QED BY <1>2, <1>3

LEMMA ReopenInv == ASSUME Inv, NEW t \in Calls, Reopen(t) PROVE Inv'
<1> DEFINE u == call[t].user
<1>1. TypeOK /\ u \in Users
  BY DEF Inv, CallsServe, Serves, Reopen, At
<1>2. PICK c \in Keyed(call[t].pair) : opened' = opened \cup {<<u, c>>}
  BY DEF Reopen
<1>3. Finish(t) /\ UNCHANGED <<now, conv, old, message, failed>>
  BY DEF Reopen
<1>4. call' \in [Calls -> Call] /\ call'[t] = Idle /\ \A s \in Calls : s # t => call'[s] = call[s]
  BY <1>1, <1>3, FinishType
<1>5. Grows
  BY <1>3 DEF Grows
<1>6. CallsServe'
  BY <1>1, <1>4, <1>5, IdleServes, OneCallMoves DEF Inv
<1>7. KeysInv'
  BY <1>2, <1>3 DEF Inv, KeysInv, Keyed, Of
<1>8. OpensSucceed' /\ MessagesInv' /\ LastMessageIsLatest'
  BY <1>3 DEF Inv, OpensSucceed, Of, MessagesInv, LastMessageIsLatest
<1>9. c \in ConvIds
  BY <1>1 DEF Keyed, Of, TypeOK
<1>10. TypeOK'
  BY <1>1, <1>2, <1>3, <1>4, <1>9 DEF TypeOK
<1> QED BY <1>6, <1>7, <1>8, <1>10 DEF Inv
-----------------------------------------------------------------------------
LEMMA SendMessageInv ==
  ASSUME Inv, NEW t \in Calls, NEW u \in Users, NEW c \in DOMAIN conv, SendMessage(t, u, c)
  PROVE  Inv'
<1> DEFINE k == Task("insert", u, {}, c)
<1>1. k.step = "insert" /\ k.user = u /\ k.conv = c
  BY DEF Task
<1>2. k \in Call
  BY TaskType DEF Steps, Inv, TypeOK
<1>3. Serves(k)
  BY <1>1 DEF Serves
<1> QED BY <1>3, <1>2, OnlyCallMoves DEF SendMessage

LEMMA InsertMessageInv == ASSUME Inv, NEW t \in Calls, InsertMessage(t) PROVE Inv'
<1> DEFINE k == [call[t] EXCEPT !.step = "touch", !.createdAt = now]
<1>1. call[t] \in Call /\ call[t].step = "insert" /\ now \in 0..MaxTime /\ Serves(call[t])
  BY DEF Inv, CallsServe, InsertMessage, At, TypeOK
<1>2. k \in Call /\ k.step = "touch" /\ k.user = call[t].user /\ k.conv = call[t].conv
  BY <1>1 DEF Call, Steps
<1>3. Serves(k)
  BY <1>1, <1>2 DEF Serves
<1> QED BY <1>2, <1>3, OnlyCallMoves DEF InsertMessage

(* The message that commits now is among the last to commit.               *)
LEMMA TouchConversationInv == ASSUME Inv, NEW t \in Calls, TouchConversation(t) PROVE Inv'
<1> DEFINE c == call[t].conv
           u == call[t].user
           at == call[t].createdAt
<1>1. /\ TypeOK /\ u \in Users /\ c \in DOMAIN conv /\ at \in 0..MaxTime /\ now \in 0..MaxTime
  BY DEF Inv, CallsServe, Serves, TouchConversation, At, TypeOK, Call
<1>2. /\ conv' = [conv EXCEPT ![c].lastMessageAt = at]
      /\ Finish(t) /\ UNCHANGED <<now, old, opened, failed>>
  BY DEF TouchConversation, LastTime
<1>3. PICK m \in MessageIds \ DOMAIN message :
        message' = [x \in DOMAIN message \cup {m} |->
          IF x = m THEN [conv |-> c, from |-> u, createdAt |-> at, committed |-> now]
                   ELSE message[x]]
  BY DEF TouchConversation
<1>4. call' \in [Calls -> Call] /\ call'[t] = Idle /\ \A s \in Calls : s # t => call'[s] = call[s]
  BY <1>1, <1>2, FinishType
<1>5. conv[c] \in ConvRow
  BY <1>1 DEF TypeOK
<1>6. /\ DOMAIN conv' = DOMAIN conv
      /\ conv'[c].pair = conv[c].pair /\ conv'[c].keyed = conv[c].keyed
      /\ conv'[c].lastMessageAt = at /\ conv'[c] \in ConvRow
      /\ \A x \in DOMAIN conv : x # c => conv'[x] = conv[x]
  BY <1>1, <1>2, <1>5 DEF ConvRow, TypeOK
<1>7. \A x \in DOMAIN conv : conv'[x].pair = conv[x].pair /\ conv'[x].keyed = conv[x].keyed
  BY <1>6
<1>8. Grows
  BY <1>2, <1>6, <1>7 DEF Grows
<1>9. CallsServe'
  BY <1>1, <1>4, <1>8, IdleServes, OneCallMoves DEF Inv
<1>10. KeysInv'
  <2>1. \A x \in DOMAIN conv' \ old' :
          conv'[x].keyed /\ \A d \in old' : conv'[d].pair # conv'[x].pair
    BY <1>1, <1>2, <1>6, <1>7 DEF Inv, KeysInv, TypeOK
  <2>2. \A x, y \in DOMAIN conv' :
          conv'[x].keyed /\ conv'[y].keyed /\ conv'[x].pair = conv'[y].pair => x = y
    BY <1>6, <1>7 DEF Inv, KeysInv
  <2>3. \A x \in opened' : x[2] \in DOMAIN conv' /\ conv'[x[2]].keyed
    BY <1>2, <1>6, <1>7 DEF Inv, KeysInv
  <2> QED BY <2>1, <2>2, <2>3 DEF KeysInv
<1>11. OpensSucceed'
  BY <1>1, <1>2, <1>8, OldOf DEF Inv, OpensSucceed
<1>12. /\ DOMAIN message' = DOMAIN message \cup {m}
       /\ message'[m].conv = c /\ message'[m].createdAt = at /\ message'[m].committed = now
       /\ message'[m] = [conv |-> c, from |-> u, createdAt |-> at, committed |-> now]
       /\ \A x \in DOMAIN message : message'[x] = message[x]
  BY <1>3
<1>13. MessagesInv'
  BY <1>1, <1>2, <1>6, <1>12 DEF Inv, MessagesInv
<1>14. LastMessageIsLatest'
  <2> SUFFICES ASSUME NEW x \in DOMAIN message'
               PROVE  \E n \in DOMAIN message' :
                        /\ message'[n].conv = message'[x].conv
                        /\ conv'[message'[x].conv].lastMessageAt = message'[n].createdAt
                        /\ \/ message'[x].createdAt <= message'[n].createdAt
                           \/ message'[x].committed <= message'[n].committed
    BY DEF LastMessageIsLatest
  <2>1. CASE message'[x].conv = c
    <3>1. message'[x].committed <= now
      BY <1>13, <1>2 DEF MessagesInv
    <3> QED BY <1>6, <1>12, <2>1, <3>1
  <2>2. CASE message'[x].conv # c
    <3>1. x \in DOMAIN message /\ message'[x] = message[x]
      BY <1>12, <2>2
    <3>2. message[x].conv \in DOMAIN conv /\ conv'[message[x].conv] = conv[message[x].conv]
      BY <1>6, <2>2, <3>1 DEF Inv, MessagesInv
    <3>3. PICK n \in DOMAIN message :
            /\ message[n].conv = message[x].conv
            /\ conv[message[x].conv].lastMessageAt = message[n].createdAt
            /\ \/ message[x].createdAt <= message[n].createdAt
               \/ message[x].committed <= message[n].committed
      BY <3>1 DEF Inv, LastMessageIsLatest
    <3> QED BY <1>12, <3>1, <3>2, <3>3
  <2> QED BY <2>1, <2>2
<1>15. TypeOK'
  <2>1. conv' \in [DOMAIN conv' -> ConvRow]
    BY <1>1, <1>2, <1>6 DEF TypeOK
  <2>2. message'[m] \in Message
    BY <1>1, <1>12 DEF Message, TypeOK
  <2>3. DOMAIN message' \subseteq MessageIds /\ message' \in [DOMAIN message' -> Message]
    BY <1>1, <1>3, <1>12, <2>2 DEF TypeOK
  <2> QED BY <1>1, <1>2, <1>4, <1>6, <2>1, <2>3 DEF TypeOK
<1> QED BY <1>9, <1>10, <1>11, <1>13, <1>14, <1>15 DEF Inv

LEMMA TickInv == ASSUME Inv, Tick PROVE Inv'
<1>1. now \in Nat /\ now' = now + 1 /\ now' \in 0..MaxTime
  BY LimitsAssumption DEF Inv, TypeOK, Tick
<1>2. UNCHANGED <<conv, old, message, opened, failed, call>>
  BY DEF Tick
<1>3. TypeOK'
  BY <1>1, <1>2 DEF Inv, TypeOK
<1>4. CallsServe' /\ KeysInv' /\ OpensSucceed' /\ LastMessageIsLatest'
  BY <1>2 DEF Inv, CallsServe, Serves, KeysInv, OpensSucceed, LastMessageIsLatest, Of
<1>5. MessagesInv'
  <2>1. \A m \in DOMAIN message : message[m].committed \in Nat
    BY LimitsAssumption DEF Inv, TypeOK, Message
  <2> QED BY <1>1, <1>2, <2>1 DEF Inv, MessagesInv
<1> QED BY <1>3, <1>4, <1>5 DEF Inv

LEMMA InitInv == Init => Inv
<1> SUFFICES ASSUME Init PROVE Inv
  OBVIOUS
<1>0. ASSUME NEW c \in old PROVE conv[c] \in ConvRow /\ ~conv[c].keyed
  <2>1. PICK p \in Pairs : conv[c] = [pair |-> p, keyed |-> FALSE, lastMessageAt |-> 0]
    BY DEF Init
  <2> QED BY <2>1, LimitsAssumption DEF ConvRow
<1>1. /\ DOMAIN conv = old /\ old \subseteq ConvIds
      /\ \A c \in old : conv[c] \in ConvRow /\ ~conv[c].keyed
  BY <1>0 DEF Init
<1>2. conv \in [DOMAIN conv -> ConvRow]
  BY <1>1 DEF Init
<1>3. TypeOK
  BY <1>1, <1>2, IdleType, LimitsAssumption DEF Init, TypeOK
<1>4. CallsServe
  BY IdleServes DEF Init, CallsServe
<1>5. KeysInv /\ OpensSucceed /\ MessagesInv /\ LastMessageIsLatest
  BY <1>1 DEF Init, KeysInv, OpensSucceed, MessagesInv, LastMessageIsLatest
<1> QED BY <1>3, <1>4, <1>5 DEF Inv

LEMMA NextInv == Inv /\ [Next]_vars => Inv'
<1> SUFFICES ASSUME Inv, [Next]_vars PROVE Inv'
  OBVIOUS
<1>1. CASE Tick
  BY <1>1, TickInv
<1>2. ASSUME NEW t \in Calls, Continue(t) PROVE Inv'
  BY <1>2, ClaimKeyInv, CreateConversationInv, ReopenInv, InsertMessageInv,
     TouchConversationInv, BreakInv DEF Continue
<1>3. ASSUME NEW t \in Calls, NEW u \in Users, Begin(t, u) PROVE Inv'
  BY <1>3, OpenDirectInv, SendMessageInv DEF Begin
<1>4. CASE UNCHANGED vars
  <2>1. UNCHANGED <<now, conv, old, message, opened, failed, call>>
    BY <1>4 DEF vars
  <2>2. TypeOK'
    BY <2>1 DEF Inv, TypeOK
  <2>3. CallsServe'
    BY <2>1 DEF Inv, CallsServe, Serves, Of
  <2> QED BY <2>1, <2>2, <2>3, RowsStay DEF Inv
<1> QED BY <1>1, <1>2, <1>3, <1>4 DEF Next

(* Every reachable state satisfies the inductive invariant.                *)
THEOREM Invariant == Spec => []Inv
BY InitInv, NextInv, PTL DEF Spec

(* The variables keep their types, for any users, ids and calls.           *)
THEOREM TypeCorrect == Spec => []TypeOK
<1>1. Inv => TypeOK
  BY DEF Inv
<1> QED BY <1>1, Invariant, PTL

(* All calls that open the conversation of two users are given the same.   *)
THEOREM OneConversationPerPair == Spec => []OpensAgree
<1>1. Inv => OpensAgree
  BY DEF Inv, KeysInv, OpensAgree
<1> QED BY <1>1, Invariant, PTL

(* Opening fails only for a pair with several conversations of old.        *)
THEOREM OpeningSucceeds == Spec => []OpensSucceed
<1>1. Inv => OpensSucceed
  BY DEF Inv
<1> QED BY <1>1, Invariant, PTL

(* lastMessageAt is the time of a message that none both began and         *)
(* committed after.                                                        *)
THEOREM ListIsSorted == Spec => []LastMessageIsLatest
<1>1. Inv => LastMessageIsLatest
  BY DEF Inv
<1> QED BY <1>1, Invariant, PTL
-----------------------------------------------------------------------------
(* The messages that come before m on the pages of its conversation, and   *)
(* those of the same createdAt.                                            *)
Newer(m) == {n \in In(message[m].conv) : message[n].createdAt > message[m].createdAt}
Tied(c, m) == \E n \in In(c) \ {m} : message[n].createdAt = message[m].createdAt

(* What the reader has not seen yet of the messages that were there when   *)
(* they began lies behind the pages they have read.                        *)
Ahead(c, m) == m \in In(c) /\ (Tied(c, m) \/ Cardinality(Newer(m)) >= reader.pages * Limit)

ReaderInv ==
  /\ IsFiniteSet(DOMAIN message)
  /\ reader.pages \in Nat
  /\ reader.pages = 0 => reader = NoReader
  /\ \A m \in reader.atStart \ reader.seen :
       IF reader.ended THEN m \in In(reader.conv) /\ Tied(reader.conv, m)
                       ELSE Ahead(reader.conv, m)

(* A message behind page many pages that is not on the next one is behind  *)
(* that one, too, and the page is not empty.                               *)
LEMMA PageSkipsNone ==
  ASSUME TypeOK, IsFiniteSet(DOMAIN message), NEW c, NEW page \in Nat,
         NEW found \in Pages(c, page + 1), NEW m \in In(c), m \notin found,
         ~Tied(c, m), Cardinality(Newer(m)) >= page * Limit
  PROVE  found # {} /\ Cardinality(Newer(m)) >= (page + 1) * Limit
<1> DEFINE N == Cardinality(In(c))
           T(x) == message[x].createdAt
<1>1. PICK row \in NewestFirst(c) :
        found = {row[i] : i \in {i \in DOMAIN row :
                                   Skip(page + 1) < i /\ i <= Skip(page + 1) + Limit}}
  BY DEF Pages
<1>2. IsFiniteSet(In(c)) /\ N \in Nat
  BY FS_Subset, FS_CardinalityType DEF In
<1>3. /\ row \in [1 .. N -> In(c)]
      /\ \A i, j \in 1 .. N : i < j => row[i] # row[j] /\ T(row[i]) >= T(row[j])
  BY <1>1 DEF NewestFirst
<1>4. row \in Injection(1 .. N, In(c))
  <2>1. \A i, j \in 1 .. N : row[i] = row[j] => i = j
    <3> SUFFICES ASSUME NEW i \in 1 .. N, NEW j \in 1 .. N, row[i] = row[j], i # j
                 PROVE  FALSE
      OBVIOUS
    <3>1. i < j \/ j < i
      BY <1>2
    <3> QED BY <1>3, <3>1
  <2> QED BY <1>3, <2>1 DEF Injection, IsInjective
<1>5. row \in Surjection(1 .. N, In(c))
  <2>1. IsFiniteSet(1 .. N) /\ Cardinality(1 .. N) = N
    BY <1>2, FS_Interval
  <2> QED BY <1>2, <1>4, <2>1, FS_Injection
<1>6. PICK k \in 1 .. N : row[k] = m
  BY <1>5 DEF Surjection
<1>7. \A x \in In(c) : T(x) \in Nat /\ x \in DOMAIN message /\ message[x].conv = c
  BY LimitsAssumption DEF In, TypeOK, Message
<1>8. Newer(m) = {row[i] : i \in 1 .. (k - 1)}
  <2>1. ASSUME NEW x \in Newer(m) PROVE \E i \in 1 .. (k - 1) : x = row[i]
    <3>1. x \in In(c) /\ T(x) > T(m)
      BY <1>7, <2>1 DEF Newer
    <3>2. PICK i \in 1 .. N : row[i] = x
      BY <1>5, <3>1 DEF Surjection
    <3>3. ~(k < i) /\ i # k
      BY <1>3, <1>6, <1>7, <3>1, <3>2
    <3>4. i < k
      BY <1>2, <3>3
    <3> QED BY <1>2, <3>2, <3>4
  <2>2. ASSUME NEW i \in 1 .. (k - 1) PROVE row[i] \in Newer(m)
    <3>1. i \in 1 .. N /\ i < k
      BY <1>2
    <3>2. row[i] \in In(c) /\ row[i] # m /\ T(row[i]) >= T(m)
      BY <1>3, <1>6, <3>1
    <3>3. T(row[i]) # T(m)
      BY <3>2 DEF Tied
    <3> QED BY <1>7, <3>2, <3>3 DEF Newer
  <2> QED BY <2>1, <2>2
<1>9. Cardinality(Newer(m)) = k - 1
  <2> DEFINE f == [i \in 1 .. (k - 1) |-> row[i]]
  <2>1. \A i \in 1 .. (k - 1) : i \in 1 .. N
    BY <1>2
  <2>2. f \in [1 .. (k - 1) -> Newer(m)]
    BY <1>8
  <2>3. \A i, j \in 1 .. (k - 1) : f[i] = f[j] => i = j
    BY <1>4, <2>1 DEF Injection, IsInjective
  <2>4. \A x \in Newer(m) : \E i \in 1 .. (k - 1) : f[i] = x
    BY <1>8
  <2>5. ExistsBijection(1 .. (k - 1), Newer(m))
    BY <2>2, <2>3, <2>4 DEF ExistsBijection, Bijection, Injection, IsInjective,
                               Surjection
  <2>6. IsFiniteSet(1 .. (k - 1)) /\ Cardinality(1 .. (k - 1)) = k - 1
    <3>1. 1 \in Int /\ k - 1 \in Int /\ k >= 1
      BY <1>2
    <3>2. IsFiniteSet(1 .. (k - 1))
          /\ Cardinality(1 .. (k - 1)) = IF 1 > k - 1 THEN 0 ELSE (k - 1) - 1 + 1
      BY <3>1, FS_Interval
    <3> QED BY <3>1, <3>2
  <2> QED BY <2>5, <2>6, FS_Bijection
<1>10. /\ page * Limit \in Nat /\ (page + 1) * Limit = page * Limit + Limit
       /\ Skip(page + 1) = page * Limit /\ Limit \in Nat \ {0}
  BY LimitAssumption DEF Skip
<1>11. k > page * Limit /\ k \in Nat
  BY <1>2, <1>9, <1>10
<1>12. ~(k <= page * Limit + Limit)
  <2>1. DOMAIN row = 1 .. N
    BY <1>3
  <2> QED BY <1>1, <1>6, <1>10, <1>11, <2>1
<1>13. found # {}
  <2>1. page * Limit + 1 \in DOMAIN row
    BY <1>2, <1>3, <1>10, <1>11
  <2>2. page * Limit < page * Limit + 1 /\ page * Limit + 1 <= page * Limit + Limit
    BY <1>10
  <2> QED BY <1>1, <1>10, <2>1, <2>2
<1>14. Cardinality(Newer(m)) >= (page + 1) * Limit
  BY <1>9, <1>10, <1>11, <1>12
<1> QED BY <1>13, <1>14

(* Messages stay as they are, and a new one moves those behind it back.    *)
LEMMA MessagesStay ==
  ASSUME Inv, IsFiniteSet(DOMAIN message), [Next]_vars
  PROVE  /\ IsFiniteSet(DOMAIN message') /\ DOMAIN message \subseteq DOMAIN message'
         /\ \A x \in DOMAIN message : message'[x] = message[x]
<1>1. CASE message' = message
  BY <1>1
<1>2. ASSUME NEW t \in Calls, TouchConversation(t)
      PROVE  \E m : /\ DOMAIN message' = DOMAIN message \cup {m}
                    /\ \A x \in DOMAIN message : message'[x] = message[x]
  <2>1. PICK m \in MessageIds \ DOMAIN message :
          message' = [x \in DOMAIN message \cup {m} |->
            IF x = m THEN [conv |-> call[t].conv, from |-> call[t].user,
                           createdAt |-> call[t].createdAt, committed |-> now]
                     ELSE message[x]]
    BY <1>2 DEF TouchConversation
  <2> QED BY <2>1
<1>3. ASSUME \A t \in Calls : ~TouchConversation(t) PROVE message' = message
  <2>1. ASSUME NEW t \in Calls, Continue(t) PROVE message' = message
    BY <1>3, <2>1 DEF Continue, ClaimKey, CreateConversation, Reopen, InsertMessage, Break
  <2>2. ASSUME NEW t \in Calls, NEW u \in Users, Begin(t, u) PROVE message' = message
    BY <2>2 DEF Begin, OpenDirect, SendMessage
  <2> QED BY <2>1, <2>2 DEF Next, Tick, vars
<1> QED BY <1>1, <1>2, <1>3, FS_AddElement

LEMMA StillAhead ==
  ASSUME Inv, IsFiniteSet(DOMAIN message), [Next]_vars, NEW c, NEW m \in In(c)
  PROVE  /\ m \in In(c)' /\ (Tied(c, m) => Tied(c, m)')
         /\ \A b \in Int : Cardinality(Newer(m)) >= b => Cardinality(Newer(m)') >= b
<1>1. /\ IsFiniteSet(DOMAIN message') /\ DOMAIN message \subseteq DOMAIN message'
      /\ \A x \in DOMAIN message : message'[x] = message[x]
  BY MessagesStay
<1>2. \A d : In(d) \subseteq In(d)' /\ In(d)' \subseteq DOMAIN message'
  BY <1>1 DEF In
<1>3. Tied(c, m) => Tied(c, m)'
  BY <1>1, <1>2 DEF Tied, In
<1>4. Newer(m) \subseteq Newer(m)' /\ Newer(m)' \subseteq DOMAIN message'
  BY <1>1, <1>2 DEF Newer, In
<1>5. IsFiniteSet(Newer(m)') /\ IsFiniteSet(Newer(m))
  BY <1>1, <1>4, FS_Subset
<1>6. /\ Cardinality(Newer(m)) \in Nat /\ Cardinality(Newer(m)') \in Nat
      /\ Cardinality(Newer(m)) <= Cardinality(Newer(m)')
  BY <1>4, <1>5, FS_Subset, FS_CardinalityType
<1> QED BY <1>2, <1>3, <1>6

LEMMA OthersKeepReader ==
  ASSUME Inv, ReaderInv, [Next]_vars, UNCHANGED reader
  PROVE  ReaderInv'
<1>1. IsFiniteSet(DOMAIN message')
  BY MessagesStay DEF ReaderInv
<1>2. reader.pages * Limit \in Int
  BY LimitAssumption DEF ReaderInv
<1>3. ASSUME NEW m \in reader.atStart \ reader.seen
      PROVE  IF reader.ended THEN m \in In(reader.conv)' /\ Tied(reader.conv, m)'
                             ELSE Ahead(reader.conv, m)'
  <2>1. m \in In(reader.conv)
    BY <1>3 DEF ReaderInv, Ahead
  <2>2. /\ m \in In(reader.conv)' /\ (Tied(reader.conv, m) => Tied(reader.conv, m)')
        /\ \A b \in Int : Cardinality(Newer(m)) >= b => Cardinality(Newer(m)') >= b
    BY <2>1, StillAhead DEF ReaderInv
  <2>3. CASE reader.ended
    BY <1>3, <2>2, <2>3 DEF ReaderInv
  <2>4. CASE ~reader.ended
    <3>1. Tied(reader.conv, m) \/ Cardinality(Newer(m)) >= reader.pages * Limit
      BY <1>3, <2>4 DEF ReaderInv, Ahead
    <3> QED BY <1>2, <2>2, <2>4, <3>1 DEF Ahead
  <2> QED BY <2>3, <2>4
<1> QED BY <1>1, <1>3 DEF ReaderInv

LEMMA ReadPageKeepsReader ==
  ASSUME Inv, ReaderInv, NEW c, ReadPage(c), reader.pages = 0 \/ c = reader.conv
  PROVE  ReaderInv'
<1> DEFINE page == reader.pages
           start == IF page = 0 THEN In(c) ELSE reader.atStart
<1>1. PICK found \in Pages(c, page + 1) :
        reader' = [conv |-> c, pages |-> page + 1, seen |-> reader.seen \cup found,
                   atStart |-> start, ended |-> found = {}]
  BY DEF ReadPage
<1>2. UNCHANGED <<conv, message>> /\ ~reader.ended /\ page \in Nat
  BY DEF ReadPage, vars, ReaderInv
<1>3. ASSUME NEW m \in start \ (reader.seen \cup found)
      PROVE  /\ m \in In(c)
             /\ Tied(c, m) \/ (found # {} /\ Cardinality(Newer(m)) >= (page + 1) * Limit)
  <2>1. m \in In(c) /\ (Tied(c, m) \/ Cardinality(Newer(m)) >= page * Limit)
    <3>1. CASE page = 0
      <4>1. m \in In(c) /\ page * Limit = 0
        BY <1>3, <3>1, LimitAssumption
      <4>2. IsFiniteSet(Newer(m))
        BY FS_Subset DEF ReaderInv, Newer, In
      <4> QED BY <4>1, <4>2, FS_CardinalityType
    <3>2. CASE page # 0
      BY <1>2, <1>3, <3>2 DEF ReaderInv, Ahead
    <3> QED BY <3>1, <3>2
  <2> QED BY <1>2, <1>3, <2>1, PageSkipsNone DEF Inv, ReaderInv
<1>4. \A m : In(c)' = In(c) /\ (Tied(c, m) <=> Tied(c, m)') /\ Newer(m)' = Newer(m)
  BY <1>2 DEF In, Tied, Newer
<1>5. /\ reader'.conv = c /\ reader'.pages = page + 1 /\ reader'.ended = (found = {})
      /\ reader'.atStart \ reader'.seen = start \ (reader.seen \cup found)
  BY <1>1
<1>6. ASSUME NEW m, m \in reader'.atStart \ reader'.seen
      PROVE  IF reader'.ended THEN m \in In(reader.conv)' /\ Tied(reader.conv, m)'
                              ELSE Ahead(reader.conv, m)'
  BY <1>3, <1>4, <1>5, <1>6 DEF Ahead
<1> QED BY <1>2, <1>5, <1>6 DEF ReaderInv

LEMMA ReaderNextInv == Inv /\ ReaderInv /\ [ReaderNext]_readerVars => Inv' /\ ReaderInv'
<1> SUFFICES ASSUME Inv, ReaderInv, [ReaderNext]_readerVars PROVE Inv' /\ ReaderInv'
  OBVIOUS
<1>1. CASE Next /\ UNCHANGED reader
  BY <1>1, NextInv, OthersKeepReader
<1>2. ASSUME NEW u \in Users, NEW c \in DOMAIN conv, OpenConversation(u, c)
      PROVE  Inv' /\ ReaderInv'
  <2>1. ReadPage(c) /\ reader.pages = 0 /\ UNCHANGED vars
    BY <1>2 DEF OpenConversation, ReadPage, NoReader
  <2> QED BY <2>1, NextInv, ReadPageKeepsReader
<1>3. CASE NextPage
  <2>1. ReadPage(reader.conv) /\ UNCHANGED vars
    BY <1>3 DEF NextPage, ReadPage
  <2> QED BY <2>1, NextInv, ReadPageKeepsReader
<1>4. CASE UNCHANGED readerVars
  <2>1. UNCHANGED vars /\ UNCHANGED reader
    BY <1>4 DEF readerVars
  <2> QED BY <2>1, NextInv, OthersKeepReader
<1> QED BY <1>1, <1>2, <1>3, <1>4 DEF ReaderNext

(* Whoever reads to the end has seen every message that was there when     *)
(* they began and that no other one ties with, for any size of a page and  *)
(* whatever is sent meanwhile.                                             *)
THEOREM NothingSlipsBetweenPages == ReaderSpec => []PagesMissNothing
<1>1. ReaderInit => Inv /\ ReaderInv
  <2> SUFFICES ASSUME ReaderInit PROVE Inv /\ ReaderInv
    OBVIOUS
  <2>1. DOMAIN message = {} /\ reader = NoReader
    BY DEF ReaderInit, Init
  <2> QED BY <2>1, InitInv, FS_EmptySet DEF ReaderInit, ReaderInv, NoReader
<1>2. ReaderInv => PagesMissNothing
  BY DEF ReaderInv, PagesMissNothing, Tied
<1> QED BY <1>1, <1>2, ReaderNextInv, PTL DEF ReaderSpec
=============================================================================
