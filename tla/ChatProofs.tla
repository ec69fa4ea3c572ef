----------------------------- MODULE ChatProofs -----------------------------
(* Conversations are read and written by their participants only, what was *)
(* read stays read, and everyone in a room is told.                        *)
EXTENDS Chat, TLAPS

LEMMA IdleType == Idle \in Call /\ Idle.step = "idle"
BY MaxTimeAssumption DEF Idle, Task, Call, Steps

LEMMA GotoType ==
  ASSUME TypeOK, NEW t \in Calls, NEW c \in Call, Goto(t, c)
  PROVE  /\ call' \in [Calls -> Call] /\ call'[t] = c
         /\ \A r \in Calls : r # t => call'[r] = call[r]
BY DEF TypeOK, Goto

LEMMA GotoOthers ==
  ASSUME TypeOK, NEW t \in Calls, NEW c, Goto(t, c), NEW r \in Calls, r # t
  PROVE  call'[r] = call[r]
BY DEF TypeOK, Goto

LEMMA FinishType ==
  ASSUME TypeOK, NEW t \in Calls, Finish(t)
  PROVE  /\ call' \in [Calls -> Call] /\ call'[t] = Idle
         /\ \A r \in Calls : r # t => call'[r] = call[r]
BY GotoType, IdleType DEF Finish

LEMMA TaskType ==
  ASSUME NEW step \in Steps, NEW u \in Users, NEW c \in Conversations \cup {None},
         NEW s \in Sockets \cup {None}, NEW m \in MessageIds \cup {None}, NEW at \in 0..MaxTime
  PROVE  Task(step, u, c, s, m, at) \in Call
BY DEF Task, Call
-----------------------------------------------------------------------------
(* What a call knows of the step it is at.                                 *)
Knows(c) ==
  /\ c.step \in {"commit", "mark", "enter", "emit"} => c.conv \in Conversations
  /\ c.step \in {"commit", "mark"} => c.user \in Members[c.conv] /\ c.at <= now
  /\ c.step = "enter" => c.socket \in Sockets /\ UserOf[c.socket] \in Members[c.conv]
  /\ c.step = "emit" => c.message \in DOMAIN message /\ message[c.message].conv = c.conv
  /\ c.step = "delete" => c.message \in DOMAIN message

CallsKnow == \A t \in Calls : Knows(call[t])

(* lastReadAt is the newest mark, unless that was overtaken.               *)
MarksInv ==
  /\ DOMAIN marks = DOMAIN lastReadAt
  /\ \A p \in DOMAIN marks : ~marks[p].overtaken => lastReadAt[p] = marks[p].newest

(* Who is owed a message is in the room that it goes to, and some call is  *)
(* about to tell the room.                                                 *)
Telling(m) == \E t \in Calls : At(t, "emit") /\ call[t].message = m

OwedInv ==
  \A s \in Sockets, m \in MessageIds : <<s, m>> \in owed =>
    m \in DOMAIN message /\ s \in room[message[m].conv] /\ Telling(m)

MessagesInv == \A m \in DOMAIN message : message[m].createdAt <= message[m].committed

Inv == TypeOK /\ CallsKnow /\ OnlyParticipants /\ MarksInv /\ MessagesInv /\ OwedInv

LEMMA ReadFromMarks == TypeOK /\ MarksInv /\ MessagesInv => ReadStaysRead
<1> SUFFICES ASSUME TypeOK, MarksInv, MessagesInv,
                    NEW p \in DOMAIN marks, NEW m \in DOMAIN message,
                    m \in Unread(p[1], p[2]), message[m].committed <= marks[p].newest,
                    ~marks[p].overtaken
             PROVE  FALSE
  BY DEF ReadStaysRead
<1>1. p \in DOMAIN lastReadAt /\ p \in Parties /\ marks[p].newest \in 0..MaxTime
  BY DEF TypeOK, MarksInv, Mark
<1>2. p = <<p[1], p[2]>>
  BY <1>1 DEF Parties
<1>3. message[m].createdAt > lastReadAt[p] /\ lastReadAt[p] = marks[p].newest
  BY <1>1, <1>2 DEF Unread, MarksInv
<1>4. message[m] \in Message /\ message[m].createdAt <= message[m].committed
  BY DEF TypeOK, MessagesInv
<1> QED BY <1>1, <1>3, <1>4, MaxTimeAssumption DEF Message
-----------------------------------------------------------------------------
(* Messages are not removed, and nothing but their deletion changes.       *)
Grows ==
  /\ DOMAIN message \subseteq DOMAIN message' /\ now <= now'
  /\ \A m \in DOMAIN message : message'[m].conv = message[m].conv

LEMMA StillKnows ==
  ASSUME TypeOK, Grows, now' \in 0..MaxTime, NEW c \in Call, Knows(c)
  PROVE  Knows(c)'
BY MaxTimeAssumption DEF Grows, Knows, Call, TypeOK

(* A call moves on to c, and the others stay as they are.                  *)
LEMMA OneCallMoves ==
  ASSUME TypeOK, CallsKnow, Grows, now' \in 0..MaxTime, NEW t \in Calls, NEW c \in Call,
         Goto(t, c), Knows(c)'
  PROVE  CallsKnow' /\ call' \in [Calls -> Call]
<1> SUFFICES ASSUME NEW r \in Calls PROVE Knows(call[r])'
  BY GotoType DEF CallsKnow
<1>1. CASE r = t
  BY <1>1, GotoType
<1>2. CASE r # t
  <2>1. Knows(call[r]) /\ call[r] \in Call
    BY DEF CallsKnow, TypeOK
  <2>2. call'[r] = call[r]
    BY <1>2, GotoType
  <2> QED BY <2>1, <2>2, StillKnows DEF Knows
<1> QED BY <1>1, <1>2

(* A call that was not about to tell anyone moves, nobody more is owed a   *)
(* message, and nobody leaves a room.                                      *)
LEMMA OwedKept ==
  ASSUME TypeOK, OwedInv, Grows, NEW t \in Calls, NEW c \in Call, Goto(t, c),
         call[t].step # "emit", owed' = owed,
         \A x \in Conversations : room[x] \subseteq room'[x]
  PROVE  OwedInv'
<1> SUFFICES ASSUME NEW s \in Sockets, NEW m \in MessageIds, <<s, m>> \in owed
             PROVE  m \in DOMAIN message' /\ s \in room'[message'[m].conv] /\ Telling(m)'
  BY DEF OwedInv
<1>1. m \in DOMAIN message /\ s \in room[message[m].conv] /\ Telling(m)
  BY DEF OwedInv
<1>2. PICK r \in Calls : At(r, "emit") /\ call[r].message = m
  BY <1>1 DEF Telling
<1>3. call'[r] = call[r]
  BY <1>2, GotoType DEF At
<1>4. Telling(m)'
  BY <1>2, <1>3 DEF Telling, At
<1>5. message[m].conv \in Conversations
  BY <1>1 DEF TypeOK, Message
<1> QED BY <1>1, <1>4, <1>5 DEF Grows

LEMMA IdleKnows == Knows(Idle) /\ Knows(Idle)'
BY IdleType DEF Knows

(* A step of one call that touches nothing but the call.                   *)
LEMMA OnlyCallMoves ==
  ASSUME Inv, NEW t \in Calls, NEW c \in Call, Goto(t, c), Knows(c), call[t].step # "emit",
         UNCHANGED <<now, message, lastReadAt, socket, room, told, marks, owed>>
  PROVE  Inv'
<1>1. Grows /\ now' \in 0..MaxTime /\ TypeOK /\ CallsKnow
  BY MaxTimeAssumption DEF Grows, Inv, TypeOK
<1>2. Knows(c)'
  BY DEF Knows
<1>3. CallsKnow' /\ call' \in [Calls -> Call]
  BY <1>1, <1>2, OneCallMoves
<1>4. TypeOK'
  BY <1>1, <1>3 DEF TypeOK
<1>5. OnlyParticipants'
  BY DEF Inv, OnlyParticipants
<1>6. MarksInv' /\ MessagesInv'
  BY DEF Inv, MarksInv, MessagesInv
<1>7. OwedInv'
  BY <1>1, OwedKept DEF Inv
<1> QED BY <1>3, <1>4, <1>5, <1>6, <1>7 DEF Inv

(* A step that touches only the sockets, and who waits for a message.      *)
LEMMA OnlySocketsMove ==
  ASSUME Inv, UNCHANGED <<now, message, lastReadAt, told, call, marks>>,
         socket' \in [Sockets -> {"connecting", "on", "closed"}],
         room' \in [Conversations -> SUBSET Sockets],
         owed' \subseteq owed,
         \A s \in Sockets, m \in DOMAIN message :
           <<s, m>> \in owed' /\ s \in room[message[m].conv] => s \in room'[message[m].conv],
         \A c \in Conversations : \A s \in room'[c] : socket'[s] = "on" /\ Participant(UserOf[s], c)
  PROVE  Inv'
<1>1. TypeOK'
  BY DEF Inv, TypeOK
<1>2. CallsKnow'
  BY DEF Inv, CallsKnow, Knows
<1>3. OnlyParticipants'
  BY DEF Inv, OnlyParticipants
<1>4. MarksInv' /\ MessagesInv'
  BY DEF Inv, MarksInv, MessagesInv
<1>5. OwedInv'
  BY DEF Inv, OwedInv, Telling, At
<1> QED BY <1>1, <1>2, <1>3, <1>4, <1>5 DEF Inv
-----------------------------------------------------------------------------
LEMMA LivesInv == ASSUME Inv, NEW s \in Sockets, Lives(s) PROVE Inv'
<1>1. TypeOK /\ OnlyParticipants
  BY DEF Inv
<1>3. CASE Verified(s)
  BY <1>1, <1>3, OnlySocketsMove DEF Verified, TypeOK, OnlyParticipants
<1>4. CASE Disconnect(s)
  <2>1. room' \in [Conversations -> SUBSET Sockets] /\ \A c \in Conversations : room'[c] = room[c] \ {s}
    BY <1>1, <1>4 DEF Disconnect, TypeOK
  <2>2. owed' \subseteq owed /\ \A m \in MessageIds : <<s, m>> \notin owed'
    BY <1>4 DEF Disconnect
  <2>3. socket' \in [Sockets -> {"connecting", "on", "closed"}]
    BY <1>1, <1>4 DEF Disconnect, TypeOK
  <2>4. \A c \in Conversations : \A x \in room'[c] : socket'[x] = "on" /\ Participant(UserOf[x], c)
    BY <1>1, <1>4, <2>1 DEF Disconnect, TypeOK, OnlyParticipants
  <2>5. \A x \in Sockets, m \in DOMAIN message :
          <<x, m>> \in owed' /\ x \in room[message[m].conv] => x \in room'[message[m].conv]
    BY <1>1, <2>1, <2>2 DEF TypeOK, Message
  <2> QED BY <1>4, <2>1, <2>2, <2>3, <2>4, <2>5, OnlySocketsMove DEF Disconnect
<1>5. ASSUME NEW c \in Conversations, Leave(s, c) PROVE Inv'
  <2>1. /\ room' \in [Conversations -> SUBSET Sockets] /\ UNCHANGED socket
        /\ \A x \in Conversations : room'[x] = IF x = c THEN room[x] \ {s} ELSE room[x]
    BY <1>1, <1>5 DEF Leave, TypeOK
  <2>2. /\ owed' \subseteq owed
        /\ \A m \in DOMAIN message : message[m].conv = c => <<s, m>> \notin owed'
    BY <1>5 DEF Leave
  <2>3. \A x \in Conversations : \A y \in room'[x] : socket'[y] = "on" /\ Participant(UserOf[y], x)
    BY <1>1, <2>1 DEF OnlyParticipants
  <2>4. \A x \in Sockets, m \in DOMAIN message :
          <<x, m>> \in owed' /\ x \in room[message[m].conv] => x \in room'[message[m].conv]
    BY <1>1, <2>1, <2>2 DEF TypeOK, Message
  <2>5. socket' \in [Sockets -> {"connecting", "on", "closed"}]
    BY <1>1, <2>1 DEF TypeOK
  <2> QED BY <1>5, <2>1, <2>2, <2>3, <2>4, <2>5, OnlySocketsMove DEF Leave
<1> QED BY <1>3, <1>4, <1>5 DEF Lives

LEMMA BeginInv == ASSUME Inv, NEW t \in Calls, Begin(t) PROVE Inv'
<1>1. TypeOK /\ now \in 0..MaxTime /\ now <= now
  BY MaxTimeAssumption DEF Inv, TypeOK
<1>2. ASSUME NEW s \in Sockets, NEW c \in Conversations, Join(t, s, c) PROVE Inv'
  <2> DEFINE k == Task("enter", UserOf[s], c, s, None, 0)
  <2>1. k \in Call
    BY UserOfAssumption, MaxTimeAssumption, TaskType DEF Steps
  <2>2. Knows(k)
    BY <1>2 DEF Knows, Task, Join, Admitted, Speaks, Participant
  <2> QED BY <1>2, <2>1, <2>2, OnlyCallMoves DEF Join, At
<1>3. ASSUME NEW s \in Sockets, NEW c \in Conversations, Read(t, s, c) PROVE Inv'
  <2> DEFINE k == Task("mark", UserOf[s], c, s, None, now)
  <2>1. k \in Call
    BY <1>1, UserOfAssumption, TaskType DEF Steps
  <2>2. Knows(k)
    BY <1>1, <1>3 DEF Knows, Task, Read, Speaks, Participant
  <2> QED BY <1>3, <2>1, <2>2, OnlyCallMoves DEF Read, At
<1>4. ASSUME NEW u \in Users, NEW c \in Conversations, NEW s \in Sockets \cup {None}, Send(t, u, c, s)
      PROVE  Inv'
  <2> DEFINE k == Task("commit", u, c, s, None, now)
  <2>1. k \in Call
    BY <1>1, TaskType DEF Steps
  <2>2. Knows(k)
    BY <1>1, <1>4 DEF Knows, Task, Send, Participant
  <2> QED BY <1>4, <2>1, <2>2, OnlyCallMoves DEF Send, At
<1>5. ASSUME NEW u \in Users, NEW m \in DOMAIN message, DeleteMessage(t, u, m) PROVE Inv'
  <2> DEFINE k == Task("delete", u, None, None, m, 0)
  <2>1. m \in MessageIds
    BY <1>1 DEF TypeOK
  <2>2. u \in Users /\ u \in Users \cup {None} /\ None \in Conversations \cup {None} /\ None \in Sockets \cup {None}
    OBVIOUS
  <2>3. k \in Call
    BY <2>1, <2>2, MaxTimeAssumption DEF Task, Call, Steps
  <2>4. Knows(k)
    BY <1>5 DEF Knows, Task
  <2> QED BY <1>5, <2>3, <2>4, OnlyCallMoves DEF DeleteMessage, At
<1> QED BY <1>2, <1>3, <1>4, <1>5 DEF Begin

LEMMA BreakInv == ASSUME Inv, NEW t \in Calls, Break(t) PROVE Inv'
BY IdleType, IdleKnows, OnlyCallMoves DEF Break, Finish, At

LEMMA EnterInv == ASSUME Inv, NEW t \in Calls, Enter(t) PROVE Inv'
<1>1. TypeOK /\ CallsKnow /\ OnlyParticipants /\ MarksInv /\ MessagesInv /\ OwedInv
  BY DEF Inv
<1>2. Grows /\ now' \in 0..MaxTime
  BY <1>1, MaxTimeAssumption DEF Enter, Grows, TypeOK
<1>3. CallsKnow' /\ call' \in [Calls -> Call]
  BY <1>1, <1>2, IdleType, IdleKnows, OneCallMoves DEF Enter, Finish
<1>4. /\ call[t].conv \in Conversations /\ call[t].socket \in Sockets
      /\ Participant(UserOf[call[t].socket], call[t].conv)
  BY <1>1 DEF Enter, At, CallsKnow, Knows, Participant
<1>5. /\ room' \in [Conversations -> SUBSET Sockets]
      /\ \A c \in Conversations : \A s \in room'[c] :
           s \in room[c] \/ (s = call[t].socket /\ c = call[t].conv /\ socket[s] = "on")
  BY <1>1, <1>4 DEF Enter, TypeOK
<1>6. TypeOK'
  BY <1>1, <1>3, <1>5 DEF Enter, TypeOK
<1>7. OnlyParticipants'
  BY <1>1, <1>4, <1>5 DEF Enter, OnlyParticipants
<1>8. MarksInv' /\ MessagesInv'
  BY <1>1 DEF Enter, MarksInv, MessagesInv
<1>9. \A x \in Conversations : room[x] \subseteq room'[x]
  BY <1>1, <1>4 DEF Enter, TypeOK
<1>10. OwedInv'
  BY <1>1, <1>2, <1>9, IdleType, OwedKept DEF Enter, At, Finish
<1> QED BY <1>3, <1>6, <1>7, <1>8, <1>10 DEF Inv

LEMMA CommitInv == ASSUME Inv, NEW t \in Calls, Commit(t) PROVE Inv'
<1>1. TypeOK /\ CallsKnow /\ OnlyParticipants /\ MarksInv /\ MessagesInv /\ OwedInv
  BY DEF Inv
<1>2. /\ call[t] \in Call /\ call[t].conv \in Conversations /\ call[t].at \in 0..MaxTime
      /\ call[t].user \in Members[call[t].conv] /\ call[t].at <= now
  BY <1>1 DEF Commit, At, CallsKnow, Knows, TypeOK, Call
<1>3. call[t].user \in Users /\ now \in 0..MaxTime /\ now <= now
  BY <1>1, <1>2, MembersAssumption, MaxTimeAssumption DEF TypeOK
<1> DEFINE row == [conv |-> call[t].conv, from |-> call[t].user,
                   createdAt |-> call[t].at, committed |-> now, deleted |-> FALSE]
<1>4. row \in Message
  BY <1>2, <1>3 DEF Message
<1>5. /\ row.conv = call[t].conv /\ row.from = call[t].user
      /\ row.createdAt = call[t].at /\ row.committed = now
  OBVIOUS
<1>6. PICK m \in MessageIds \ DOMAIN message :
        /\ message' = [x \in DOMAIN message \cup {m} |-> IF x = m THEN row ELSE message[x]]
        /\ IF call[t].socket = None
             THEN Finish(t) /\ UNCHANGED owed
             ELSE /\ Goto(t, [call[t] EXCEPT !.step = "emit", !.message = m])
                  /\ owed' = owed \cup (room[call[t].conv] \X {m})
  BY DEF Commit
<1> HIDE DEF row
<1>7. /\ DOMAIN message' = DOMAIN message \cup {m} /\ message'[m] = row
      /\ \A x \in DOMAIN message : message'[x] = message[x]
  BY <1>6
<1>8. UNCHANGED <<now, lastReadAt, socket, room, told, marks>>
  BY DEF Commit
<1>9. Grows /\ now' \in 0..MaxTime
  BY <1>3, <1>7, <1>8 DEF Grows
<1>10. CallsKnow' /\ call' \in [Calls -> Call]
  <2>1. CASE call[t].socket = None
    BY <1>1, <1>6, <1>9, <2>1, IdleType, IdleKnows, OneCallMoves DEF Finish
  <2>2. CASE call[t].socket # None
    <3>1. PICK k \in Call : k = [call[t] EXCEPT !.step = "emit", !.message = m]
      BY <1>2, <1>6 DEF Call, Steps
    <3>2. k.step = "emit" /\ k.message = m /\ k.conv = call[t].conv
      BY <1>2, <3>1 DEF Call
    <3>3. Goto(t, k)
      BY <1>6, <2>2, <3>1
    <3>4. /\ k.conv \in Conversations /\ k.message \in DOMAIN message'
          /\ message'[k.message].conv = k.conv
      BY <1>2, <1>5, <1>7, <3>2
    <3>5. Knows(k)'
      BY <3>2, <3>4 DEF Knows
    <3> QED BY <1>1, <1>9, <3>3, <3>5, OneCallMoves
  <2> QED BY <2>1, <2>2
<1>11. /\ owed' \subseteq Sockets \X MessageIds
       /\ \A s \in Sockets, x \in MessageIds : <<s, x>> \in owed' =>
            \/ <<s, x>> \in owed
            \/ call[t].socket # None /\ x = m /\ s \in room[call[t].conv]
  <2>1. room[call[t].conv] \subseteq Sockets /\ owed \subseteq Sockets \X MessageIds
    BY <1>1, <1>2 DEF TypeOK
  <2> QED BY <1>6, <2>1
<1>12. DOMAIN message' \subseteq MessageIds /\ message' \in [DOMAIN message' -> Message]
  BY <1>1, <1>4, <1>6, <1>7 DEF TypeOK
<1>13. TypeOK'
  BY <1>1, <1>8, <1>10, <1>11, <1>12 DEF TypeOK
<1>14. OnlyParticipants'
  <2>1. \A x \in DOMAIN message' : Participant(message'[x].from, message'[x].conv)
    BY <1>1, <1>2, <1>5, <1>7 DEF OnlyParticipants, Participant
  <2>2. \A s \in Sockets : \A x \in told'[s] :
          x \in DOMAIN message' /\ Participant(UserOf[s], message'[x].conv)
    BY <1>1, <1>7, <1>8 DEF OnlyParticipants
  <2>3. \A c \in Conversations : \A s \in room'[c] :
          socket'[s] = "on" /\ Participant(UserOf[s], c)
    BY <1>1, <1>8 DEF OnlyParticipants
  <2> QED BY <2>1, <2>2, <2>3 DEF OnlyParticipants, Participant
<1>15. MarksInv'
  BY <1>1, <1>8 DEF MarksInv
<1>16. MessagesInv'
  BY <1>1, <1>2, <1>5, <1>7 DEF MessagesInv
<1>17. OwedInv'
  <2> SUFFICES ASSUME NEW s \in Sockets, NEW x \in MessageIds, <<s, x>> \in owed'
               PROVE  x \in DOMAIN message' /\ s \in room'[message'[x].conv] /\ Telling(x)'
    BY DEF OwedInv
  <2>1. CASE <<s, x>> \in owed
    <3>1. x \in DOMAIN message /\ s \in room[message[x].conv]
      BY <1>1, <2>1 DEF OwedInv
    <3>2. PICK r \in Calls : At(r, "emit") /\ call[r].message = x
      BY <1>1, <2>1 DEF OwedInv, Telling
    <3>3. call'[r] = call[r]
      BY <1>1, <1>6, <3>2, GotoOthers DEF Commit, At, Finish
    <3> QED BY <1>7, <1>8, <3>1, <3>2, <3>3 DEF Telling, At
  <2>2. CASE call[t].socket # None /\ x = m /\ s \in room[call[t].conv]
    <3>1. call'[t] = [call[t] EXCEPT !.step = "emit", !.message = m]
      BY <1>1, <1>6, <2>2 DEF Goto, TypeOK
    <3>2. call'[t].step = "emit" /\ call'[t].message = m
      BY <1>2, <3>1 DEF Call
    <3> QED BY <1>5, <1>7, <1>8, <2>2, <3>2 DEF Telling, At
  <2> QED BY <1>11, <2>1, <2>2
<1> QED BY <1>10, <1>13, <1>14, <1>15, <1>16, <1>17 DEF Inv

LEMMA EmitInv == ASSUME Inv, NEW t \in Calls, Emit(t) PROVE Inv'
<1>1. TypeOK /\ CallsKnow /\ OnlyParticipants /\ MarksInv /\ MessagesInv /\ OwedInv
  BY DEF Inv
<1>2. Grows /\ now' \in 0..MaxTime
  BY <1>1, MaxTimeAssumption DEF Emit, Grows, TypeOK
<1>3. CallsKnow' /\ call' \in [Calls -> Call]
  BY <1>1, <1>2, IdleType, IdleKnows, OneCallMoves DEF Emit, Finish
<1>4. /\ call[t].message \in DOMAIN message /\ call[t].conv \in Conversations
      /\ message[call[t].message].conv = call[t].conv
  BY <1>1 DEF Emit, At, CallsKnow, Knows
<1>5. told' \in [Sockets -> SUBSET MessageIds]
  BY <1>1, <1>4 DEF Emit, TypeOK
<1>6. TypeOK'
  BY <1>1, <1>3, <1>5 DEF Emit, TypeOK
<1>7. \A s \in Sockets : \A m \in told'[s] :
         m \in told[s] \/ (s \in room[call[t].conv] /\ m = call[t].message)
  BY DEF Emit, Hearers
<1>8. \A s \in Sockets : \A m \in told'[s] :
         m \in DOMAIN message /\ Participant(UserOf[s], message[m].conv)
  BY <1>1, <1>4, <1>7 DEF OnlyParticipants
<1>9. OnlyParticipants'
  BY <1>1, <1>8 DEF Emit, OnlyParticipants
<1>10. MarksInv' /\ MessagesInv'
  BY <1>1 DEF Emit, MarksInv, MessagesInv
<1>11. \A s \in Sockets, m \in MessageIds : <<s, m>> \in owed' =>
         <<s, m>> \in owed /\ (s \in room[call[t].conv] => m # call[t].message)
  BY DEF Emit, Hearers
<1>12. ASSUME NEW s \in Sockets, NEW m \in MessageIds, <<s, m>> \in owed'
       PROVE  m \in DOMAIN message /\ s \in room[message[m].conv] /\ Telling(m)'
  <2>1. m \in DOMAIN message /\ s \in room[message[m].conv] /\ Telling(m)
    BY <1>1, <1>11, <1>12 DEF OwedInv
  <2>2. m # call[t].message
    BY <1>4, <1>11, <1>12, <2>1
  <2>3. PICK r \in Calls : At(r, "emit") /\ call[r].message = m
    BY <2>1 DEF Telling
  <2>4. call'[r] = call[r]
    BY <1>1, <2>2, <2>3, FinishType DEF Emit
  <2> QED BY <2>1, <2>3, <2>4 DEF Telling, At
<1>13. OwedInv'
  BY <1>12 DEF Emit, OwedInv
<1> QED BY <1>3, <1>6, <1>9, <1>10, <1>13 DEF Inv

LEMMA DeleteInv == ASSUME Inv, NEW t \in Calls, Delete(t) PROVE Inv'
<1>1. TypeOK /\ CallsKnow /\ OnlyParticipants /\ MarksInv /\ MessagesInv /\ OwedInv
  BY DEF Inv
<1>2. call[t].message \in DOMAIN message
  BY <1>1 DEF Delete, At, CallsKnow, Knows
<1>3. /\ DOMAIN message' = DOMAIN message /\ message' \in [DOMAIN message -> Message]
      /\ \A m \in DOMAIN message :
           /\ message'[m].conv = message[m].conv /\ message'[m].from = message[m].from
           /\ message'[m].createdAt = message[m].createdAt
           /\ message'[m].committed = message[m].committed
  BY <1>1, <1>2 DEF Delete, TypeOK, Message
<1>4. Grows /\ now' \in 0..MaxTime
  BY <1>1, <1>3, MaxTimeAssumption DEF Delete, Grows, TypeOK
<1>5. CallsKnow' /\ call' \in [Calls -> Call]
  BY <1>1, <1>4, IdleType, IdleKnows, OneCallMoves DEF Delete, Finish
<1>6. TypeOK'
  BY <1>1, <1>3, <1>5 DEF Delete, TypeOK
<1>7. OnlyParticipants'
  BY <1>1, <1>3 DEF Delete, OnlyParticipants, Participant
<1>8. MarksInv' /\ MessagesInv'
  BY <1>1, <1>3 DEF Delete, MarksInv, MessagesInv
<1>9. OwedInv'
  BY <1>1, <1>4, IdleType, OwedKept DEF Delete, At, Finish
<1> QED BY <1>5, <1>6, <1>7, <1>8, <1>9 DEF Inv

LEMMA MarkReadInv == ASSUME Inv, NEW t \in Calls, MarkRead(t) PROVE Inv'
<1>1. TypeOK /\ CallsKnow /\ OnlyParticipants /\ MarksInv /\ MessagesInv /\ OwedInv
  BY DEF Inv
<1>2. Grows /\ now' \in 0..MaxTime
  BY <1>1, MaxTimeAssumption DEF MarkRead, Grows, TypeOK
<1>3. CallsKnow' /\ call' \in [Calls -> Call]
  BY <1>1, <1>2, IdleType, IdleKnows, OneCallMoves DEF MarkRead, Finish
<1> DEFINE p == <<call[t].user, call[t].conv>>
           at == call[t].at
           new == [newest |-> Newest(p, at), overtaken |-> Newest(p, at) # at]
<1>4. p \in Parties /\ at \in 0..MaxTime
  <2>1. call[t] \in Call /\ call[t].conv \in Conversations /\ call[t].user \in Members[call[t].conv]
    BY <1>1 DEF MarkRead, At, CallsKnow, Knows, TypeOK
  <2> QED BY <2>1 DEF Parties, Call
<1>5. /\ lastReadAt' = [x \in DOMAIN lastReadAt \cup {p} |-> IF x = p THEN at ELSE lastReadAt[x]]
      /\ marks' = [x \in DOMAIN marks \cup {p} |-> IF x = p THEN new ELSE marks[x]]
      /\ UNCHANGED <<now, message, socket, room, told, owed>>
  BY DEF MarkRead, NewMark
<1>6. Newest(p, at) \in 0..MaxTime
  BY <1>1, <1>4 DEF Newest, TypeOK, Mark
<1>7. new \in Mark /\ new.newest = Newest(p, at) /\ (~new.overtaken => Newest(p, at) = at)
  BY <1>6 DEF Mark
<1> HIDE DEF p, at, new
<1>8. TypeOK'
  <2>1. DOMAIN lastReadAt' \subseteq Parties /\ lastReadAt' \in [DOMAIN lastReadAt' -> 0..MaxTime]
    BY <1>1, <1>4, <1>5 DEF TypeOK
  <2>2. DOMAIN marks' \subseteq Parties /\ marks' \in [DOMAIN marks' -> Mark]
    BY <1>1, <1>4, <1>5, <1>7 DEF TypeOK
  <2> QED BY <1>1, <1>3, <1>5, <2>1, <2>2 DEF TypeOK
<1>9. OnlyParticipants'
  BY <1>1, <1>5 DEF OnlyParticipants
<1>10. MarksInv' /\ MessagesInv'
  BY <1>1, <1>5, <1>7 DEF MarksInv, MessagesInv
<1>11. OwedInv'
  BY <1>1, <1>2, <1>5, IdleType, OwedKept DEF MarkRead, At, Finish
<1> QED BY <1>3, <1>8, <1>9, <1>10, <1>11 DEF Inv

LEMMA TickInv == ASSUME Inv, Tick PROVE Inv'
<1>1. TypeOK /\ CallsKnow /\ OnlyParticipants /\ MarksInv /\ MessagesInv /\ OwedInv
  BY DEF Inv
<1>2. now' \in 0..MaxTime /\ now <= now' /\ now \in 0..MaxTime
  BY <1>1, MaxTimeAssumption DEF Tick, TypeOK
<1>3. Grows
  BY <1>2 DEF Tick, Grows
<1>4. TypeOK'
  BY <1>1, <1>2 DEF Tick, TypeOK
<1>5. CallsKnow'
  <2> SUFFICES ASSUME NEW r \in Calls PROVE Knows(call[r])'
    BY DEF CallsKnow
  <2>1. Knows(call[r]) /\ call[r] \in Call /\ call' = call
    BY <1>1 DEF CallsKnow, TypeOK, Tick
  <2> QED BY <1>1, <1>2, <1>3, <2>1, StillKnows DEF Knows
<1>6. OnlyParticipants'
  BY <1>1 DEF Tick, OnlyParticipants
<1>7. MarksInv' /\ MessagesInv'
  BY <1>1 DEF Tick, MarksInv, MessagesInv
<1>8. OwedInv'
  BY <1>1 DEF Tick, OwedInv, Telling, At
<1> QED BY <1>4, <1>5, <1>6, <1>7, <1>8 DEF Inv

LEMMA InitInv == Init => Inv
<1> SUFFICES ASSUME Init PROVE Inv
  OBVIOUS
<1>1. TypeOK
  BY IdleType, MaxTimeAssumption DEF Init, TypeOK
<1>2. CallsKnow
  BY IdleKnows DEF Init, CallsKnow
<1>3. OnlyParticipants
  BY DEF Init, OnlyParticipants
<1>4. MarksInv /\ MessagesInv /\ OwedInv
  BY DEF Init, MarksInv, MessagesInv, OwedInv
<1> QED BY <1>1, <1>2, <1>3, <1>4 DEF Inv

LEMMA NextInv == Inv /\ [Next]_vars => Inv'
<1> SUFFICES ASSUME Inv, [Next]_vars PROVE Inv'
  OBVIOUS
<1>1. CASE Tick
  BY <1>1, TickInv
<1>2. ASSUME NEW s \in Sockets, Lives(s) PROVE Inv'
  BY <1>2, LivesInv
<1>3. ASSUME NEW t \in Calls, Begin(t) PROVE Inv'
  BY <1>3, BeginInv
<1>4. ASSUME NEW t \in Calls, Continue(t) PROVE Inv'
  BY <1>4, EnterInv, CommitInv, EmitInv, DeleteInv, MarkReadInv, BreakInv DEF Continue
<1>5. CASE UNCHANGED vars
  <2>1. TypeOK' /\ CallsKnow'
    BY <1>5 DEF Inv, TypeOK, CallsKnow, Knows, vars
  <2>2. OnlyParticipants' /\ MessagesInv'
    BY <1>5 DEF Inv, OnlyParticipants, MessagesInv, vars
  <2>3. MarksInv' /\ OwedInv'
    BY <1>5 DEF Inv, MarksInv, OwedInv, Telling, At, vars
  <2> QED BY <2>1, <2>2, <2>3 DEF Inv
<1> QED BY <1>1, <1>2, <1>3, <1>4, <1>5 DEF Next
-----------------------------------------------------------------------------
(* What calls know of their steps, whose mark lastReadAt is and who will   *)
(* tell those owed a message hold whatever the calls, sockets and clock do.*)
THEOREM Invariant == Spec => []Inv
<1>1. Init => Inv
  BY InitInv
<1>2. Inv /\ [Next]_vars => Inv'
  BY NextInv
<1> QED BY <1>1, <1>2, PTL DEF Spec

(* The variables keep their types in ConversationsService and ChatGateway. *)
THEOREM TypeCorrect == Spec => []TypeOK
<1>1. Inv => TypeOK
  BY DEF Inv
<1> QED BY <1>1, Invariant, PTL

(* Rows, rooms and events are those of participants, however joins, leaves *)
(* and emissions overlap with each other.                                  *)
THEOREM ParticipantsOnly == Spec => []OnlyParticipants
<1>1. Inv => OnlyParticipants
  BY DEF Inv
<1> QED BY <1>1, Invariant, PTL

(* What came before a mark as read is counted as unread again only after   *)
(* an earlier mark that was written later.                                 *)
THEOREM ReadStays == Spec => []ReadStaysRead
<1>1. Inv => ReadStaysRead
  BY ReadFromMarks DEF Inv
<1> QED BY <1>1, Invariant, PTL

(* Who is in a room as a message from a socket commits there is told of it *)
(* by the gateway's call, or leaves first.                                 *)
THEOREM EveryoneIsTold == Spec => []EveryoneInRoomHears
<1>1. Inv => EveryoneInRoomHears
  BY DEF Inv, OwedInv, Telling, EveryoneInRoomHears
<1> QED BY <1>1, Invariant, PTL
=============================================================================
