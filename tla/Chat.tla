-------------------------------- MODULE Chat --------------------------------
(***************************************************************************)
(* What goes on in conversations once they are open: messages sent by REST *)
(* or over a socket, deleted and marked as read (ConversationsService),    *)
(* and the rooms and events of ChatGateway.                                *)
(*                                                                         *)
(* The handlers begin with assertParticipant, whose answer never changes,  *)
(* since participants are only written with their conversation; a call is  *)
(* therefore a step that begins after it, and the awaits that follow.  A   *)
(* socket stands for one connection: a client that reconnects has a new    *)
(* one.  The limit on a socket's events is in RateLimit; typing:update and *)
(* message:read, which are only passed on, are left out of what is told.   *)
(***************************************************************************)
EXTENDS Naturals, FiniteSets

CONSTANTS
  Users,
  Conversations,
  Members,      \* the participants of each conversation
  Sockets,      \* supply of connections: a bound
  UserOf,       \* the user whose token a socket brings
  MessageIds,   \* supply of uuids for messages: a bound
  Calls,        \* calls that may be under way at a time: a bound
  MaxTime,      \* the bound on the clock
  None

ASSUME MembersAssumption == Members \in [Conversations -> SUBSET Users]
ASSUME UserOfAssumption == UserOf \in [Sockets -> Users]
ASSUME NoneAssumption == None \notin Users \cup Conversations \cup Sockets \cup MessageIds
ASSUME MaxTimeAssumption == MaxTime \in Nat

VARIABLES
  now,          \* the clock of the server and of the database
  message,      \* committed "Message" rows
  lastReadAt,   \* the column of each participant that has one
  socket,       \* sockets: connecting, on, closed
  room,         \* the sockets in each conversation's room
  told,         \* the messages whose message:new reached each socket
  call,         \* what each call is about to do
  marks,        \* history, of each party: the newest mark that was written, and
                \* whether an older one has overtaken it, being written last
  owed          \* history: <<s, m>>, s was in the room as m committed, has not
                \* left since and has not been told

vars == <<now, message, lastReadAt, socket, room, told, call, marks, owed>>
-----------------------------------------------------------------------------
Parties == UNION {{<<u, c>> : u \in Members[c]} : c \in Conversations}
Message == [conv : Conversations, from : Users, createdAt : 0..MaxTime,
            committed : 0..MaxTime, deleted : BOOLEAN]
Mark == [newest : 0..MaxTime, overtaken : BOOLEAN]

Steps == {"idle", "commit", "emit", "delete", "mark", "enter"}
Call == [step : Steps, user : Users \cup {None}, conv : Conversations \cup {None},
         socket : Sockets \cup {None}, message : MessageIds \cup {None}, at : 0..MaxTime]

Task(step, u, c, s, m, at) ==
  [step |-> step, user |-> u, conv |-> c, socket |-> s, message |-> m, at |-> at]
Idle == Task("idle", None, None, None, None, 0)

At(t, step) == call[t].step = step
Goto(t, c) == call' = [call EXCEPT ![t] = c]
Finish(t) == Goto(t, Idle)

(* assertParticipant.                                                      *)
Participant(u, c) == u \in Members[c]

(* The events of a socket are those of its user, once its token is         *)
(* verified.                                                               *)
Speaks(s, c) == socket[s] = "on" /\ Participant(UserOf[s], c)

Init ==
  /\ now = 0
  /\ message = [m \in {} |-> None] /\ lastReadAt = [p \in {} |-> None]
  /\ socket = [s \in Sockets |-> "connecting"]
  /\ room = [c \in Conversations |-> {}]
  /\ told = [s \in Sockets |-> {}]
  /\ call = [t \in Calls |-> Idle]
  /\ marks = [p \in {} |-> None] /\ owed = {}
-----------------------------------------------------------------------------
(* A socket is open while its token is being verified; one that has not    *)
(* come yet is like one whose verification takes long.                     *)
Verified(s) ==
  /\ socket[s] = "connecting"
  /\ socket' = [socket EXCEPT ![s] = "on"]
  /\ UNCHANGED <<now, message, lastReadAt, room, told, call, marks, owed>>

(* The client goes away, its token is refused, or it sends an event before *)
(* it is verified: it is disconnected and is in no room any more.          *)
Disconnect(s) ==
  /\ socket[s] \in {"connecting", "on"}
  /\ socket' = [socket EXCEPT ![s] = "closed"]
  /\ room' = [c \in Conversations |-> room[c] \ {s}]
  /\ owed' = owed \ ({s} \X MessageIds)
  /\ UNCHANGED <<now, message, lastReadAt, told, call, marks>>

(* Mutant: whoever is signed in may join.                                  *)
AnyUser(s, c) == socket[s] = "on"

Admitted(s, c) == Speaks(s, c)

(* conversation:join, up to the await of the participant ...               *)
Join(t, s, c) ==
  /\ At(t, "idle") /\ Admitted(s, c)
  /\ Goto(t, Task("enter", UserOf[s], c, s, None, 0))
  /\ UNCHANGED <<now, message, lastReadAt, socket, room, told, marks, owed>>

(* ... and after it.  A socket that was closed meanwhile joins no room.    *)
Enter(t) ==
  /\ At(t, "enter")
  /\ LET s == call[t].socket
     IN room' = [room EXCEPT ![call[t].conv] = IF socket[s] = "on" THEN @ \cup {s} ELSE @]
  /\ Finish(t)
  /\ UNCHANGED <<now, message, lastReadAt, socket, told, marks, owed>>

(* conversation:leave awaits nothing before it acts, nor does it ask who   *)
(* the user is.                                                            *)
Leave(s, c) ==
  /\ socket[s] \in {"connecting", "on"}
  /\ room' = [room EXCEPT ![c] = @ \ {s}]
  /\ owed' = owed \ ({s} \X {m \in DOMAIN message : message[m].conv = c})
  /\ UNCHANGED <<now, message, lastReadAt, socket, told, call, marks>>
-----------------------------------------------------------------------------
(* sendMessage, up to the insert that gives the message its time.  s is    *)
(* None for a call by REST.                                                *)
Send(t, u, c, s) ==
  /\ At(t, "idle") /\ Participant(u, c)
  /\ s # None => u = UserOf[s] /\ Speaks(s, c)
  /\ Goto(t, Task("commit", u, c, s, None, now))
  /\ UNCHANGED <<now, message, lastReadAt, socket, room, told, marks, owed>>

(* The transaction ends.  Only the gateway goes on to tell the room.       *)
Commit(t) ==
  /\ At(t, "commit")
  /\ \E m \in MessageIds \ DOMAIN message :
       /\ message' = [x \in DOMAIN message \cup {m} |->
            IF x = m THEN [conv |-> call[t].conv, from |-> call[t].user,
                           createdAt |-> call[t].at, committed |-> now, deleted |-> FALSE]
                     ELSE message[x]]
       /\ IF call[t].socket = None
            THEN Finish(t) /\ UNCHANGED owed
            ELSE /\ Goto(t, [call[t] EXCEPT !.step = "emit", !.message = m])
                 /\ owed' = owed \cup (room[call[t].conv] \X {m})
  /\ UNCHANGED <<now, lastReadAt, socket, room, told, marks>>

(* Mutant: only the sender is answered, as by client.emit().               *)
ToSender(t) == room[call[t].conv] \cap {call[t].socket}

Hearers(t) == room[call[t].conv]

(* message:new and conversation:updated, to whoever is in the room.        *)
Emit(t) ==
  /\ At(t, "emit")
  /\ told' = [s \in Sockets |->
       IF s \in Hearers(t) THEN told[s] \cup {call[t].message} ELSE told[s]]
  /\ owed' = owed \ (Hearers(t) \X {call[t].message})
  /\ Finish(t)
  /\ UNCHANGED <<now, message, lastReadAt, socket, room, marks>>

(* deleteMessage: the row is read, then written by id.                     *)
DeleteMessage(t, u, m) ==
  /\ At(t, "idle") /\ message[m].from = u
  /\ Goto(t, Task("delete", u, None, None, m, 0))
  /\ UNCHANGED <<now, message, lastReadAt, socket, room, told, marks, owed>>

Delete(t) ==
  /\ At(t, "delete")
  /\ message' = [message EXCEPT ![call[t].message].deleted = TRUE]
  /\ Finish(t)
  /\ UNCHANGED <<now, lastReadAt, socket, room, told, marks, owed>>
-----------------------------------------------------------------------------
(* message:read, up to new Date(); the update follows.                     *)
Read(t, s, c) ==
  /\ At(t, "idle") /\ Speaks(s, c)
  /\ Goto(t, Task("mark", UserOf[s], c, s, None, now))
  /\ UNCHANGED <<now, message, lastReadAt, socket, room, told, marks, owed>>

(* Mutant: the first mark stays.                                           *)
FirstMark(p, at) == IF p \in DOMAIN lastReadAt THEN lastReadAt[p] ELSE at

(* Mutant: the mark is null.                                               *)
NoMark(p, at) == None

NewMark(p, at) == at

Newest(p, at) == IF p \in DOMAIN marks /\ marks[p].newest > at THEN marks[p].newest ELSE at

(* markRead writes the time.                                               *)
MarkRead(t) ==
  /\ At(t, "mark")
  /\ LET p == <<call[t].user, call[t].conv>>
     IN /\ lastReadAt' = [x \in DOMAIN lastReadAt \cup {p} |->
             IF x = p THEN NewMark(p, call[t].at) ELSE lastReadAt[x]]
        /\ marks' = [x \in DOMAIN marks \cup {p} |->
             IF x = p THEN [newest |-> Newest(p, call[t].at),
                            overtaken |-> Newest(p, call[t].at) # call[t].at]
                      ELSE marks[x]]
  /\ Finish(t)
  /\ UNCHANGED <<now, message, socket, room, told, owed>>

(* What list() counts for a user.                                          *)
Unread(u, c) ==
  {m \in DOMAIN message :
     /\ message[m].conv = c /\ message[m].from # u /\ ~message[m].deleted
     /\ <<u, c>> \in DOMAIN lastReadAt => message[m].createdAt > lastReadAt[<<u, c>>]}

(* A statement fails, and with it its call: nothing is written.            *)
Break(t) ==
  /\ call[t].step \in {"commit", "delete", "mark"}
  /\ Finish(t)
  /\ UNCHANGED <<now, message, lastReadAt, socket, room, told, marks, owed>>

Tick ==
  /\ now < MaxTime
  /\ now' = now + 1
  /\ UNCHANGED <<message, lastReadAt, socket, room, told, call, marks, owed>>

Lives(s) == Verified(s) \/ Disconnect(s) \/ \E c \in Conversations : Leave(s, c)

Begin(t) ==
  \/ \E s \in Sockets, c \in Conversations : Join(t, s, c) \/ Read(t, s, c)
  \/ \E u \in Users, c \in Conversations, s \in Sockets \cup {None} : Send(t, u, c, s)
  \/ \E u \in Users, m \in DOMAIN message : DeleteMessage(t, u, m)

Continue(t) == Enter(t) \/ Commit(t) \/ Emit(t) \/ Delete(t) \/ MarkRead(t) \/ Break(t)

Next ==
  \/ Tick
  \/ \E s \in Sockets : Lives(s)
  \/ \E t \in Calls : Begin(t) \/ Continue(t)

Spec == Init /\ [][Next]_vars

-----------------------------------------------------------------------------
(* The variables range over the values their names say.                    *)
TypeOK ==
  /\ now \in 0..MaxTime
  /\ DOMAIN message \subseteq MessageIds /\ message \in [DOMAIN message -> Message]
  /\ DOMAIN lastReadAt \subseteq Parties /\ lastReadAt \in [DOMAIN lastReadAt -> 0..MaxTime]
  /\ socket \in [Sockets -> {"connecting", "on", "closed"}]
  /\ room \in [Conversations -> SUBSET Sockets]
  /\ told \in [Sockets -> SUBSET MessageIds]
  /\ call \in [Calls -> Call]
  /\ DOMAIN marks \subseteq Parties /\ marks \in [DOMAIN marks -> Mark]
  /\ owed \subseteq Sockets \X MessageIds

(* "Only participants can read or write conversations": the rows are       *)
(* theirs, their sockets alone are in the room, and what a socket has      *)
(* heard was said where its user takes part, however joining, leaving and  *)
(* closing met the emission of events.                                     *)
OnlyParticipants ==
  /\ \A m \in DOMAIN message : Participant(message[m].from, message[m].conv)
  /\ \A c \in Conversations : \A s \in room[c] : socket[s] = "on" /\ Participant(UserOf[s], c)
  /\ \A s \in Sockets : \A m \in told[s] :
       m \in DOMAIN message /\ Participant(UserOf[s], message[m].conv)

(* What was sent before a user marked the conversation as read is not      *)
(* counted as unread again, unless the mark was overtaken: two overlapping *)
(* calls may write the later time first.                                   *)
ReadStaysRead ==
  \A p \in DOMAIN marks, m \in DOMAIN message :
    m \in Unread(p[1], p[2]) /\ message[m].committed <= marks[p].newest =>
      marks[p].overtaken

(* Everyone in the room is told: whoever was in it as a message that came  *)
(* by socket committed, and has not left since, has been told of it, or a  *)
(* call is about to tell them, which no failing statement, other call,     *)
(* join, leave or disconnection comes in the way of.                       *)
EveryoneInRoomHears ==
  \A s \in Sockets, m \in MessageIds :
    <<s, m>> \in owed => \E t \in Calls : At(t, "emit") /\ call[t].message = m
=============================================================================
