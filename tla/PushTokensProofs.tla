-------------------------- MODULE PushTokensProofs --------------------------
(* A user who is signed in on a phone is reached there, unless they took   *)
(* that back themselves, and one who signed out or muted pushes is not.    *)
EXTENDS PushTokens, TLAPS

LEMMA IdleType == Idle \in Send /\ Idle.step = "idle"
BY DEF Idle, Send

LEMMA NewSendType ==
  ASSUME NEW u \in Users, NEW T \in SUBSET Tokens, NEW b \in BOOLEAN
  PROVE  /\ NewSend(u, T, b) \in Send
         /\ NewSend(u, T, b).step = "settings" /\ NewSend(u, T, b).to = u
         /\ NewSend(u, T, b).inactive = T /\ NewSend(u, T, b).muted = b
BY DEF NewSend, Idle, Send

LEMMA NewSendOf ==
  ASSUME NEW u \in Users
  PROVE  LET c == NewSend(u, Tokens \ Active(u), u \in muted)
         IN /\ c \in Send /\ c.step = "settings" /\ c.to = u
            /\ c.inactive = Tokens \ Active(u) /\ c.muted = (u \in muted)
<1>1. \A b \in BOOLEAN :
        LET c == NewSend(u, Tokens \ Active(u), b)
        IN /\ c \in Send /\ c.step = "settings" /\ c.to = u
           /\ c.inactive = Tokens \ Active(u) /\ c.muted = b
  BY NewSendType
<1>2. (u \in muted) \in BOOLEAN
  OBVIOUS
<1> QED BY <1>1, <1>2, Zenon

LEMMA GotoType ==
  ASSUME TypeOK, NEW s \in Sends, NEW c \in Send, Goto(s, c)
  PROVE  /\ send' \in [Sends -> Send] /\ send'[s] = c
         /\ \A r \in Sends : r # s => send'[r] = send[r]
BY DEF TypeOK, Goto

(* A step of one call of sendNewEmail, seen as a step of that call.        *)
LEMMA SendType ==
  ASSUME TypeOK, NEW s \in Sends, NEW c \in Send, Goto(s, c),
         UNCHANGED <<muted, phone, revoking, dead>>,
         DOMAIN device' \subseteq Tokens /\ device' \in [DOMAIN device' -> Row]
  PROVE  TypeOK'
BY GotoType DEF TypeOK

LEMMA RegisterType == ASSUME TypeOK, NEW t \in Tokens, RegisterDevice(t) PROVE TypeOK'
<1> DEFINE u == phone[t].user
<1>1. u \in Users /\ NewUser(t, u) \in Users
  BY DEF TypeOK, RegisterDevice, Phone, NewUser
<1>2. DOMAIN device' \subseteq Tokens /\ device' \in [DOMAIN device' -> Row]
  BY <1>1 DEF TypeOK, RegisterDevice, Row
<1>3. send' \in [Sends -> Send]
  BY DEF TypeOK, RegisterDevice, Send
<1>4. phone' \in [Tokens -> Phone]
  <2> DEFINE new(b) == [user |-> u, registered |-> TRUE, overlapped |-> b]
  <2>1. \A b \in BOOLEAN : new(b) \in Phone
    BY <1>1, NoneAssumption DEF Phone
  <2> HIDE DEF new
  <2>2. (<<u, t>> \in revoking) \in BOOLEAN
    OBVIOUS
  <2>3. phone' = [phone EXCEPT ![t] = new(<<u, t>> \in revoking)]
    BY Zenon DEF RegisterDevice, new
  <2>4. new(<<u, t>> \in revoking) \in Phone
    BY <2>1, <2>2, Zenon
  <2> QED BY <2>3, <2>4 DEF TypeOK
<1> QED BY <1>2, <1>3, <1>4 DEF TypeOK, RegisterDevice

LEMMA TypeStep == TypeOK /\ [Next]_vars => TypeOK'
<1> SUFFICES ASSUME TypeOK, [Next]_vars PROVE TypeOK'
  OBVIOUS
<1>1. ASSUME NEW t \in Tokens, NEW u \in Users, SignIn(t, u) PROVE TypeOK'
  BY <1>1 DEF SignIn, SignedIn, TypeOK, Phone
<1>2. ASSUME NEW t \in Tokens, NEW u \in Users, RevokeDevice(u, t) PROVE TypeOK'
  BY <1>2 DEF RevokeDevice, OwnToken, TypeOK, Row
<1>3. ASSUME NEW t \in Tokens, SignOut(t) PROVE TypeOK'
  <2>1. phone[t].user \in Users
    BY <1>3 DEF TypeOK, Phone, SignOut
  <2> QED BY <1>3, <2>1 DEF SignOut, SignedIn, TypeOK, Phone
<1>4. ASSUME NEW t \in Tokens, Uninstall(t) PROVE TypeOK'
  BY <1>4 DEF Uninstall, SignedIn, TypeOK, Phone
<1>5. ASSUME NEW u \in Users, Mute(u) \/ Unmute(u) PROVE TypeOK'
  <2>1. CASE Mute(u)
    BY <2>1 DEF Mute, TypeOK
  <2>2. CASE Unmute(u)
    <3>1. \A s \in Sends : [send[s] EXCEPT !.muted = FALSE] \in Send
      BY DEF TypeOK, Send
    <3>2. send' \in [Sends -> Send]
      BY <2>2, <3>1 DEF Unmute, TypeOK
    <3> QED BY <2>2, <3>2 DEF Unmute, TypeOK
  <2> QED BY <1>5, <2>1, <2>2
<1>6. ASSUME NEW s \in Sends, Sending(s) PROVE TypeOK'
  <2>1. ASSUME NEW u \in Users, SendNewEmail(s, u) PROVE TypeOK'
    <3>1. NewSend(u, Tokens \ Active(u), u \in muted) \in Send
      BY NewSendOf, Zenon
    <3> QED BY <2>1, <3>1, SendType DEF SendNewEmail, TypeOK
  <2>2. CASE Settings(s)
    <3>1. [send[s] EXCEPT !.step = "devices"] \in Send
      BY DEF TypeOK, Send
    <3> QED BY <2>2, <3>1, IdleType, SendType DEF Settings, TypeOK
  <2>3. CASE Devices(s)
    <3>1. [send[s] EXCEPT !.step = "push", !.targets = Targets(send[s].to)] \in Send
      BY DEF TypeOK, Send, Targets, Active
    <3> QED BY <2>3, <3>1, SendType DEF Devices, TypeOK
  <2>4. CASE Push(s)
    <3>1. \A R \in SUBSET (send[s].targets \cap dead) :
            [send[s] EXCEPT !.step = "revoke", !.invalid = R] \in Send
      BY DEF TypeOK, Send
    <3> QED BY <2>4, <3>1, IdleType, SendType DEF Push, TypeOK
  <2>5. CASE RevokeInvalid(s)
    <3>1. DOMAIN device' \subseteq Tokens /\ device' \in [DOMAIN device' -> Row]
      BY <2>5 DEF RevokeInvalid, TypeOK, Row
    <3> QED BY <2>5, <3>1, IdleType, SendType DEF RevokeInvalid
  <2>6. CASE Break(s)
    BY <2>6, IdleType, SendType DEF Break, TypeOK
  <2> QED BY <1>6, <2>1, <2>2, <2>3, <2>4, <2>5, <2>6 DEF Sending
<1>7. CASE UNCHANGED vars
  BY <1>7 DEF vars, TypeOK
<1> QED BY <1>1, <1>2, <1>3, <1>4, <1>5, <1>6, <1>7, RegisterType DEF Next, Uses

(* The variables keep their types, for any users, phones and sends.        *)
THEOREM TypeCorrect == Spec => []TypeOK
<1>1. Init => TypeOK
  BY IdleType DEF Init, SignedIn, TypeOK, Phone
<1> QED BY <1>1, TypeStep, PTL DEF Spec
-----------------------------------------------------------------------------
(* The row of who is signed in is theirs; it is revoked, or a revocation   *)
(* that would do so is on its way, only if one was as they registered, or  *)
(* else its phone is dead, and Firebase reports only such.                 *)
PhonesInv ==
  /\ \A t \in Tokens : phone[t].registered /\ <<phone[t].user, t>> \in revoking =>
       phone[t].overlapped
  /\ \A t \in dead : phone[t].user = None
  /\ \A s \in Sends : At(s, "revoke") => send[s].invalid \subseteq dead
  /\ SignedInIsReachable

LEMMA PhonesStep == TypeOK /\ PhonesInv /\ [Next]_vars => PhonesInv'
<1> SUFFICES ASSUME TypeOK, PhonesInv, [Next]_vars PROVE PhonesInv'
  OBVIOUS
<1>1. ASSUME NEW t \in Tokens, NEW u \in Users, SignIn(t, u) PROVE PhonesInv'
  <2>1. /\ ~phone'[t].registered /\ t \notin dead
        /\ \A x \in Tokens : x # t => phone'[x] = phone[x]
        /\ UNCHANGED <<device, send, revoking, dead>>
    BY <1>1 DEF SignIn, SignedIn, TypeOK
  <2> QED BY <2>1 DEF TypeOK, PhonesInv, SignedInIsReachable, At
<1>2. ASSUME NEW t \in Tokens, NEW u \in Users, RevokeDevice(u, t) PROVE PhonesInv'
  <2>1. SignedInIsReachable'
    BY <1>2 DEF RevokeDevice, OwnToken, TypeOK, Row, PhonesInv, SignedInIsReachable
  <2>2. revoking' \subseteq revoking
    BY <1>2 DEF RevokeDevice
  <2> QED BY <1>2, <2>1, <2>2 DEF RevokeDevice, PhonesInv, At
<1>3. ASSUME NEW t \in Tokens, RegisterDevice(t) PROVE PhonesInv'
  <2>1. /\ \A x \in Tokens : phone'[x].user = phone[x].user
        /\ phone'[t].overlapped = (<<phone[t].user, t>> \in revoking)
        /\ \A x \in Tokens : x # t => phone'[x] = phone[x]
    BY <1>3 DEF RegisterDevice, TypeOK, Phone
  <2>2. SignedInIsReachable'
    BY <1>3, <2>1 DEF RegisterDevice, NewUser, TypeOK, PhonesInv, SignedInIsReachable
  <2>3. \A s \in Sends : send'[s].step = send[s].step /\ send'[s].invalid = send[s].invalid
    BY <1>3 DEF RegisterDevice, TypeOK, Send
  <2>4. UNCHANGED <<revoking, dead>>
    BY <1>3 DEF RegisterDevice
  <2>5. \A x \in Tokens : phone'[x].registered /\ <<phone'[x].user, x>> \in revoking' =>
                         phone'[x].overlapped
    BY <2>1, <2>4, Zenon DEF PhonesInv
  <2>6. dead \subseteq Tokens
    BY DEF TypeOK
  <2> QED BY <2>1, <2>2, <2>3, <2>4, <2>5, <2>6 DEF PhonesInv, At
<1>4. ASSUME NEW t \in Tokens, SignOut(t) \/ Uninstall(t) PROVE PhonesInv'
  <2>1. /\ ~phone'[t].registered /\ phone'[t].user = None
        /\ \A x \in Tokens : x # t => phone'[x] = phone[x]
    BY <1>4 DEF SignOut, Uninstall, SignedIn, TypeOK
  <2>2. \A x \in Tokens, u \in Users \cup {None} :
          x # t /\ <<u, x>> \in revoking' => <<u, x>> \in revoking
    BY <1>4 DEF SignOut, Uninstall
  <2>3. dead' \subseteq dead \cup {t} /\ dead \subseteq dead' /\ dead \subseteq Tokens
    BY <1>4 DEF SignOut, Uninstall, TypeOK
  <2>4. UNCHANGED <<device, send>>
    BY <1>4 DEF SignOut, Uninstall
  <2>5. \A x \in Tokens : phone[x].user \in Users \cup {None}
    BY DEF TypeOK, Phone
  <2>6. SignedInIsReachable'
    BY <2>1, <2>4 DEF PhonesInv, SignedInIsReachable
  <2>7. \A x \in Tokens : phone'[x].registered /\ <<phone'[x].user, x>> \in revoking' =>
                         phone'[x].overlapped
    BY <2>1, <2>2, <2>5 DEF PhonesInv
  <2> QED BY <2>1, <2>3, <2>4, <2>6, <2>7 DEF PhonesInv, At
<1>5. ASSUME NEW u \in Users, Mute(u) \/ Unmute(u) PROVE PhonesInv'
  <2>1. \A s \in Sends : send'[s].step = send[s].step /\ send'[s].invalid = send[s].invalid
    BY <1>5 DEF Mute, Unmute, TypeOK, Send
  <2> QED BY <1>5, <2>1 DEF Mute, Unmute, PhonesInv, SignedInIsReachable, At
<1>6. ASSUME NEW s \in Sends, Sending(s) PROVE PhonesInv'
  <2>1. UNCHANGED <<phone, revoking, dead>>
    BY <1>6 DEF Sending, SendNewEmail, Settings, Devices, Push, RevokeInvalid, Break
  <2>2. \A r \in Sends : send'[r].step = "revoke" => send'[r].invalid \subseteq dead
    <3>1. ASSUME NEW c \in Send, Goto(s, c), c.step = "revoke" => c.invalid \subseteq dead
          PROVE  \A r \in Sends : send'[r].step = "revoke" => send'[r].invalid \subseteq dead
      BY <3>1, GotoType DEF PhonesInv, At
    <3>2. ASSUME NEW u \in Users, SendNewEmail(s, u) PROVE \E c \in Send : Goto(s, c) /\ c.step # "revoke"
      <4> DEFINE c == NewSend(u, Tokens \ Active(u), u \in muted)
      <4>1. c \in Send /\ c.step = "settings"
        BY NewSendOf, Zenon
      <4> QED BY <3>2, <4>1 DEF SendNewEmail
    <3>3. ASSUME Settings(s) PROVE \E c \in Send : Goto(s, c) /\ c.step # "revoke"
      <4>1. [send[s] EXCEPT !.step = "devices"] \in Send
        BY DEF TypeOK, Send
      <4>2. [send[s] EXCEPT !.step = "devices"].step = "devices"
        BY DEF TypeOK, Send
      <4> QED BY <3>3, <4>1, <4>2, IdleType DEF Settings
    <3>4. ASSUME Devices(s) PROVE \E c \in Send : Goto(s, c) /\ c.step # "revoke"
      <4> DEFINE c == [send[s] EXCEPT !.step = "push", !.targets = Targets(send[s].to)]
      <4>1. c \in Send /\ c.step = "push"
        BY DEF TypeOK, Send, Targets, Active
      <4> QED BY <3>4, <4>1 DEF Devices
    <3>5. ASSUME Push(s)
          PROVE  \E c \in Send : Goto(s, c) /\ (c.step = "revoke" => c.invalid \subseteq dead)
      <4>1. PICK R \in SUBSET (send[s].targets \cap dead) :
              IF R = {} THEN Goto(s, Idle)
                        ELSE Goto(s, [send[s] EXCEPT !.step = "revoke", !.invalid = R])
        BY <3>5 DEF Push
      <4> DEFINE c == [send[s] EXCEPT !.step = "revoke", !.invalid = R]
      <4>2. c \in Send /\ c.invalid = R
        BY DEF TypeOK, Send
      <4> QED BY <4>1, <4>2, IdleType
    <3>6. ASSUME RevokeInvalid(s) \/ Break(s) PROVE \E c \in Send : Goto(s, c) /\ c.step # "revoke"
      BY <3>6, IdleType DEF RevokeInvalid, Break
    <3> QED BY <1>6, <3>1, <3>2, <3>3, <3>4, <3>5, <3>6 DEF Sending
  <2>3. SignedInIsReachable'
    <3>1. CASE RevokeInvalid(s)
      BY <3>1, <2>1 DEF RevokeInvalid, At, TypeOK, Row, Phone, PhonesInv, SignedInIsReachable
    <3>2. CASE UNCHANGED device
      BY <3>2, <2>1 DEF PhonesInv, SignedInIsReachable
    <3> QED BY <1>6, <3>1, <3>2 DEF Sending, SendNewEmail, Settings, Devices, Push, Break
  <2> QED BY <2>1, <2>2, <2>3 DEF PhonesInv, At
<1>7. CASE UNCHANGED vars
  BY <1>7 DEF vars, PhonesInv, SignedInIsReachable, At
<1> QED BY <1>1, <1>2, <1>3, <1>4, <1>5, <1>6, <1>7 DEF Next, Uses

(* Whoever is signed in on a phone has its row, active unless a revocation *)
(* of their own was on its way as they registered: those of others leave   *)
(* the token alone, however late they come.                                *)
THEOREM SignedInAreReached == Spec => []SignedInIsReachable
<1>1. Init => PhonesInv
  BY IdleType DEF Init, SignedIn, PhonesInv, SignedInIsReachable, At
<1>2. PhonesInv => SignedInIsReachable
  BY DEF PhonesInv
<1> QED BY <1>1, <1>2, PhonesStep, TypeCorrect, PTL DEF Spec
-----------------------------------------------------------------------------
(* What a call may know: a token that was not its user's is not until it   *)
(* is registered, and whoever is muted still is until the settings are     *)
(* read, which ends the call.                                              *)
Knows(s) ==
  /\ send[s].step # "idle" =>
       send[s].to \in Users /\ send[s].inactive \cap Active(send[s].to) = {}
  /\ At(s, "settings") /\ send[s].muted => send[s].to \in muted
  /\ At(s, "devices") \/ At(s, "push") => ~send[s].muted
  /\ At(s, "push") => send[s].targets \cap send[s].inactive = {}

SendsInv == \A s \in Sends : Knows(s)

(* What other calls know stays true while neither tokens nor settings      *)
(* change in their favour.                                                 *)
LEMMA OthersKnow ==
  ASSUME TypeOK, SendsInv, NEW s \in Sends, NEW c \in Send, Goto(s, c), UNCHANGED muted,
         \A u \in Users : Active(u)' \subseteq Active(u), Knows(s)'
  PROVE  SendsInv'
<1> SUFFICES ASSUME NEW r \in Sends, r # s PROVE Knows(r)'
  BY DEF SendsInv
<1>1. send'[r] = send[r] /\ Knows(r)
  BY GotoType DEF SendsInv
<1> QED BY <1>1 DEF Knows, At

(* Who is signed in has one token more, which no call counts as inactive.  *)
LEMMA RegisterKnows ==
  ASSUME TypeOK, SendsInv, NEW t \in Tokens, RegisterDevice(t) PROVE SendsInv'
<1> PICK u \in Users : u = phone[t].user
  BY DEF RegisterDevice, TypeOK, Phone
<1> SUFFICES ASSUME NEW s \in Sends PROVE Knows(s)'
  BY DEF SendsInv
<1>1. Knows(s) /\ send[s] \in Send
  BY DEF SendsInv, TypeOK
<1>2. \A v \in Users : v # u => Active(v)' \subseteq Active(v)
  BY DEF RegisterDevice, NewUser, TypeOK, Row, Active
<1>3. Active(u)' \subseteq Active(u) \cup {t}
  BY DEF RegisterDevice, NewUser, TypeOK, Row, Active
<1>4. CASE send[s].to = u
  <2>1. send'[s] = [send[s] EXCEPT !.inactive = @ \ {t}]
    BY <1>4 DEF RegisterDevice
  <2>2. /\ send'[s].step = send[s].step /\ send'[s].to = u /\ (send'[s].muted => send[s].muted)
        /\ send'[s].targets = send[s].targets /\ send'[s].inactive = send[s].inactive \ {t}
    BY <1>1, <1>4, <2>1 DEF Send
  <2>3. UNCHANGED muted
    BY DEF RegisterDevice
  <2>4. send[s].step # "idle" => send'[s].inactive \cap Active(u)' = {}
    BY <1>1, <1>3, <1>4, <2>2 DEF Knows
  <2> QED BY <1>1, <1>4, <2>2, <2>3, <2>4 DEF Knows, At
<1>5. CASE send[s].to # u
  <2>1. send'[s] = send[s]
    BY <1>5 DEF RegisterDevice
  <2> QED BY <1>1, <1>2, <1>5, <2>1 DEF Knows, At, RegisterDevice
<1> QED BY <1>4, <1>5

LEMMA UnmuteKnows ==
  ASSUME TypeOK, SendsInv, NEW u \in Users, Unmute(u) PROVE SendsInv'
<1> SUFFICES ASSUME NEW s \in Sends PROVE Knows(s)'
  BY DEF SendsInv
<1>1. Knows(s) /\ send[s] \in Send /\ Active(send[s].to)' = Active(send[s].to)
  BY DEF SendsInv, TypeOK, Unmute, Active
<1>2. CASE send[s].to = u
  <2>1. send'[s] = [send[s] EXCEPT !.muted = FALSE]
    BY <1>2 DEF Unmute
  <2>2. /\ send'[s].step = send[s].step /\ send'[s].to = u /\ ~send'[s].muted
        /\ send'[s].targets = send[s].targets /\ send'[s].inactive = send[s].inactive
    BY <1>1, <1>2, <2>1 DEF Send
  <2> QED BY <1>1, <1>2, <2>2 DEF Knows, At
<1>3. CASE send[s].to # u
  <2>1. send'[s] = send[s]
    BY <1>3 DEF Unmute
  <2> QED BY <1>1, <1>3, <2>1 DEF Knows, At, Unmute
<1> QED BY <1>2, <1>3

(* A call of sendNewEmail that does its next step still knows.             *)
LEMMA SendingKnows ==
  ASSUME TypeOK, SendsInv, NEW s \in Sends, Sending(s) PROVE SendsInv'
<1>1. Knows(s) /\ send[s] \in Send /\ Knows(s)
  BY DEF SendsInv, TypeOK
<1>2. \A u \in Users : Active(u)' \subseteq Active(u)
  <2>1. CASE RevokeInvalid(s)
    BY <2>1 DEF RevokeInvalid, TypeOK, Row, Active
  <2>2. CASE UNCHANGED device
    BY <2>2 DEF Active
  <2> QED BY <2>1, <2>2 DEF Sending, SendNewEmail, Settings, Devices, Push, Break
<1>3. UNCHANGED muted
  BY DEF Sending, SendNewEmail, Settings, Devices, Push, RevokeInvalid, Break
<1>4. ASSUME Goto(s, Idle) PROVE SendsInv'
  <2>1. send'[s] = Idle
    BY <1>4, GotoType, IdleType
  <2>2. Knows(s)'
    BY <2>1, IdleType DEF Knows, At
  <2> QED BY <1>2, <1>3, <1>4, <2>2, IdleType, OthersKnow
<1>5. ASSUME NEW u \in Users, SendNewEmail(s, u) PROVE SendsInv'
  <2> DEFINE c == NewSend(u, Tokens \ Active(u), u \in muted)
  <2>1. c \in Send /\ c.step = "settings" /\ c.to = u /\ c.inactive = Tokens \ Active(u)
    BY NewSendOf, Zenon
  <2>2. c.muted = (u \in muted)
    BY NewSendOf, Zenon
  <2>3. Goto(s, c)
    BY <1>5 DEF SendNewEmail
  <2> HIDE DEF c
  <2>4. send'[s] = c
    BY <2>1, <2>3, GotoType
  <2>5. c.muted => u \in muted
    BY <2>2, Zenon
  <2>6. Knows(s)'
    BY <1>2, <1>3, <2>1, <2>4, <2>5 DEF Knows, At
  <2> QED BY <1>2, <1>3, <2>1, <2>3, <2>6, OthersKnow
<1>6. ASSUME Settings(s), send[s].to \notin muted PROVE SendsInv'
  <2> DEFINE c == [send[s] EXCEPT !.step = "devices"]
  <2>1. /\ c \in Send /\ c.step = "devices" /\ c.to = send[s].to
        /\ c.inactive = send[s].inactive /\ c.muted = send[s].muted
    BY <1>1 DEF Send
  <2>2. Goto(s, c)
    BY <1>6 DEF Settings
  <2> HIDE DEF c
  <2>3. send'[s] = c
    BY <2>1, <2>2, GotoType
  <2>4. Knows(s)'
    BY <1>1, <1>2, <1>6, <2>1, <2>3 DEF Knows, At, Settings
  <2> QED BY <1>2, <1>3, <2>1, <2>2, <2>4, OthersKnow
<1>7. ASSUME Devices(s) PROVE SendsInv'
  <2> DEFINE c == [send[s] EXCEPT !.step = "push", !.targets = Targets(send[s].to)]
  <2>1. /\ c \in Send /\ c.step = "push" /\ c.to = send[s].to /\ c.targets = Active(send[s].to)
        /\ c.inactive = send[s].inactive /\ c.muted = send[s].muted
    BY <1>1 DEF Send, Targets, Active, TypeOK
  <2>2. Goto(s, c)
    BY <1>7 DEF Devices
  <2> HIDE DEF c
  <2>3. send'[s] = c
    BY <2>1, <2>2, GotoType
  <2>4. Knows(s)'
    BY <1>1, <1>2, <1>7, <2>1, <2>3 DEF Knows, At, Devices
  <2> QED BY <1>2, <1>3, <2>1, <2>2, <2>4, OthersKnow
<1>8. ASSUME Push(s), ~Goto(s, Idle) PROVE SendsInv'
  <2>1. PICK R \in SUBSET (send[s].targets \cap dead) :
          Goto(s, [send[s] EXCEPT !.step = "revoke", !.invalid = R])
    BY <1>8 DEF Push
  <2> DEFINE c == [send[s] EXCEPT !.step = "revoke", !.invalid = R]
  <2>2. /\ c \in Send /\ c.step = "revoke" /\ c.to = send[s].to
        /\ c.inactive = send[s].inactive
    BY <1>1 DEF Send
  <2>3. Goto(s, c)
    BY <2>1
  <2> HIDE DEF c
  <2>4. send'[s] = c
    BY <2>2, <2>3, GotoType
  <2>5. Knows(s)'
    BY <1>1, <1>2, <1>8, <2>2, <2>4 DEF Knows, At, Push
  <2> QED BY <1>2, <1>3, <2>2, <2>3, <2>5, OthersKnow
<1> QED BY <1>4, <1>5, <1>6, <1>7, <1>8 DEF Sending, Settings, RevokeInvalid, Break

LEMMA SendsStep == TypeOK /\ SendsInv /\ [Next]_vars => SendsInv'
<1> SUFFICES ASSUME TypeOK, SendsInv, [Next]_vars PROVE SendsInv'
  OBVIOUS
<1>1. ASSUME UNCHANGED send, muted \subseteq muted', \A u \in Users : Active(u)' \subseteq Active(u)
      PROVE  SendsInv'
  BY <1>1 DEF SendsInv, Knows, At
<1>2. ASSUME NEW t \in Tokens, NEW u \in Users, RevokeDevice(u, t) PROVE SendsInv'
  <2>1. \A v \in Users : Active(v)' \subseteq Active(v)
    BY <1>2 DEF RevokeDevice, OwnToken, TypeOK, Row, Active
  <2> QED BY <1>1, <1>2, <2>1 DEF RevokeDevice
<1>3. ASSUME NEW t \in Tokens, (\E u \in Users : SignIn(t, u)) \/ SignOut(t) \/ Uninstall(t)
      PROVE  SendsInv'
  <2>1. UNCHANGED <<device, send, muted>>
    BY <1>3 DEF SignIn, SignOut, Uninstall
  <2> QED BY <1>1, <2>1 DEF Active
<1>4. ASSUME NEW u \in Users, Mute(u) PROVE SendsInv'
  BY <1>1, <1>4 DEF Mute, Active
<1>5. CASE UNCHANGED vars
  BY <1>1, <1>5 DEF vars, Active
<1> QED BY <1>2, <1>3, <1>4, <1>5, RegisterKnows, UnmuteKnows, SendingKnows DEF Next, Uses

(* A user who signed out, or muted pushes, before a mail was sent is not   *)
(* told of it, although sendNewEmail asks step by step.                    *)
THEOREM SignedOffAreLeftAlone == Spec => []NoPushAfterSignOff
<1>1. Init => SendsInv
  BY IdleType DEF Init, SendsInv, Knows, At
<1>2. SendsInv => NoPushAfterSignOff
  BY DEF SendsInv, Knows, NoPushAfterSignOff, At
<1> QED BY <1>1, <1>2, SendsStep, TypeCorrect, PTL DEF Spec
=============================================================================
