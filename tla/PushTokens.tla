----------------------------- MODULE PushTokens -----------------------------
(***************************************************************************)
(* NotificationsService: the push tokens of phones, who gets the mail of   *)
(* which user announced, and the pushes that sendNewEmail hands to         *)
(* Firebase.  A token stands for the app on one phone.                     *)
(*                                                                         *)
(* The app is not part of the repository.  As the endpoints suggest, it    *)
(* registers its token when a user signs in, and again at will, and asks   *)
(* to revoke it when they sign out; it waits for the former but not for    *)
(* the latter, so that a revocation may arrive late, after the next user   *)
(* or the same one signed in, more than once, or never.                    *)
(***************************************************************************)
EXTENDS FiniteSets

CONSTANTS
  Users,
  Tokens,
  Sends,        \* calls of sendNewEmail that may be under way at a time: a bound
  None

ASSUME NoneAssumption == None \notin Users

VARIABLES
  device,       \* "DevicePushToken" rows, by their unique token
  muted,        \* users whose NotificationSettings have newEmails off
  send,         \* what each call of sendNewEmail is about to do, and what it has read
  phone,        \* who is signed in on the phone of a token
  revoking,     \* <<u, t>>: revocations of the token t by u are on their way
  dead          \* tokens that Firebase has given up: the app was removed

vars == <<device, muted, send, phone, revoking, dead>>
-----------------------------------------------------------------------------
Row == [user : Users, revoked : BOOLEAN]

(* overlapped is a history: a revocation by the very user was on its way   *)
(* as they last registered.                                                *)
Phone == {p \in [user : Users \cup {None}, registered : BOOLEAN, overlapped : BOOLEAN] :
            p.registered => p.user # None}

SignedIn(u) == [user |-> u, registered |-> FALSE, overlapped |-> FALSE]

(* inactive and muted are histories: the tokens that were not the user's   *)
(* as the call began, nor since; and that the user had muted pushes then,  *)
(* and ever since.                                                         *)
Send == [step : {"idle", "settings", "devices", "push", "revoke"},
         to : Users \cup {None}, targets : SUBSET Tokens, invalid : SUBSET Tokens,
         inactive : SUBSET Tokens, muted : BOOLEAN]

Idle == [step |-> "idle", to |-> None, targets |-> {}, invalid |-> {},
         inactive |-> {}, muted |-> FALSE]

At(s, step) == send[s].step = step
Goto(s, c) == send' = [send EXCEPT ![s] = c]

(* findMany: the tokens of a user that are not revoked.                    *)
Active(u) == {t \in DOMAIN device : device[t].user = u /\ ~device[t].revoked}

Init ==
  /\ device = [t \in {} |-> None]
  /\ muted = {}
  /\ send = [s \in Sends |-> Idle]
  /\ phone = [t \in Tokens |-> SignedIn(None)]
  /\ revoking = {} /\ dead = {}
-----------------------------------------------------------------------------
(* A user signs in, be it the one whose revocation is still on its way.    *)
SignIn(t, u) ==
  /\ t \notin dead /\ phone[t].user = None
  /\ phone' = [phone EXCEPT ![t] = SignedIn(u)]
  /\ UNCHANGED <<device, muted, send, revoking, dead>>

(* Mutant: the row is written without its user.                            *)
NoUser(t, u) == None

NewUser(t, u) == u

(* registerDevice: the token is inserted, or taken over and active again.  *)
RegisterDevice(t) ==
  LET u == phone[t].user
  IN /\ u # None
     /\ device' = [x \in DOMAIN device \cup {t} |->
          IF x = t THEN [user |-> NewUser(t, u), revoked |-> FALSE] ELSE device[x]]
     /\ phone' = [phone EXCEPT ![t] =
          [user |-> u, registered |-> TRUE, overlapped |-> <<u, t>> \in revoking]]
     /\ send' = [s \in Sends |->
          IF send[s].to = u THEN [send[s] EXCEPT !.inactive = @ \ {t}] ELSE send[s]]
     /\ UNCHANGED <<muted, revoking, dead>>

SignOut(t) ==
  /\ phone[t].registered
  /\ phone' = [phone EXCEPT ![t] = SignedIn(None)]
  /\ revoking' = revoking \cup {<<phone[t].user, t>>}
  /\ UNCHANGED <<device, muted, send, dead>>

(* Mutant: the token is revoked, whoever has it.                           *)
OfAnyone(u, t) == t \in DOMAIN device

OwnToken(u, t) == t \in DOMAIN device /\ device[t].user = u

(* revokeDevice, or a request that is lost.  It may not be the last: of    *)
(* another sign-out, or sent again.                                        *)
RevokeDevice(u, t) ==
  /\ <<u, t>> \in revoking
  /\ revoking' \in {revoking, revoking \ {<<u, t>>}}
  /\ \/ OwnToken(u, t) /\ device' = [device EXCEPT ![t].revoked = TRUE]
     \/ UNCHANGED device
  /\ UNCHANGED <<muted, send, phone, dead>>

(* The app is removed.  A new installation has another token.              *)
Uninstall(t) ==
  /\ t \notin dead
  /\ dead' = dead \cup {t}
  /\ phone' = [phone EXCEPT ![t] = SignedIn(None)]
  /\ UNCHANGED <<device, muted, send, revoking>>

(* updateSettings.                                                         *)
Mute(u) ==
  /\ muted' = muted \cup {u}
  /\ UNCHANGED <<device, send, phone, revoking, dead>>

Unmute(u) ==
  /\ muted' = muted \ {u}
  /\ send' = [s \in Sends |->
       IF send[s].to = u THEN [send[s] EXCEPT !.muted = FALSE] ELSE send[s]]
  /\ UNCHANGED <<device, phone, revoking, dead>>
-----------------------------------------------------------------------------
NewSend(u, inactive, mutes) ==
  [Idle EXCEPT !.step = "settings", !.to = u, !.inactive = inactive, !.muted = mutes]

(* sendNewEmail, for a recipient who is not the sender.                    *)
SendNewEmail(s, u) ==
  /\ At(s, "idle")
  /\ Goto(s, NewSend(u, Tokens \ Active(u), u \in muted))
  /\ UNCHANGED <<device, muted, phone, revoking, dead>>

Settings(s) ==
  /\ At(s, "settings")
  /\ IF send[s].to \in muted THEN Goto(s, Idle) ELSE Goto(s, [send[s] EXCEPT !.step = "devices"])
  /\ UNCHANGED <<device, muted, phone, revoking, dead>>

(* Mutant: whether a token was revoked is not asked.                       *)
Registered(u) == {t \in DOMAIN device : device[t].user = u}

Targets(u) == Active(u)

Devices(s) ==
  /\ At(s, "devices")
  /\ Goto(s, [send[s] EXCEPT !.step = "push", !.targets = Targets(send[s].to)])
  /\ UNCHANGED <<device, muted, phone, revoking, dead>>

(* Firebase reports dead tokens as invalid, those it has noticed.          *)
Push(s) ==
  /\ At(s, "push")
  /\ \E R \in SUBSET (send[s].targets \cap dead) :
       IF R = {} THEN Goto(s, Idle)
                 ELSE Goto(s, [send[s] EXCEPT !.step = "revoke", !.invalid = R])
  /\ UNCHANGED <<device, muted, phone, revoking, dead>>

RevokeInvalid(s) ==
  /\ At(s, "revoke")
  /\ device' = [t \in DOMAIN device |->
       IF t \in send[s].invalid THEN [device[t] EXCEPT !.revoked = TRUE] ELSE device[t]]
  /\ Goto(s, Idle)
  /\ UNCHANGED <<muted, phone, revoking, dead>>

(* A query or Firebase fails: the catch swallows it.                       *)
Break(s) ==
  /\ send[s].step # "idle"
  /\ Goto(s, Idle)
  /\ UNCHANGED <<device, muted, phone, revoking, dead>>

Uses(t) ==
  \/ \E u \in Users : SignIn(t, u) \/ RevokeDevice(u, t)
  \/ RegisterDevice(t) \/ SignOut(t) \/ Uninstall(t)

Sending(s) ==
  \/ \E u \in Users : SendNewEmail(s, u)
  \/ Settings(s) \/ Devices(s) \/ Push(s) \/ RevokeInvalid(s) \/ Break(s)

Next ==
  \/ \E t \in Tokens : Uses(t)
  \/ \E u \in Users : Mute(u) \/ Unmute(u)
  \/ \E s \in Sends : Sending(s)

Spec == Init /\ [][Next]_vars
-----------------------------------------------------------------------------
(* The variables range over the values their names say.                    *)
TypeOK ==
  /\ DOMAIN device \subseteq Tokens /\ device \in [DOMAIN device -> Row]
  /\ muted \subseteq Users
  /\ send \in [Sends -> Send]
  /\ phone \in [Tokens -> Phone]
  /\ revoking \subseteq Users \X Tokens
  /\ dead \subseteq Tokens

(* A user who is signed in on a phone has their mail announced there,      *)
(* however late the revocations of those before them arrive.  Only their   *)
(* own revocation, if it was still on its way as they registered, may take *)
(* the registration back, since it names the user and the token alone.     *)
SignedInIsReachable ==
  \A t \in Tokens : phone[t].registered =>
    /\ t \in DOMAIN device /\ device[t].user = phone[t].user
    /\ device[t].revoked => phone[t].overlapped

(* Mail is not announced on a phone whose user signed out before it was    *)
(* sent, once the revocation arrived, nor to a user who muted pushes       *)
(* before, although both are only looked up by and by.                     *)
NoPushAfterSignOff ==
  \A s \in Sends : At(s, "push") => send[s].targets \cap send[s].inactive = {} /\ ~send[s].muted
=============================================================================
