--------------------------- MODULE EmailVerification ---------------------------
(***************************************************************************)
(* AuthService: registration, verification codes and sessions.  A call is  *)
(* a task that runs from one await to the next; calls of one user          *)
(* interleave there, and each may end early, when the database, the mail   *)
(* service or the process fails.  A call that is refused changes nothing   *)
(* and is not seen.                                                        *)
(*                                                                         *)
(* A user enters either a code received by mail or a wrong one.  Two codes *)
(* are taken to differ.  bcrypt reads 72 bytes, which the header of a      *)
(* refresh token and its user's id fill, so that a token of the user       *)
(* matches the hash of any other: refreshTokenHash is modelled by whether  *)
(* it is set.                                                              *)
(***************************************************************************)
EXTENDS Integers, FiniteSets

CONSTANTS
  Users,        \* accounts, each with an address and a username of its own
  CodeIds,      \* supply of rows of EmailVerificationCode: a bound
  Calls,        \* calls that may be under way at a time: a bound
  TTL,          \* EMAIL_VERIFICATION_CODE_TTL_MINUTES
  ResendAfter,  \* EMAIL_VERIFICATION_RESEND_COOLDOWN_SECONDS
  MaxAttempts,  \* EMAIL_VERIFICATION_MAX_ATTEMPTS
  MaxTime,      \* the bound on the clock
  MaxLogouts,   \* the bound on logouts of a user
  None

ASSUME NoneAssumption == None \notin CodeIds
ASSUME CallsAssumption == IsFiniteSet(Calls)
ASSUME LimitsAssumption ==
  /\ TTL \in Nat /\ ResendAfter \in Nat /\ MaxAttempts \in Nat \ {0}
  /\ MaxTime \in Nat /\ MaxLogouts \in Nat

VARIABLES
  now,          \* Date.now()
  account,      \* User rows
  code,         \* EmailVerificationCode rows
  mailed,       \* codes that reached their user's mailbox
  call          \* what each call is about to do

vars == <<now, account, code, mailed, call>>
-----------------------------------------------------------------------------
Issued == DOMAIN code

(* logouts is a history: how often the user has logged out.                *)
Account == [registered : BOOLEAN, verified : BOOLEAN, signedIn : BOOLEAN,
            logouts : 0..MaxLogouts]

(* superseded is a history: the codes of the user that existed when the    *)
(* call that made this one invalidated them.                               *)
Code == [user : Users, createdAt : Nat, expiresAt : Nat, attempts : Nat,
         used : BOOLEAN, superseded : SUBSET CodeIds]

Steps == {"createUser", "latest", "invalidate", "createCode", "mail",
          "countAttempt", "confirm", "issueTokens"}

(* resend: whether the cooldown is respected; saw: the codes invalidated;  *)
(* session: the logouts of the user when a refresh read the hash, or None  *)
(* for a call that needs no session.                                       *)
Call == [step : Steps, user : Users, resend : BOOLEAN, code : CodeIds \cup {None},
         saw : SUBSET CodeIds, session : (0..MaxLogouts) \cup {None}]

Idle == [step |-> "idle"]
Task(step, u) == [step |-> step, user |-> u, resend |-> FALSE, code |-> None,
                  saw |-> {}, session |-> None]

At(t, step) == call[t].step = step
Goto(t, c) == call' = [call EXCEPT ![t] = c]
Finish(t) == Goto(t, Idle)
Then(t, step) == Goto(t, [call[t] EXCEPT !.step = step])

Registered(u) == account[u].registered
Verified(u) == account[u].verified
CodesOf(u) == {c \in Issued : code[c].user = u}
Unused(u) == {c \in CodesOf(u) : ~code[c].used}

(* Mutant: the newest code, used or not.                                   *)
LatestOfAll(u) ==
  {c \in CodesOf(u) : \A d \in CodesOf(u) : code[d].createdAt <= code[c].createdAt}

(* findFirst, newest first: codes of one instant come in any order.        *)
Latest(u) ==
  {c \in Unused(u) : \A d \in Unused(u) : code[d].createdAt <= code[c].createdAt}

Init ==
  /\ now = 0
  /\ account = [u \in Users |-> [registered |-> FALSE, verified |-> FALSE,
                                 signedIn |-> FALSE, logouts |-> 0]]
  /\ code = [c \in {} |-> 0]
  /\ mailed = {}
  /\ call = [t \in Calls |-> Idle]
-----------------------------------------------------------------------------
(* register: neither the address nor the username is taken, and the        *)
(* password is being hashed.                                               *)
Register(t, u) ==
  /\ At(t, "idle") /\ ~Registered(u)
  /\ Goto(t, Task("createUser", u))
  /\ UNCHANGED <<now, account, code, mailed>>

(* The unique index refuses the row when another call was faster.          *)
CreateUser(t) ==
  /\ At(t, "createUser")
  /\ LET u == call[t].user
     IN IF Registered(u)
          THEN Finish(t) /\ UNCHANGED account
          ELSE /\ account' = [account EXCEPT ![u].registered = TRUE]
               /\ Then(t, "latest")
  /\ UNCHANGED <<now, code, mailed>>

(* resendVerificationCode, for a user found unverified.                    *)
Resend(t, u) ==
  /\ At(t, "idle") /\ Registered(u) /\ ~Verified(u)
  /\ Goto(t, [Task("latest", u) EXCEPT !.resend = TRUE])
  /\ UNCHANGED <<now, account, code, mailed>>

(* createAndSendVerificationCode: the cooldown counts from the newest      *)
(* unused code.                                                            *)
CheckCooldown(t) ==
  /\ At(t, "latest")
  /\ IF call[t].resend /\ \E c \in Latest(call[t].user) :
                            now < code[c].createdAt + ResendAfter
       THEN Finish(t)
       ELSE Then(t, "invalidate")
  /\ UNCHANGED <<now, account, code, mailed>>

(* Mutant: only the newest unused code is invalidated.                     *)
InvalidatesLatest(u) == Latest(u)

Invalidates(u) == Unused(u)

Invalidate(t) ==
  /\ At(t, "invalidate")
  /\ LET u == call[t].user
     IN /\ code' = [c \in Issued |-> IF c \in Invalidates(u)
                                       THEN [code[c] EXCEPT !.used = TRUE] ELSE code[c]]
        /\ Goto(t, [call[t] EXCEPT !.step = "createCode", !.saw = CodesOf(u)])
  /\ UNCHANGED <<now, account, mailed>>

(* Mutant: the column attempts has no default.                             *)
NewCodeNoDefault(u, saw) ==
  [user |-> u, createdAt |-> now, expiresAt |-> now + TTL, attempts |-> None,
   used |-> FALSE, superseded |-> saw]

NewCode(u, saw) ==
  [user |-> u, createdAt |-> now, expiresAt |-> now + TTL, attempts |-> 0,
   used |-> FALSE, superseded |-> saw]

CreateCode(t) ==
  /\ At(t, "createCode")
  /\ \E c \in CodeIds \ Issued :
       /\ code' = [x \in Issued \cup {c} |->
                     IF x = c THEN NewCode(call[t].user, call[t].saw) ELSE code[x]]
       /\ Goto(t, [call[t] EXCEPT !.step = "mail", !.code = c])
  /\ UNCHANGED <<now, account, mailed>>

(* The mail is delivered.  Whether Brevo says so in time or the call fails *)
(* all the same, nothing follows it here; Break is the call that fails and *)
(* delivers nothing.                                                       *)
Mail(t) ==
  /\ At(t, "mail")
  /\ mailed' = mailed \cup {call[t].code}
  /\ Finish(t)
  /\ UNCHANGED <<now, account, code>>

-----------------------------------------------------------------------------
(* Mutant: the last attempt is counted but not refused.                    *)
OneTooMany(c) == code[c].attempts <= MaxAttempts /\ now <= code[c].expiresAt

(* Neither too many attempts nor expired.                                  *)
Open(c) == code[c].attempts < MaxAttempts /\ now <= code[c].expiresAt

(* Mutant: any code is the right one.                                      *)
AnyMatches(c, entered) == TRUE

Matches(c, entered) == c = entered

(* verifyEmail, up to its first write: the newest unused code is read and  *)
(* what was entered is compared with it.                                   *)
Verify(t, u) ==
  /\ At(t, "idle") /\ Registered(u)
  /\ \E c \in Latest(u), entered \in (mailed \cap CodesOf(u)) \cup {None} :
       /\ Open(c)
       /\ Goto(t, [Task(IF Matches(c, entered) THEN "confirm" ELSE "countAttempt", u)
                     EXCEPT !.code = c])
  /\ UNCHANGED <<now, account, code, mailed>>

(* The attempt is counted on the code that was read, whatever has become   *)
(* of it.                                                                  *)
CountAttempt(t) ==
  /\ At(t, "countAttempt")
  /\ code' = [code EXCEPT ![call[t].code].attempts = @ + 1]
  /\ Finish(t)
  /\ UNCHANGED <<now, account, mailed>>

(* One transaction: the code is used and the user verified.                *)
Confirm(t) ==
  /\ At(t, "confirm")
  /\ code' = [code EXCEPT ![call[t].code].used = TRUE]
  /\ account' = [account EXCEPT ![call[t].user].verified = TRUE]
  /\ Then(t, "issueTokens")
  /\ UNCHANGED <<now, mailed>>

(* login with the right password.                                          *)
Login(t, u) ==
  /\ At(t, "idle") /\ Registered(u) /\ Verified(u)
  /\ Goto(t, Task("issueTokens", u))
  /\ UNCHANGED <<now, account, code, mailed>>

(* Mutant: refresh does not look at the stored hash.                       *)
RefreshAnyway(t, u) ==
  /\ At(t, "idle") /\ Verified(u)
  /\ Goto(t, [Task("issueTokens", u) EXCEPT !.session = account[u].logouts])
  /\ UNCHANGED <<now, account, code, mailed>>

(* refresh: the user has a refreshTokenHash, which the token matches.      *)
Refresh(t, u) ==
  /\ At(t, "idle") /\ account[u].signedIn
  /\ Goto(t, [Task("issueTokens", u) EXCEPT !.session = account[u].logouts])
  /\ UNCHANGED <<now, account, code, mailed>>

(* issueTokens stores the hash of the refresh token it signed.             *)
IssueTokens(t) ==
  /\ At(t, "issueTokens")
  /\ account' = [account EXCEPT ![call[t].user].signedIn = TRUE]
  /\ Finish(t)
  /\ UNCHANGED <<now, code, mailed>>

(* logout, by a user who holds an access token: one write.                 *)
Logout(u) ==
  /\ Verified(u) /\ account[u].logouts < MaxLogouts
  /\ account' = [account EXCEPT ![u].signedIn = FALSE, ![u].logouts = @ + 1]
  /\ UNCHANGED <<now, code, mailed, call>>

(* A write or the mail fails, or the process stops.                        *)
Break(t) ==
  /\ ~At(t, "idle")
  /\ Finish(t)
  /\ UNCHANGED <<now, account, code, mailed>>

Tick ==
  /\ now < MaxTime
  /\ now' = now + 1
  /\ UNCHANGED <<account, code, mailed, call>>

Begin(t, u) ==
  Register(t, u) \/ Resend(t, u) \/ Verify(t, u) \/ Login(t, u) \/ Refresh(t, u)

Continue(t) ==
  \/ CreateUser(t) \/ CheckCooldown(t) \/ Invalidate(t) \/ CreateCode(t) \/ Mail(t)
  \/ CountAttempt(t) \/ Confirm(t) \/ IssueTokens(t) \/ Break(t)

Next ==
  \/ Tick
  \/ \E u \in Users : Logout(u) \/ \E t \in Calls : Begin(t, u)
  \/ \E t \in Calls : Continue(t)

Spec == Init /\ [][Next]_vars
-----------------------------------------------------------------------------
(* The variables range over the values their names say, and a call that is *)
(* about to write a code names one that exists.                            *)
TypeOK ==
  /\ now \in Nat
  /\ account \in [Users -> Account]
  /\ Issued \subseteq CodeIds /\ code \in [Issued -> Code]
  /\ mailed \subseteq Issued
  /\ call \in [Calls -> Call \cup {Idle}]
  /\ \A t \in Calls : call[t].step \in {"mail", "countAttempt", "confirm"} =>
       call[t].code \in CodesOf(call[t].user)

(* A session exists only for a verified address, whichever of login,       *)
(* verification and refresh began it and however they interleave.          *)
SignedInIsVerified ==
  \A u \in Users : account[u].signedIn => Verified(u)

(* A verified address is one whose owner received a code by mail, and the  *)
(* code is used up.                                                        *)
VerifiedByMail ==
  \A u \in Users : Verified(u) => \E c \in CodesOf(u) : c \in mailed /\ code[c].used

(* Whoever has a session, and whoever may get one, has received a code by  *)
(* mail and used it up, whichever calls broke off and in whatever order    *)
(* those of register, resend, verifyEmail, login and refresh interleaved.  *)
SessionsNeedMail == SignedInIsVerified /\ VerifiedByMail

(* "Old unused codes are invalidated on resend": what existed when the     *)
(* call that made a code invalidated its predecessors stays unusable, even *)
(* when several calls make codes at once.                                  *)
SupersededStayUsed ==
  \A c \in Issued : \A d \in code[c].superseded : code[d].used

(* Wrong attempts on a code exceed the maximum by no more than the other   *)
(* calls that were let in while the last one allowed was being counted.    *)
AttemptsBounded ==
  \A c \in Issued : code[c].attempts < MaxAttempts + Cardinality(Calls)

(* A refresh that begins after a logout does not bring the session back:   *)
(* when one does, it had read the hash before the user logged out.         *)
RevivedOnlyByOverlap ==
  \A t \in Calls :
    At(t, "issueTokens") /\ call[t].session # None =>
      \/ account[call[t].user].signedIn
      \/ call[t].session < account[call[t].user].logouts

(* What users notice of the rows and calls.                                *)
Standing ==
  [u \in Users |-> IF Verified(u) THEN "verified"
                  ELSE IF Registered(u) THEN "unverified" ELSE "unknown"]
Sessions == {u \in Users : account[u].signedIn}
Owner == [c \in Issued |-> code[c].user]
Spent == {c \in Issued : code[c].used}
Claims == {<<call[t].user, call[t].code>> : t \in {x \in Calls : At(x, "confirm")}}

Promised == INSTANCE Accounts WITH
  standing <- Standing, sessions <- Sessions, owner <- Owner, inbox <- mailed,
  spent <- Spent, claims <- Claims

(* Seen so, the service keeps to Accounts, however its calls interleave    *)
(* and wherever they break off: a code verifies its own user, who received *)
(* it, in a call that found it good; resends withdraw all codes of a user  *)
(* and of nobody else; verified accounts stay so, and only they sign in.   *)
ImplementsAccounts == Promised!AbstractSpec
=============================================================================
