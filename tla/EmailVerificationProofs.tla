----------------------- MODULE EmailVerificationProofs -----------------------
(***************************************************************************)
(* Verification and sessions, proved for any number of users, codes and    *)
(* concurrent calls.  The invariant says of the rows what the properties   *)
(* say, and of every call under way what the rows must still be like when  *)
(* it writes (GoodCall).  Rows only grow more used and more verified, and  *)
(* so no call spoils what another has found (StaysGood); a logout is the   *)
(* one step that takes something back.                                     *)
(***************************************************************************)
EXTENDS EmailVerification, FiniteSetTheorems, TLAPS

GoodCall(c) ==
  /\ c.step \in {"mail", "countAttempt", "confirm"} =>
       c.code \in Issued /\ code[c.code].user = c.user
  /\ c.step = "confirm" => c.code \in mailed /\ c.session = None
  /\ c.step = "createCode" => \A d \in c.saw : d \in Issued /\ code[d].used
  /\ c.step = "issueTokens" =>
       /\ Verified(c.user)
       /\ c.session # None =>
            /\ c.session <= account[c.user].logouts
            /\ account[c.user].signedIn \/ c.session < account[c.user].logouts

CallsOK ==
  call \in [Calls -> Call \cup {Idle}] /\ \A t \in Calls : GoodCall(call[t])

RowsOK ==
  /\ now \in Nat /\ account \in [Users -> Account]
  /\ Issued \subseteq CodeIds /\ code \in [Issued -> Code] /\ mailed \subseteq Issued
  /\ \A c \in Issued : code[c].superseded \subseteq Issued

Inv ==
  RowsOK /\ CallsOK /\ SignedInIsVerified /\ VerifiedByMail /\ SupersededStayUsed

(* What every step but a logout does to the rows.                          *)
Grows ==
  /\ Issued \subseteq Issued' /\ mailed \subseteq mailed'
  /\ \A c \in Issued : code'[c].user = code[c].user /\ (code[c].used => code'[c].used)
  /\ \A u \in Users :
       /\ Verified(u) => Verified(u)' /\ account'[u].logouts = account[u].logouts
       /\ account[u].signedIn => account'[u].signedIn
-----------------------------------------------------------------------------
LEMMA StaysGood ==
  ASSUME Grows, NEW c \in Call \cup {Idle}, GoodCall(c)
  PROVE  GoodCall(c)'
<1>1. CASE c \in Call
  <2>1. c.user \in Users
    BY <1>1 DEF Call
  <2> QED BY <2>1 DEF Grows, GoodCall
<1>2. CASE c = Idle
  BY <1>2 DEF GoodCall, Idle
<1> QED BY <1>1, <1>2

(* One call moves on to c while the rows grow.                             *)
LEMMA CallMoves ==
  ASSUME CallsOK, Grows, NEW t \in Calls, NEW c \in Call \cup {Idle}, GoodCall(c)', Goto(t, c)
  PROVE  CallsOK'
<1>1. call' = [call EXCEPT ![t] = c] /\ call \in [Calls -> Call \cup {Idle}]
  BY DEF Goto, CallsOK
<1>2. call' \in [Calls -> Call \cup {Idle}]
  BY <1>1
<1>3. ASSUME NEW s \in Calls PROVE GoodCall(call[s])'
  <2>1. CASE s = t
    <3> PICK x : x = call'[s]
      OBVIOUS
    <3>1. x = c
      BY <1>1, <2>1
    <3> QED BY <3>1
  <2>2. CASE s # t
    <3> PICK x : x = call[s]
      OBVIOUS
    <3>1. x \in Call \cup {Idle} /\ GoodCall(x) /\ call'[s] = x
      BY <1>1, <2>2 DEF CallsOK
    <3>2. GoodCall(x)'
      BY <3>1, StaysGood
    <3> QED BY <3>1, <3>2
  <2> QED BY <2>1, <2>2
<1> QED BY <1>2, <1>3 DEF CallsOK

(* A step that changes no row keeps all that is said of rows.              *)
LEMMA SameRows ==
  ASSUME Inv, UNCHANGED <<account, code, mailed>>, now' \in Nat
  PROVE  /\ Grows
         /\ RowsOK' /\ SignedInIsVerified' /\ VerifiedByMail' /\ SupersededStayUsed'
<1>1. Grows
  BY DEF Grows, Issued, Verified
<1>2. RowsOK'
  BY DEF Inv, RowsOK, Issued
<1>3. SignedInIsVerified'
  BY DEF Inv, SignedInIsVerified, Verified
<1>4. VerifiedByMail'
  BY DEF Inv, VerifiedByMail, Verified, CodesOf, Issued
<1>5. SupersededStayUsed'
  BY DEF Inv, SupersededStayUsed, Issued
<1> QED BY <1>1, <1>2, <1>3, <1>4, <1>5

LEMMA OnlyCallMoves ==
  ASSUME Inv, UNCHANGED <<now, account, code, mailed>>,
         NEW t \in Calls, NEW c \in Call \cup {Idle}, GoodCall(c), Goto(t, c)
  PROVE  Inv'
<1>1. /\ Grows
      /\ RowsOK' /\ SignedInIsVerified' /\ VerifiedByMail' /\ SupersededStayUsed'
  BY SameRows DEF Inv, RowsOK
<1>2. GoodCall(c)'
  BY <1>1, StaysGood
<1>3. CallsOK'
  BY <1>1, <1>2, CallMoves DEF Inv
<1> QED BY <1>1, <1>3 DEF Inv

(* The tasks the handlers begin with.                                      *)
LEMMA NewTask ==
  ASSUME NEW u \in Users, NEW step \in Steps
  PROVE  /\ Task(step, u) \in Call /\ Task(step, u).step = step /\ Task(step, u).user = u
         /\ Task(step, u).session = None /\ Task(step, u).code = None
         /\ Task(step, u).saw = {}
BY DEF Task, Call

LEMMA IdleIsGood == Idle \in Call \cup {Idle} /\ GoodCall(Idle) /\ GoodCall(Idle)'
BY DEF GoodCall, Idle

LEMMA Ends ==
  ASSUME Inv, UNCHANGED <<now, account, code, mailed>>, NEW t \in Calls, Finish(t)
  PROVE  Inv'
BY IdleIsGood, OnlyCallMoves DEF Finish

(* A call that is not idle has the fields of a task.                       *)
LEMMA Running ==
  ASSUME Inv, NEW t \in Calls, NEW step \in Steps, At(t, step)
  PROVE  call[t] \in Call /\ call[t].step = step /\ call[t].user \in Users
<1>1. call[t] \in Call \cup {Idle}
  BY DEF Inv, CallsOK
<1>2. call[t] # Idle
  BY DEF At, Steps, Idle
<1> QED BY <1>1, <1>2 DEF At, Call

LEMMA NextStep ==
  ASSUME NEW c \in Call, NEW step \in Steps
  PROVE  /\ [c EXCEPT !.step = step] \in Call
         /\ [c EXCEPT !.step = step].step = step
         /\ [c EXCEPT !.step = step].user = c.user
         /\ [c EXCEPT !.step = step].saw = c.saw
BY DEF Call
-----------------------------------------------------------------------------
LEMMA RegisterInv == ASSUME Inv, NEW t \in Calls, NEW u \in Users, Register(t, u) PROVE Inv'
<1> PICK c : c = Task("createUser", u)
  OBVIOUS
<1>1. c \in Call /\ c.step = "createUser"
  BY NewTask DEF Steps
<1>2. GoodCall(c)
  BY <1>1 DEF GoodCall
<1> QED BY <1>1, <1>2, OnlyCallMoves DEF Register

LEMMA ResendInv == ASSUME Inv, NEW t \in Calls, NEW u \in Users, Resend(t, u) PROVE Inv'
<1> PICK c : c = [Task("latest", u) EXCEPT !.resend = TRUE]
  OBVIOUS
<1>1. c \in Call /\ c.step = "latest"
  BY DEF Call, Task, Steps
<1>2. GoodCall(c)
  BY <1>1 DEF GoodCall
<1> QED BY <1>1, <1>2, OnlyCallMoves DEF Resend

LEMMA CheckCooldownInv == ASSUME Inv, NEW t \in Calls, CheckCooldown(t) PROVE Inv'
<1>1. CASE Finish(t)
  BY <1>1, Ends DEF CheckCooldown
<1>2. CASE Then(t, "invalidate")
  <2> PICK c : c = [call[t] EXCEPT !.step = "invalidate"]
    OBVIOUS
  <2>1. call[t] \in Call
    BY Running DEF CheckCooldown, Steps
  <2>2. c \in Call /\ c.step = "invalidate"
    BY <2>1, NextStep DEF Steps
  <2>3. GoodCall(c)
    BY <2>2 DEF GoodCall
  <2> QED BY <1>2, <2>2, <2>3, OnlyCallMoves DEF CheckCooldown, Then
<1> QED BY <1>1, <1>2 DEF CheckCooldown

LEMMA VerifyInv == ASSUME Inv, NEW t \in Calls, NEW u \in Users, Verify(t, u) PROVE Inv'
<1>1. PICK c \in Latest(u), entered \in (mailed \cap CodesOf(u)) \cup {None} :
        Goto(t, [Task(IF Matches(c, entered) THEN "confirm" ELSE "countAttempt", u)
                   EXCEPT !.code = c])
  BY DEF Verify
<1> PICK k : k = [Task(IF Matches(c, entered) THEN "confirm" ELSE "countAttempt", u)
                    EXCEPT !.code = c]
  OBVIOUS
<1>2. c \in Issued /\ code[c].user = u /\ c \in CodeIds
  BY DEF Latest, Unused, CodesOf, Inv, RowsOK
<1>3. /\ k \in Call /\ k.user = u /\ k.code = c /\ k.session = None
      /\ k.step = IF Matches(c, entered) THEN "confirm" ELSE "countAttempt"
  BY <1>2 DEF Call, Task, Steps
<1>4. k.step = "confirm" => c \in mailed
  BY <1>2, <1>3, NoneAssumption DEF Matches
<1>5. GoodCall(k)
  BY <1>2, <1>3, <1>4 DEF GoodCall
<1> QED BY <1>1, <1>3, <1>5, OnlyCallMoves DEF Verify

LEMMA LoginInv == ASSUME Inv, NEW t \in Calls, NEW u \in Users, Login(t, u) PROVE Inv'
<1> PICK c : c = Task("issueTokens", u)
  OBVIOUS
<1>1. c \in Call /\ c.step = "issueTokens" /\ c.user = u /\ c.session = None
  BY NewTask DEF Steps
<1>2. GoodCall(c)
  BY <1>1 DEF GoodCall, Login
<1> QED BY <1>1, <1>2, OnlyCallMoves DEF Login

LEMMA RefreshInv == ASSUME Inv, NEW t \in Calls, NEW u \in Users, Refresh(t, u) PROVE Inv'
<1> PICK c : c = [Task("issueTokens", u) EXCEPT !.session = account[u].logouts]
  OBVIOUS
<1>1. account[u] \in Account
  BY DEF Inv, RowsOK
<1>2. /\ c \in Call /\ c.step = "issueTokens" /\ c.user = u
      /\ c.session = account[u].logouts
  BY <1>1 DEF Call, Task, Steps, Account
<1>3. Verified(u)
  BY DEF Refresh, Inv, SignedInIsVerified
<1>4. GoodCall(c)
  BY <1>1, <1>2, <1>3 DEF GoodCall, Refresh, Account
<1> QED BY <1>2, <1>4, OnlyCallMoves DEF Refresh

LEMMA BreakInv == ASSUME Inv, NEW t \in Calls, Break(t) PROVE Inv'
BY Ends DEF Break
-----------------------------------------------------------------------------
LEMMA CreateUserInv == ASSUME Inv, NEW t \in Calls, CreateUser(t) PROVE Inv'
<1> PICK u : u = call[t].user
  OBVIOUS
<1>1. call[t] \in Call /\ u \in Users
  BY Running DEF CreateUser, Steps
<1>2. CASE Finish(t) /\ UNCHANGED account
  BY <1>2, Ends DEF CreateUser
<1>3. CASE account' = [account EXCEPT ![u].registered = TRUE] /\ Then(t, "latest")
  <2> PICK c : c = [call[t] EXCEPT !.step = "latest"]
    OBVIOUS
  <2>1. c \in Call /\ c.step = "latest"
    BY <1>1, NextStep DEF Steps
  <2>2. UNCHANGED <<now, code, mailed>>
    BY DEF CreateUser
  <2>3. /\ account' \in [Users -> Account]
        /\ \A v \in Users : /\ account'[v].verified = account[v].verified
                            /\ account'[v].signedIn = account[v].signedIn
                            /\ account'[v].logouts = account[v].logouts
    BY <1>1, <1>3 DEF Inv, RowsOK, Account
  <2>4. Grows
    BY <2>2, <2>3 DEF Grows, Issued, Verified
  <2>5. GoodCall(c)'
    BY <2>1 DEF GoodCall
  <2>6. CallsOK'
    BY <1>3, <2>1, <2>4, <2>5, CallMoves DEF Inv, Then
  <2>7. RowsOK' /\ SignedInIsVerified' /\ VerifiedByMail' /\ SupersededStayUsed'
    BY <2>2, <2>3 DEF Inv, RowsOK, SignedInIsVerified, VerifiedByMail, SupersededStayUsed,
                      Verified, CodesOf, Issued
  <2> QED BY <2>6, <2>7 DEF Inv
<1> QED BY <1>2, <1>3 DEF CreateUser

(* Rows of codes that only grow used keep what is said of codes.           *)
LEMMA CodesGrow ==
  ASSUME Inv, UNCHANGED <<now, account, mailed>>, DOMAIN code' = Issued,
         code' \in [Issued -> Code],
         \A c \in Issued : /\ code'[c].user = code[c].user
                           /\ code'[c].superseded = code[c].superseded
                           /\ code[c].used => code'[c].used
  PROVE  Grows /\ RowsOK' /\ SignedInIsVerified' /\ VerifiedByMail' /\ SupersededStayUsed'
<1>1. Issued' = Issued
  BY DEF Issued
<1>2. Grows
  BY <1>1 DEF Grows, Verified
<1>3. RowsOK'
  BY <1>1 DEF Inv, RowsOK
<1>4. SignedInIsVerified'
  BY DEF Inv, SignedInIsVerified, Verified
<1>5. VerifiedByMail'
  BY <1>1 DEF Inv, VerifiedByMail, Verified, CodesOf
<1>6. SupersededStayUsed'
  BY <1>1 DEF Inv, RowsOK, SupersededStayUsed
<1> QED BY <1>2, <1>3, <1>4, <1>5, <1>6

LEMMA InvalidateInv == ASSUME Inv, NEW t \in Calls, Invalidate(t) PROVE Inv'
<1> PICK u : u = call[t].user
  OBVIOUS
<1> PICK saw : saw = CodesOf(u)
  OBVIOUS
<1> PICK c : c = [call[t] EXCEPT !.step = "createCode", !.saw = saw]
  OBVIOUS
<1>1. call[t] \in Call /\ u \in Users
  BY Running DEF Invalidate, Steps
<1>2. saw \subseteq CodeIds /\ saw \subseteq Issued
  BY DEF CodesOf, Inv, RowsOK
<1>3. c \in Call /\ c.step = "createCode" /\ c.saw = saw
  BY <1>1, <1>2 DEF Call, Steps
<1>4. code' = [x \in Issued |-> IF x \in Unused(u)
                                  THEN [code[x] EXCEPT !.used = TRUE] ELSE code[x]]
  BY DEF Invalidate, Invalidates
<1>5. \A x \in Issued : code[x] \in Code
  BY DEF Inv, RowsOK
<1>6. DOMAIN code' = Issued /\ code' \in [Issued -> Code]
  BY <1>4, <1>5 DEF Code
<1>7. \A x \in Issued : /\ code'[x].user = code[x].user
                        /\ code'[x].superseded = code[x].superseded
                        /\ code[x].used => code'[x].used
                        /\ x \in Unused(u) => code'[x].used
  BY <1>4, <1>5 DEF Code
<1>8. Grows /\ RowsOK' /\ SignedInIsVerified' /\ VerifiedByMail' /\ SupersededStayUsed'
  BY <1>6, <1>7, CodesGrow DEF Invalidate
<1>9. \A d \in saw : d \in Issued' /\ code'[d].used
  BY <1>2, <1>6, <1>7 DEF CodesOf, Unused, Issued
<1>10. GoodCall(c)'
  BY <1>3, <1>9 DEF GoodCall
<1>11. CallsOK'
  BY <1>3, <1>8, <1>10, CallMoves DEF Inv, Invalidate
<1> QED BY <1>8, <1>11 DEF Inv

LEMMA CreateCodeInv == ASSUME Inv, NEW t \in Calls, CreateCode(t) PROVE Inv'
<1> PICK k : k = call[t]
  OBVIOUS
<1>1. PICK c \in CodeIds \ Issued :
        /\ code' = [x \in Issued \cup {c} |->
                      IF x = c THEN NewCode(k.user, k.saw) ELSE code[x]]
        /\ Goto(t, [k EXCEPT !.step = "mail", !.code = c])
  BY DEF CreateCode
<1>2. k \in Call /\ k.step = "createCode" /\ k.user \in Users
  BY Running DEF CreateCode, Steps
<1>3. GoodCall(k)
  BY DEF Inv, CallsOK
<1>4. \A d \in k.saw : d \in Issued /\ code[d].used
  BY <1>2, <1>3 DEF GoodCall
<1> PICK n : n = NewCode(k.user, k.saw)
  OBVIOUS
<1>5. /\ n \in Code /\ n.user = k.user /\ n.superseded = k.saw
  BY <1>2, LimitsAssumption DEF NewCode, Code, Call, Inv, RowsOK
<1>6. Issued' = Issued \cup {c} /\ code'[c] = n /\ \A x \in Issued : code'[x] = code[x]
  BY <1>1 DEF Issued
<1>7. UNCHANGED <<now, account, mailed>>
  BY DEF CreateCode
<1>8. Grows
  BY <1>6, <1>7 DEF Grows, Verified
<1>9. RowsOK'
  <2>1. code' \in [Issued' -> Code]
    BY <1>1, <1>5, <1>6 DEF Inv, RowsOK
  <2>2. \A x \in Issued' : code'[x].superseded \subseteq Issued'
    BY <1>4, <1>5, <1>6 DEF Inv, RowsOK
  <2> QED BY <1>6, <1>7, <2>1, <2>2 DEF Inv, RowsOK
<1>10. SignedInIsVerified'
  BY <1>7 DEF Inv, SignedInIsVerified, Verified
<1>11. VerifiedByMail'
  BY <1>6, <1>7 DEF Inv, VerifiedByMail, Verified, CodesOf
<1>12. SupersededStayUsed'
  <2>1. \A d \in n.superseded : code'[d].used
    BY <1>4, <1>5, <1>6
  <2>2. \A x \in Issued : \A d \in code'[x].superseded : code'[d].used
    BY <1>6 DEF Inv, RowsOK, SupersededStayUsed
  <2> QED BY <1>6, <2>1, <2>2 DEF SupersededStayUsed
<1>13. CallsOK'
  <2> PICK m : m = [k EXCEPT !.step = "mail", !.code = c]
    OBVIOUS
  <2>1. m \in Call /\ m.step = "mail" /\ m.code = c /\ m.user = k.user
    BY <1>2 DEF Call, Steps
  <2>2. GoodCall(m)'
    BY <1>5, <1>6, <2>1 DEF GoodCall
  <2> QED BY <1>1, <1>8, <2>1, <2>2, CallMoves DEF Inv
<1> QED BY <1>9, <1>10, <1>11, <1>12, <1>13 DEF Inv

LEMMA MailInv == ASSUME Inv, NEW t \in Calls, Mail(t) PROVE Inv'
<1> PICK k : k = call[t]
  OBVIOUS
<1>1. k \in Call /\ k.step = "mail" /\ GoodCall(k)
  BY Running DEF Mail, Steps, Inv, CallsOK
<1>2. k.code \in Issued
  BY <1>1 DEF GoodCall
<1>3. mailed' = mailed \cup {k.code} /\ UNCHANGED <<now, account, code>> /\ Goto(t, Idle)
  BY DEF Mail, Finish
<1>4. Grows
  BY <1>3 DEF Grows, Issued, Verified
<1>5. CallsOK'
  BY <1>3, <1>4, IdleIsGood, CallMoves DEF Inv
<1>6. RowsOK' /\ SignedInIsVerified' /\ SupersededStayUsed'
  BY <1>2, <1>3 DEF Inv, RowsOK, SignedInIsVerified, SupersededStayUsed, Issued, Verified
<1>7. VerifiedByMail'
  BY <1>3 DEF Inv, VerifiedByMail, Verified, CodesOf, Issued
<1> QED BY <1>5, <1>6, <1>7 DEF Inv

LEMMA CountAttemptInv == ASSUME Inv, NEW t \in Calls, CountAttempt(t) PROVE Inv'
<1> PICK c : c = call[t].code
  OBVIOUS
<1>1. code' = [code EXCEPT ![c].attempts = @ + 1] /\ UNCHANGED <<now, account, mailed>>
      /\ Goto(t, Idle)
  BY DEF CountAttempt, Finish
<1>2. \A x \in Issued : code[x] \in Code
  BY DEF Inv, RowsOK
<1>3. code \in [Issued -> Code]
  BY DEF Inv, RowsOK
<1>4. DOMAIN code' = Issued /\ code' \in [Issued -> Code]
  <2>1. CASE c \in Issued
    <3>1. [code[c] EXCEPT !.attempts = @ + 1] \in Code
      BY <1>2, <2>1 DEF Code
    <3> QED BY <1>1, <1>3, <3>1
  <2>2. CASE c \notin Issued
    BY <1>1, <1>3, <2>2
  <2> QED BY <2>1, <2>2
<1>5. \A x \in Issued : /\ code'[x].user = code[x].user
                        /\ code'[x].superseded = code[x].superseded
                        /\ code[x].used => code'[x].used
  BY <1>1, <1>2, <1>3 DEF Code
<1>6. Grows /\ RowsOK' /\ SignedInIsVerified' /\ VerifiedByMail' /\ SupersededStayUsed'
  BY <1>1, <1>4, <1>5, CodesGrow
<1>7. CallsOK'
  BY <1>1, <1>6, IdleIsGood, CallMoves DEF Inv
<1> QED BY <1>6, <1>7 DEF Inv

LEMMA ConfirmInv == ASSUME Inv, NEW t \in Calls, Confirm(t) PROVE Inv'
<1> PICK k : k = call[t]
  OBVIOUS
<1> PICK c : c = k.code
  OBVIOUS
<1> PICK u : u = k.user
  OBVIOUS
<1>1. k \in Call /\ k.step = "confirm" /\ u \in Users /\ GoodCall(k)
  BY Running DEF Confirm, Steps, Inv, CallsOK
<1>2. c \in Issued /\ code[c].user = u /\ c \in mailed
  BY <1>1 DEF GoodCall
<1>3. /\ code' = [code EXCEPT ![c].used = TRUE]
      /\ account' = [account EXCEPT ![u].verified = TRUE]
      /\ UNCHANGED <<now, mailed>> /\ Goto(t, [k EXCEPT !.step = "issueTokens"])
  BY DEF Confirm, Then
<1>4. code \in [Issued -> Code] /\ account \in [Users -> Account]
  BY DEF Inv, RowsOK
<1>5. Issued' = Issued /\ code' \in [Issued -> Code]
  <2>1. [code[c] EXCEPT !.used = TRUE] \in Code
    BY <1>2, <1>4 DEF Code
  <2> QED BY <1>2, <1>3, <1>4, <2>1 DEF Issued
<1>6. /\ code'[c].used
       /\ \A x \in Issued : /\ code'[x].user = code[x].user
                            /\ code'[x].superseded = code[x].superseded
                            /\ code[x].used => code'[x].used
  BY <1>2, <1>3, <1>4 DEF Code
<1>7. /\ account' \in [Users -> Account] /\ account'[u].verified
      /\ \A v \in Users : /\ account[v].verified => account'[v].verified
                          /\ v # u => account'[v].verified = account[v].verified
                          /\ account'[v].signedIn = account[v].signedIn
                          /\ account'[v].logouts = account[v].logouts
  BY <1>1, <1>3, <1>4 DEF Account
<1>8. Grows
  BY <1>3, <1>5, <1>6, <1>7 DEF Grows, Verified
<1>9. RowsOK'
  BY <1>3, <1>5, <1>6, <1>7 DEF Inv, RowsOK
<1>10. SignedInIsVerified'
  BY <1>7 DEF Inv, SignedInIsVerified, Verified
<1>11. VerifiedByMail'
  BY <1>2, <1>3, <1>5, <1>6, <1>7 DEF Inv, VerifiedByMail, Verified, CodesOf
<1>12. SupersededStayUsed'
  BY <1>5, <1>6 DEF Inv, RowsOK, SupersededStayUsed
<1>13. CallsOK'
  <2> PICK m : m = [k EXCEPT !.step = "issueTokens"]
    OBVIOUS
  <2>1. m \in Call /\ m.step = "issueTokens" /\ m.user = u
    BY <1>1, NextStep DEF Steps
  <2>2. Verified(u)'
    BY <1>7 DEF Verified
  <2>3. m.session = None
    BY <1>1 DEF GoodCall, Call
  <2>4. GoodCall(m)'
    BY <2>1, <2>2, <2>3 DEF GoodCall
  <2> QED BY <1>3, <1>8, <2>1, <2>4, CallMoves DEF Inv
<1> QED BY <1>9, <1>10, <1>11, <1>12, <1>13 DEF Inv

LEMMA IssueTokensInv == ASSUME Inv, NEW t \in Calls, IssueTokens(t) PROVE Inv'
<1> PICK u : u = call[t].user
  OBVIOUS
<1>1. u \in Users /\ Verified(u)
  BY Running DEF IssueTokens, Steps, Inv, CallsOK, GoodCall
<1>2. account' = [account EXCEPT ![u].signedIn = TRUE] /\ UNCHANGED <<now, code, mailed>>
      /\ Goto(t, Idle)
  BY DEF IssueTokens, Finish
<1>3. account \in [Users -> Account]
  BY DEF Inv, RowsOK
<1>4. /\ account' \in [Users -> Account]
      /\ \A v \in Users : /\ account'[v].verified = account[v].verified
                          /\ account'[v].logouts = account[v].logouts
                          /\ account[v].signedIn => account'[v].signedIn
                          /\ v # u => account'[v].signedIn = account[v].signedIn
  BY <1>1, <1>2, <1>3 DEF Account
<1>5. Grows
  BY <1>2, <1>4 DEF Grows, Issued, Verified
<1>6. RowsOK'
  BY <1>2, <1>4 DEF Inv, RowsOK, Issued
<1>7. SignedInIsVerified'
  BY <1>1, <1>4 DEF Inv, SignedInIsVerified, Verified
<1>8. VerifiedByMail' /\ SupersededStayUsed'
  BY <1>2, <1>4 DEF Inv, VerifiedByMail, SupersededStayUsed, Verified, CodesOf, Issued
<1>9. CallsOK'
  BY <1>2, <1>5, IdleIsGood, CallMoves DEF Inv
<1> QED BY <1>6, <1>7, <1>8, <1>9 DEF Inv

(* A logout ends a session: a refresh under way read the hash before it.   *)
LEMMA LogoutInv == ASSUME Inv, NEW u \in Users, Logout(u) PROVE Inv'
<1>1. account \in [Users -> Account]
  BY DEF Inv, RowsOK
<1>2. /\ account' = [account EXCEPT ![u].signedIn = FALSE, ![u].logouts = @ + 1]
      /\ account[u].logouts < MaxLogouts /\ UNCHANGED <<now, code, mailed, call>>
  BY DEF Logout
<1>3. account[u] \in Account /\ account[u].logouts + 1 \in 0..MaxLogouts
  BY <1>1, <1>2, LimitsAssumption DEF Account
<1>4. [account[u] EXCEPT !.signedIn = FALSE, !.logouts = @ + 1] \in Account
  BY <1>3 DEF Account
<1>5. account' \in [Users -> Account]
  BY <1>1, <1>2, <1>4
<1>6. \A v \in Users : /\ account'[v].verified = account[v].verified
                       /\ account'[v].signedIn => account[v].signedIn
                       /\ v # u => account'[v] = account[v]
  BY <1>1, <1>2, <1>3 DEF Account
<1>7. account'[u].logouts = account[u].logouts + 1
  BY <1>1, <1>2, <1>3 DEF Account
<1>8. RowsOK' /\ SignedInIsVerified' /\ VerifiedByMail' /\ SupersededStayUsed'
  BY <1>2, <1>5, <1>6 DEF Inv, RowsOK, SignedInIsVerified, VerifiedByMail,
                          SupersededStayUsed, Verified, CodesOf, Issued
<1>9. ASSUME NEW c \in Call \cup {Idle}, GoodCall(c) PROVE GoodCall(c)'
  <2>1. CASE c = Idle
    BY <2>1, IdleIsGood
  <2>2. CASE c \in Call
    <3>1. c.user \in Users /\ c.session \in (0..MaxLogouts) \cup {None}
      BY <2>2 DEF Call
    <3>2. CASE c.step = "issueTokens" /\ c.session # None /\ c.user = u
      <4>1. c.session < account'[u].logouts
        BY <1>3, <1>7, <1>9, <3>1, <3>2 DEF GoodCall, Account
      <4>2. c.session <= account'[u].logouts
        BY <3>1, <3>2, <4>1, <1>3, <1>7 DEF Account
      <4>3. Verified(u)'
        BY <1>6, <1>9, <3>2 DEF GoodCall, Verified
      <4> QED BY <3>2, <4>1, <4>2, <4>3 DEF GoodCall
    <3>3. CASE ~(c.step = "issueTokens" /\ c.session # None /\ c.user = u)
      BY <1>2, <1>6, <1>9, <3>1, <3>3 DEF GoodCall, Verified, Issued
    <3> QED BY <3>2, <3>3
  <2> QED BY <2>1, <2>2
<1>10. CallsOK'
  <2> SUFFICES ASSUME NEW t \in Calls PROVE GoodCall(call[t])'
    BY <1>2 DEF Inv, CallsOK
  <2> PICK x : x = call[t]
    OBVIOUS
  <2>1. x \in Call \cup {Idle} /\ GoodCall(x) /\ call'[t] = x
    BY <1>2 DEF Inv, CallsOK
  <2>2. GoodCall(x)'
    BY <1>9, <2>1
  <2> QED BY <2>1, <2>2
<1> QED BY <1>8, <1>10 DEF Inv

(* A step of the clock, or none.                                           *)
LEMMA ClockInv ==
  ASSUME Inv, UNCHANGED <<account, code, mailed, call>>, now' \in Nat PROVE Inv'
<1>1. /\ Grows
      /\ RowsOK' /\ SignedInIsVerified' /\ VerifiedByMail' /\ SupersededStayUsed'
  BY SameRows
<1>2. CallsOK'
  <2> SUFFICES ASSUME NEW t \in Calls PROVE GoodCall(call[t])'
    BY DEF Inv, CallsOK
  <2> PICK x : x = call[t]
    OBVIOUS
  <2>1. x \in Call \cup {Idle} /\ GoodCall(x) /\ call'[t] = x
    BY DEF Inv, CallsOK
  <2>2. GoodCall(x)'
    BY <1>1, <2>1, StaysGood
  <2> QED BY <2>1, <2>2
<1> QED BY <1>1, <1>2 DEF Inv
-----------------------------------------------------------------------------
LEMMA InitInv == Init => Inv
<1> SUFFICES ASSUME Init PROVE Inv
  OBVIOUS
<1>1. Issued = {} /\ code = [c \in {} |-> 0] /\ mailed = {} /\ now = 0
  BY DEF Init, Issued
<1>2. /\ account \in [Users -> Account]
      /\ \A u \in Users : ~account[u].verified /\ ~account[u].signedIn
  BY LimitsAssumption DEF Init, Account
<1>3. RowsOK
  BY <1>1, <1>2 DEF RowsOK
<1>4. CallsOK
  <2>1. call = [t \in Calls |-> Idle]
    BY DEF Init
  <2> QED BY <2>1, IdleIsGood DEF CallsOK
<1>5. SignedInIsVerified /\ VerifiedByMail /\ SupersededStayUsed
  BY <1>1, <1>2 DEF SignedInIsVerified, VerifiedByMail, SupersededStayUsed, Verified
<1> QED BY <1>3, <1>4, <1>5 DEF Inv

LEMMA NextInv == Inv /\ [Next]_vars => Inv'
<1> SUFFICES ASSUME Inv, [Next]_vars PROVE Inv'
  OBVIOUS
<1>1. CASE UNCHANGED vars
  BY <1>1, ClockInv DEF vars, Inv, RowsOK
<1>2. CASE Tick
  BY <1>2, ClockInv DEF Tick, Inv, RowsOK
<1>3. ASSUME NEW u \in Users, Logout(u) PROVE Inv'
  BY <1>3, LogoutInv
<1>4. ASSUME NEW t \in Calls, NEW u \in Users, Begin(t, u) PROVE Inv'
  BY <1>4, RegisterInv, ResendInv, VerifyInv, LoginInv, RefreshInv DEF Begin
<1>5. ASSUME NEW t \in Calls, Continue(t) PROVE Inv'
  BY <1>5, CreateUserInv, CheckCooldownInv, InvalidateInv, CreateCodeInv, MailInv,
     CountAttemptInv, ConfirmInv, IssueTokensInv, BreakInv DEF Continue
<1> QED BY <1>1, <1>2, <1>3, <1>4, <1>5 DEF Next

(* The inductive invariant.                                                *)
THEOREM Invariant == Spec => []Inv
<1>1. Inv /\ [Next]_vars => Inv'
  BY NextInv
<1> QED BY <1>1, InitInv, PTL DEF Spec

(* The variables range over the values their names say.                    *)
THEOREM TypeCorrect == Spec => []TypeOK
<1>1. Inv => TypeOK
  BY DEF Inv, RowsOK, CallsOK, GoodCall, TypeOK, CodesOf
<1> QED BY <1>1, Invariant, PTL

(* No session without a verified address, and no verified address without  *)
(* a code that was mailed to it and used up.                               *)
THEOREM SessionsComeFromMail == Spec => []SessionsNeedMail
<1>1. Inv => SessionsNeedMail
  BY DEF Inv, SessionsNeedMail
<1> QED BY <1>1, Invariant, PTL

(* A code invalidated by the making of another is never usable again.      *)
THEOREM InvalidatedForGood == Spec => []SupersededStayUsed
<1>1. Inv => SupersededStayUsed
  BY DEF Inv
<1> QED BY <1>1, Invariant, PTL

(* A refresh that begins after a logout revives no session.                *)
THEOREM LogoutIsFinal == Spec => []RevivedOnlyByOverlap
<1>1. Inv => RevivedOnlyByOverlap
  BY DEF Inv, CallsOK, GoodCall, RevivedOnlyByOverlap, At
<1> QED BY <1>1, Invariant, PTL
-----------------------------------------------------------------------------
(* The wrong attempts on a code: those counted, and those that were let in *)
(* and are still to be counted.  Who is let in found fewer counted than    *)
(* the maximum, and there are no more to be counted than there are calls.  *)
Counting(c) == {t \in Calls : At(t, "countAttempt") /\ call[t].code = c}

AttemptsOf(c) ==
  code[c].attempts + Cardinality(Counting(c)) < MaxAttempts + Cardinality(Calls)

AttemptsInv == \A c \in Issued : AttemptsOf(c)

LEMMA CountingSize ==
  ASSUME NEW c
  PROVE  /\ IsFiniteSet(Counting(c))
         /\ Cardinality(Counting(c)) \in Nat /\ Cardinality(Calls) \in Nat
         /\ Cardinality(Counting(c)) <= Cardinality(Calls)
<1>1. Counting(c) \in SUBSET Calls
  BY DEF Counting
<1> QED BY <1>1, CallsAssumption, FS_Subset, FS_CardinalityType

(* No attempt is let in, and none is counted.                              *)
LEMMA NoAttempt ==
  ASSUME Inv, AttemptsInv, Inv',
         \A t \in Calls : At(t, "countAttempt")' => call'[t] = call[t],
         \A c \in Issued' :
           code'[c].attempts = IF c \in Issued THEN code[c].attempts ELSE 0
  PROVE  AttemptsInv'
<1> SUFFICES ASSUME NEW c \in Issued' PROVE AttemptsOf(c)'
  BY DEF AttemptsInv
<1>1. Counting(c)' \in SUBSET Counting(c)
  BY DEF Counting, At
<1>2. /\ Cardinality(Counting(c)') \in Nat
      /\ Cardinality(Counting(c)') <= Cardinality(Counting(c))
  BY <1>1, CountingSize, FS_Subset, FS_CardinalityType
<1>3. CASE c \in Issued
  <2>1. code[c].attempts \in Nat /\ AttemptsOf(c)
    BY <1>3 DEF Inv, RowsOK, Code, AttemptsInv
  <2> QED BY <1>2, <1>3, <2>1, CountingSize, LimitsAssumption DEF AttemptsOf
<1>4. CASE c \notin Issued
  BY <1>2, <1>4, CountingSize, LimitsAssumption DEF AttemptsOf
<1> QED BY <1>3, <1>4

LEMMA MovesElsewhere ==
  ASSUME Inv, NEW t \in Calls, NEW k, Goto(t, k), k.step # "countAttempt"
  PROVE  \A x \in Calls : At(x, "countAttempt")' => call'[x] = call[x]
<1>1. call' = [call EXCEPT ![t] = k] /\ call \in [Calls -> Call \cup {Idle}]
  BY DEF Goto, Inv, CallsOK
<1> QED BY <1>1 DEF At

(* An attempt is let in: it found fewer than the maximum counted.          *)
LEMMA LetIn ==
  ASSUME Inv, AttemptsInv, NEW t \in Calls, NEW u \in Users, Verify(t, u)
  PROVE  AttemptsInv'
<1>1. PICK c \in Latest(u), entered \in (mailed \cap CodesOf(u)) \cup {None} :
        /\ Open(c)
        /\ Goto(t, [Task(IF Matches(c, entered) THEN "confirm" ELSE "countAttempt", u)
                      EXCEPT !.code = c])
  BY DEF Verify
<1>2. call \in [Calls -> Call \cup {Idle}] /\ code' = code
  BY DEF Inv, CallsOK, Verify
<1> SUFFICES ASSUME NEW x \in Issued PROVE AttemptsOf(x)'
  BY <1>2 DEF AttemptsInv, Issued
<1>3. code'[x].attempts = code[x].attempts /\ code[x].attempts \in Nat
  BY <1>2 DEF Inv, RowsOK, Code
<1>4. CASE x = c
  <2>1. Counting(x)' \in SUBSET Calls
    BY DEF Counting
  <2>2. /\ Cardinality(Counting(x)') \in Nat
        /\ Cardinality(Counting(x)') <= Cardinality(Calls)
    BY <2>1, CallsAssumption, FS_Subset, FS_CardinalityType
  <2>3. code[x].attempts < MaxAttempts
    BY <1>1, <1>4 DEF Open
  <2>4. Cardinality(Calls) \in Nat
    BY CallsAssumption, FS_CardinalityType
  <2> QED BY <1>3, <2>2, <2>3, <2>4, LimitsAssumption DEF AttemptsOf
<1>5. CASE x # c
  <2>1. Counting(x)' \in SUBSET Counting(x)
    BY <1>1, <1>2, <1>5 DEF Counting, At, Goto, Task
  <2>2. /\ Cardinality(Counting(x)') \in Nat
        /\ Cardinality(Counting(x)') <= Cardinality(Counting(x))
    BY <2>1, CountingSize, FS_Subset, FS_CardinalityType
  <2> QED BY <1>3, <2>2, CountingSize, LimitsAssumption DEF AttemptsInv, AttemptsOf
<1> QED BY <1>4, <1>5

(* An attempt is counted, and no longer to be counted.                     *)
LEMMA Counted ==
  ASSUME Inv, AttemptsInv, NEW t \in Calls, CountAttempt(t)
  PROVE  AttemptsInv'
<1> PICK c : c = call[t].code
  OBVIOUS
<1>1. /\ code' = [code EXCEPT ![c].attempts = @ + 1] /\ Goto(t, Idle)
      /\ At(t, "countAttempt") /\ call \in [Calls -> Call \cup {Idle}]
      /\ code \in [Issued -> Code]
  BY DEF CountAttempt, Finish, Inv, CallsOK, RowsOK
<1> SUFFICES ASSUME NEW x \in Issued PROVE AttemptsOf(x)'
  BY <1>1 DEF AttemptsInv, Issued
<1>2. /\ code[x].attempts \in Nat
      /\ code'[x].attempts = IF x = c THEN code[x].attempts + 1 ELSE code[x].attempts
  BY <1>1 DEF Code
<1>3. Counting(x)' = Counting(x) \ {t}
  BY <1>1 DEF Counting, At, Goto, Idle
<1>4. t \in Counting(c)
  BY <1>1 DEF Counting
<1>5. Cardinality(Counting(x)') =
        IF t \in Counting(x) THEN Cardinality(Counting(x)) - 1 ELSE Cardinality(Counting(x))
  BY <1>3, CountingSize, FS_RemoveElement
<1>6. AttemptsOf(x)
  BY DEF AttemptsInv
<1> QED BY <1>2, <1>4, <1>5, <1>6, CountingSize, LimitsAssumption DEF AttemptsOf

LEMMA AttemptsStep == Inv /\ AttemptsInv /\ [Next]_vars => AttemptsInv'
<1> SUFFICES ASSUME Inv, AttemptsInv, [Next]_vars PROVE AttemptsInv'
  OBVIOUS
<1>1. Inv' /\ call \in [Calls -> Call \cup {Idle}] /\ code \in [Issued -> Code]
  BY NextInv DEF Inv, CallsOK, RowsOK
<1>2. CASE UNCHANGED <<code, call>>
  BY <1>1, <1>2, NoAttempt DEF Issued
<1>3. ASSUME NEW t \in Calls, NEW k, Goto(t, k), k.step # "countAttempt",
             \A c \in Issued' :
               code'[c].attempts = IF c \in Issued THEN code[c].attempts ELSE 0
      PROVE  AttemptsInv'
  BY <1>1, <1>3, MovesElsewhere, NoAttempt
<1>4. ASSUME NEW t \in Calls, NEW u \in Users,
             Register(t, u) \/ Resend(t, u) \/ Login(t, u) \/ Refresh(t, u)
      PROVE  AttemptsInv'
  <2>1. code' = code
    BY <1>4 DEF Register, Resend, Login, Refresh
  <2>2. PICK k : Goto(t, k) /\ k.step # "countAttempt"
    <3>1. CASE Register(t, u)
      BY <3>1 DEF Register, Task
    <3>2. CASE Resend(t, u)
      BY <3>2 DEF Resend, Task
    <3>3. CASE Login(t, u)
      BY <3>3 DEF Login, Task
    <3>4. CASE Refresh(t, u)
      BY <3>4 DEF Refresh, Task
    <3> QED BY <1>4, <3>1, <3>2, <3>3, <3>4
  <2> QED BY <1>3, <2>1, <2>2 DEF Issued
<1>5. ASSUME NEW t \in Calls, Mail(t) \/ IssueTokens(t) \/ Break(t)
      PROVE  AttemptsInv'
  BY <1>3, <1>5 DEF Mail, IssueTokens, Break, Finish, Idle, Issued
<1>6. ASSUME NEW t \in Calls, CreateUser(t) \/ CheckCooldown(t)
      PROVE  AttemptsInv'
  <2>1. /\ code' = code
        /\ Finish(t) \/ \E step \in {"latest", "invalidate"} : Then(t, step)
    BY <1>6 DEF CreateUser, CheckCooldown
  <2>2. call[t] \in Call
    BY <1>6, Running DEF CreateUser, CheckCooldown, Steps
  <2>3. PICK k : Goto(t, k) /\ k.step # "countAttempt"
    <3>1. CASE Finish(t)
      BY <3>1 DEF Finish, Idle
    <3>2. ASSUME NEW step \in {"latest", "invalidate"}, Then(t, step)
          PROVE  \E k : Goto(t, k) /\ k.step # "countAttempt"
      <4>1. [call[t] EXCEPT !.step = step].step = step
        BY <2>2, NextStep DEF Steps
      <4> QED BY <3>2, <4>1 DEF Then
    <3> QED BY <2>1, <3>1, <3>2
  <2>4. \A c \in Issued' :
          code'[c].attempts = IF c \in Issued THEN code[c].attempts ELSE 0
    BY <2>1 DEF Issued
  <2> QED BY <1>3, <2>3, <2>4
<1>7. ASSUME NEW t \in Calls, Invalidate(t)
      PROVE  AttemptsInv'
  <2>1. call[t] \in Call
    BY <1>7, Running DEF Invalidate, Steps
  <2>2. PICK k : Goto(t, k) /\ k.step # "countAttempt"
    <3>1. [call[t] EXCEPT !.step = "createCode", !.saw = CodesOf(call[t].user)].step
            = "createCode"
      BY <2>1 DEF Call
    <3> QED BY <1>7, <3>1 DEF Invalidate
  <2>3. DOMAIN code' = Issued /\ \A c \in Issued : code'[c].attempts = code[c].attempts
    BY <1>1, <1>7 DEF Invalidate, Code
  <2> QED BY <1>3, <2>2, <2>3 DEF Issued
<1>8. ASSUME NEW t \in Calls, CreateCode(t)
      PROVE  AttemptsInv'
  <2>1. call[t] \in Call
    BY <1>8, Running DEF CreateCode, Steps
  <2>2. PICK c \in CodeIds \ Issued :
          /\ code' = [x \in Issued \cup {c} |->
                        IF x = c THEN NewCode(call[t].user, call[t].saw) ELSE code[x]]
          /\ Goto(t, [call[t] EXCEPT !.step = "mail", !.code = c])
    BY <1>8 DEF CreateCode
  <2>3. [call[t] EXCEPT !.step = "mail", !.code = c].step # "countAttempt"
    BY <2>1 DEF Call
  <2>4. \A x \in Issued' :
          code'[x].attempts = IF x \in Issued THEN code[x].attempts ELSE 0
    BY <2>2 DEF NewCode, Issued
  <2> QED BY <1>3, <2>2, <2>3, <2>4
<1>9. ASSUME NEW t \in Calls, Confirm(t)
      PROVE  AttemptsInv'
  <2>1. [call[t] EXCEPT !.step = "issueTokens"].step = "issueTokens"
    BY <1>9, Running, NextStep DEF Confirm, Steps
  <2>2. DOMAIN code' = Issued /\ \A c \in Issued : code'[c].attempts = code[c].attempts
    BY <1>1, <1>9 DEF Confirm, Code, Issued
  <2> QED BY <1>3, <1>9, <2>1, <2>2 DEF Confirm, Then, Issued
<1> QED BY <1>2, <1>4, <1>5, <1>6, <1>7, <1>8, <1>9, LetIn, Counted
    DEF Next, Begin, Continue, Logout, Tick, vars

(* The wrong attempts on a code exceed the maximum by no more than the     *)
(* other calls that were let in before the last one was counted.           *)
THEOREM AttemptsAreBounded == Spec => []AttemptsBounded
<1>1. Init => AttemptsInv
  BY DEF Init, AttemptsInv, Issued
<1>2. Inv /\ AttemptsInv => AttemptsBounded
  <2> SUFFICES ASSUME Inv, AttemptsInv, NEW c \in Issued
               PROVE  code[c].attempts < MaxAttempts + Cardinality(Calls)
    BY DEF AttemptsBounded
  <2>1. code[c].attempts \in Nat
    BY DEF Inv, RowsOK, Code
  <2> QED BY <2>1, CountingSize, LimitsAssumption DEF AttemptsInv, AttemptsOf
<1> QED BY <1>1, <1>2, AttemptsStep, Invariant, PTL DEF Spec
-----------------------------------------------------------------------------
(* EmailVerification implements Accounts.  Who is to get a code is         *)
(* registered, whatever the call that makes it has done before.            *)
Making == {"latest", "invalidate", "createCode"}
Known == \A t \in Calls : call[t].step \in Making => Registered(call[t].user)

LEMMA RegisteredStays ==
  ASSUME Inv, [Next]_vars
  PROVE  \A u \in Users : Registered(u) => Registered(u)'
<1>1. account \in [Users -> Account]
  BY DEF Inv, RowsOK
<1>2. CASE UNCHANGED account
  BY <1>2 DEF Registered
<1>3. ASSUME NEW t \in Calls, CreateUser(t) \/ Confirm(t) \/ IssueTokens(t)
      PROVE  \A u \in Users : Registered(u) => Registered(u)'
  BY <1>1, <1>3 DEF CreateUser, Confirm, IssueTokens, Registered, Account
<1>4. ASSUME NEW u \in Users, Logout(u)
      PROVE  \A v \in Users : Registered(v) => Registered(v)'
  <2>1. account' = [account EXCEPT ![u].signedIn = FALSE, ![u].logouts = @ + 1]
    BY <1>4 DEF Logout
  <2>2. account[u] \in Account
    BY <1>1
  <2>3. account'[u].registered = account[u].registered
    BY <1>1, <2>1, <2>2 DEF Account
  <2>4. \A v \in Users \ {u} : account'[v] = account[v]
    BY <1>1, <2>1
  <2> QED BY <2>3, <2>4 DEF Registered
<1> QED BY <1>2, <1>3, <1>4
  DEF Next, vars, Tick, Begin, Continue, Register, Resend, Verify, Login, Refresh,
      CheckCooldown, Invalidate, CreateCode, Mail, CountAttempt, Break

(* Where a call goes when it takes its next step.                          *)
LEMMA ThenGoes ==
  ASSUME Inv, NEW t \in Calls, NEW from \in Steps, At(t, from),
         NEW step \in Steps, Then(t, step)
  PROVE  \E k : /\ Goto(t, k) /\ k.step = step
               /\ k.user = call[t].user /\ k.code = call[t].code
<1>1. call[t] \in Call
  BY Running
<1> PICK k : k = [call[t] EXCEPT !.step = step]
  OBVIOUS
<1>2. k.step = step /\ k.user = call[t].user /\ k.code = call[t].code
  BY <1>1 DEF Call
<1>3. Goto(t, k)
  BY DEF Then
<1> QED BY <1>2, <1>3

LEMMA MakingGoes ==
  ASSUME Inv, NEW t \in Calls
  PROVE  /\ Invalidate(t) => \E k : /\ Goto(t, k) /\ k.step = "createCode"
                                   /\ k.user = call[t].user
         /\ CreateCode(t) => \E k : Goto(t, k) /\ k.step = "mail"
<1>1. ASSUME Invalidate(t)
      PROVE  \E k : Goto(t, k) /\ k.step = "createCode" /\ k.user = call[t].user
  <2>1. call[t] \in Call
    BY <1>1, Running DEF Invalidate, Steps
  <2> PICK k : k = [call[t] EXCEPT !.step = "createCode", !.saw = CodesOf(call[t].user)]
    OBVIOUS
  <2>2. k.step = "createCode" /\ k.user = call[t].user
    BY <2>1 DEF Call
  <2>3. Goto(t, k)
    BY <1>1 DEF Invalidate
  <2> QED BY <2>2, <2>3
<1>2. ASSUME CreateCode(t) PROVE \E k : Goto(t, k) /\ k.step = "mail"
  <2>1. call[t] \in Call
    BY <1>2, Running DEF CreateCode, Steps
  <2>2. PICK c : Goto(t, [call[t] EXCEPT !.step = "mail", !.code = c])
    BY <1>2 DEF CreateCode
  <2>3. [call[t] EXCEPT !.step = "mail", !.code = c].step = "mail"
    BY <2>1 DEF Call
  <2> QED BY <2>2, <2>3
<1> QED BY <1>1, <1>2

(* Where a new call begins.                                                *)
LEMMA BeginGoes ==
  ASSUME NEW t \in Calls, NEW u \in Users
  PROVE  /\ Register(t, u) => \E k : Goto(t, k) /\ k.step = "createUser"
         /\ Resend(t, u) => \E k : Goto(t, k) /\ k.step = "latest" /\ k.user = u
         /\ Login(t, u) \/ Refresh(t, u) => \E k : Goto(t, k) /\ k.step = "issueTokens"
         /\ Verify(t, u) => \E k : Goto(t, k) /\ k.step \in {"confirm", "countAttempt"}
<1>1. Register(t, u) => \E k : Goto(t, k) /\ k.step = "createUser"
  BY DEF Register, Task
<1>2. Resend(t, u) => \E k : Goto(t, k) /\ k.step = "latest" /\ k.user = u
  BY DEF Resend, Task
<1>3. Login(t, u) => \E k : Goto(t, k) /\ k.step = "issueTokens"
  BY DEF Login, Task
<1>4. Refresh(t, u) => \E k : Goto(t, k) /\ k.step = "issueTokens"
  BY DEF Refresh, Task
<1>5. Verify(t, u) => \E k : Goto(t, k) /\ k.step \in {"confirm", "countAttempt"}
  BY DEF Verify, Task
<1> QED BY <1>1, <1>2, <1>3, <1>4, <1>5

LEMMA KnownStep == Inv /\ Known /\ [Next]_vars => Known'
<1> SUFFICES ASSUME Inv, Known, [Next]_vars PROVE Known'
  OBVIOUS
<1>1. call \in [Calls -> Call \cup {Idle}] /\ \A u \in Users : Registered(u) => Registered(u)'
  BY RegisteredStays DEF Inv, CallsOK
<1>2. ASSUME NEW t \in Calls, call[t].step \in Making
      PROVE  /\ call[t].user \in Users /\ account'[call[t].user].registered
  <2>1. call[t].user \in Users /\ Registered(call[t].user)
    BY <1>2, Running DEF Making, Steps, At, Known
  <2> PICK u \in Users : u = call[t].user
    BY <2>1
  <2> QED BY <1>1, <2>1 DEF Registered
<1>3. ASSUME NEW t \in Calls, NEW k, Goto(t, k),
             k.step \in Making => account'[k.user].registered
      PROVE  Known'
  <2>1. ASSUME NEW s \in Calls, call'[s].step \in Making
        PROVE  account'[call'[s].user].registered
    <3>1. call'[s] = IF s = t THEN k ELSE call[s]
      BY <1>1, <1>3 DEF Goto
    <3> QED BY <1>2, <1>3, <2>1, <3>1
  <2> QED BY <2>1 DEF Known, Making, Registered
<1>4. CASE UNCHANGED call
  BY <1>2, <1>4 DEF Known, Making, Registered
<1>5. ASSUME NEW t \in Calls, NEW u \in Users, Begin(t, u) PROVE Known'
  <2>1. Resend(t, u) => account'[u].registered
    BY <1>1 DEF Resend, Registered
  <2> QED BY <1>3, <1>5, <2>1, BeginGoes DEF Begin, Making
<1>6. ASSUME NEW t \in Calls,
             CreateUser(t) \/ CheckCooldown(t) \/ Invalidate(t) \/ CreateCode(t)
      PROVE  Known'
  <2>1. CASE Finish(t)
    BY <1>3, <2>1 DEF Finish, Idle, Making
  <2>2. CASE CreateUser(t) /\ ~Finish(t)
    <3>1. call[t].user \in Users /\ account \in [Users -> Account]
      BY <2>2, Running DEF CreateUser, Steps, Inv, RowsOK
    <3>2. PICK u \in Users : u = call[t].user
      BY <3>1
    <3>3. account' = [account EXCEPT ![u].registered = TRUE]
      BY <2>2, <3>2 DEF CreateUser
    <3>4. account'[u].registered
      BY <3>1, <3>3 DEF Account
    <3>5. PICK k : Goto(t, k) /\ k.user = u
      BY <2>2, <3>2, ThenGoes DEF CreateUser, Steps
    <3> QED BY <1>3, <3>4, <3>5
  <2>3. CASE CheckCooldown(t) /\ ~Finish(t)
    <3>1. account'[call[t].user].registered
      BY <1>2, <2>3 DEF CheckCooldown, Making, At
    <3>2. PICK k : Goto(t, k) /\ k.user = call[t].user
      BY <2>3, ThenGoes DEF CheckCooldown, Steps
    <3> QED BY <1>3, <3>1, <3>2
  <2>4. CASE Invalidate(t)
    <3>1. account'[call[t].user].registered
      BY <1>2, <2>4 DEF Invalidate, Making, At
    <3>2. PICK k : Goto(t, k) /\ k.user = call[t].user
      BY <2>4, MakingGoes
    <3> QED BY <1>3, <3>1, <3>2
  <2>5. CASE CreateCode(t)
    <3>1. PICK k : Goto(t, k) /\ k.step = "mail"
      BY <2>5, MakingGoes
    <3> QED BY <1>3, <3>1 DEF Making
  <2> QED BY <1>6, <2>1, <2>2, <2>3, <2>4, <2>5
<1>7. ASSUME NEW t \in Calls,
             Mail(t) \/ CountAttempt(t) \/ IssueTokens(t) \/ Break(t)
      PROVE  Known'
  BY <1>3, <1>7 DEF Mail, CountAttempt, IssueTokens, Break, Finish, Idle, Making
<1>8. ASSUME NEW t \in Calls, Confirm(t) PROVE Known'
  <2>1. PICK k : Goto(t, k) /\ k.step = "issueTokens"
    BY <1>8, ThenGoes DEF Confirm, Steps
  <2> QED BY <1>3, <2>1 DEF Making
<1> QED BY <1>4, <1>5, <1>6, <1>7, <1>8 DEF Next, Continue, Logout, Tick, vars
-----------------------------------------------------------------------------
(* What the mapped variables become of rows and calls.                     *)
LEMMA SameAccounts == UNCHANGED account => UNCHANGED <<Standing, Sessions>>
BY DEF Standing, Sessions, Verified, Registered

LEMMA SameCodes ==
  ASSUME Issued' = Issued,
         \A c \in Issued : code'[c].user = code[c].user /\ code'[c].used = code[c].used
  PROVE  UNCHANGED <<Owner, Spent>>
BY DEF Owner, Spent

LEMMA OwnersAre ==
  /\ Promised!Codes = Issued
  /\ \A u : Promised!CodesOfUser(u) = CodesOf(u)
BY DEF Promised!Codes, Promised!CodesOfUser, Owner, CodesOf

LEMMA ClaimsMove ==
  ASSUME Inv, NEW t \in Calls, NEW k, Goto(t, k)
  PROVE  /\ ~At(t, "confirm") /\ k.step # "confirm" => Claims' = Claims
         /\ ~At(t, "confirm") /\ k.step = "confirm" => Claims' = Claims \cup {<<k.user, k.code>>}
         /\ At(t, "confirm") /\ k.step # "confirm" =>
              Promised!Drop(call[t].user, call[t].code)
<1> DEFINE Others == {<<call[s].user, call[s].code>> :
                        s \in {x \in Calls \ {t} : At(x, "confirm")}}
<1>1. Claims = Others \cup (IF At(t, "confirm") THEN {<<call[t].user, call[t].code>>} ELSE {})
  BY DEF Claims, At
<1>2. \A s \in Calls : call'[s] = IF s = t THEN k ELSE call[s]
  BY DEF Goto, Inv, CallsOK
<1>3. Claims' = Others \cup (IF k.step = "confirm" THEN {<<k.user, k.code>>} ELSE {})
  BY <1>2 DEF Claims, At
<1> HIDE DEF Others
<1> QED BY <1>1, <1>3 DEF Promised!Drop

(* A call that ends, and was not confirming, is not noticed.               *)
LEMMA EndsUnnoticed ==
  ASSUME Inv, NEW t \in Calls, ~At(t, "confirm"), Finish(t)
  PROVE  Claims' = Claims
BY ClaimsMove DEF Finish, Idle

LEMMA Unnoticed ==
  ASSUME UNCHANGED <<account, code, mailed>>, Claims' = Claims
  PROVE  UNCHANGED Promised!abstractVars
<1>1. UNCHANGED <<Standing, Sessions>>
  BY SameAccounts
<1>2. UNCHANGED <<Owner, Spent>>
  BY SameCodes DEF Issued
<1> QED BY <1>1, <1>2 DEF Promised!abstractVars
-----------------------------------------------------------------------------
LEMMA BeginSimulated ==
  ASSUME Inv, NEW t \in Calls, NEW u \in Users, Begin(t, u)
  PROVE  [Promised!AbstractNext]_Promised!abstractVars
<1>1. At(t, "idle") /\ ~At(t, "confirm") /\ UNCHANGED <<account, code, mailed>>
  BY DEF Begin, Register, Resend, Verify, Login, Refresh, At
<1>2. CASE ~Verify(t, u)
  <2>1. PICK k : Goto(t, k) /\ k.step \in {"createUser", "latest", "issueTokens"}
    BY <1>2, BeginGoes DEF Begin
  <2> QED BY <1>1, <2>1, ClaimsMove, Unnoticed
<1>3. CASE Verify(t, u)
  <2>1. PICK c \in Latest(u), entered \in (mailed \cap CodesOf(u)) \cup {None} :
          Goto(t, [Task(IF Matches(c, entered) THEN "confirm" ELSE "countAttempt", u)
                     EXCEPT !.code = c])
    BY <1>3 DEF Verify
  <2> PICK k : k = [Task(IF Matches(c, entered) THEN "confirm" ELSE "countAttempt", u)
                      EXCEPT !.code = c]
    OBVIOUS
  <2>2. /\ k.user = u /\ k.code = c
        /\ k.step = IF Matches(c, entered) THEN "confirm" ELSE "countAttempt"
    BY DEF Task
  <2>3. CASE ~Matches(c, entered)
    <3>1. Goto(t, k) /\ k.step # "confirm"
      BY <2>1, <2>2, <2>3
    <3>2. Claims' = Claims
      BY <1>1, <3>1, ClaimsMove
    <3> QED BY <1>1, <3>2, Unnoticed
  <2>4. CASE Matches(c, entered)
    <3>1. c \in CodesOf(u) /\ ~code[c].used /\ c \in Issued /\ c \in CodeIds
      BY DEF Latest, Unused, CodesOf, Inv, RowsOK
    <3>2. c \in mailed
      BY <2>4, <3>1, NoneAssumption DEF Matches
    <3>3. c \notin Spent
      BY <3>1 DEF Spent
    <3>4. Claims' = Claims \cup {<<u, c>>}
      BY <1>1, <2>1, <2>2, <2>4, ClaimsMove
    <3>5. UNCHANGED <<Standing, Sessions, Owner, Spent, mailed>>
      BY <1>1, SameAccounts, SameCodes DEF Issued
    <3>6. Promised!Enter(u, c)
      BY <3>1, <3>2, <3>3, <3>4, <3>5, OwnersAre DEF Promised!Enter
    <3> QED BY <3>1, <3>6 DEF Promised!AbstractNext
  <2> QED BY <2>3, <2>4
<1> QED BY <1>2, <1>3

LEMMA BreakSimulated ==
  ASSUME Inv, NEW t \in Calls, Break(t)
  PROVE  [Promised!AbstractNext]_Promised!abstractVars
<1>1. UNCHANGED <<account, code, mailed>> /\ Finish(t)
  BY DEF Break
<1>2. CASE ~At(t, "confirm")
  BY <1>1, <1>2, EndsUnnoticed, Unnoticed
<1>3. CASE At(t, "confirm")
  <2>1. call[t].user \in Users /\ call[t].code \in CodeIds
    BY <1>3, Running DEF Inv, CallsOK, GoodCall, RowsOK, At, Steps
  <2>2. Promised!Drop(call[t].user, call[t].code)
    BY <1>1, <1>3, ClaimsMove DEF Finish, Idle
  <2>3. UNCHANGED <<Standing, Sessions, Owner, Spent, mailed>>
    BY <1>1, SameAccounts, SameCodes DEF Issued
  <2>4. Promised!GiveUp(call[t].user, call[t].code)
    BY <2>2, <2>3 DEF Promised!GiveUp
  <2> QED BY <2>1, <2>4 DEF Promised!AbstractNext
<1> QED BY <1>2, <1>3

LEMMA CreateUserSimulated ==
  ASSUME Inv, NEW t \in Calls, CreateUser(t)
  PROVE  [Promised!AbstractNext]_Promised!abstractVars
<1> PICK u : u = call[t].user
  OBVIOUS
<1>1. u \in Users /\ ~At(t, "confirm") /\ account \in [Users -> Account]
  BY Running DEF CreateUser, Steps, At, Inv, RowsOK
<1>2. UNCHANGED <<code, mailed>>
  BY DEF CreateUser
<1>3. CASE Finish(t) /\ UNCHANGED account
  BY <1>1, <1>2, <1>3, EndsUnnoticed, Unnoticed
<1>4. CASE ~Registered(u) /\ account' = [account EXCEPT ![u].registered = TRUE] /\ Then(t, "latest")
  <2>1. PICK k : Goto(t, k) /\ k.step = "latest"
    BY <1>4, ThenGoes DEF CreateUser, Steps
  <2>2. Claims' = Claims
    BY <1>1, <2>1, ClaimsMove
  <2>3. UNCHANGED <<Owner, Spent>>
    BY <1>2, SameCodes DEF Issued
  <2>4. \A v \in Users : /\ account'[v].verified = account[v].verified
                         /\ account'[v].signedIn = account[v].signedIn
                         /\ account'[v].registered = (account[v].registered \/ v = u)
    BY <1>1, <1>4 DEF Account
  <2>5. Sessions' = Sessions
    BY <2>4 DEF Sessions
  <2>6. CASE Verified(u)
    <3>1. Standing' = Standing
      BY <2>4, <2>6 DEF Standing, Verified, Registered
    <3> QED BY <1>2, <2>2, <2>3, <2>5, <3>1 DEF Promised!abstractVars
  <2>7. CASE ~Verified(u)
    <3>1. Standing[u] = "unknown"
      BY <1>1, <1>4, <2>7 DEF Standing
    <3>2. Standing' = [Standing EXCEPT ![u] = "unverified"]
      BY <1>1, <2>4, <2>7 DEF Standing, Verified, Registered
    <3>3. Promised!Join(u)
      BY <1>2, <2>2, <2>3, <2>5, <3>1, <3>2 DEF Promised!Join
    <3> QED BY <1>1, <3>3 DEF Promised!AbstractNext
  <2> QED BY <2>6, <2>7
<1> QED BY <1>3, <1>4 DEF CreateUser

LEMMA CheckCooldownSimulated ==
  ASSUME Inv, NEW t \in Calls, CheckCooldown(t)
  PROVE  [Promised!AbstractNext]_Promised!abstractVars
<1>1. ~At(t, "confirm") /\ UNCHANGED <<account, code, mailed>>
  BY DEF CheckCooldown, At
<1>2. CASE Finish(t)
  BY <1>1, <1>2, EndsUnnoticed, Unnoticed
<1>3. CASE Then(t, "invalidate")
  <2>1. PICK k : Goto(t, k) /\ k.step = "invalidate"
    BY <1>3, ThenGoes DEF CheckCooldown, Steps
  <2> QED BY <1>1, <2>1, ClaimsMove, Unnoticed
<1> QED BY <1>2, <1>3 DEF CheckCooldown

LEMMA InvalidateSimulated ==
  ASSUME Inv, NEW t \in Calls, Invalidate(t)
  PROVE  [Promised!AbstractNext]_Promised!abstractVars
<1> PICK u : u = call[t].user
  OBVIOUS
<1>1. u \in Users /\ ~At(t, "confirm") /\ code \in [Issued -> Code]
  BY Running DEF Invalidate, Steps, At, Inv, RowsOK
<1>2. /\ UNCHANGED <<account, mailed>>
      /\ code' = [c \in Issued |-> IF c \in Unused(u) THEN [code[c] EXCEPT !.used = TRUE]
                                                    ELSE code[c]]
  BY DEF Invalidate, Invalidates
<1>3. PICK k : Goto(t, k) /\ k.step = "createCode"
  BY MakingGoes
<1>4. Claims' = Claims
  BY <1>1, <1>3, ClaimsMove
<1>5. UNCHANGED <<Standing, Sessions>>
  BY <1>2, SameAccounts
<1>6. Issued' = Issued /\ \A c \in Issued :
        /\ code'[c].user = code[c].user
        /\ code'[c].used = (code[c].used \/ c \in CodesOf(u))
  BY <1>1, <1>2 DEF Issued, Unused, CodesOf, Code
<1>7. Owner' = Owner
  BY <1>6 DEF Owner
<1>8. Spent' = Spent \cup CodesOf(u)
  BY <1>6 DEF Spent, CodesOf
<1>9. Promised!Withdraw(u)
  BY <1>2, <1>4, <1>5, <1>7, <1>8, OwnersAre DEF Promised!Withdraw
<1> QED BY <1>1, <1>9 DEF Promised!AbstractNext

LEMMA CreateCodeSimulated ==
  ASSUME Inv, Known, NEW t \in Calls, CreateCode(t)
  PROVE  [Promised!AbstractNext]_Promised!abstractVars
<1> PICK u : u = call[t].user
  OBVIOUS
<1>1. u \in Users /\ ~At(t, "confirm") /\ Registered(u)
  BY Running DEF CreateCode, Steps, At, Known, Making
<1>2. UNCHANGED <<account, mailed>>
  BY DEF CreateCode
<1>3. PICK c \in CodeIds \ Issued :
        code' = [x \in Issued \cup {c} |-> IF x = c THEN NewCode(u, call[t].saw) ELSE code[x]]
  BY DEF CreateCode
<1>4. PICK k : Goto(t, k) /\ k.step = "mail"
  BY MakingGoes
<1>5. Claims' = Claims
  BY <1>1, <1>4, ClaimsMove
<1>6. UNCHANGED <<Standing, Sessions>>
  BY <1>2, SameAccounts
<1>7. Issued' = Issued \cup {c} /\ \A x \in Issued \cup {c} :
        /\ code'[x].user = IF x = c THEN u ELSE code[x].user
        /\ code'[x].used = IF x = c THEN FALSE ELSE code[x].used
  BY <1>3 DEF Issued, NewCode
<1>8. Owner' = [x \in Issued \cup {c} |-> IF x = c THEN u ELSE Owner[x]]
  BY <1>7 DEF Owner
<1>9. Spent' = Spent
  BY <1>7 DEF Spent
<1>10. Standing[u] # "unknown"
  BY <1>1 DEF Standing
<1>11. Promised!Issue(u, c)
  BY <1>2, <1>3, <1>5, <1>6, <1>8, <1>9, <1>10, OwnersAre DEF Promised!Issue
<1> QED BY <1>1, <1>11 DEF Promised!AbstractNext

LEMMA MailSimulated ==
  ASSUME Inv, NEW t \in Calls, Mail(t)
  PROVE  [Promised!AbstractNext]_Promised!abstractVars
<1> PICK c : c = call[t].code
  OBVIOUS
<1>1. c \in Issued /\ c \in CodeIds /\ ~At(t, "confirm")
  BY DEF Mail, At, Inv, CallsOK, GoodCall, RowsOK
<1>2. mailed' = mailed \cup {c} /\ UNCHANGED <<account, code>> /\ Finish(t)
  BY DEF Mail
<1>3. UNCHANGED <<Standing, Sessions, Owner, Spent, Claims>>
  BY <1>1, <1>2, SameAccounts, SameCodes, EndsUnnoticed DEF Issued
<1>4. Promised!Receive(c)
  BY <1>1, <1>2, <1>3, OwnersAre DEF Promised!Receive
<1> QED BY <1>1, <1>4 DEF Promised!AbstractNext

LEMMA CountAttemptSimulated ==
  ASSUME Inv, NEW t \in Calls, CountAttempt(t)
  PROVE  [Promised!AbstractNext]_Promised!abstractVars
<1> PICK d : d = call[t].code
  OBVIOUS
<1>1. ~At(t, "confirm") /\ UNCHANGED <<account, mailed>> /\ Finish(t)
  BY DEF CountAttempt, At
<1>2. code' = [code EXCEPT ![d].attempts = @ + 1] /\ code \in [Issued -> Code]
  BY DEF CountAttempt, Inv, RowsOK
<1>3. Issued' = Issued /\ \A c \in Issued : /\ code'[c].user = code[c].user
                                          /\ code'[c].used = code[c].used
  BY <1>2 DEF Issued, Code
<1>4. UNCHANGED <<Standing, Sessions, Owner, Spent, Claims>>
  BY <1>1, <1>3, SameAccounts, SameCodes, EndsUnnoticed
<1> QED BY <1>1, <1>4 DEF Promised!abstractVars

LEMMA ConfirmSimulated ==
  ASSUME Inv, NEW t \in Calls, Confirm(t)
  PROVE  [Promised!AbstractNext]_Promised!abstractVars
<1> PICK u, d : u = call[t].user /\ d = call[t].code
  OBVIOUS
<1>1. /\ At(t, "confirm") /\ u \in Users /\ d \in Issued /\ d \in CodeIds
      /\ account \in [Users -> Account] /\ code \in [Issued -> Code]
  BY Running DEF Confirm, Steps, At, Inv, CallsOK, GoodCall, RowsOK
<1>2. /\ code' = [code EXCEPT ![d].used = TRUE]
      /\ account' = [account EXCEPT ![u].verified = TRUE]
      /\ mailed' = mailed
  BY DEF Confirm
<1>3. PICK k : Goto(t, k) /\ k.step = "issueTokens"
  BY <1>1, ThenGoes DEF Confirm, Steps
<1>4. Promised!Drop(u, d)
  BY <1>1, <1>3, ClaimsMove
<1>5. <<u, d>> \in Claims
  BY <1>1 DEF Claims
<1>6. \A v \in Users : /\ account'[v].verified = (account[v].verified \/ v = u)
                       /\ account'[v].signedIn = account[v].signedIn
                       /\ account'[v].registered = account[v].registered
  BY <1>1, <1>2 DEF Account
<1>7. Standing' = [Standing EXCEPT ![u] = "verified"] /\ Sessions' = Sessions
  BY <1>1, <1>6 DEF Standing, Sessions, Verified, Registered
<1>8. Issued' = Issued /\ \A c \in Issued : /\ code'[c].user = code[c].user
                                          /\ code'[c].used = (code[c].used \/ c = d)
  BY <1>1, <1>2 DEF Issued, Code
<1>9. Owner' = Owner /\ Spent' = Spent \cup {d}
  BY <1>1, <1>8 DEF Owner, Spent
<1>10. Promised!Verify(u, d)
  BY <1>2, <1>4, <1>5, <1>7, <1>9 DEF Promised!Verify
<1> QED BY <1>1, <1>10 DEF Promised!AbstractNext

LEMMA IssueTokensSimulated ==
  ASSUME Inv, NEW t \in Calls, IssueTokens(t)
  PROVE  [Promised!AbstractNext]_Promised!abstractVars
<1> PICK u : u = call[t].user
  OBVIOUS
<1>1. u \in Users /\ Verified(u) /\ ~At(t, "confirm") /\ account \in [Users -> Account]
  BY Running DEF IssueTokens, Steps, At, Inv, CallsOK, GoodCall, RowsOK
<1>2. /\ account' = [account EXCEPT ![u].signedIn = TRUE]
      /\ UNCHANGED <<code, mailed>> /\ Finish(t)
  BY DEF IssueTokens
<1>3. UNCHANGED <<Owner, Spent, Claims>>
  BY <1>1, <1>2, SameCodes, EndsUnnoticed DEF Issued
<1>4. \A v \in Users : /\ account'[v].verified = account[v].verified
                       /\ account'[v].signedIn = (account[v].signedIn \/ v = u)
                       /\ account'[v].registered = account[v].registered
  BY <1>1, <1>2 DEF Account
<1>5. Standing' = Standing /\ Sessions' = Sessions \cup {u}
  BY <1>1, <1>4 DEF Standing, Sessions, Verified, Registered
<1>6. Standing[u] = "verified"
  BY <1>1 DEF Standing
<1>7. Promised!SignIn(u)
  BY <1>2, <1>3, <1>5, <1>6 DEF Promised!SignIn
<1> QED BY <1>1, <1>7 DEF Promised!AbstractNext

LEMMA LogoutSimulated ==
  ASSUME Inv, NEW u \in Users, Logout(u)
  PROVE  [Promised!AbstractNext]_Promised!abstractVars
<1>1. /\ account' = [account EXCEPT ![u].signedIn = FALSE, ![u].logouts = @ + 1]
      /\ UNCHANGED <<code, mailed, call>> /\ account \in [Users -> Account]
  BY DEF Logout, Inv, RowsOK
<1>2. UNCHANGED <<Owner, Spent, Claims>>
  BY <1>1, SameCodes DEF Issued, Claims, At
<1>3. account[u] \in Account
  BY <1>1
<1>4. \A v \in Users : /\ account'[v].verified = account[v].verified
                       /\ account'[v].signedIn = (account[v].signedIn /\ v # u)
                       /\ account'[v].registered = account[v].registered
  BY <1>1, <1>3 DEF Account
<1>5. Standing' = Standing /\ Sessions' = Sessions \ {u}
  BY <1>4 DEF Standing, Sessions, Verified, Registered
<1>6. Promised!SignOut(u)
  BY <1>1, <1>2, <1>5 DEF Promised!SignOut
<1> QED BY <1>6 DEF Promised!AbstractNext

LEMMA StepSimulated ==
  Inv /\ Known /\ [Next]_vars => [Promised!AbstractNext]_Promised!abstractVars
<1> SUFFICES ASSUME Inv, Known, [Next]_vars
             PROVE  [Promised!AbstractNext]_Promised!abstractVars
  OBVIOUS
<1>1. CASE UNCHANGED <<account, code, mailed, call>>
  <2>1. Claims' = Claims
    BY <1>1 DEF Claims, At
  <2> QED BY <1>1, <2>1, Unnoticed
<1> QED BY <1>1, BeginSimulated, BreakSimulated, CreateUserSimulated, CheckCooldownSimulated,
           InvalidateSimulated, CreateCodeSimulated, MailSimulated, CountAttemptSimulated,
           ConfirmSimulated, IssueTokensSimulated, LogoutSimulated
    DEF Next, Continue, Tick, vars

(* AuthService implements Accounts: every step of a call is a step an      *)
(* account takes there, or is not noticed.                                 *)
THEOREM KeepsAccounts == Spec => ImplementsAccounts
<1>1. Init => Known
  BY DEF Init, Known, Making, Idle
<1>2. Init => Promised!AbstractInit
  BY DEF Init, Promised!AbstractInit, Standing, Sessions, Owner, Spent, Claims, Issued, At,
         Idle, Verified, Registered
<1>3. Spec => []Known
  BY <1>1, KnownStep, Invariant, PTL DEF Spec
<1> QED BY <1>2, <1>3, StepSimulated, Invariant, PTL
    DEF Spec, ImplementsAccounts, Promised!AbstractSpec
=============================================================================
