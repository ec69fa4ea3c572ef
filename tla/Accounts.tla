------------------------------ MODULE Accounts ------------------------------
(***************************************************************************)
(* What AuthService promises, whatever calls are under way and wherever    *)
(* they break off: an account is verified, for good, by a code that its    *)
(* owner received by mail and that was good at a moment of the call which  *)
(* uses it; a code that is withdrawn or used is never good again; only a   *)
(* verified account can sign in.  EmailVerification implements this in     *)
(* single statements.                                                      *)
(***************************************************************************)
CONSTANTS
  Users,        \* accounts
  CodeIds       \* the codes that may ever be made

VARIABLES
  standing,     \* user -> "unknown", "unverified" or "verified"
  sessions,     \* the users who are signed in
  owner,        \* whose each code is, of the codes there are
  inbox,        \* the codes that were received by mail
  spent,        \* the codes that are good for nothing any more
  claims        \* <<u, c>>: u has entered c, while it was good

abstractVars == <<standing, sessions, owner, inbox, spent, claims>>
-----------------------------------------------------------------------------
Codes == DOMAIN owner
CodesOfUser(u) == {c \in Codes : owner[c] = u}

AbstractInit ==
  /\ standing = [u \in Users |-> "unknown"]
  /\ sessions = {}
  /\ owner = [c \in {} |-> {}]
  /\ inbox = {} /\ spent = {} /\ claims = {}

Join(u) ==
  /\ standing[u] = "unknown"
  /\ standing' = [standing EXCEPT ![u] = "unverified"]
  /\ UNCHANGED <<sessions, owner, inbox, spent, claims>>

(* All of a user's codes at once, and nobody else's.                       *)
Withdraw(u) ==
  /\ spent' = spent \cup CodesOfUser(u)
  /\ UNCHANGED <<standing, sessions, owner, inbox, claims>>

Issue(u, c) ==
  /\ standing[u] # "unknown" /\ c \notin Codes
  /\ owner' = [x \in Codes \cup {c} |-> IF x = c THEN u ELSE owner[x]]
  /\ UNCHANGED <<standing, sessions, inbox, spent, claims>>

Receive(c) ==
  /\ c \in Codes
  /\ inbox' = inbox \cup {c}
  /\ UNCHANGED <<standing, sessions, owner, spent, claims>>

Enter(u, c) ==
  /\ c \in (CodesOfUser(u) \cap inbox) \ spent
  /\ claims' = claims \cup {<<u, c>>}
  /\ UNCHANGED <<standing, sessions, owner, inbox, spent>>

(* A call that entered a code is over; another of the same may not be.     *)
Drop(u, c) == claims' \in {claims, claims \ {<<u, c>>}}

GiveUp(u, c) ==
  Drop(u, c) /\ UNCHANGED <<standing, sessions, owner, inbox, spent>>

Verify(u, c) ==
  /\ <<u, c>> \in claims
  /\ standing' = [standing EXCEPT ![u] = "verified"]
  /\ spent' = spent \cup {c}
  /\ Drop(u, c)
  /\ UNCHANGED <<sessions, owner, inbox>>

SignIn(u) ==
  /\ standing[u] = "verified"
  /\ sessions' = sessions \cup {u}
  /\ UNCHANGED <<standing, owner, inbox, spent, claims>>

SignOut(u) ==
  /\ sessions' = sessions \ {u}
  /\ UNCHANGED <<standing, owner, inbox, spent, claims>>

AbstractNext ==
  \/ \E u \in Users : Join(u) \/ Withdraw(u) \/ SignIn(u) \/ SignOut(u)
  \/ \E c \in CodeIds : Receive(c)
  \/ \E u \in Users, c \in CodeIds : Issue(u, c) \/ Enter(u, c) \/ GiveUp(u, c) \/ Verify(u, c)

AbstractSpec == AbstractInit /\ [][AbstractNext]_abstractVars
=============================================================================
