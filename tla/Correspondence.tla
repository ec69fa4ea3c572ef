--------------------------- MODULE Correspondence ---------------------------
(***************************************************************************)
(* What the mailbox promises its users, whatever requests they have under  *)
(* way at the same time: an email is between two people, each of whom      *)
(* finds it in folders of their own until they have asked to be rid of it, *)
(* and nobody moves it on the other's shelf.  Mailbox implements this with *)
(* one shared row for the two of them.                                     *)
(***************************************************************************)
CONSTANTS
  Users,        \* the users
  EmailIds      \* the emails that may ever be written

VARIABLES
  mail,         \* who wrote each email to whom, of the emails there ever were
  shelf,        \* the folders in which each user finds each email
  removed,      \* the emails that are gone for good, for both of their users
  asked,        \* <<u, e>>: u has asked for the permanent removal of e
  active        \* the users who have requests under way

abstractVars == <<mail, shelf, removed, asked, active>>
-----------------------------------------------------------------------------
Between(e) == {mail[e].from, mail[e].to}
Mine(u) == {e \in DOMAIN mail : u \in Between(e)}

(* An email is in the trash, or in the inbox or the sent list, where it    *)
(* may be a favorite and, if it was received, unread.                      *)
Places(u, e) ==
  {{"trash"}} \cup
  (IF mail[e].from = u THEN {{"sent"} \cup S : S \in SUBSET {"favorites"}}
                       ELSE {{"inbox"} \cup S : S \in SUBSET {"favorites", "unread"}})

AbstractInit ==
  /\ mail = [e \in {} |-> {}]
  /\ shelf = [u \in Users |-> [e \in EmailIds |-> {}]]
  /\ removed = {} /\ asked = {} /\ active = {}

(* Requests begin and end, and the process may be restarted.               *)
RequestsChange ==
  /\ active' \subseteq Users
  /\ UNCHANGED <<removed, asked, mail, shelf>>

Deliver(u) ==
  /\ u \in active
  /\ \E to \in Users \ {u}, e \in EmailIds \ DOMAIN mail :
       /\ mail' = [f \in DOMAIN mail \cup {e} |->
            IF f = e THEN [from |-> u, to |-> to] ELSE mail[f]]
       /\ shelf' = [shelf EXCEPT ![u][e] = {"sent"}, ![to][e] = {"inbox", "unread"}]
  /\ UNCHANGED <<removed, asked, active>>

Ask(u) ==
  /\ \E E \in SUBSET Mine(u) :
       /\ asked' = asked \cup ({u} \X E)
       /\ \A e \in E : shelf[u][e] \in {{"trash"}, {}}
  /\ active' = active \cup {u}
  /\ UNCHANGED <<mail, shelf, removed>>

(* A request of u moves emails on u's own shelf; it takes them off only if *)
(* u asked, and they are gone for good only if both of their users asked.  *)
Rearrange(u) ==
  /\ u \in active
  /\ active' \in {active, active \ {u}}
  /\ UNCHANGED <<mail, asked>>
  /\ \E gone \in SUBSET (Mine(u) \ removed) :
       /\ removed' = removed \cup gone
       /\ \A e \in gone : Between(e) \X {e} \subseteq asked
       /\ \A w \in Users :
            LET before == shelf[w]
                after == shelf'[w]
            IN \A e \in EmailIds :
                 IF e \in gone THEN after[e] = {}
                 ELSE \/ after[e] = before[e]
                      \/ /\ w = u /\ e \in Mine(u) \ removed
                         /\ after[e] \in Places(u, e)
                                           \cup {S \in {{}} : <<u, e>> \in asked}

AbstractNext ==
  RequestsChange \/ \E u \in Users : Deliver(u) \/ Ask(u) \/ Rearrange(u)

AbstractSpec == AbstractInit /\ [][AbstractNext]_abstractVars
=============================================================================
