------------------------------ MODULE Mailbox ------------------------------
(***************************************************************************)
(* The internal mailbox (src/modules/mailbox/mailbox.service.ts): one       *)
(* "Email" row is shared by its sender and its recipient, each of whom     *)
(* trashes, restores, purges and stars it through columns of their own.    *)
(*                                                                         *)
(* Every handler is asynchronous: it reads a row, awaits, and then writes  *)
(* by primary key alone, so the handlers of concurrent requests interleave *)
(* at each await and act on what they read before.  A request in progress  *)
(* is a task; a step of a task is what its handler does between two        *)
(* awaits.  A request that a guard refuses changes nothing, and has no     *)
(* step here.                                                              *)
(*                                                                         *)
(* An email may be sent from a draft, and a batch may trash emails and     *)
(* drafts, while DraftsController serves the same drafts: Drafts is        *)
(* extended, and its calls interleave with the requests of this module.    *)
(***************************************************************************)
EXTENDS Drafts

CONSTANTS
  EmailIds,     \* supply of uuids for emails: the bound on emails ever sent
  Requests,     \* the bound on requests to the mailbox in progress at once
  Operations,   \* the handlers that requests may call
  MaxCrashes    \* the bound on restarts of the process

ASSUME NoneAssumption == None \notin Users \cup EmailIds
ASSUME MaxCrashesAssumption == MaxCrashes \in Nat

VARIABLES
  rows,         \* the ids present in table "Email"
  email,        \* the content of every email ever created, of deleted rows too
  task,         \* the request each slot serves
  announced,    \* <<u, e>>: email:new was sent to the sockets of u for e
  asked,        \* history: <<u, e>>, u asked for the permanent removal of e
  crashes       \* restarts so far

mailboxVars == <<rows, email, task, announced, asked, crashes>>
vars == <<mailboxVars, draftVars>>
-----------------------------------------------------------------------------
Roles == {"sender", "recipient"}

(* A row.  A set of roles stands for a pair of columns: "sender" is in     *)
(* deleted when senderDeleted is true.                                     *)
EmailRow ==
  [sender : Users, recipient : Users,
   replyTo : EmailIds \cup {None}, thread : EmailIds \cup {None},
   read : BOOLEAN,
   deleted : SUBSET Roles, purged : SUBSET Roles, starred : SUBSET Roles]

AllOperations ==
  {"send", "detail", "markRead", "markUnread", "star", "unstar",
   "delete", "deleteBatch", "restore", "removePermanently", "emptyTrash"}

ASSUME OperationsAssumption == Operations \subseteq AllOperations

(* What a handler remembers across its awaits: the rows it will update     *)
(* (mark), delete (kill) or write as drafts, and the reply it makes.       *)
Task ==
  [pc : {"idle", "load", "loadEmails", "loadDrafts", "write", "emit", "push"},
   op : AllOperations \cup {"none"},
   user : Users \cup {None}, to : Users \cup {None},
   mark : SUBSET EmailIds, kill : SUBSET EmailIds, drafts : SUBSET DraftIds,
   reply : EmailIds \cup {None}, thread : EmailIds \cup {None}]

NoTask ==
  [pc |-> "idle", op |-> "none", user |-> None, to |-> None,
   mark |-> {}, kill |-> {}, drafts |-> {}, reply |-> None, thread |-> None]

Issued == DOMAIN email
Party(e, role) == IF role = "sender" THEN email[e].sender ELSE email[e].recipient
Pair(e) == {email[e].sender, email[e].recipient}

(* Mutants of Role: the two columns swapped, and the columns taken by user. *)
SwappedRole(u, e) == IF email[e].sender = u THEN "recipient" ELSE "sender"
UserAsRole(u, e) == u

(* The columns a handler picks: email.senderId === userId ? ... : ...      *)
Role(u, e) == IF email[e].sender = u THEN "sender" ELSE "recipient"

(* Mutant: the user's own column is read for the other party's.            *)
OwnAsOtherRole(u, e) == IF email[e].sender = u THEN "sender" ELSE "recipient"

(* ... and the column of the other party.                                  *)
OtherRole(u, e) == IF email[e].sender = u THEN "recipient" ELSE "sender"

(* threadId || id                                                          *)
ThreadOf(e) == IF email[e].thread = None THEN e ELSE email[e].thread
-----------------------------------------------------------------------------
(* Queries.                                                                *)

Visible(u, e, includePurged) ==
  /\ e \in rows
  /\ \/ email[e].sender = u /\ (includePurged \/ "sender" \notin email[e].purged)
     \/ email[e].recipient = u /\ (includePurged \/ "recipient" \notin email[e].purged)

Kept(e, role) == role \notin email[e].deleted /\ role \notin email[e].purged
Trashed(e, role) == role \in email[e].deleted /\ role \notin email[e].purged

(* folderWhere, the other way round: the folders whose conditions a row    *)
(* satisfies through the columns of one role.                              *)
RoleFolders(e, role) ==
  IF Trashed(e, role) THEN {"trash"}
  ELSE IF Kept(e, role)
    THEN (IF role = "sender" THEN {"sent"}
          ELSE IF email[e].read THEN {"inbox"} ELSE {"inbox", "unread"})
         \cup (IF role \in email[e].starred THEN {"favorites"} ELSE {})
  ELSE {}

FoldersOf(u, e) ==
  IF e \notin rows THEN {}
  ELSE (IF email[e].sender = u THEN RoleFolders(e, "sender") ELSE {})
       \cup (IF email[e].recipient = u THEN RoleFolders(e, "recipient") ELSE {})

Folder(u, folder) == {e \in rows : folder \in FoldersOf(u, e)}
-----------------------------------------------------------------------------
Init ==
  /\ rows = {}
  /\ email = [e \in {} |-> NoTask]
  /\ DraftsInit
  /\ task = [r \in Requests |-> NoTask]
  /\ announced = {}
  /\ asked = {}
  /\ crashes = 0

Free(r) == task[r].pc = "idle"

(* A handler begins on a free slot: its first query has been answered.     *)
Begin(r, op, t) ==
  /\ op \in Operations
  /\ task[r].pc = "idle"
  /\ task' = [task EXCEPT ![r] = [t EXCEPT !.op = op]]

Goto(r, pc) == task' = [task EXCEPT ![r].pc = pc]
Finish(r) == task' = [task EXCEPT ![r] = NoTask]

AtWrite(r, op) == task[r].pc = "write" /\ task[r].op = op
-----------------------------------------------------------------------------
ReplyAllowed(u, to, reply) ==
  /\ Visible(u, reply, FALSE)
  /\ email[reply].recipient = u
  /\ email[reply].sender = to

SendTask(u, to, reply, use) ==
  [NoTask EXCEPT
     !.pc = IF use = {} THEN "write" ELSE "loadDrafts",
     !.user = u, !.to = to, !.drafts = use, !.reply = reply,
     !.thread = IF reply = None THEN None ELSE ThreadOf(reply)]

NewEmail(t) ==
  [sender |-> t.user, recipient |-> t.to, replyTo |-> t.reply, thread |-> t.thread,
   read |-> FALSE, deleted |-> {}, purged |-> {}, starred |-> {}]

(* send: the reply is checked against the email as it was read here, and   *)
(* the thread is copied from it.                                           *)
SendRead(r) ==
  /\ Free(r)
  /\ \E u \in Users, to \in Users, reply \in rows \cup {None},
        use \in {{}} \cup {{d} : d \in DOMAIN draft} :
       /\ u # to
       /\ reply # None => ReplyAllowed(u, to, reply)
       /\ Begin(r, "send", SendTask(u, to, reply, use))
       /\ UNCHANGED <<rows, email, announced, asked, crashes, draftVars>>

(* The transaction looks the draft up first; a draft that is not the       *)
(* user's, or no longer a draft, ends the request with an error.           *)
SendLoadDraft(r) ==
  /\ task[r].op = "send" /\ task[r].pc = "loadDrafts"
  /\ IF task[r].drafts \subseteq OwnDrafts(task[r].user)
       THEN Goto(r, "write")
       ELSE Finish(r)
  /\ UNCHANGED <<rows, email, announced, asked, crashes, draftVars>>

(* It then creates the email, marks the draft SENT by its id alone, and    *)
(* commits.  replyToEmailId is a foreign key: the row must still exist.    *)
SendCommit(r) ==
  /\ AtWrite(r, "send")
  /\ task[r].reply \in rows \cup {None}
  /\ \E id \in EmailIds \ Issued :
       /\ rows' = rows \cup {id}
       /\ email' = [e \in Issued \cup {id} |->
            IF e = id THEN NewEmail(task[r]) ELSE email[e]]
       /\ task' = [task EXCEPT ![r].pc = "emit", ![r].mark = {id}]
  /\ draft' = [d \in DOMAIN draft |->
       IF d \in task[r].drafts THEN [draft[d] EXCEPT !.status = "SENT"] ELSE draft[d]]
  /\ sent' = sent \cup task[r].drafts
  /\ call' = [c \in Calls |-> IF call[c].draft \in task[r].drafts
                              THEN [call[c] EXCEPT !.early = TRUE] ELSE call[c]]
  /\ UNCHANGED <<announced, asked, crashes>>
-----------------------------------------------------------------------------
(* The handlers of one email: the first step reads it.                     *)
Load(r, u, op, e, pc) ==
  /\ Begin(r, op, [NoTask EXCEPT !.pc = pc, !.user = u, !.mark = {e}])
  /\ UNCHANGED <<rows, email, announced, asked, crashes, draftVars>>

DetailRead(r) ==
  /\ Free(r)
  /\ \E u \in Users, e \in rows :
       /\ Visible(u, e, FALSE)
       /\ email[e].recipient = u /\ ~email[e].read
       /\ Load(r, u, "detail", e, "write")

MarkReadRead(r) ==
  /\ Free(r)
  /\ \E u \in Users, e \in rows, op \in {"markRead", "markUnread"} :
       /\ Visible(u, e, FALSE)
       /\ email[e].recipient = u
       /\ Load(r, u, op, e, "write")

StarRead(r) ==
  /\ Free(r)
  /\ \E u \in Users, e \in rows, op \in {"star", "unstar"} :
       Visible(u, e, FALSE) /\ Load(r, u, op, e, "write")

DeleteRead(r) ==
  /\ Free(r)
  /\ \E u \in Users, e \in rows : Visible(u, e, FALSE) /\ Load(r, u, "delete", e, "write")

RestoreRead(r) ==
  /\ Free(r)
  /\ \E u \in Users, e \in rows : Visible(u, e, FALSE) /\ Load(r, u, "restore", e, "write")

(* The removal of emails T, all of them in u's trash: a row that the other *)
(* party has purged already is to be deleted, the others to be purged.     *)
Removal(r, u, op, T) ==
  LET both == {e \in T : OtherRole(u, e) \in email[e].purged} IN
  /\ Begin(r, op, [NoTask EXCEPT !.pc = "write", !.user = u,
                                 !.kill = both, !.mark = T \ both])
  /\ asked' = asked \cup ({u} \X T)
  /\ UNCHANGED <<rows, email, announced, crashes, draftVars>>

RemovePermanentlyRead(r) ==
  /\ Free(r)
  /\ \E u \in Users, e \in rows :
       /\ Visible(u, e, TRUE)
       /\ Role(u, e) \in email[e].deleted
       /\ Removal(r, u, "removePermanently", {e})

EmptyTrashRead(r) ==
  /\ Free(r)
  /\ \E u \in Users :
       Folder(u, "trash") # {} /\ Removal(r, u, "emptyTrash", Folder(u, "trash"))

(* deleteBatch asks for emails and drafts in one list of ids, and loads    *)
(* the two tables concurrently: either query may be answered first.        *)
DeleteBatchStart(r) ==
  /\ Free(r)
  /\ \E u \in Users, E \in SUBSET rows, D \in SUBSET DOMAIN draft :
       /\ E # {} \/ D # {}
       /\ Begin(r, "deleteBatch",
            [NoTask EXCEPT !.pc = "load", !.user = u, !.mark = E, !.drafts = D])
       /\ UNCHANGED <<rows, email, announced, asked, crashes, draftVars>>

DeleteBatchLoad(r, own, answered, other) ==
  /\ task[r].op = "deleteBatch" /\ task[r].pc \in {"load", answered}
  /\ IF own THEN Goto(r, IF task[r].pc = "load" THEN other ELSE "write") ELSE Finish(r)
  /\ UNCHANGED <<rows, email, announced, asked, crashes, draftVars>>

DeleteBatchEmails(r) ==
  DeleteBatchLoad(r, \A e \in task[r].mark : Visible(task[r].user, e, FALSE),
                  "loadEmails", "loadDrafts")

DeleteBatchDrafts(r) ==
  DeleteBatchLoad(r, task[r].drafts \subseteq OwnDrafts(task[r].user),
                  "loadDrafts", "loadEmails")
-----------------------------------------------------------------------------
(* Mutant: replyToEmailId without its onDelete.                            *)
StillLinked(row, kill) == row

(* replyTo Email? @relation(onDelete: SetNull): deleting a row sets         *)
(* replyToEmailId of its replies to null.                                  *)
Unlinked(row, kill) ==
  IF row.replyTo \in kill THEN [row EXCEPT !.replyTo = None] ELSE row

(* What each handler writes to its own columns of a row.                   *)
Written(op, row, role) ==
  CASE op \in {"detail", "markRead"} -> [row EXCEPT !.read = TRUE]
    [] op = "markUnread" -> [row EXCEPT !.read = FALSE]
    [] op = "star" -> [row EXCEPT !.starred = @ \cup {role}]
    [] op = "unstar" -> [row EXCEPT !.starred = @ \ {role}]
    [] op \in {"delete", "deleteBatch"} -> [row EXCEPT !.deleted = @ \cup {role}]
    [] op = "restore" -> [row EXCEPT !.deleted = @ \ {role}, !.purged = @ \ {role}]
    [] OTHER -> [row EXCEPT !.purged = @ \cup {role}]

(* The second step of a handler writes by id.  A row that is gone fails    *)
(* the statement (P2025), and with it the whole transaction: see DbError.  *)
Update(r, op, next) ==
  LET t == task[r] IN
  /\ AtWrite(r, op)
  /\ t.mark \cup t.kill \subseteq rows
  /\ rows' = rows \ t.kill
  /\ email' = [e \in Issued |->
       IF e \in t.mark
         THEN Written(op, Unlinked(email[e], t.kill), Role(t.user, e))
         ELSE Unlinked(email[e], t.kill)]
  /\ IF next = "done" THEN Finish(r) ELSE Goto(r, next)
  /\ UNCHANGED <<announced, asked, crashes>>

DetailWrite(r) == Update(r, "detail", "emit") /\ UNCHANGED draftVars

MarkReadWrite(r) ==
  (\E op \in {"markRead", "markUnread"} : Update(r, op, "emit")) /\ UNCHANGED draftVars

StarWrite(r) ==
  (\E op \in {"star", "unstar"} : Update(r, op, "done")) /\ UNCHANGED draftVars

DeleteWrite(r) == Update(r, "delete", "emit") /\ UNCHANGED draftVars

RestoreWrite(r) == Update(r, "restore", "done") /\ UNCHANGED draftVars

RemovalWrite(r) ==
  /\ \E op \in {"removePermanently", "emptyTrash"} : Update(r, op, "done")
  /\ UNCHANGED draftVars

DeleteBatchWrite(r) ==
  /\ Update(r, "deleteBatch", "emit")
  /\ draft' = [d \in DOMAIN draft |->
       IF d \in task[r].drafts /\ draft[d].user = task[r].user
         THEN [draft[d] EXCEPT !.status = "TRASHED"] ELSE draft[d]]
  /\ UNCHANGED <<call, sent>>
-----------------------------------------------------------------------------
(* Mutant: the event goes to the room of the sender.                       *)
AnnouncedToSender(t) == {t.user} \X t.mark

AnnouncedTo(t) == {t.to} \X t.mark

(* The handler goes on when its write has been answered: it sends its      *)
(* socket events.  email:read and email:deleted leave no trace here, they  *)
(* only tell open screens to refresh; email:new is what a recipient learns *)
(* of an email by.                                                         *)
Emit(r) ==
  /\ task[r].pc = "emit"
  /\ IF task[r].op = "send"
       THEN /\ announced' = announced \cup AnnouncedTo(task[r])
            /\ Goto(r, "push")
       ELSE /\ Finish(r)
            /\ UNCHANGED announced
  /\ UNCHANGED <<rows, email, asked, crashes, draftVars>>

(* send awaits notifications.sendNewEmail, which swallows its errors.      *)
Push(r) ==
  /\ task[r].pc = "push"
  /\ Finish(r)
  /\ UNCHANGED <<rows, email, announced, asked, crashes, draftVars>>

(* A statement fails: a lost connection, a deadlock between transactions,  *)
(* a row that is gone.  Nothing is written, and the client gets an error.  *)
(* A commit whose acknowledgement is lost is left out: it would be told to *)
(* the client as an error too, and announced to nobody.                    *)
DbError(r) ==
  /\ task[r].pc \in {"load", "loadEmails", "loadDrafts", "write"}
  /\ Finish(r)
  /\ UNCHANGED <<rows, email, announced, asked, crashes, draftVars>>

(* The process dies and is restarted: committed rows stay, requests do not. *)
Crash ==
  /\ crashes < MaxCrashes
  /\ crashes' = crashes + 1
  /\ task' = [r \in Requests |-> NoTask]
  /\ call' = [c \in Calls |-> NoCall]
  /\ UNCHANGED <<rows, email, announced, asked, draft, sent>>

Read(r) ==
  \/ SendRead(r) \/ DetailRead(r) \/ MarkReadRead(r) \/ StarRead(r)
  \/ DeleteRead(r) \/ RestoreRead(r) \/ RemovePermanentlyRead(r)
  \/ EmptyTrashRead(r) \/ DeleteBatchStart(r)

Continue(r) ==
  \/ SendLoadDraft(r) \/ DeleteBatchEmails(r) \/ DeleteBatchDrafts(r)
  \/ SendCommit(r) \/ DetailWrite(r) \/ MarkReadWrite(r) \/ StarWrite(r)
  \/ DeleteWrite(r) \/ RestoreWrite(r) \/ RemovalWrite(r) \/ DeleteBatchWrite(r)
  \/ Emit(r) \/ Push(r) \/ DbError(r)

Next ==
  \/ \E r \in Requests : Read(r) \/ Continue(r)
  \/ DraftsNext /\ UNCHANGED mailboxVars
  \/ Crash

Spec == Init /\ [][Next]_vars
-----------------------------------------------------------------------------
(* The variables range over the values their names say.                    *)
TypeOK ==
  /\ Issued \subseteq EmailIds /\ email \in [Issued -> EmailRow]
  /\ rows \subseteq Issued
  /\ DraftsTypeOK
  /\ task \in [Requests -> Task]
  /\ announced \subseteq Users \X EmailIds
  /\ asked \subseteq Users \X EmailIds
  /\ crashes \in 0..MaxCrashes

(* A thread belongs to one pair of users: emails that carry the same       *)
(* thread, whoever replied to what and whichever of them were deleted      *)
(* while a reply was on its way, are all between the same two people.      *)
ThreadOfOnePair ==
  \A e, f \in Issued : ThreadOf(e) = ThreadOf(f) => Pair(e) = Pair(f)

(* A reply that still points at an email answers that email: the row       *)
(* exists, and the reply goes from its recipient back to its sender.       *)
ReplyAnswers ==
  \A e \in rows : email[e].replyTo # None =>
    /\ email[e].replyTo \in rows
    /\ email[e].sender = email[email[e].replyTo].recipient
    /\ email[e].recipient = email[email[e].replyTo].sender

(* No email disappears for a party who has not asked for its permanent     *)
(* removal, whatever the other party and the party's own concurrent        *)
(* requests do: it is in one of the party's folders.                       *)
KeptUntilAsked ==
  \A e \in Issued : \A u \in Pair(e) :
    <<u, e>> \notin asked => FoldersOf(u, e) # {}

(* removePermanently refuses an email that is not in the trash: an email   *)
(* that a party has purged is one that the party has deleted.              *)
PurgedOnlyFromTrash ==
  \A e \in rows : email[e].purged \subseteq email[e].deleted

(* What each user finds in the folders, as two copies of each email would  *)
(* have it: a step of a request changes the folders of the user who made   *)
(* it and of nobody else, an email leaves a user's folders only if that    *)
(* user asked, and for good only if both did.                              *)
Mail == [e \in Issued |-> [from |-> email[e].sender, to |-> email[e].recipient]]
Shelf == [u \in Users |-> [e \in EmailIds |-> FoldersOf(u, e)]]
Removed == Issued \ rows
Active == {task[r].user : r \in Requests} \ {None}

Promised == INSTANCE Correspondence WITH
  mail <- Mail, shelf <- Shelf, removed <- Removed, active <- Active

ImplementsCorrespondence == Promised!AbstractSpec

(* No request acts on a draft that is not its user's: not the calls of     *)
(* DraftsController, whatever was claimed, sent or trashed since they read *)
(* the draft, nor the mailbox once it has looked the drafts up.            *)
LookedUp(t) ==
  \/ t.op = "send" /\ t.pc = "write"
  \/ t.op = "deleteBatch" /\ t.pc \in {"write", "loadEmails"}

DraftsKeepToOwners ==
  /\ CallsKeepToOwners
  /\ \A r \in Requests : LookedUp(task[r]) =>
       \A d \in task[r].drafts : draft[d].user = task[r].user

Announced(e) == <<email[e].recipient, e>> \in announced
Due(r, e) == task[r].pc = "emit" /\ task[r].op = "send" /\ task[r].mark = {e}

(* An email that was committed is announced to its recipient, or is about  *)
(* to be by the request that committed it, unless the process has died:    *)
(* no other request and no failing statement comes in between.             *)
EveryEmailAnnounced ==
  \A e \in Issued : Announced(e) \/ crashes > 0 \/ \E r \in Requests : Due(r, e)
=============================================================================
