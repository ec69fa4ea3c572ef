---------------------------- MODULE MailboxProofs ----------------------------
(***************************************************************************)
(* Proofs about Mailbox, for any number of users, emails, drafts, requests *)
(* in progress and restarts.                                               *)
(***************************************************************************)
EXTENDS Mailbox, TLAPS

(* The first step of a handler leaves a well-formed task.                  *)
LEMMA BeginType ==
  ASSUME TypeOK, NEW r \in Requests, NEW op, NEW t \in Task, Begin(r, op, t)
  PROVE  task' \in [Requests -> Task]
  <1>1. op \in AllOperations \cup {"none"}
    BY OperationsAssumption DEF Begin
  <1>2. [t EXCEPT !.op = op] \in Task
    BY <1>1 DEF Task
  <1> QED
    BY <1>2 DEF Begin, TypeOK

(* NoTask is a task, and so is NoTask with some of its fields filled in.   *)
LEMMA NoTaskType == NoTask \in Task
  BY DEF NoTask, Task, Roles

LEMMA GotoType ==
  ASSUME TypeOK, NEW r \in Requests,
         NEW pc \in {"load", "loadEmails", "loadDrafts", "write", "emit", "push"},
         Goto(r, pc)
  PROVE  task' \in [Requests -> Task]
  BY DEF TypeOK, Goto, Task

LEMMA FinishType ==
  ASSUME TypeOK, NEW r \in Requests, Finish(r)
  PROVE  task' \in [Requests -> Task]
  BY NoTaskType DEF TypeOK, Finish

(* A handler writes a row of the table's type.                             *)
LEMMA WrittenType ==
  ASSUME NEW op, NEW row \in EmailRow, NEW role \in Roles
  PROVE  Written(op, row, role) \in EmailRow
  <1>1. CASE op \in {"detail", "markRead", "markUnread"}
    BY <1>1 DEF Written, EmailRow
  <1>2. CASE op \in {"star", "unstar"}
    BY <1>2 DEF Written, EmailRow
  <1>3. CASE op \in {"delete", "deleteBatch"}
    BY <1>3 DEF Written, EmailRow
  <1>4. CASE op = "restore"
    BY <1>4 DEF Written, EmailRow
  <1>5. CASE op \notin {"detail", "markRead", "markUnread", "star", "unstar",
                        "delete", "deleteBatch", "restore"}
    BY <1>5 DEF Written, EmailRow
  <1> QED
    BY <1>1, <1>2, <1>3, <1>4, <1>5

LEMMA UnlinkedType ==
  ASSUME NEW row \in EmailRow, NEW kill
  PROVE  Unlinked(row, kill) \in EmailRow
  BY DEF Unlinked, EmailRow

(* A write keeps every variable in its type; it issues no new id.          *)
LEMMA UpdateType ==
  ASSUME TypeOK, NEW r \in Requests, NEW op,
         NEW next \in {"emit", "done"}, Update(r, op, next)
  PROVE  /\ Issued' = Issued
         /\ email' \in [Issued -> EmailRow]
         /\ rows' \subseteq rows
         /\ task' \in [Requests -> Task]
         /\ UNCHANGED <<announced, asked, crashes>>
  <1> DEFINE t == task[r]
  <1>1. \A e \in Issued : Role(t.user, e) \in Roles
    BY DEF Role, Roles
  <1>2. \A e \in Issued : Unlinked(email[e], t.kill) \in EmailRow
    BY UnlinkedType DEF TypeOK
  <1>3. \A e \in Issued :
          Written(op, Unlinked(email[e], t.kill), Role(t.user, e)) \in EmailRow
    BY <1>1, <1>2, WrittenType
  <1>4. email' \in [Issued -> EmailRow]
    BY <1>2, <1>3 DEF Update
  <1>5. Issued' = Issued
    BY <1>4 DEF Issued
  <1>6. task' \in [Requests -> Task]
    <2>1. CASE next = "done"
      BY <2>1, FinishType DEF Update
    <2>2. CASE next = "emit"
      BY <2>2, GotoType DEF Update
    <2> QED
      BY <2>1, <2>2
  <1> QED
    BY <1>4, <1>5, <1>6 DEF Update

(* The drafts: what DraftsController's calls, a send and a batch leave.    *)
LEMMA NoCallType == NoCall \in Call
  BY DEF NoCall, Call, EmailStatus

LEMMA DraftsStep ==
  ASSUME DraftsTypeOK, DraftsNext
  PROVE  DraftsTypeOK'
  <1> USE DEF DraftsTypeOK
  <1>1. ASSUME NEW c \in Calls, EndCall(c) PROVE call' \in [Calls -> Call]
    BY <1>1, NoCallType DEF EndCall
  <1>2. ASSUME NEW d \in DraftIds \ DOMAIN draft, NEW row \in DraftRow, draft' = With(d, row)
        PROVE  /\ DOMAIN draft' = DOMAIN draft \cup {d}
               /\ draft' \in [DOMAIN draft' -> DraftRow]
    BY <1>2 DEF With
  <1>3. CASE CreateDraft
    <2>1. PICK owner \in Owners, d \in DraftIds \ DOMAIN draft : draft' = With(d, Drafted(owner))
      BY <1>3 DEF CreateDraft
    <2>2. Drafted(owner) \in DraftRow
      BY DEF Drafted, DraftRow, Owners, EmailStatus
    <2> QED
      BY <1>2, <1>3, <2>1, <2>2 DEF CreateDraft
  <1>4. ASSUME NEW c \in Calls, FindDraft(c) PROVE DraftsTypeOK'
    <2>1. PICK owner \in Owners, d \in DOMAIN draft,
               op \in {"update", "updateStatus", "duplicate"}, status \in EmailStatus :
            /\ OwnerWhere(owner, d)
            /\ op = "update" => draft[d].status = "DRAFT"
            /\ op # "updateStatus" => status = "DRAFT"
            /\ call' = [call EXCEPT ![c] = CallOn(d, op, owner, status)]
      BY <1>4 DEF FindDraft
    <2>2. CallOn(d, op, owner, status) \in Call
      BY DEF CallOn, Call, Columns, DraftRow
    <2>3. call' \in [Calls -> Call]
      BY <2>1, <2>2
    <2> QED
      BY <1>4, <2>3 DEF FindDraft
  <1>5. ASSUME NEW c \in Calls, UpdateDraft(c) PROVE DraftsTypeOK'
    BY <1>1, <1>5 DEF UpdateDraft, Edited
  <1>6. ASSUME NEW c \in Calls, UpdateStatus(c) PROVE DraftsTypeOK'
    <2>1. call[c].status \in EmailStatus
      BY DEF Call, NoCall, EmailStatus
    <2>2. draft' \in [DOMAIN draft -> DraftRow]
      BY <1>6, <2>1 DEF UpdateStatus, DraftRow
    <2> QED
      BY <1>1, <1>6, <2>2 DEF UpdateStatus
  <1>7. ASSUME NEW c \in Calls, DuplicateDraft(c) PROVE DraftsTypeOK'
    <2>1. PICK d \in DraftIds \ DOMAIN draft : draft' = With(d, Drafted(call[c].copy))
      BY <1>7 DEF DuplicateDraft
    <2>2. call[c].copy \in Columns
      BY <1>7 DEF DuplicateDraft, AtCall, Call, NoCall
    <2>3. Drafted(call[c].copy) \in DraftRow
      BY <2>2 DEF Drafted, Columns, DraftRow, EmailStatus
    <2> QED
      BY <1>1, <1>2, <1>7, <2>1, <2>3 DEF DuplicateDraft
  <1>8. ASSUME NEW u \in Users, NEW device \in Devices, ClaimDeviceDrafts(u, device)
        PROVE  DraftsTypeOK'
    <2>1. PICK D \in SUBSET DOMAIN draft :
            /\ draft' = [d \in DOMAIN draft |->
                 IF d \in D THEN Claimed(draft[d], u) ELSE draft[d]]
            /\ call' = [c \in Calls |->
                 IF call[c].draft \in D THEN [call[c] EXCEPT !.lost = TRUE] ELSE call[c]]
      BY <1>8 DEF ClaimDeviceDrafts
    <2>2. \A row \in DraftRow : Claimed(row, u) \in DraftRow
      BY DEF Claimed, DraftRow
    <2>3. draft' \in [DOMAIN draft -> DraftRow]
      BY <2>1, <2>2
    <2>4. ASSUME NEW c \in Calls, call[c].draft \in D
          PROVE  [call[c] EXCEPT !.lost = TRUE] \in Call
      <3>1. call[c] # NoCall
        BY <2>4, NoDraftAssumption DEF NoCall
      <3> QED
        BY <3>1 DEF Call
    <2>5. call' \in [Calls -> Call]
      BY <2>1, <2>4
    <2> QED
      BY <1>8, <2>3, <2>5 DEF ClaimDeviceDrafts
  <1>9. ASSUME NEW c \in Calls, CallFails(c) PROVE DraftsTypeOK'
    BY <1>1, <1>9 DEF CallFails
  <1> QED
    BY <1>3, <1>4, <1>5, <1>6, <1>7, <1>8, <1>9 DEF DraftsNext

(* A send and a batch change the status of existing drafts.                *)
LEMMA SendDrafts ==
  ASSUME DraftsTypeOK, NEW r \in Requests, task[r] \in Task, SendCommit(r)
  PROVE  DraftsTypeOK'
  <1>1. ASSUME NEW c \in Calls, call[c].draft \in task[r].drafts
        PROVE  [call[c] EXCEPT !.early = TRUE] \in Call
    <2>1. call[c] # NoCall /\ call[c] \in Call
      BY <1>1, NoDraftAssumption DEF NoCall, Task, DraftsTypeOK
    <2> QED
      BY <2>1 DEF Call
  <1>2. call' \in [Calls -> Call]
    BY <1>1 DEF SendCommit, DraftsTypeOK
  <1> QED
    BY <1>2 DEF DraftsTypeOK, SendCommit, Task, DraftRow, EmailStatus

LEMMA BatchDrafts ==
  ASSUME DraftsTypeOK, NEW r \in Requests, DeleteBatchWrite(r)
  PROVE  DraftsTypeOK'
  BY DEF DraftsTypeOK, DeleteBatchWrite, DraftRow, EmailStatus

(* TypeOK is preserved by the first step of every handler.                 *)
LEMMA ReadType ==
  ASSUME TypeOK, NEW r \in Requests, Read(r)
  PROVE  TypeOK'
  <1> USE DEF TypeOK, DraftsTypeOK, Issued, draftVars
  <1> DEFINE Rest == UNCHANGED <<rows, email, announced, crashes, draftVars>>
  <1>1. ASSUME SendRead(r) PROVE TypeOK'
    <2>1. PICK u \in Users, to \in Users, reply \in rows \cup {None},
               use \in {{}} \cup {{d} : d \in DOMAIN draft} :
            Begin(r, "send", SendTask(u, to, reply, use))
      BY <1>1 DEF SendRead
    <2>2. use \in SUBSET DraftIds
      OBVIOUS
    <2>3. reply # None => ThreadOf(reply) \in EmailIds \cup {None}
      BY DEF ThreadOf, EmailRow
    <2>4. SendTask(u, to, reply, use) \in Task
      BY <2>2, <2>3 DEF SendTask, NoTask, Task
    <2>5. task' \in [Requests -> Task]
      BY <2>1, <2>4, BeginType
    <2> QED
      BY <1>1, <2>5 DEF SendRead
  <1>2. ASSUME NEW u \in Users, NEW e \in rows, NEW op, Load(r, u, op, e, "write")
        PROVE  TypeOK'
    <2>1. [NoTask EXCEPT !.pc = "write", !.user = u, !.mark = {e}] \in Task
      BY DEF NoTask, Task
    <2> QED
      BY <1>2, <2>1, BeginType DEF Load
  <1>3. ASSUME NEW u \in Users, NEW op, NEW T \in SUBSET rows, Removal(r, u, op, T)
        PROVE  TypeOK'
    <2> DEFINE both == {e \in T : OtherRole(u, e) \in email[e].purged}
    <2>1. [NoTask EXCEPT !.pc = "write", !.user = u,
                         !.kill = both, !.mark = T \ both] \in Task
      BY DEF NoTask, Task
    <2>2. Begin(r, op, [NoTask EXCEPT !.pc = "write", !.user = u,
                                      !.kill = both, !.mark = T \ both])
      BY <1>3 DEF Removal
    <2>3. task' \in [Requests -> Task]
      BY <2>1, <2>2, BeginType
    <2> QED
      BY <1>3, <2>3 DEF Removal
  <1>4. ASSUME DeleteBatchStart(r) PROVE TypeOK'
    <2>1. PICK u \in Users, E \in SUBSET rows, D \in SUBSET DOMAIN draft :
            Begin(r, "deleteBatch",
              [NoTask EXCEPT !.pc = "load", !.user = u, !.mark = E, !.drafts = D])
      BY <1>4 DEF DeleteBatchStart
    <2>2. [NoTask EXCEPT !.pc = "load", !.user = u, !.mark = E, !.drafts = D] \in Task
      BY DEF NoTask, Task
    <2>3. task' \in [Requests -> Task]
      BY <2>1, <2>2, BeginType
    <2> QED
      BY <1>4, <2>3 DEF DeleteBatchStart
  <1>5. ASSUME DetailRead(r) PROVE TypeOK'
    BY <1>2, <1>5 DEF DetailRead
  <1>6. ASSUME MarkReadRead(r) PROVE TypeOK'
    BY <1>2, <1>6 DEF MarkReadRead
  <1>7. ASSUME StarRead(r) PROVE TypeOK'
    BY <1>2, <1>7 DEF StarRead
  <1>8. ASSUME DeleteRead(r) PROVE TypeOK'
    BY <1>2, <1>8 DEF DeleteRead
  <1>9. ASSUME RestoreRead(r) PROVE TypeOK'
    BY <1>2, <1>9 DEF RestoreRead
  <1>10. ASSUME RemovePermanentlyRead(r) PROVE TypeOK'
    BY <1>3, <1>10 DEF RemovePermanentlyRead
  <1>11. ASSUME EmptyTrashRead(r) PROVE TypeOK'
    BY <1>3, <1>11 DEF EmptyTrashRead, Folder
  <1> QED
    BY <1>1, <1>4, <1>5, <1>6, <1>7, <1>8, <1>9, <1>10, <1>11 DEF Read

(* Whoever is named by a task is a user: TypeOK alone also allows None.    *)
TaskUsers ==
  \A r \in Requests : task[r].op # "none" =>
    task[r].user \in Users /\ (task[r].op = "send" => task[r].to \in Users)

TypeInv == TypeOK /\ TaskUsers

(* A task that goes on or ends keeps TaskUsers.                            *)
LEMMA GotoUsers ==
  ASSUME TypeOK, TaskUsers, NEW r \in Requests, NEW pc, Goto(r, pc)
  PROVE  TaskUsers'
  BY DEF TaskUsers, TypeOK, Goto, Task

LEMMA FinishUsers ==
  ASSUME TypeOK, TaskUsers, NEW r \in Requests, Finish(r)
  PROVE  TaskUsers'
  BY DEF TaskUsers, TypeOK, Finish, Task, NoTask

LEMMA ReadUsers ==
  ASSUME TypeOK, TaskUsers, NEW r \in Requests, Read(r)
  PROVE  TaskUsers'
  <1>1. ASSUME SendRead(r) PROVE TaskUsers'
    <2>1. PICK u \in Users, to \in Users, reply \in rows \cup {None},
               use \in {{}} \cup {{d} : d \in DOMAIN draft} :
            Begin(r, "send", SendTask(u, to, reply, use))
      BY <1>1 DEF SendRead
    <2> QED
      BY <2>1 DEF Begin, SendTask, NoTask, TaskUsers, TypeOK, Task
  <1>2. ASSUME NEW u \in Users, NEW e \in rows, NEW op, op # "send",
               Load(r, u, op, e, "write")
        PROVE  TaskUsers'
    BY <1>2 DEF Load, Begin, NoTask, TaskUsers, TypeOK, Task
  <1>3. ASSUME NEW u \in Users, NEW op, op # "send", NEW T \in SUBSET rows,
               Removal(r, u, op, T)
        PROVE  TaskUsers'
    BY <1>3 DEF Removal, Begin, NoTask, TaskUsers, TypeOK, Task
  <1>4. ASSUME DeleteBatchStart(r) PROVE TaskUsers'
    BY <1>4 DEF DeleteBatchStart, Begin, NoTask, TaskUsers, TypeOK, Task
  <1>5. ASSUME DetailRead(r) \/ MarkReadRead(r) \/ StarRead(r) \/ DeleteRead(r)
                 \/ RestoreRead(r)
        PROVE  TaskUsers'
    BY <1>2, <1>5 DEF DetailRead, MarkReadRead, StarRead, DeleteRead, RestoreRead
  <1>6. ASSUME RemovePermanentlyRead(r) \/ EmptyTrashRead(r) PROVE TaskUsers'
    BY <1>3, <1>6 DEF RemovePermanentlyRead, EmptyTrashRead, Folder
  <1> QED
    BY <1>1, <1>4, <1>5, <1>6 DEF Read

(* TypeOK is preserved by the later steps of every handler.                *)
LEMMA ContinueType ==
  ASSUME TypeOK, TaskUsers, NEW r \in Requests, Continue(r)
  PROVE  TypeOK' /\ TaskUsers'
  <1>1. ASSUME SendCommit(r) PROVE TypeOK' /\ TaskUsers'
    <2>1. PICK id \in EmailIds \ Issued :
            /\ rows' = rows \cup {id}
            /\ email' = [e \in Issued \cup {id} |->
                 IF e = id THEN NewEmail(task[r]) ELSE email[e]]
            /\ task' = [task EXCEPT ![r].pc = "emit", ![r].mark = {id}]
      BY <1>1 DEF SendCommit
    <2>2. task[r].user \in Users /\ task[r].to \in Users
      BY <1>1 DEF SendCommit, AtWrite, TypeOK, Task, TaskUsers
    <2>3. email' \in [Issued' -> EmailRow] /\ rows' \subseteq Issued' /\ Issued' \subseteq EmailIds
      BY <2>1, <2>2 DEF NewEmail, TypeOK, Task, EmailRow, Issued
    <2>4. task' \in [Requests -> Task]
      <3>1. task[r] \in Task /\ {id} \in SUBSET EmailIds
        BY <2>1 DEF TypeOK
      <3>2. [task[r] EXCEPT !.pc = "emit", !.mark = {id}] \in Task
        BY <3>1 DEF Task
      <3> QED
        BY <2>1, <3>2 DEF TypeOK
    <2>5. DraftsTypeOK'
      BY <1>1, SendDrafts DEF TypeOK
    <2>6. TaskUsers'
      BY <2>1 DEF TaskUsers, TypeOK, Task
    <2> QED
      BY <1>1, <2>3, <2>4, <2>5, <2>6 DEF SendCommit, TypeOK
  <1>2. ASSUME NEW pc \in {"load", "loadEmails", "loadDrafts", "write", "emit", "push"},
               Goto(r, pc) \/ Finish(r), UNCHANGED <<rows, email, asked, crashes, draftVars>>,
               announced' \subseteq Users \X EmailIds
        PROVE  TypeOK' /\ TaskUsers'
    BY <1>2, GotoType, FinishType, GotoUsers, FinishUsers
       DEF TypeOK, DraftsTypeOK, draftVars, Issued
  <1>3. ASSUME SendLoadDraft(r) \/ DeleteBatchEmails(r) \/ DeleteBatchDrafts(r)
                 \/ Push(r) \/ DbError(r)
        PROVE  TypeOK' /\ TaskUsers'
    BY <1>2, <1>3 DEF SendLoadDraft, DeleteBatchEmails, DeleteBatchDrafts,
                      DeleteBatchLoad, Push, DbError, TypeOK
  <1>4. ASSUME Emit(r) PROVE TypeOK' /\ TaskUsers'
    <2>1. announced' \subseteq Users \X EmailIds
      BY <1>4 DEF Emit, AnnouncedTo, TypeOK, TaskUsers, Task
    <2> QED
      BY <1>2, <1>4, <2>1 DEF Emit
  <1>5. ASSUME NEW op, NEW next \in {"emit", "done"}, Update(r, op, next), DraftsTypeOK'
        PROVE  TypeOK' /\ TaskUsers'
    <2>1. TaskUsers'
      BY <1>5, GotoUsers, FinishUsers DEF Update
    <2> QED
      BY <1>5, <2>1, UpdateType DEF TypeOK
  <1>6. ASSUME DetailWrite(r) \/ MarkReadWrite(r) \/ StarWrite(r) \/ DeleteWrite(r)
                 \/ RestoreWrite(r) \/ RemovalWrite(r)
        PROVE  TypeOK' /\ TaskUsers'
    <2>1. DraftsTypeOK'
      BY <1>6 DEF DetailWrite, MarkReadWrite, StarWrite, DeleteWrite, RestoreWrite,
                  RemovalWrite, TypeOK, DraftsTypeOK, draftVars
    <2> QED
      BY <1>5, <1>6, <2>1 DEF DetailWrite, MarkReadWrite, StarWrite, DeleteWrite,
                              RestoreWrite, RemovalWrite
  <1>7. ASSUME DeleteBatchWrite(r) PROVE TypeOK' /\ TaskUsers'
    <2>1. DraftsTypeOK'
      BY <1>7, BatchDrafts DEF TypeOK
    <2> QED
      BY <1>5, <1>7, <2>1 DEF DeleteBatchWrite
  <1> QED
    BY <1>1, <1>3, <1>4, <1>6, <1>7 DEF Continue

LEMMA TypeStep ==
  ASSUME TypeInv, [Next]_vars
  PROVE  TypeInv'
  <1> USE DEF TypeInv
  <1>1. ASSUME NEW r \in Requests, Read(r) PROVE TypeInv'
    BY <1>1, ReadType, ReadUsers
  <1>2. ASSUME NEW r \in Requests, Continue(r) PROVE TypeInv'
    BY <1>2, ContinueType
  <1>3. CASE DraftsNext /\ UNCHANGED mailboxVars
    BY <1>3, DraftsStep DEF mailboxVars, TypeOK, TaskUsers, Issued
  <1>5. CASE Crash
    <2>1. task' \in [Requests -> Task]
      BY <1>5, NoTaskType DEF Crash
    <2>2. TaskUsers'
      BY <1>5 DEF Crash, TaskUsers, NoTask
    <2>3. crashes' \in 0..MaxCrashes
      BY <1>5, MaxCrashesAssumption DEF Crash, TypeOK
    <2>4. DraftsTypeOK'
      BY <1>5, NoCallType DEF Crash, TypeOK, DraftsTypeOK
    <2> QED
      BY <1>5, <2>1, <2>2, <2>3, <2>4 DEF Crash, TypeOK, Issued
  <1>6. CASE UNCHANGED vars
    BY <1>6 DEF vars, mailboxVars, draftVars, TypeOK, DraftsTypeOK, TaskUsers, Issued
  <1> QED
    BY <1>1, <1>2, <1>3, <1>5, <1>6 DEF Next

LEMMA TypeInvCorrect == Spec => []TypeInv
  <1>1. Init => TypeInv
    BY NoTaskType, NoCallType, MaxCrashesAssumption
       DEF Init, DraftsInit, TypeInv, TypeOK, DraftsTypeOK, TaskUsers, Issued, NoTask
  <1> QED
    BY <1>1, TypeStep, PTL DEF Spec

(* The variables range over the values their names say.                    *)
THEOREM TypeCorrect == Spec => []TypeOK
  <1>1. TypeInv => TypeOK
    BY DEF TypeInv
  <1> QED
    BY <1>1, TypeInvCorrect, PTL
-----------------------------------------------------------------------------
(* KeptUntilAsked.  A handler deletes or purges by what it read before, so *)
(* the invariant speaks of what the tasks in progress plan to do: a row    *)
(* that is to be deleted is one that both parties asked to remove, a row   *)
(* to be purged one that the task's own user did.                          *)

Removals == {"removePermanently", "emptyTrash"}
MarkWrites ==
  {"detail", "markRead", "markUnread", "star", "unstar", "delete", "deleteBatch", "restore"}

PlanOf(t) ==
  /\ t.op \in Removals =>
       \A e \in t.mark : e \in Issued /\ t.user \in Pair(e) /\ <<t.user, e>> \in asked
  /\ \A e \in t.kill : e \in Issued /\ \A u \in Pair(e) : <<u, e>> \in asked

PlanInv == \A r \in Requests : PlanOf(task[r])

AskedInv ==
  /\ \A e \in Issued : \A role \in email[e].purged : <<Party(e, role), e>> \in asked
  /\ \A e \in Issued \ rows : \A u \in Pair(e) : <<u, e>> \in asked

RemovalInv == PlanInv /\ AskedInv

(* Who wrote an email to whom, and its thread, never change.               *)
SameEmails ==
  \A e \in Issued :
    /\ e \in Issued'
    /\ email'[e].sender = email[e].sender
    /\ email'[e].recipient = email[e].recipient
    /\ email'[e].thread = email[e].thread

LEMMA UnlinkedKeeps ==
  ASSUME NEW row \in EmailRow, NEW kill
  PROVE  LET base == Unlinked(row, kill) IN
         /\ base.sender = row.sender /\ base.recipient = row.recipient
         /\ base.thread = row.thread /\ base.purged = row.purged
         /\ base.replyTo = IF row.replyTo \in kill THEN None ELSE row.replyTo
  BY DEF Unlinked, EmailRow

LEMMA WrittenKeeps ==
  ASSUME NEW op, NEW row \in EmailRow, NEW role
  PROVE  /\ Written(op, row, role).sender = row.sender
         /\ Written(op, row, role).recipient = row.recipient
         /\ Written(op, row, role).thread = row.thread
         /\ Written(op, row, role).replyTo = row.replyTo
         /\ op \in MarkWrites => Written(op, row, role).purged \subseteq row.purged
         /\ op \notin MarkWrites =>
              Written(op, row, role).purged = row.purged \cup {role}
  <1> USE DEF Written, EmailRow, MarkWrites
  <1>1. CASE op \in {"detail", "markRead"}
    BY <1>1
  <1>2. CASE op = "markUnread"
    BY <1>2
  <1>3. CASE op = "star"
    BY <1>3
  <1>4. CASE op = "unstar"
    BY <1>4
  <1>5. CASE op \in {"delete", "deleteBatch"}
    BY <1>5
  <1>6. CASE op = "restore"
    BY <1>6
  <1>7. CASE op \notin MarkWrites
    BY <1>7
  <1> QED
    BY <1>1, <1>2, <1>3, <1>4, <1>5, <1>6, <1>7

LEMMA PlanStable ==
  ASSUME SameEmails, asked \subseteq asked', NEW t, PlanOf(t)
  PROVE  PlanOf(t)'
  BY DEF PlanOf, SameEmails, Pair

(* Tasks that keep their plans, or drop them, keep PlanInv.                *)
LEMMA PlanKept ==
  ASSUME TypeOK, PlanInv, SameEmails, asked \subseteq asked', NEW r \in Requests,
         NEW t \in Task, task' = [task EXCEPT ![r] = t], PlanOf(t)'
  PROVE  PlanInv'
  <1>1. \A q \in Requests : q # r => task'[q] = task[q]
    BY DEF TypeOK
  <1>2. task'[r] = t
    BY DEF TypeOK
  <1> QED
    BY <1>1, <1>2, PlanStable DEF PlanInv

LEMMA NoPlan == PlanOf(NoTask)'
  BY DEF PlanOf, NoTask, Removals

LEMMA GotoPlan ==
  ASSUME TypeOK, PlanInv, SameEmails, asked \subseteq asked', NEW r \in Requests,
         NEW pc \in {"load", "loadEmails", "loadDrafts", "write", "emit", "push"},
         Goto(r, pc)
  PROVE  PlanInv'
  <1>1. PICK t \in Task : t = [task[r] EXCEPT !.pc = pc]
    BY DEF TypeOK, Task
  <1>2. /\ t.op = task[r].op /\ t.mark = task[r].mark
        /\ t.kill = task[r].kill /\ t.user = task[r].user
    BY <1>1 DEF TypeOK, Task
  <1>3. PlanOf(t)
    BY <1>2 DEF PlanInv, PlanOf
  <1>4. PlanOf(t)'
    BY <1>3, PlanStable
  <1>5. task' = [task EXCEPT ![r] = t]
    BY <1>1 DEF Goto
  <1> QED
    BY <1>4, <1>5, PlanKept

LEMMA FinishPlan ==
  ASSUME TypeOK, PlanInv, SameEmails, asked \subseteq asked', NEW r \in Requests,
         Finish(r)
  PROVE  PlanInv'
  BY PlanKept, NoPlan, NoTaskType DEF Finish

LEMMA UpdateKeeps ==
  ASSUME TypeOK, NEW r \in Requests, NEW op, NEW next \in {"emit", "done"},
         Update(r, op, next)
  PROVE  /\ SameEmails
         /\ \A e \in Issued :
              email'[e].replyTo =
                IF email[e].replyTo \in task[r].kill THEN None ELSE email[e].replyTo
         /\ \A e \in Issued :
              email'[e].purged \subseteq email[e].purged \cup
                IF op \notin MarkWrites /\ e \in task[r].mark
                  THEN {Role(task[r].user, e)} ELSE {}
  <1> DEFINE t == task[r]
  <1>1. Issued' = Issued
    BY UpdateType
  <1>2. ASSUME NEW e \in Issued
        PROVE  /\ email'[e].sender = email[e].sender
               /\ email'[e].recipient = email[e].recipient
               /\ email'[e].thread = email[e].thread
               /\ email'[e].replyTo =
                    IF email[e].replyTo \in t.kill THEN None ELSE email[e].replyTo
               /\ email'[e].purged \subseteq email[e].purged \cup
                    IF op \notin MarkWrites /\ e \in t.mark
                      THEN {Role(t.user, e)} ELSE {}
    <2>1. email[e] \in EmailRow
      BY DEF TypeOK
    <2>2. PICK base \in EmailRow : base = Unlinked(email[e], t.kill)
      BY <2>1, UnlinkedType
    <2>3. /\ base.sender = email[e].sender /\ base.recipient = email[e].recipient
          /\ base.thread = email[e].thread /\ base.purged = email[e].purged
          /\ base.replyTo = IF email[e].replyTo \in t.kill THEN None ELSE email[e].replyTo
      BY <2>1, <2>2, UnlinkedKeeps
    <2>4. CASE e \in t.mark
      <3>1. PICK role : role = Role(t.user, e)
        OBVIOUS
      <3>2. email'[e] = Written(op, base, role)
        BY <2>2, <2>4, <3>1 DEF Update
      <3>3. /\ email'[e].sender = base.sender /\ email'[e].recipient = base.recipient
            /\ email'[e].thread = base.thread /\ email'[e].replyTo = base.replyTo
            /\ op \in MarkWrites => email'[e].purged \subseteq base.purged
            /\ op \notin MarkWrites => email'[e].purged = base.purged \cup {role}
        BY <3>2, WrittenKeeps
      <3>4. email'[e].purged \subseteq email[e].purged \cup
              IF op \notin MarkWrites /\ e \in t.mark THEN {Role(t.user, e)} ELSE {}
        BY <2>3, <2>4, <3>1, <3>3
      <3> QED
        BY <2>3, <3>3, <3>4
    <2>5. CASE e \notin t.mark
      BY <2>2, <2>3, <2>5 DEF Update
    <2> QED
      BY <2>4, <2>5
  <1> QED
    BY <1>1, <1>2 DEF SameEmails

LEMMA UpdateRemoval ==
  ASSUME TypeOK, RemovalInv, NEW r \in Requests, NEW op \in MarkWrites \cup Removals,
         NEW next \in {"emit", "done"}, Update(r, op, next)
  PROVE  RemovalInv'
  <1> USE DEF RemovalInv
  <1>1. SameEmails /\ asked' = asked /\ Issued' = Issued
    BY UpdateKeeps, UpdateType
  <1>2. PlanInv'
    BY <1>1, GotoPlan, FinishPlan DEF Update
  <1>3. PlanOf(task[r]) /\ task[r].op = op
    BY DEF PlanInv, Update, AtWrite
  <1>4. ASSUME NEW e \in Issued, NEW role \in email'[e].purged
        PROVE  <<Party(e, role)', e>> \in asked
    <2>1. Party(e, role)' = Party(e, role)
      BY <1>1 DEF Party, SameEmails
    <2>2. CASE role \in email[e].purged
      BY <2>1, <2>2 DEF AskedInv
    <2>3. CASE role \notin email[e].purged
      <3>1. op \in Removals /\ e \in task[r].mark /\ role = Role(task[r].user, e)
        BY <2>3, UpdateKeeps
      <3>2. task[r].user \in Pair(e) /\ <<task[r].user, e>> \in asked
        BY <1>3, <3>1 DEF PlanOf
      <3>3. Party(e, role) = task[r].user
        BY <3>1, <3>2 DEF Party, Role, Pair
      <3> QED
        BY <2>1, <3>2, <3>3
    <2> QED
      BY <2>2, <2>3
  <1>5. ASSUME NEW e \in Issued, e \notin rows', NEW u \in Pair(e)
        PROVE  <<u, e>> \in asked
    <2>1. CASE e \notin rows
      BY <2>1 DEF AskedInv
    <2>2. CASE e \in task[r].kill
      BY <1>3, <2>2 DEF PlanOf
    <2> QED
      BY <1>5, <2>1, <2>2 DEF Update
  <1>6. \A e \in Issued : Pair(e)' = Pair(e)
    BY <1>1 DEF Pair, SameEmails
  <1>7. AskedInv'
    BY <1>1, <1>4, <1>5, <1>6 DEF AskedInv
  <1> QED
    BY <1>2, <1>7

(* Whoever finds an email in a folder is one of its two parties.           *)
LEMMA FoldersOfParties ==
  ASSUME NEW u, NEW e, FoldersOf(u, e) # {}
  PROVE  e \in rows /\ u \in Pair(e)
  BY DEF FoldersOf, Pair

LEMMA InTrash ==
  ASSUME NEW u, NEW e \in Folder(u, "trash")
  PROVE  e \in rows /\ u \in Pair(e)
  BY FoldersOfParties DEF Folder

LEMMA ReadRemoval ==
  ASSUME TypeOK, RemovalInv, NEW r \in Requests, Read(r)
  PROVE  RemovalInv'
  <1> USE DEF RemovalInv
  <1>1. UNCHANGED <<rows, email>> /\ asked \subseteq asked'
    BY DEF Read, SendRead, DetailRead, MarkReadRead, StarRead, DeleteRead, RestoreRead,
           RemovePermanentlyRead, EmptyTrashRead, DeleteBatchStart, Load, Removal
  <1>2. SameEmails
    BY <1>1 DEF SameEmails, Issued
  <1>3. AskedInv'
    BY <1>1 DEF AskedInv, Issued, Party, Pair
  <1>4. ASSUME NEW op, NEW t \in Task, Begin(r, op, t), t.kill = {}, op \notin Removals
        PROVE  PlanInv'
    <2>1. op \in AllOperations
      BY <1>4, OperationsAssumption DEF Begin
    <2>2. PICK s \in Task : s = [t EXCEPT !.op = op]
      BY <2>1 DEF Task
    <2>3. s.kill = {} /\ s.op = op
      BY <1>4, <2>2 DEF Task
    <2>4. PlanOf(s)'
      BY <1>4, <2>3 DEF PlanOf
    <2> QED
      BY <1>2, <1>1, <1>4, <2>2, <2>4, PlanKept DEF Begin
  <1>5. ASSUME SendRead(r) PROVE PlanInv'
    <2>1. PICK u \in Users, to \in Users, reply \in rows \cup {None},
               use \in {{}} \cup {{d} : d \in DOMAIN draft} :
            Begin(r, "send", SendTask(u, to, reply, use))
      BY <1>5 DEF SendRead
    <2>2. reply # None => ThreadOf(reply) \in EmailIds \cup {None}
      BY DEF ThreadOf, EmailRow, TypeOK
    <2>3. PICK t \in Task : t = SendTask(u, to, reply, use)
      BY <2>2 DEF SendTask, NoTask, Task, TypeOK, DraftsTypeOK
    <2>4. t.kill = {}
      BY <2>3 DEF SendTask, NoTask
    <2> QED
      BY <1>4, <2>1, <2>3, <2>4 DEF Removals
  <1>6. ASSUME NEW u \in Users, NEW e \in rows, NEW op, op \notin Removals,
               Load(r, u, op, e, "write")
        PROVE  PlanInv'
    <2>1. PICK t \in Task : t = [NoTask EXCEPT !.pc = "write", !.user = u, !.mark = {e}]
      BY DEF NoTask, Task, TypeOK
    <2> QED
      BY <1>4, <1>6, <2>1 DEF Load, NoTask
  <1>7. ASSUME DetailRead(r) \/ MarkReadRead(r) \/ StarRead(r) \/ DeleteRead(r)
                 \/ RestoreRead(r)
        PROVE  PlanInv'
    <2>1. PICK u \in Users, e \in rows,
               op \in {"detail", "markRead", "markUnread", "star", "unstar",
                       "delete", "restore"} : Load(r, u, op, e, "write")
      BY <1>7 DEF DetailRead, MarkReadRead, StarRead, DeleteRead, RestoreRead
    <2>2. op \notin Removals
      BY DEF Removals
    <2> QED
      BY <1>6, <2>1, <2>2
  <1>8. ASSUME DeleteBatchStart(r) PROVE PlanInv'
    <2>1. PICK u \in Users, E \in SUBSET rows, D \in SUBSET DOMAIN draft :
            Begin(r, "deleteBatch",
              [NoTask EXCEPT !.pc = "load", !.user = u, !.mark = E, !.drafts = D])
      BY <1>8 DEF DeleteBatchStart
    <2>2. PICK t \in Task :
            t = [NoTask EXCEPT !.pc = "load", !.user = u, !.mark = E, !.drafts = D]
      BY DEF NoTask, Task, TypeOK, DraftsTypeOK
    <2>3. t.kill = {} /\ Begin(r, "deleteBatch", t)
      BY <2>1, <2>2 DEF NoTask
    <2>4. "deleteBatch" \notin Removals
      BY DEF Removals
    <2> QED
      BY <1>4, <2>3, <2>4
  <1>9. ASSUME NEW u \in Users, NEW op \in Removals, NEW T \in SUBSET rows,
               \A e \in T : u \in Pair(e), Removal(r, u, op, T)
        PROVE  PlanInv'
    <2>1. PICK both \in SUBSET T :
            /\ both = {e \in T : OtherRole(u, e) \in email[e].purged}
            /\ Begin(r, op, [NoTask EXCEPT !.pc = "write", !.user = u,
                                           !.kill = both, !.mark = T \ both])
      BY <1>9 DEF Removal
    <2>2. PICK t \in Task :
            t = [NoTask EXCEPT !.pc = "write", !.user = u, !.op = op,
                               !.kill = both, !.mark = T \ both]
      BY DEF NoTask, Task, TypeOK, Removals, AllOperations
    <2>3. task' = [task EXCEPT ![r] = t]
      BY <2>1, <2>2 DEF Begin, NoTask
    <2>4. t.op = op /\ t.user = u /\ t.kill = both /\ t.mark = T \ both
      BY <2>2 DEF NoTask
    <2>5. \A e \in T : <<u, e>> \in asked'
      BY <1>9 DEF Removal
    <2>6. ASSUME NEW e \in both, NEW v \in Pair(e) PROVE <<v, e>> \in asked'
      <3>1. CASE v = u
        BY <2>5, <3>1
      <3>2. CASE v # u
        <4>1. v = Party(e, OtherRole(u, e)) /\ u \in Pair(e)
          BY <1>9, <3>2 DEF Party, OtherRole, Pair
        <4>2. <<v, e>> \in asked
          BY <2>1, <4>1 DEF AskedInv, TypeOK
        <4> QED
          BY <1>1, <4>2
      <3> QED
        BY <3>1, <3>2
    <2>7. \A e \in T : e \in Issued' /\ Pair(e)' = Pair(e)
      BY <1>1 DEF TypeOK, Issued, Pair
    <2>8. PlanOf(t)'
      BY <1>9, <2>4, <2>5, <2>6, <2>7 DEF PlanOf
    <2> QED
      BY <1>1, <1>2, <2>3, <2>8, PlanKept
  <1>10. ASSUME RemovePermanentlyRead(r) PROVE PlanInv'
    BY <1>9, <1>10 DEF RemovePermanentlyRead, Removals, Visible, Pair
  <1>11. ASSUME EmptyTrashRead(r) PROVE PlanInv'
    BY <1>9, <1>11, InTrash DEF EmptyTrashRead, Removals
  <1>12. PlanInv'
    BY <1>5, <1>7, <1>8, <1>10, <1>11 DEF Read
  <1> QED
    BY <1>3, <1>12

LEMMA ContinueRemoval ==
  ASSUME TypeOK, RemovalInv, NEW r \in Requests, Continue(r)
  PROVE  RemovalInv'
  <1> USE DEF RemovalInv
  <1>1. ASSUME SendCommit(r) PROVE RemovalInv'
    <2>1. PICK id \in EmailIds \ Issued :
            /\ rows' = rows \cup {id}
            /\ email' = [e \in Issued \cup {id} |->
                 IF e = id THEN NewEmail(task[r]) ELSE email[e]]
            /\ task' = [task EXCEPT ![r].pc = "emit", ![r].mark = {id}]
            /\ asked' = asked
      BY <1>1 DEF SendCommit
    <2>2. Issued' = Issued \cup {id} /\ (\A e \in Issued : email'[e] = email[e])
      BY <2>1 DEF Issued
    <2>3. SameEmails
      BY <2>2 DEF SameEmails
    <2>4. PICK t \in Task : t = [task[r] EXCEPT !.pc = "emit", !.mark = {id}]
      BY DEF TypeOK, Task
    <2>5. task' = [task EXCEPT ![r] = t]
      BY <2>1, <2>4
    <2>6. t.kill = task[r].kill /\ t.op = "send"
      BY <1>1, <2>4 DEF TypeOK, Task, SendCommit, AtWrite
    <2>7. \A e \in t.kill : e \in Issued /\ \A u \in Pair(e) : <<u, e>> \in asked
      BY <2>6 DEF PlanInv, PlanOf
    <2>8. PlanOf(t)
      BY <2>6, <2>7 DEF PlanOf, Removals
    <2>9. PlanInv'
      BY <2>1, <2>3, <2>5, <2>8, PlanStable, PlanKept
    <2>10. \A e \in Issued : Pair(e)' = Pair(e) /\ \A role : Party(e, role)' = Party(e, role)
      BY <2>2 DEF Pair, Party
    <2>11. email'[id].purged = {} /\ id \in rows'
      BY <2>1 DEF NewEmail
    <2>12. AskedInv'
      BY <2>1, <2>2, <2>10, <2>11 DEF AskedInv
    <2> QED
      BY <2>9, <2>12
  <1>2. ASSUME NEW pc \in {"load", "loadEmails", "loadDrafts", "write", "emit", "push"},
               Goto(r, pc) \/ Finish(r), UNCHANGED <<rows, email, asked>>
        PROVE  RemovalInv'
    <2>1. SameEmails
      BY <1>2 DEF SameEmails, Issued
    <2>2. PlanInv'
      BY <1>2, <2>1, GotoPlan, FinishPlan
    <2> QED
      BY <1>2, <2>2 DEF AskedInv, Issued, Party, Pair
  <1>3. ASSUME SendLoadDraft(r) \/ DeleteBatchEmails(r) \/ DeleteBatchDrafts(r)
                 \/ Push(r) \/ DbError(r) \/ Emit(r)
        PROVE  RemovalInv'
    BY <1>2, <1>3 DEF SendLoadDraft, DeleteBatchEmails, DeleteBatchDrafts,
                      DeleteBatchLoad, Push, DbError, Emit
  <1>4. ASSUME DetailWrite(r) \/ MarkReadWrite(r) \/ StarWrite(r) \/ DeleteWrite(r)
                 \/ RestoreWrite(r) \/ RemovalWrite(r) \/ DeleteBatchWrite(r)
        PROVE  RemovalInv'
    BY <1>4, UpdateRemoval
       DEF DetailWrite, MarkReadWrite, StarWrite, DeleteWrite, RestoreWrite, RemovalWrite,
           DeleteBatchWrite, MarkWrites, Removals
  <1> QED
    BY <1>1, <1>3, <1>4 DEF Continue

LEMMA RemovalStep ==
  ASSUME TypeOK, RemovalInv, [Next]_vars
  PROVE  RemovalInv'
  <1>1. ASSUME NEW r \in Requests, Read(r) PROVE RemovalInv'
    BY <1>1, ReadRemoval
  <1>2. ASSUME NEW r \in Requests, Continue(r) PROVE RemovalInv'
    BY <1>2, ContinueRemoval
  <1>3. ASSUME UNCHANGED mailboxVars PROVE RemovalInv'
    BY <1>3 DEF mailboxVars, RemovalInv, PlanInv, PlanOf, AskedInv,
                Issued, Party, Pair
  <1>4. CASE Crash
    BY <1>4 DEF Crash, RemovalInv, PlanInv, PlanOf, NoTask, Removals, AskedInv,
                Issued, Party, Pair
  <1> QED
    BY <1>1, <1>2, <1>3, <1>4 DEF Next, vars

(* No email disappears for a party who has not asked for its removal.      *)
THEOREM NothingDisappears == Spec => []KeptUntilAsked
  <1>1. Init => RemovalInv
    BY DEF Init, RemovalInv, PlanInv, PlanOf, AskedInv, NoTask, Removals, Issued
  <1>2. TypeOK /\ RemovalInv => KeptUntilAsked
    <2> SUFFICES ASSUME TypeOK, RemovalInv, NEW e \in Issued, NEW u \in Pair(e),
                        <<u, e>> \notin asked
                 PROVE  FoldersOf(u, e) # {}
      BY DEF KeptUntilAsked
    <2>1. e \in rows
      BY DEF RemovalInv, AskedInv
    <2>2. PICK role \in Roles : Party(e, role) = u
      BY DEF Roles, Party, Pair
    <2>3. role \notin email[e].purged
      BY <2>2 DEF RemovalInv, AskedInv
    <2>4. RoleFolders(e, role) # {}
      BY <2>3 DEF RoleFolders, Trashed, Kept
    <2> QED
      BY <2>1, <2>2, <2>4 DEF FoldersOf, Party, Roles
  <1>3. TypeOK /\ RemovalInv /\ [Next]_vars => RemovalInv'
    BY RemovalStep
  <1> QED
    BY <1>1, <1>2, <1>3, TypeCorrect, PTL DEF Spec
-----------------------------------------------------------------------------
(* Threads.  A reply is checked against the email it answers before the    *)
(* transaction that creates it, and that email may be deleted meanwhile:   *)
(* the invariant says what a reply on its way still knows.                 *)

ReplyPlan(t) ==
  /\ t.thread # None => t.thread \in Issued /\ Pair(t.thread) = {t.user, t.to}
  /\ t.reply # None => /\ t.reply \in Issued
                       /\ email[t.reply].sender = t.to
                       /\ email[t.reply].recipient = t.user

ReplyPlanInv == \A r \in Requests : ReplyPlan(task[r])

ThreadInv ==
  \A e \in Issued : ThreadOf(e) \in Issued /\ Pair(ThreadOf(e)) = Pair(e)

LinkInv ==
  \A e \in Issued : email[e].replyTo # None =>
    /\ email[e].replyTo \in rows
    /\ email[e].sender = email[email[e].replyTo].recipient
    /\ email[e].recipient = email[email[e].replyTo].sender

ConversationInv == ReplyPlanInv /\ ThreadInv /\ LinkInv

LEMMA ReplyPlanKept ==
  ASSUME TypeOK, ReplyPlanInv, SameEmails, NEW r \in Requests, NEW t \in Task,
         task' = [task EXCEPT ![r] = t], ReplyPlan(t)
  PROVE  ReplyPlanInv'
  <1>1. \A s \in Task : ReplyPlan(s) => ReplyPlan(s)'
    BY DEF ReplyPlan, SameEmails, Pair
  <1>2. \A q \in Requests : task'[q] = IF q = r THEN t ELSE task[q]
    BY DEF TypeOK
  <1>3. \A q \in Requests : task[q] \in Task
    BY DEF TypeOK
  <1> QED
    BY <1>1, <1>2, <1>3 DEF ReplyPlanInv

LEMMA GoReplyPlan ==
  ASSUME TypeOK, ReplyPlanInv, SameEmails, NEW r \in Requests,
         NEW pc \in {"load", "loadEmails", "loadDrafts", "write", "emit", "push"},
         Goto(r, pc) \/ Finish(r)
  PROVE  ReplyPlanInv'
  <1>1. CASE Goto(r, pc)
    <2>1. PICK t \in Task : t = [task[r] EXCEPT !.pc = pc]
      BY DEF TypeOK, Task
    <2>2. /\ t.user = task[r].user /\ t.to = task[r].to
          /\ t.reply = task[r].reply /\ t.thread = task[r].thread
      BY <2>1 DEF TypeOK, Task
    <2>3. ReplyPlan(t)
      BY <2>2 DEF ReplyPlanInv, ReplyPlan
    <2> QED
      BY <1>1, <2>1, <2>3, ReplyPlanKept DEF Goto
  <1>2. CASE Finish(r)
    <2>1. ReplyPlan(NoTask)
      BY DEF ReplyPlan, NoTask
    <2> QED
      BY <1>2, <2>1, NoTaskType, ReplyPlanKept DEF Finish
  <1> QED
    BY <1>1, <1>2

LEMMA BeginReplyPlan ==
  ASSUME TypeOK, ReplyPlanInv, SameEmails, NEW r \in Requests, NEW op, NEW t \in Task,
         Begin(r, op, t), ReplyPlan(t)
  PROVE  ReplyPlanInv'
  <1>1. op \in AllOperations
    BY OperationsAssumption DEF Begin
  <1>2. PICK s \in Task : s = [t EXCEPT !.op = op]
    BY <1>1 DEF Task
  <1>3. ReplyPlan(s)
    BY <1>2 DEF ReplyPlan, Task
  <1> QED
    BY <1>2, <1>3, ReplyPlanKept DEF Begin

LEMMA ReadConversation ==
  ASSUME TypeOK, ConversationInv, NEW r \in Requests, Read(r)
  PROVE  ConversationInv'
  <1> USE DEF ConversationInv
  <1>1. UNCHANGED <<rows, email>>
    BY DEF Read, SendRead, DetailRead, MarkReadRead, StarRead, DeleteRead, RestoreRead,
           RemovePermanentlyRead, EmptyTrashRead, DeleteBatchStart, Load, Removal
  <1>2. SameEmails
    BY <1>1 DEF SameEmails, Issued
  <1>3. ThreadInv' /\ LinkInv'
    BY <1>1 DEF ThreadInv, LinkInv, Issued, ThreadOf, Pair
  <1>4. ASSUME SendRead(r) PROVE ReplyPlanInv'
    <2>1. PICK u \in Users, to \in Users, reply \in rows \cup {None},
               use \in {{}} \cup {{d} : d \in DOMAIN draft} :
            /\ reply # None => ReplyAllowed(u, to, reply)
            /\ Begin(r, "send", SendTask(u, to, reply, use))
      BY <1>4 DEF SendRead
    <2>2. reply # None => ThreadOf(reply) \in EmailIds
      BY DEF ThreadOf, EmailRow, TypeOK
    <2>3. PICK t \in Task : t = SendTask(u, to, reply, use)
      BY <2>2 DEF SendTask, NoTask, Task, TypeOK, DraftsTypeOK
    <2>4. /\ t.user = u /\ t.to = to /\ t.reply = reply
          /\ t.thread = IF reply = None THEN None ELSE ThreadOf(reply)
      BY <2>3 DEF SendTask, NoTask
    <2>5. reply # None => /\ reply \in Issued
                          /\ email[reply].sender = to /\ email[reply].recipient = u
      BY <2>1 DEF ReplyAllowed, TypeOK
    <2>6. ReplyPlan(t)
      BY <2>4, <2>5 DEF ReplyPlan, ThreadInv, Pair
    <2> QED
      BY <1>2, <2>1, <2>3, <2>6, BeginReplyPlan
  <1>5. ASSUME NEW op, NEW t \in Task, t.reply = None, t.thread = None, Begin(r, op, t)
        PROVE  ReplyPlanInv'
    BY <1>2, <1>5, BeginReplyPlan DEF ReplyPlan
  <1>6. ASSUME NEW u \in Users, NEW e \in rows, NEW op, Load(r, u, op, e, "write")
        PROVE  ReplyPlanInv'
    <2>1. PICK t \in Task : t = [NoTask EXCEPT !.pc = "write", !.user = u, !.mark = {e}]
      BY DEF NoTask, Task, TypeOK
    <2> QED
      BY <1>5, <1>6, <2>1 DEF Load, NoTask
  <1>7. ASSUME DetailRead(r) \/ MarkReadRead(r) \/ StarRead(r) \/ DeleteRead(r)
                 \/ RestoreRead(r)
        PROVE  ReplyPlanInv'
    BY <1>6, <1>7 DEF DetailRead, MarkReadRead, StarRead, DeleteRead, RestoreRead
  <1>8. ASSUME NEW u \in Users, NEW op, NEW T \in SUBSET rows, Removal(r, u, op, T)
        PROVE  ReplyPlanInv'
    <2>1. PICK both \in SUBSET T :
            Begin(r, op, [NoTask EXCEPT !.pc = "write", !.user = u,
                                        !.kill = both, !.mark = T \ both])
      BY <1>8 DEF Removal
    <2>2. PICK t \in Task :
            t = [NoTask EXCEPT !.pc = "write", !.user = u,
                               !.kill = both, !.mark = T \ both]
      BY DEF NoTask, Task, TypeOK
    <2> QED
      BY <1>5, <2>1, <2>2 DEF NoTask
  <1>9. ASSUME RemovePermanentlyRead(r) \/ EmptyTrashRead(r) PROVE ReplyPlanInv'
    BY <1>8, <1>9 DEF RemovePermanentlyRead, EmptyTrashRead, Folder
  <1>10. ASSUME DeleteBatchStart(r) PROVE ReplyPlanInv'
    <2>1. PICK u \in Users, E \in SUBSET rows, D \in SUBSET DOMAIN draft :
            Begin(r, "deleteBatch",
              [NoTask EXCEPT !.pc = "load", !.user = u, !.mark = E, !.drafts = D])
      BY <1>10 DEF DeleteBatchStart
    <2>2. PICK t \in Task :
            t = [NoTask EXCEPT !.pc = "load", !.user = u, !.mark = E, !.drafts = D]
      BY DEF NoTask, Task, TypeOK, DraftsTypeOK
    <2> QED
      BY <1>5, <2>1, <2>2 DEF NoTask
  <1> QED
    BY <1>3, <1>4, <1>7, <1>9, <1>10 DEF Read

LEMMA ContinueConversation ==
  ASSUME TypeOK, ConversationInv, NEW r \in Requests, Continue(r)
  PROVE  ConversationInv'
  <1> USE DEF ConversationInv
  <1>1. ASSUME SendCommit(r) PROVE ConversationInv'
    <2>1. PICK id \in EmailIds \ Issued :
            /\ rows' = rows \cup {id}
            /\ email' = [e \in Issued \cup {id} |->
                 IF e = id THEN NewEmail(task[r]) ELSE email[e]]
            /\ task' = [task EXCEPT ![r].pc = "emit", ![r].mark = {id}]
            /\ task[r].reply \in rows \cup {None}
      BY <1>1 DEF SendCommit
    <2>2. Issued' = Issued \cup {id} /\ (\A e \in Issued : email'[e] = email[e])
      BY <2>1 DEF Issued
    <2>3. SameEmails
      BY <2>2 DEF SameEmails
    <2>4. PICK t \in Task : t = [task[r] EXCEPT !.pc = "emit", !.mark = {id}]
      BY DEF TypeOK, Task
    <2>5. task' = [task EXCEPT ![r] = t]
      BY <2>1, <2>4
    <2>6. /\ t.user = task[r].user /\ t.to = task[r].to
          /\ t.reply = task[r].reply /\ t.thread = task[r].thread
      BY <2>4 DEF TypeOK, Task
    <2>7. ReplyPlan(task[r]) /\ ReplyPlan(t)
      BY <2>6 DEF ReplyPlanInv, ReplyPlan
    <2>8. ReplyPlanInv'
      BY <2>3, <2>5, <2>7, ReplyPlanKept
    <2>9. email'[id] = NewEmail(task[r])
      BY <2>1
    <2>10. ThreadInv'
      <3>1. ASSUME NEW e \in Issued
            PROVE  ThreadOf(e)' \in Issued' /\ Pair(ThreadOf(e))' = Pair(e)'
        <4>1. ThreadOf(e)' = ThreadOf(e) /\ ThreadOf(e) \in Issued
          BY <2>2 DEF ThreadOf, ThreadInv
        <4> QED
          BY <2>2, <4>1 DEF Pair, ThreadInv
      <3>2. ThreadOf(id)' \in Issued' /\ Pair(ThreadOf(id))' = Pair(id)'
        <4>1. CASE task[r].thread = None
          BY <2>2, <2>9, <4>1 DEF ThreadOf, NewEmail
        <4>2. CASE task[r].thread # None
          <5>1. ThreadOf(id)' = task[r].thread
            BY <2>9, <4>2 DEF ThreadOf, NewEmail
          <5>2. task[r].thread \in Issued /\ Pair(task[r].thread) = {task[r].user, task[r].to}
            BY <2>7, <4>2 DEF ReplyPlan
          <5>3. Pair(id)' = {task[r].user, task[r].to}
            BY <2>9 DEF Pair, NewEmail
          <5> QED
            BY <2>2, <5>1, <5>2, <5>3 DEF Pair
        <4> QED
          BY <4>1, <4>2
      <3> QED
        BY <2>2, <3>1, <3>2 DEF ThreadInv
    <2>11. LinkInv'
      BY <2>1, <2>2, <2>7, <2>9 DEF LinkInv, ReplyPlan, NewEmail, TypeOK
    <2> QED
      BY <2>8, <2>10, <2>11
  <1>2. ASSUME NEW pc \in {"load", "loadEmails", "loadDrafts", "write", "emit", "push"},
               Goto(r, pc) \/ Finish(r), UNCHANGED <<rows, email>>
        PROVE  ConversationInv'
    <2>1. SameEmails
      BY <1>2 DEF SameEmails, Issued
    <2>2. ReplyPlanInv'
      BY <1>2, <2>1, GoReplyPlan
    <2> QED
      BY <1>2, <2>2 DEF ThreadInv, LinkInv, Issued, ThreadOf, Pair
  <1>3. ASSUME SendLoadDraft(r) \/ DeleteBatchEmails(r) \/ DeleteBatchDrafts(r)
                 \/ Push(r) \/ DbError(r) \/ Emit(r)
        PROVE  ConversationInv'
    BY <1>2, <1>3 DEF SendLoadDraft, DeleteBatchEmails, DeleteBatchDrafts,
                      DeleteBatchLoad, Push, DbError, Emit
  <1>4. ASSUME NEW op, NEW next \in {"emit", "done"}, Update(r, op, next)
        PROVE  ConversationInv'
    <2>1. /\ SameEmails /\ Issued' = Issued /\ rows' = rows \ task[r].kill
          /\ \A e \in Issued : email'[e].replyTo =
               IF email[e].replyTo \in task[r].kill THEN None ELSE email[e].replyTo
      BY <1>4, UpdateKeeps, UpdateType DEF Update
    <2>2. ReplyPlanInv'
      BY <1>4, <2>1, GoReplyPlan DEF Update
    <2>3. ThreadInv'
      BY <2>1 DEF ThreadInv, ThreadOf, Pair, SameEmails
    <2>4. LinkInv'
      BY <2>1 DEF LinkInv, SameEmails, TypeOK
    <2> QED
      BY <2>2, <2>3, <2>4
  <1>5. ASSUME DetailWrite(r) \/ MarkReadWrite(r) \/ StarWrite(r) \/ DeleteWrite(r)
                 \/ RestoreWrite(r) \/ RemovalWrite(r) \/ DeleteBatchWrite(r)
        PROVE  ConversationInv'
    BY <1>4, <1>5 DEF DetailWrite, MarkReadWrite, StarWrite, DeleteWrite, RestoreWrite,
                      RemovalWrite, DeleteBatchWrite
  <1> QED
    BY <1>1, <1>3, <1>5 DEF Continue

LEMMA ConversationStep ==
  ASSUME TypeOK, ConversationInv, [Next]_vars
  PROVE  ConversationInv'
  <1>1. ASSUME NEW r \in Requests, Read(r) PROVE ConversationInv'
    BY <1>1, ReadConversation
  <1>2. ASSUME NEW r \in Requests, Continue(r) PROVE ConversationInv'
    BY <1>2, ContinueConversation
  <1>3. ASSUME UNCHANGED mailboxVars PROVE ConversationInv'
    BY <1>3 DEF mailboxVars, ConversationInv, ReplyPlanInv, ReplyPlan,
                ThreadInv, LinkInv, Issued, ThreadOf, Pair
  <1>4. CASE Crash
    BY <1>4 DEF Crash, ConversationInv, ReplyPlanInv, ReplyPlan, NoTask,
                ThreadInv, LinkInv, Issued, ThreadOf, Pair
  <1> QED
    BY <1>1, <1>2, <1>3, <1>4 DEF Next, vars

LEMMA ConversationCorrect == Spec => []ConversationInv
  <1>1. Init => ConversationInv
    BY DEF Init, ConversationInv, ReplyPlanInv, ReplyPlan, NoTask, ThreadInv, LinkInv, Issued
  <1>2. TypeOK /\ ConversationInv /\ [Next]_vars => ConversationInv'
    BY ConversationStep
  <1> QED
    BY <1>1, <1>2, TypeCorrect, PTL DEF Spec

(* All emails of one thread are between the same two users.                *)
THEOREM ThreadsAreOfOnePair == Spec => []ThreadOfOnePair
  <1>1. ConversationInv => ThreadOfOnePair
    BY DEF ConversationInv, ThreadInv, ThreadOfOnePair
  <1> QED
    BY <1>1, ConversationCorrect, PTL

(* A linked reply answers an existing email, from recipient to sender.     *)
THEOREM RepliesAnswer == Spec => []ReplyAnswers
  <1>1. TypeOK /\ ConversationInv => ReplyAnswers
    BY DEF ConversationInv, LinkInv, ReplyAnswers, TypeOK
  <1> QED
    BY <1>1, ConversationCorrect, TypeCorrect, PTL
-----------------------------------------------------------------------------
(* The request that is to announce an email knows whom it is to.           *)
DueTo(r, e) == Due(r, e) /\ task[r].to = email[e].recipient

DueInv ==
  \A e \in Issued : Announced(e) \/ crashes > 0 \/ \E r \in Requests : DueTo(r, e)

(* A step of a request that has nothing to announce.                       *)
LEMMA DueKept ==
  ASSUME DueInv, SameEmails, Issued' = Issued, announced \subseteq announced',
         UNCHANGED crashes, NEW r \in Requests, NEW t, task' = [task EXCEPT ![r] = t],
         task[r].pc # "emit" \/ task[r].op # "send"
  PROVE  DueInv'
  <1> SUFFICES ASSUME NEW e \in Issued
               PROVE  (Announced(e) \/ crashes > 0 \/ \E q \in Requests : DueTo(q, e))'
    BY DEF DueInv
  <1>1. email'[e].recipient = email[e].recipient
    BY DEF SameEmails
  <1>2. Announced(e) => Announced(e)'
    BY <1>1 DEF Announced
  <1>3. ASSUME NEW q \in Requests, DueTo(q, e) PROVE DueTo(q, e)'
    <2>1. q # r
      BY <1>3 DEF DueTo, Due
    <2>2. task'[q] = task[q]
      BY <2>1
    <2> QED
      BY <1>1, <1>3, <2>2 DEF DueTo, Due
  <1> QED
    BY <1>2, <1>3 DEF DueInv

LEMMA ReadDue ==
  ASSUME TypeOK, DueInv, NEW r \in Requests, Read(r)
  PROVE  DueInv'
  <1>1. UNCHANGED <<email, announced, crashes>>
    BY DEF Read, SendRead, DetailRead, MarkReadRead, StarRead, DeleteRead, RestoreRead,
           RemovePermanentlyRead, EmptyTrashRead, DeleteBatchStart, Load, Removal
  <1>2. PICK op, t : Begin(r, op, t)
    BY DEF Read, SendRead, DetailRead, MarkReadRead, StarRead, DeleteRead, RestoreRead,
           RemovePermanentlyRead, EmptyTrashRead, DeleteBatchStart, Load, Removal
  <1>3. SameEmails /\ Issued' = Issued
    BY <1>1 DEF SameEmails, Issued
  <1> QED
    BY <1>1, <1>2, <1>3, DueKept DEF Begin

LEMMA ContinueDue ==
  ASSUME TypeOK, DueInv, NEW r \in Requests, Continue(r)
  PROVE  DueInv'
  <1>1. ASSUME SendCommit(r) PROVE DueInv'
    <2>1. PICK id \in EmailIds \ Issued :
            /\ email' = [e \in Issued \cup {id} |->
                 IF e = id THEN NewEmail(task[r]) ELSE email[e]]
            /\ task' = [task EXCEPT ![r].pc = "emit", ![r].mark = {id}]
      BY <1>1 DEF SendCommit
    <2>2. UNCHANGED <<announced, crashes>> /\ task[r].pc = "write" /\ task[r].op = "send"
      BY <1>1 DEF SendCommit, AtWrite
    <2>3. /\ Issued' = Issued \cup {id} /\ email'[id].recipient = task[r].to
          /\ \A e \in Issued : email'[e] = email[e]
      BY <2>1 DEF Issued, NewEmail
    <2>4. DueTo(r, id)'
      BY <2>1, <2>2, <2>3 DEF DueTo, Due, TypeOK, Task
    <2>5. ASSUME NEW e \in Issued, NEW q \in Requests, DueTo(q, e) PROVE DueTo(q, e)'
      <3>1. q # r
        BY <2>2, <2>5 DEF DueTo, Due
      <3>2. task'[q] = task[q]
        BY <2>1, <3>1 DEF TypeOK
      <3> QED
        BY <2>3, <2>5, <3>2 DEF DueTo, Due
    <2>6. \A e \in Issued : Announced(e) => Announced(e)'
      BY <2>2, <2>3 DEF Announced
    <2> QED
      BY <2>2, <2>3, <2>4, <2>5, <2>6 DEF DueInv
  <1>2. ASSUME Emit(r), task[r].op = "send" PROVE DueInv'
    <2>1. /\ announced' = announced \cup AnnouncedTo(task[r]) /\ UNCHANGED <<email, crashes>>
          /\ \A q \in Requests : q # r => task'[q] = task[q]
      BY <1>2 DEF Emit, Goto, TypeOK
    <2>2. ASSUME NEW e \in Issued, DueTo(r, e) PROVE Announced(e)'
      BY <2>1, <2>2 DEF DueTo, Due, AnnouncedTo, Announced
    <2>3. ASSUME NEW e \in Issued, NEW q \in Requests, q # r, DueTo(q, e) PROVE DueTo(q, e)'
      BY <2>1, <2>3 DEF DueTo, Due
    <2>4. Issued' = Issued /\ \A e \in Issued : Announced(e) => Announced(e)'
      BY <2>1 DEF Issued, Announced
    <2> QED
      BY <2>1, <2>2, <2>3, <2>4 DEF DueInv
  <1>3. ASSUME Goto(r, "load") \/ Goto(r, "loadEmails") \/ Goto(r, "loadDrafts") \/ Goto(r, "write")
                 \/ Goto(r, "emit") \/ Goto(r, "push") \/ Finish(r),
               SameEmails, Issued' = Issued, UNCHANGED <<announced, crashes>>,
               task[r].pc # "emit" \/ task[r].op # "send"
        PROVE  DueInv'
    <2>1. PICK t : task' = [task EXCEPT ![r] = t]
      BY <1>3 DEF Goto, Finish, TypeOK
    <2> QED
      BY <1>3, <2>1, DueKept
  <1>4. ASSUME SendLoadDraft(r) \/ DeleteBatchEmails(r) \/ DeleteBatchDrafts(r) \/ Push(r) \/ DbError(r)
        PROVE  DueInv'
    <2>1. UNCHANGED <<email, announced, crashes>> /\ task[r].pc # "emit"
      BY <1>4 DEF SendLoadDraft, DeleteBatchEmails, DeleteBatchDrafts, DeleteBatchLoad, Push, DbError
    <2>2. SameEmails /\ Issued' = Issued
      BY <2>1 DEF SameEmails, Issued
    <2> QED
      BY <1>3, <1>4, <2>1, <2>2 DEF SendLoadDraft, DeleteBatchEmails, DeleteBatchDrafts,
         DeleteBatchLoad, Push, DbError
  <1>5. ASSUME Emit(r), task[r].op # "send" PROVE DueInv'
    <2>1. UNCHANGED <<email, announced, crashes>> /\ Finish(r)
      BY <1>5 DEF Emit
    <2>2. SameEmails /\ Issued' = Issued
      BY <2>1 DEF SameEmails, Issued
    <2> QED
      BY <1>3, <1>5, <2>1, <2>2
  <1>6. ASSUME NEW op, NEW next \in {"emit", "done"}, Update(r, op, next) PROVE DueInv'
    <2>1. SameEmails /\ Issued' = Issued
      BY <1>6, UpdateKeeps, UpdateType
    <2>2. UNCHANGED <<announced, crashes>> /\ task[r].pc = "write" /\ (Finish(r) \/ Goto(r, next))
      BY <1>6 DEF Update, AtWrite
    <2> QED
      BY <1>3, <1>6, <2>1, <2>2 DEF Update
  <1>7. ASSUME DetailWrite(r) \/ MarkReadWrite(r) \/ StarWrite(r) \/ DeleteWrite(r)
                 \/ RestoreWrite(r) \/ RemovalWrite(r) \/ DeleteBatchWrite(r)
        PROVE  DueInv'
    BY <1>6, <1>7 DEF DetailWrite, MarkReadWrite, StarWrite, DeleteWrite, RestoreWrite,
                      RemovalWrite, DeleteBatchWrite
  <1> QED
    BY <1>1, <1>2, <1>4, <1>5, <1>7 DEF Continue

LEMMA DueStep ==
  ASSUME TypeOK, DueInv, [Next]_vars
  PROVE  DueInv'
  <1>1. ASSUME NEW r \in Requests, Read(r) PROVE DueInv'
    BY <1>1, ReadDue
  <1>2. ASSUME NEW r \in Requests, Continue(r) PROVE DueInv'
    BY <1>2, ContinueDue
  <1>3. ASSUME UNCHANGED mailboxVars PROVE DueInv'
    <2>1. UNCHANGED <<email, task, announced, crashes>>
      BY <1>3 DEF mailboxVars
    <2> QED
      BY <2>1 DEF DueInv, DueTo, Due, Announced, Issued
  <1>4. CASE Crash
    BY <1>4, MaxCrashesAssumption DEF Crash, DueInv, TypeOK
  <1> QED
    BY <1>1, <1>2, <1>3, <1>4 DEF Next, vars

(* An email is announced, or about to be, as long as the process lives.    *)
THEOREM EmailsAreAnnounced == Spec => []EveryEmailAnnounced
  <1>1. Init => DueInv
    BY DEF Init, DueInv, Issued
  <1>2. TypeOK /\ DueInv /\ [Next]_vars => DueInv'
    BY DueStep
  <1>3. DueInv => EveryEmailAnnounced
    BY DEF DueInv, DueTo, EveryEmailAnnounced
  <1> QED
    BY <1>1, <1>2, <1>3, TypeCorrect, PTL DEF Spec
-----------------------------------------------------------------------------
(* Drafts.  What a call read of a draft's owner stays true unless the      *)
(* draft is claimed, because only a claim changes owners; what a request   *)
(* of the mailbox looked up stays the user's, because a claim takes drafts *)
(* that no user has.  A draft that was sent has a user, who keeps it: a    *)
(* call that has lost it to a claim had found it before it was sent.       *)

OneOwner == \A d \in DOMAIN draft : draft[d].user # None => draft[d].device = None

CallInv ==
  \A c \in Calls : call[c].op # "none" =>
    /\ call[c].draft \in DOMAIN draft
    /\ call[c].lost \/ OwnerOf(call[c].draft) = call[c].owner
    /\ call[c].lost /\ call[c].draft \in sent => call[c].early
    /\ call[c].copy.user # None => call[c].copy.device = None

UsersDrafts(t) == \A d \in t.drafts : d \in DOMAIN draft /\ draft[d].user = t.user

LookUpInv == \A r \in Requests : LookedUp(task[r]) => UsersDrafts(task[r])

SentInv == \A d \in sent : d \in DOMAIN draft /\ draft[d].user # None

DraftsInv == OneOwner /\ CallInv /\ LookUpInv /\ SentInv

(* Drafts stay, and so do their owners.                                    *)
SameOwners ==
  \A d \in DOMAIN draft :
    /\ d \in DOMAIN draft'
    /\ draft'[d].user = draft[d].user /\ draft'[d].device = draft[d].device

LEMMA CallsKept ==
  ASSUME DraftsTypeOK, CallInv, SameOwners, sent' = sent,
         \A c \in Calls : call'[c].op = "none" \/ call'[c] = call[c]
  PROVE  CallInv'
  <1> SUFFICES ASSUME NEW c \in Calls, call'[c].op # "none"
               PROVE  /\ call'[c].draft \in DOMAIN draft'
                      /\ call'[c].lost \/ OwnerOf(call[c].draft)' = call'[c].owner
                      /\ call'[c].lost /\ call'[c].draft \in sent' => call'[c].early
                      /\ call'[c].copy.user # None => call'[c].copy.device = None
    BY DEF CallInv, OwnerOf
  <1>1. call'[c] = call[c] /\ call[c].draft \in DOMAIN draft
    BY DEF CallInv
  <1>2. OwnerOf(call[c].draft)' = OwnerOf(call[c].draft)
    BY <1>1 DEF OwnerOf, SameOwners
  <1> QED
    BY <1>1, <1>2 DEF CallInv, SameOwners

(* A request that goes on, with drafts that are its user's if it has       *)
(* looked them up.                                                         *)
LEMMA LookUpsKept ==
  ASSUME TypeOK, LookUpInv, SameOwners, NEW r \in Requests, NEW t,
         task' = [task EXCEPT ![r] = t], LookedUp(t) => UsersDrafts(t)
  PROVE  LookUpInv'
  <1> SUFFICES ASSUME NEW q \in Requests, LookedUp(task[q])'
               PROVE  \A d \in task'[q].drafts :
                        d \in DOMAIN draft' /\ draft'[d].user = task'[q].user
    BY DEF LookUpInv, UsersDrafts
  <1>1. \A d \in task'[q].drafts : d \in DOMAIN draft /\ draft[d].user = task'[q].user
    <2>1. CASE q = r
      BY <2>1 DEF TypeOK, LookedUp, UsersDrafts
    <2>2. CASE q # r
      BY <2>2 DEF LookUpInv, TypeOK, LookedUp, UsersDrafts
    <2> QED
      BY <2>1, <2>2
  <1> QED
    BY <1>1 DEF SameOwners

(* DraftsController's calls.                                               *)
LEMMA ControllerDrafts ==
  ASSUME TypeOK, TaskUsers, DraftsInv, DraftsNext, UNCHANGED mailboxVars
  PROVE  DraftsInv'
  <1> USE DEF DraftsInv
  <1>1. DraftsTypeOK /\ task' = task
    BY DEF TypeOK, mailboxVars
  <1>2. ASSUME NEW c \in Calls, EndCall(c), SameOwners, sent' = sent PROVE CallInv'
    <2>1. \A b \in Calls : call'[b].op = "none" \/ call'[b] = call[b]
      BY <1>1, <1>2 DEF EndCall, NoCall, DraftsTypeOK
    <2> QED
      BY <1>1, <1>2, <2>1, CallsKept
  <1>3. ASSUME SameOwners PROVE LookUpInv'
    BY <1>1, <1>3 DEF LookUpInv, LookedUp, UsersDrafts, SameOwners
  <1>4. ASSUME NEW d \in DraftIds \ DOMAIN draft, NEW row, draft' = With(d, row)
        PROVE  /\ DOMAIN draft' = DOMAIN draft \cup {d}
               /\ draft'[d] = row
               /\ \A x \in DOMAIN draft : draft'[x] = draft[x]
               /\ SameOwners
    BY <1>4 DEF With, SameOwners
  <1>5. CASE CreateDraft
    <2>1. PICK owner \in Owners, d \in DraftIds \ DOMAIN draft : draft' = With(d, Drafted(owner))
      BY <1>5 DEF CreateDraft
    <2>2. OneOwner'
      <3>1. Drafted(owner).user # None => Drafted(owner).device = None
        BY DEF Drafted, Owners
      <3> QED
        BY <1>4, <2>1, <3>1 DEF OneOwner
    <2>3. CallInv'
      BY <1>1, <1>4, <1>5, <2>1, CallsKept DEF CreateDraft
    <2>4. SentInv'
      BY <1>4, <1>5, <2>1 DEF CreateDraft, SentInv
    <2> QED
      BY <1>3, <1>4, <2>1, <2>2, <2>3, <2>4
  <1>6. ASSUME NEW c \in Calls, FindDraft(c) PROVE DraftsInv'
    <2>1. PICK owner \in Owners, d \in DOMAIN draft,
               op \in {"update", "updateStatus", "duplicate"}, status \in EmailStatus :
            /\ OwnerWhere(owner, d)
            /\ op = "update" => draft[d].status = "DRAFT"
            /\ op # "updateStatus" => status = "DRAFT"
            /\ call' = [call EXCEPT ![c] = CallOn(d, op, owner, status)]
      BY <1>6 DEF FindDraft
    <2>2. UNCHANGED <<draft, sent>>
      BY <1>6 DEF FindDraft
    <2>3. OwnerOf(d) = owner
      <3>1. CASE owner.user # None
        BY <2>1, <3>1 DEF OwnerWhere, OwnerOf, Owners
      <3>2. CASE owner.user = None
        <4>1. draft[d].device = owner.device /\ owner.device \in Devices
          BY <2>1, <3>2, NoDraftAssumption DEF OwnerWhere, Owners
        <4>2. draft[d].user = None
          BY <4>1, NoDraftAssumption DEF OneOwner
        <4> QED
          BY <3>2, <4>1, <4>2 DEF OwnerOf, Owners
      <3> QED
        BY <3>1, <3>2
    <2>4. CallInv'
      <3> SUFFICES ASSUME NEW b \in Calls, call'[b].op # "none"
                   PROVE  /\ call'[b].draft \in DOMAIN draft
                          /\ call'[b].lost \/ OwnerOf(call'[b].draft) = call'[b].owner
                          /\ call'[b].lost /\ call'[b].draft \in sent => call'[b].early
                          /\ call'[b].copy.user # None => call'[b].copy.device = None
        BY <2>2 DEF CallInv, OwnerOf
      <3>1. CASE b = c
        <4>1. call'[b] = CallOn(d, op, owner, status)
          BY <1>1, <2>1, <3>1 DEF DraftsTypeOK
        <4> QED
          BY <2>3, <4>1 DEF CallOn, OneOwner
      <3>2. CASE b # c
        BY <1>1, <2>1, <3>2 DEF CallInv, DraftsTypeOK
      <3> QED
        BY <3>1, <3>2
    <2> QED
      BY <1>1, <2>2, <2>4 DEF OneOwner, LookUpInv, LookedUp, UsersDrafts, SentInv
  <1>7. ASSUME NEW c \in Calls, UpdateDraft(c) \/ CallFails(c) PROVE DraftsInv'
    <2>1. draft' = draft /\ sent' = sent /\ EndCall(c)
      BY <1>1, <1>7 DEF UpdateDraft, CallFails, Edited, DraftsTypeOK
    <2>2. SameOwners
      BY <2>1 DEF SameOwners
    <2> QED
      BY <1>2, <1>3, <2>1, <2>2 DEF OneOwner, SentInv
  <1>8. ASSUME NEW c \in Calls, UpdateStatus(c) PROVE DraftsInv'
    <2>1. PICK d \in DOMAIN draft : d = call[c].draft
      BY <1>8 DEF CallInv, UpdateStatus, AtCall
    <2>2. draft' = [draft EXCEPT ![d].status = call[c].status]
      BY <1>8, <2>1 DEF UpdateStatus
    <2>3. /\ DOMAIN draft' = DOMAIN draft /\ SameOwners
          /\ \A x \in DOMAIN draft : x # d => draft'[x] = draft[x]
          /\ draft'[d].status = call[c].status
      BY <1>1, <2>2 DEF SameOwners, DraftsTypeOK, DraftRow
    <2>4. SentInv'
      BY <1>8, <2>3 DEF UpdateStatus, SentInv, SameOwners
    <2>5. OneOwner'
      BY <2>3 DEF OneOwner, SameOwners
    <2> QED
      BY <1>2, <1>3, <1>8, <2>3, <2>4, <2>5 DEF UpdateStatus
  <1>9. ASSUME NEW c \in Calls, DuplicateDraft(c) PROVE DraftsInv'
    <2>1. PICK d \in DraftIds \ DOMAIN draft : draft' = With(d, Drafted(call[c].copy))
      BY <1>9 DEF DuplicateDraft
    <2>2. call[c].copy.user # None => call[c].copy.device = None
      BY <1>9 DEF CallInv, DuplicateDraft, AtCall
    <2>3. OneOwner'
      <3>1. Drafted(call[c].copy).user # None => Drafted(call[c].copy).device = None
        BY <2>2 DEF Drafted
      <3> QED
        BY <1>4, <2>1, <3>1 DEF OneOwner
    <2>4. SentInv'
      BY <1>4, <1>9, <2>1 DEF DuplicateDraft, SentInv
    <2> QED
      BY <1>2, <1>3, <1>4, <1>9, <2>1, <2>3, <2>4 DEF DuplicateDraft
  <1>10. ASSUME NEW u \in Users, NEW device \in Devices, ClaimDeviceDrafts(u, device)
         PROVE  DraftsInv'
    <2> DEFINE D == {d \in DOMAIN draft : draft[d].user = None /\ draft[d].device = device}
    <2>1. /\ draft' = [d \in DOMAIN draft |->
               IF d \in D THEN Claimed(draft[d], u) ELSE draft[d]]
          /\ call' = [c \in Calls |->
               IF call[c].draft \in D THEN [call[c] EXCEPT !.lost = TRUE] ELSE call[c]]
          /\ sent' = sent
      BY <1>10 DEF ClaimDeviceDrafts
    <2>2. \A d \in D : /\ Claimed(draft[d], u).user = u
                       /\ Claimed(draft[d], u).device = None
                       /\ Claimed(draft[d], u).status = draft[d].status
      BY <1>1 DEF Claimed, DraftsTypeOK, DraftRow
    <2>3. OneOwner'
      BY <2>1, <2>2 DEF OneOwner
    <2>4. SentInv' /\ \A d \in D : d \notin sent
      BY <2>1 DEF SentInv
    <2>5. LookUpInv'
      <3> SUFFICES ASSUME NEW r \in Requests, LookedUp(task[r]), NEW d \in task[r].drafts
                   PROVE  d \in DOMAIN draft' /\ draft'[d].user = task[r].user
        BY <1>1 DEF LookUpInv, LookedUp, UsersDrafts
      <3>1. d \in DOMAIN draft /\ draft[d].user = task[r].user
        BY DEF LookUpInv, UsersDrafts
      <3>2. task[r].user # None
        BY NoDraftAssumption DEF TaskUsers, LookedUp
      <3> QED
        BY <2>1, <3>1, <3>2
    <2>6. CallInv'
      <3> SUFFICES ASSUME NEW c \in Calls, call'[c].op # "none"
                   PROVE  /\ call'[c].draft \in DOMAIN draft'
                          /\ call'[c].lost \/ OwnerOf(call[c].draft)' = call'[c].owner
                          /\ call'[c].lost /\ call'[c].draft \in sent' => call'[c].early
                          /\ call'[c].copy.user # None => call'[c].copy.device = None
        BY DEF CallInv, OwnerOf
      <3>1. CASE call[c].draft \in D
        <4>1. call'[c] = [call[c] EXCEPT !.lost = TRUE] /\ call[c] \in Call
          BY <1>1, <2>1, <3>1 DEF DraftsTypeOK
        <4>2. call[c] # NoCall
          BY <1>1, <3>1, NoDraftAssumption DEF NoCall, DraftsTypeOK
        <4>3. /\ call'[c].lost /\ call'[c].draft = call[c].draft
              /\ call'[c].copy = call[c].copy /\ call'[c].op = call[c].op
          BY <4>1, <4>2 DEF Call
        <4>4. call'[c].draft \notin sent'
          BY <2>1, <2>4, <3>1, <4>3
        <4>5. DOMAIN draft' = DOMAIN draft
          BY <2>1
        <4> QED
          BY <3>1, <4>3, <4>4, <4>5 DEF CallInv
      <3>2. CASE call[c].draft \notin D
        <4>1. call'[c] = call[c] /\ call[c].draft \in DOMAIN draft
          BY <2>1, <3>2 DEF CallInv
        <4>2. draft'[call[c].draft] = draft[call[c].draft]
          BY <2>1, <3>2, <4>1
        <4>3. OwnerOf(call[c].draft)' = OwnerOf(call[c].draft)
          BY <4>1, <4>2 DEF OwnerOf
        <4>4. DOMAIN draft' = DOMAIN draft /\ sent' = sent
          BY <2>1
        <4> QED
          BY <4>1, <4>3, <4>4 DEF CallInv
      <3> QED
        BY <3>1, <3>2
    <2> QED
      BY <2>3, <2>4, <2>5, <2>6
  <1> QED
    BY <1>5, <1>6, <1>7, <1>8, <1>9, <1>10 DEF DraftsNext

LEMMA ReadDrafts ==
  ASSUME TypeOK, DraftsInv, NEW r \in Requests, Read(r)
  PROVE  DraftsInv'
  <1> USE DEF DraftsInv
  <1>1. UNCHANGED draftVars
    BY DEF Read, SendRead, DetailRead, MarkReadRead, StarRead, DeleteRead, RestoreRead,
           RemovePermanentlyRead, EmptyTrashRead, DeleteBatchStart, Load, Removal
  <1>2. SameOwners
    BY <1>1 DEF SameOwners, draftVars
  <1>3. ASSUME NEW op, NEW t, Begin(r, op, t), t \in Task,
               t.drafts = {} \/ (op = "deleteBatch" /\ t.pc = "load")
        PROVE  LookUpInv'
    <2>1. op \in AllOperations
      BY <1>3, OperationsAssumption DEF Begin
    <2>2. PICK s \in Task : s = [t EXCEPT !.op = op]
      BY <1>3, <2>1 DEF Task
    <2>3. s.op = op /\ s.pc = t.pc /\ s.drafts = t.drafts
      BY <1>3, <2>2 DEF Task
    <2>4. LookedUp(s) => UsersDrafts(s)
      BY <1>3, <2>3 DEF LookedUp, UsersDrafts
    <2> QED
      BY <1>2, <1>3, <2>2, <2>4, LookUpsKept DEF Begin
  <1>4. ASSUME SendRead(r) PROVE LookUpInv'
    <2>1. PICK u \in Users, to \in Users, reply \in rows \cup {None},
               use \in {{}} \cup {{d} : d \in DOMAIN draft} :
            Begin(r, "send", SendTask(u, to, reply, use))
      BY <1>4 DEF SendRead
    <2>2. reply # None => ThreadOf(reply) \in EmailIds \cup {None}
      BY DEF ThreadOf, EmailRow, TypeOK
    <2>3. PICK t \in Task : t = SendTask(u, to, reply, use)
      BY <2>2 DEF SendTask, NoTask, Task, TypeOK, DraftsTypeOK
    <2>4. CASE use = {}
      <3>1. t.drafts = {}
        BY <2>3, <2>4 DEF SendTask, NoTask
      <3> QED
        BY <1>3, <2>1, <2>3, <3>1
    <2>5. CASE use # {}
      <3>1. t.pc = "loadDrafts"
        BY <2>3, <2>5 DEF SendTask, NoTask
      <3>2. PICK s \in Task : s = [t EXCEPT !.op = "send"]
        BY DEF Task, AllOperations
      <3>3. ~LookedUp(s)
        BY <3>1, <3>2 DEF LookedUp, Task
      <3> QED
        BY <1>2, <2>1, <2>3, <3>2, <3>3, LookUpsKept DEF Begin
    <2> QED
      BY <2>4, <2>5
  <1>5. ASSUME NEW u \in Users, NEW e \in rows, NEW op, Load(r, u, op, e, "write")
        PROVE  LookUpInv'
    <2>1. PICK t \in Task : t = [NoTask EXCEPT !.pc = "write", !.user = u, !.mark = {e}]
      BY DEF NoTask, Task, TypeOK
    <2> QED
      BY <1>3, <1>5, <2>1 DEF Load, NoTask
  <1>6. ASSUME DetailRead(r) \/ MarkReadRead(r) \/ StarRead(r) \/ DeleteRead(r)
                 \/ RestoreRead(r)
        PROVE  LookUpInv'
    BY <1>5, <1>6 DEF DetailRead, MarkReadRead, StarRead, DeleteRead, RestoreRead
  <1>7. ASSUME NEW u \in Users, NEW op, NEW T \in SUBSET rows, Removal(r, u, op, T)
        PROVE  LookUpInv'
    <2>1. PICK both \in SUBSET T :
            Begin(r, op, [NoTask EXCEPT !.pc = "write", !.user = u,
                                        !.kill = both, !.mark = T \ both])
      BY <1>7 DEF Removal
    <2>2. PICK t \in Task :
            t = [NoTask EXCEPT !.pc = "write", !.user = u,
                               !.kill = both, !.mark = T \ both]
      BY DEF NoTask, Task, TypeOK
    <2> QED
      BY <1>3, <2>1, <2>2 DEF NoTask
  <1>8. ASSUME RemovePermanentlyRead(r) \/ EmptyTrashRead(r) PROVE LookUpInv'
    BY <1>7, <1>8 DEF RemovePermanentlyRead, EmptyTrashRead, Folder
  <1>9. ASSUME DeleteBatchStart(r) PROVE LookUpInv'
    <2>1. PICK u \in Users, E \in SUBSET rows, D \in SUBSET DOMAIN draft :
            Begin(r, "deleteBatch",
              [NoTask EXCEPT !.pc = "load", !.user = u, !.mark = E, !.drafts = D])
      BY <1>9 DEF DeleteBatchStart
    <2>2. PICK t \in Task :
            t = [NoTask EXCEPT !.pc = "load", !.user = u, !.mark = E, !.drafts = D]
      BY DEF NoTask, Task, TypeOK, DraftsTypeOK
    <2> QED
      BY <1>3, <2>1, <2>2 DEF NoTask
  <1>10. LookUpInv'
    BY <1>4, <1>6, <1>8, <1>9 DEF Read
  <1>11. CallInv'
    BY <1>1 DEF CallInv, OwnerOf, draftVars
  <1> QED
    BY <1>1, <1>10, <1>11 DEF OneOwner, SentInv, draftVars

LEMMA ContinueDrafts ==
  ASSUME TypeOK, TaskUsers, DraftsInv, NEW r \in Requests, Continue(r)
  PROVE  DraftsInv'
  <1> USE DEF DraftsInv
  <1>1. /\ task[r] \in Task /\ DraftsTypeOK
        /\ LookedUp(task[r]) => UsersDrafts(task[r])
    BY DEF TypeOK, LookUpInv
  <1>2. ASSUME UNCHANGED draftVars, NEW t, task' = [task EXCEPT ![r] = t],
               LookedUp(t) => UsersDrafts(t)
        PROVE  DraftsInv'
    <2>1. SameOwners
      BY <1>2 DEF SameOwners, draftVars
    <2>2. LookUpInv'
      BY <1>2, <2>1, LookUpsKept
    <2>3. CallInv'
      BY <1>2 DEF CallInv, OwnerOf, draftVars
    <2> QED
      BY <1>2, <2>2, <2>3 DEF OneOwner, SentInv, draftVars
  <1>3. ASSUME NEW pc, Goto(r, pc) \/ Finish(r),
               LookedUp([task[r] EXCEPT !.pc = pc]) => UsersDrafts(task[r])
        PROVE  \E t : /\ task' = [task EXCEPT ![r] = t]
                      /\ LookedUp(t) => UsersDrafts(t)
    <2>1. CASE Finish(r)
      <3>1. ~LookedUp(NoTask)
        BY DEF LookedUp, NoTask
      <3> QED
        BY <2>1, <3>1 DEF Finish
    <2>2. CASE Goto(r, pc)
      <3>1. task' = [task EXCEPT ![r] = [task[r] EXCEPT !.pc = pc]]
        BY <2>2 DEF Goto
      <3>2. /\ [task[r] EXCEPT !.pc = pc].drafts = task[r].drafts
            /\ [task[r] EXCEPT !.pc = pc].user = task[r].user
        BY <1>1 DEF Task
      <3>3. UsersDrafts(task[r]) => UsersDrafts([task[r] EXCEPT !.pc = pc])
        BY <3>2 DEF UsersDrafts
      <3> QED
        BY <1>3, <3>1, <3>3
    <2> QED
      BY <1>3, <2>1, <2>2
  <1>4. ASSUME NEW pc \in {"emit", "push"}, Goto(r, pc) \/ Finish(r)
        PROVE  \E t : /\ task' = [task EXCEPT ![r] = t]
                      /\ LookedUp(t) => UsersDrafts(t)
    <2>1. [task[r] EXCEPT !.pc = pc].pc = pc
      BY <1>1 DEF Task
    <2>2. ~LookedUp([task[r] EXCEPT !.pc = pc])
      BY <2>1 DEF LookedUp
    <2> QED
      BY <1>3, <1>4, <2>2
  <1>5. ASSUME task[r].drafts \subseteq OwnDrafts(task[r].user)
        PROVE  UsersDrafts(task[r])
    BY <1>5 DEF UsersDrafts, OwnDrafts
  <1>6. CASE SendLoadDraft(r)
    <2>1. \/ Finish(r)
          \/ Goto(r, "write") /\ task[r].drafts \subseteq OwnDrafts(task[r].user)
      BY <1>6 DEF SendLoadDraft
    <2>2. \E t : task' = [task EXCEPT ![r] = t] /\ (LookedUp(t) => UsersDrafts(t))
      BY <1>3, <1>4, <1>5, <2>1
    <2> QED
      BY <1>2, <1>6, <2>2 DEF SendLoadDraft
  <1>7. CASE DeleteBatchDrafts(r)
    <2>1. \/ Finish(r)
          \/ /\ Goto(r, "write") \/ Goto(r, "loadEmails")
             /\ task[r].drafts \subseteq OwnDrafts(task[r].user)
      BY <1>7 DEF DeleteBatchDrafts, DeleteBatchLoad
    <2>2. \E t : task' = [task EXCEPT ![r] = t] /\ (LookedUp(t) => UsersDrafts(t))
      BY <1>3, <1>4, <1>5, <2>1
    <2> QED
      BY <1>2, <1>7, <2>2 DEF DeleteBatchDrafts, DeleteBatchLoad
  <1>8. CASE DeleteBatchEmails(r)
    <2>1. \/ Finish(r)
          \/ Goto(r, "loadDrafts")
          \/ Goto(r, "write") /\ LookedUp(task[r])
      BY <1>8 DEF DeleteBatchEmails, DeleteBatchLoad, LookedUp
    <2>2. ~LookedUp([task[r] EXCEPT !.pc = "loadDrafts"])
      BY <1>1 DEF Task, LookedUp
    <2>3. \E t : task' = [task EXCEPT ![r] = t] /\ (LookedUp(t) => UsersDrafts(t))
      BY <1>1, <1>3, <1>4, <2>1, <2>2
    <2> QED
      BY <1>2, <1>8, <2>3 DEF DeleteBatchEmails, DeleteBatchLoad
  <1>9. CASE Emit(r) \/ Push(r) \/ DbError(r)
    <2>1. \E t : task' = [task EXCEPT ![r] = t] /\ (LookedUp(t) => UsersDrafts(t))
      BY <1>4, <1>9 DEF Emit, Push, DbError
    <2> QED
      BY <1>2, <1>9, <2>1 DEF Emit, Push, DbError
  <1>10. ASSUME NEW op, NEW next \in {"emit", "done"}, Update(r, op, next), UNCHANGED draftVars
         PROVE  DraftsInv'
    <2>1. \E t : task' = [task EXCEPT ![r] = t] /\ (LookedUp(t) => UsersDrafts(t))
      BY <1>4, <1>10 DEF Update
    <2> QED
      BY <1>2, <1>10, <2>1
  <1>11. CASE \/ DetailWrite(r) \/ MarkReadWrite(r) \/ StarWrite(r) \/ DeleteWrite(r)
              \/ RestoreWrite(r) \/ RemovalWrite(r)
    BY <1>10, <1>11 DEF DetailWrite, MarkReadWrite, StarWrite, DeleteWrite, RestoreWrite,
                        RemovalWrite
  <1>12. ASSUME NEW D \in SUBSET DOMAIN draft, NEW status \in {"SENT", "TRASHED"},
                draft' = [d \in DOMAIN draft |->
                  IF d \in D THEN [draft[d] EXCEPT !.status = status] ELSE draft[d]],
                \E t : task' = [task EXCEPT ![r] = t] /\ (LookedUp(t) => UsersDrafts(t))
         PROVE  /\ DOMAIN draft' = DOMAIN draft /\ SameOwners
                /\ OneOwner' /\ LookUpInv'
    <2>1. DOMAIN draft' = DOMAIN draft /\ SameOwners
      BY <1>1, <1>12 DEF SameOwners, DraftsTypeOK, DraftRow
    <2>2. OneOwner'
      BY <2>1 DEF OneOwner, SameOwners
    <2>3. LookUpInv'
      BY <1>12, <2>1, LookUpsKept
    <2> QED
      BY <2>1, <2>2, <2>3
  <1>13. CASE SendCommit(r)
    <2>1. UsersDrafts(task[r])
      BY <1>1, <1>13 DEF SendCommit, AtWrite, LookedUp
    <2>2. PICK D \in SUBSET DOMAIN draft : D = task[r].drafts
      BY <2>1 DEF UsersDrafts
    <2>3. PICK id : task' = [task EXCEPT ![r].pc = "emit", ![r].mark = {id}]
      BY <1>13 DEF SendCommit
    <2>4. ~LookedUp([task[r] EXCEPT !.pc = "emit", !.mark = {id}])
      BY <1>1 DEF Task, LookedUp
    <2>5. \E t : task' = [task EXCEPT ![r] = t] /\ (LookedUp(t) => UsersDrafts(t))
      BY <2>3, <2>4
    <2>6. /\ sent' = sent \cup D
          /\ call' = [c \in Calls |-> IF call[c].draft \in D
                        THEN [call[c] EXCEPT !.early = TRUE] ELSE call[c]]
          /\ draft' = [d \in DOMAIN draft |->
               IF d \in D THEN [draft[d] EXCEPT !.status = "SENT"] ELSE draft[d]]
      BY <1>13, <2>2 DEF SendCommit
    <2>7. DOMAIN draft' = DOMAIN draft /\ SameOwners /\ OneOwner' /\ LookUpInv'
      BY <1>12, <2>5, <2>6
    <2>8. \A d \in D : draft[d].user # None
      BY <1>13, <2>1, <2>2, NoDraftAssumption DEF UsersDrafts, TaskUsers, SendCommit, AtWrite
    <2>9. SentInv'
      BY <2>6, <2>7, <2>8 DEF SentInv, SameOwners
    <2>10. CallInv'
      <3> SUFFICES ASSUME NEW c \in Calls, call'[c].op # "none"
                   PROVE  /\ call'[c].draft \in DOMAIN draft'
                          /\ call'[c].lost \/ OwnerOf(call[c].draft)' = call'[c].owner
                          /\ call'[c].lost /\ call'[c].draft \in sent' => call'[c].early
                          /\ call'[c].copy.user # None => call'[c].copy.device = None
        BY DEF CallInv, OwnerOf
      <3>1. call[c].draft \in D => call[c] # NoCall
        BY <1>1, NoDraftAssumption DEF NoCall, DraftsTypeOK
      <3>2. /\ call'[c].op = call[c].op /\ call'[c].draft = call[c].draft
            /\ call'[c].lost = call[c].lost /\ call'[c].owner = call[c].owner
            /\ call'[c].copy = call[c].copy
            /\ call[c].draft \in D \/ call'[c] = call[c]
            /\ call[c].draft \in D => call'[c].early
        <4>1. CASE call[c].draft \notin D
          BY <2>6, <4>1
        <4>2. CASE call[c].draft \in D
          <5>1. call'[c] = [call[c] EXCEPT !.early = TRUE] /\ call[c] \in Call
            BY <1>1, <2>6, <4>2 DEF DraftsTypeOK
          <5> QED
            BY <3>1, <4>2, <5>1 DEF Call
        <4> QED
          BY <4>1, <4>2
      <3>3. OwnerOf(call[c].draft)' = OwnerOf(call[c].draft)
        BY <2>7, <3>2 DEF CallInv, OwnerOf, SameOwners
      <3> QED
        BY <2>6, <2>7, <3>2, <3>3 DEF CallInv
    <2> QED
      BY <2>7, <2>9, <2>10
  <1>14. CASE DeleteBatchWrite(r)
    <2>1. PICK D \in SUBSET DOMAIN draft :
            D = {d \in DOMAIN draft : d \in task[r].drafts /\ draft[d].user = task[r].user}
      OBVIOUS
    <2>2. /\ call' = call /\ sent' = sent
          /\ draft' = [d \in DOMAIN draft |->
               IF d \in D THEN [draft[d] EXCEPT !.status = "TRASHED"] ELSE draft[d]]
      BY <1>14, <2>1 DEF DeleteBatchWrite
    <2>3. \E t : task' = [task EXCEPT ![r] = t] /\ (LookedUp(t) => UsersDrafts(t))
      BY <1>4, <1>14 DEF DeleteBatchWrite, Update
    <2>4. DOMAIN draft' = DOMAIN draft /\ SameOwners /\ OneOwner' /\ LookUpInv'
      BY <1>12, <2>2, <2>3
    <2>5. CallInv'
      BY <1>1, <2>2, <2>4, CallsKept
    <2>6. SentInv'
      BY <2>2, <2>4 DEF SentInv, SameOwners
    <2> QED
      BY <2>4, <2>5, <2>6
  <1> QED
    BY <1>6, <1>7, <1>8, <1>9, <1>11, <1>13, <1>14 DEF Continue

LEMMA DraftsInvCorrect == Spec => []DraftsInv
  <1>1. Init => DraftsInv
    BY DEF Init, DraftsInit, DraftsInv, OneOwner, CallInv, NoCall, LookUpInv, LookedUp,
           NoTask, SentInv
  <1>2. ASSUME TypeInv, DraftsInv, [Next]_vars PROVE DraftsInv'
    <2>1. ASSUME NEW r \in Requests, Read(r) PROVE DraftsInv'
      BY <1>2, <2>1, ReadDrafts DEF TypeInv
    <2>2. ASSUME NEW r \in Requests, Continue(r) PROVE DraftsInv'
      BY <1>2, <2>2, ContinueDrafts DEF TypeInv
    <2>3. CASE DraftsNext /\ UNCHANGED mailboxVars
      BY <1>2, <2>3, ControllerDrafts DEF TypeInv
    <2>4. CASE Crash
      <3>1. draft' = draft /\ sent' = sent
        BY <2>4 DEF Crash
      <3>2. (\A c \in Calls : call'[c].op = "none") /\ \A r \in Requests : ~LookedUp(task[r])'
        BY <2>4 DEF Crash, NoCall, NoTask, LookedUp
      <3> QED
        BY <1>2, <3>1, <3>2 DEF DraftsInv, OneOwner, CallInv, LookUpInv, SentInv
    <2>5. CASE UNCHANGED vars
      BY <1>2, <2>5 DEF vars, mailboxVars, draftVars, DraftsInv, OneOwner, CallInv, OwnerOf,
                        LookUpInv, LookedUp, UsersDrafts, SentInv
    <2> QED
      BY <1>2, <2>1, <2>2, <2>3, <2>4, <2>5 DEF Next
  <1> QED
    BY <1>1, <1>2, TypeInvCorrect, PTL DEF Spec

(* No request acts on a draft that is not its user's or device's.          *)
THEOREM DraftsAreTheirOwners == Spec => []DraftsKeepToOwners
  <1>1. DraftsInv => DraftsKeepToOwners
    BY DEF DraftsInv, CallInv, LookUpInv, UsersDrafts, DraftsKeepToOwners, CallsKeepToOwners
  <1> QED
    BY <1>1, DraftsInvCorrect, PTL

(* A step that makes a sent draft a draft again writes what an             *)
(* updateStatus asked for, and that call is the owner's or an early one.   *)
LEMMA ReopenStep ==
  ASSUME TypeOK, DraftsInv, [Next]_vars, NEW d \in sent, Reopened(d)
  PROVE  \E c \in Calls : ReopenedBy(c, d)
  <1> USE DEF Reopened
  <1>1. d \in DOMAIN draft /\ draft'[d].status # draft[d].status /\ DraftsTypeOK
    BY DEF DraftsInv, SentInv, TypeOK
  <1>2. ASSUME NEW c \in Calls, UpdateStatus(c) PROVE ReopenedBy(c, d)
    <2>1. /\ call[c].draft = d /\ call[c].status = "DRAFT"
          /\ call[c].op = "updateStatus" /\ call'[c] = NoCall
      BY <1>1, <1>2 DEF UpdateStatus, AtCall, EndCall, DraftsTypeOK, DraftRow
    <2>2. call[c].early \/ call[c].owner = OwnerOf(d)
      BY <2>1 DEF DraftsInv, CallInv
    <2> QED
      BY <2>1, <2>2 DEF ReopenedBy, AtCall
  <1>3. ASSUME NEW c \in Calls, ~UpdateStatus(c)
        PROVE  ~FindDraft(c) /\ ~UpdateDraft(c) /\ ~DuplicateDraft(c) /\ ~CallFails(c)
    BY <1>1 DEF FindDraft, UpdateDraft, Edited, DuplicateDraft, CallFails, With, DraftsTypeOK
  <1>4. ~CreateDraft
    BY <1>1 DEF CreateDraft, With
  <1>5. ASSUME NEW u \in Users, NEW device \in Devices PROVE ~ClaimDeviceDrafts(u, device)
    <2>1. draft[d] \in DraftRow
      BY <1>1 DEF DraftsTypeOK
    <2>2. Claimed(draft[d], u).status = draft[d].status
      BY <2>1 DEF Claimed, DraftRow
    <2> QED
      BY <1>1, <2>2 DEF ClaimDeviceDrafts
  <1>6. ASSUME NEW r \in Requests PROVE ~SendCommit(r) /\ ~DeleteBatchWrite(r)
    BY <1>1 DEF SendCommit, DeleteBatchWrite, DraftsTypeOK, DraftRow
  <1>7. draft' # draft
    BY <1>1
  <1>8. ASSUME NEW r \in Requests PROVE ~Read(r) /\ ~Continue(r)
    <2>1. ~Read(r)
      BY <1>7 DEF Read, SendRead, DetailRead, MarkReadRead, StarRead, DeleteRead, RestoreRead,
                  RemovePermanentlyRead, EmptyTrashRead, DeleteBatchStart, Load, Removal,
                  draftVars
    <2>2. ~Continue(r)
      BY <1>6, <1>7 DEF Continue, SendLoadDraft, DeleteBatchEmails, DeleteBatchDrafts,
                  DeleteBatchLoad, DetailWrite, MarkReadWrite, StarWrite, DeleteWrite,
                  RestoreWrite, RemovalWrite, Emit, Push, DbError, draftVars
    <2> QED
      BY <2>1, <2>2
  <1>9. DraftsNext
    BY <1>7, <1>8 DEF Next, Crash, vars, draftVars
  <1> QED
    BY <1>2, <1>3, <1>4, <1>5, <1>9 DEF DraftsNext

(* A draft that was sent is a draft again only by an updateStatus of its   *)
(* owner, or by one that had looked it up before it was sent.              *)
THEOREM SentDraftsStayOut == Spec => SentStaysOut
  <1>1. TypeInv /\ DraftsInv /\ [Next]_vars
          => [\A d \in sent : Reopened(d) => \E c \in Calls : ReopenedBy(c, d)]_draftVars
    BY ReopenStep DEF TypeInv
  <1> QED
    BY <1>1, TypeInvCorrect, DraftsInvCorrect, PTL DEF Spec, SentStaysOut
-----------------------------------------------------------------------------
(* The mailbox implements Correspondence.  A handler writes by what it     *)
(* read, so the invariant says of a request about to write that its user   *)
(* is a party of what it writes, and the recipient if it writes the read   *)
(* mark; that nobody writes to themselves; and that a free slot has no     *)
(* user.                                                                   *)

Reads == {"detail", "markRead", "markUnread"}

WriterOf(t) ==
  /\ t.pc = "idle" => t.user = None
  /\ t.op = "send" => t.user # t.to
  /\ t.op \notin Removals => t.kill = {}
  /\ t.op # "send" /\ t.pc \in {"write", "loadDrafts"} =>
       \A e \in t.mark \cup t.kill :
         /\ e \in Issued /\ t.user \in Pair(e)
         /\ t.op \in Reads => t.user = email[e].recipient

WriterInv == \A r \in Requests : WriterOf(task[r])

TwoParties == \A e \in Issued : email[e].sender # email[e].recipient

PartiesInv == WriterInv /\ TwoParties

LEMMA WritersKept ==
  ASSUME TypeOK, WriterInv, SameEmails, NEW r \in Requests, NEW t,
         task' = [task EXCEPT ![r] = t], WriterOf(t)'
  PROVE  WriterInv'
  <1> SUFFICES ASSUME NEW q \in Requests PROVE WriterOf(task[q])'
    BY DEF WriterInv
  <1>1. CASE q = r
    BY <1>1 DEF TypeOK, WriterOf, Pair, Issued
  <1>2. CASE q # r
    <2>1. task'[q] = task[q] /\ WriterOf(task[q])
      BY <1>2 DEF TypeOK, WriterInv
    <2> QED
      BY <2>1 DEF WriterOf, SameEmails, Pair
  <1> QED
    BY <1>1, <1>2

LEMMA ReadParties ==
  ASSUME TypeOK, PartiesInv, NEW r \in Requests, Read(r)
  PROVE  PartiesInv'
  <1> USE DEF PartiesInv
  <1>1. UNCHANGED <<rows, email>>
    BY DEF Read, SendRead, DetailRead, MarkReadRead, StarRead, DeleteRead, RestoreRead,
           RemovePermanentlyRead, EmptyTrashRead, DeleteBatchStart, Load, Removal
  <1>2. SameEmails /\ Issued' = Issued /\ TwoParties'
    BY <1>1 DEF SameEmails, Issued, TwoParties
  <1>3. ASSUME NEW op \in AllOperations, NEW t \in Task, Begin(r, op, t), t.pc # "idle",
               op = "send" => t.user # t.to, op \notin Removals => t.kill = {},
               op # "send" /\ t.pc \in {"write", "loadDrafts"} =>
                 \A e \in t.mark \cup t.kill :
                   /\ e \in Issued /\ t.user \in Pair(e)
                   /\ op \in Reads => t.user = email[e].recipient
        PROVE  WriterInv'
    <2>1. PICK s \in Task : s = [t EXCEPT !.op = op]
      BY <1>3 DEF Task
    <2>2. /\ s.op = op /\ s.pc = t.pc /\ s.user = t.user /\ s.to = t.to
          /\ s.mark = t.mark /\ s.kill = t.kill
      BY <1>3, <2>1 DEF Task
    <2>3. WriterOf(s)
      BY <1>3, <2>2 DEF WriterOf
    <2>4. WriterOf(s)'
      BY <1>1, <2>3 DEF WriterOf, Issued, Pair
    <2> QED
      BY <1>2, <1>3, <2>1, <2>4, WritersKept DEF Begin
  <1>4. ASSUME SendRead(r) PROVE WriterInv'
    <2>1. PICK u \in Users, to \in Users, reply \in rows \cup {None},
               use \in {{}} \cup {{d} : d \in DOMAIN draft} :
            u # to /\ Begin(r, "send", SendTask(u, to, reply, use))
      BY <1>4 DEF SendRead
    <2>2. reply # None => ThreadOf(reply) \in EmailIds \cup {None}
      BY DEF ThreadOf, EmailRow, TypeOK
    <2>3. PICK t \in Task : t = SendTask(u, to, reply, use)
      BY <2>2 DEF SendTask, NoTask, Task, TypeOK, DraftsTypeOK
    <2>4. t.user = u /\ t.to = to /\ t.pc # "idle" /\ t.kill = {}
      BY <2>3 DEF SendTask, NoTask
    <2> QED
      BY <1>3, <2>1, <2>3, <2>4 DEF AllOperations
  <1>5. ASSUME NEW u \in Users, NEW e \in rows, NEW op \in AllOperations \ {"send"},
               u \in Pair(e), op \in Reads => u = email[e].recipient,
               Load(r, u, op, e, "write")
        PROVE  WriterInv'
    <2>1. PICK t \in Task : t = [NoTask EXCEPT !.pc = "write", !.user = u, !.mark = {e}]
      BY DEF NoTask, Task, TypeOK
    <2>2. t.pc = "write" /\ t.user = u /\ t.mark = {e} /\ t.kill = {}
      BY <2>1 DEF NoTask
    <2> QED
      BY <1>3, <1>5, <2>1, <2>2 DEF Load, TypeOK
  <1>6. ASSUME DetailRead(r) PROVE WriterInv'
    BY <1>5, <1>6 DEF DetailRead, Visible, Pair, AllOperations
  <1>7. ASSUME MarkReadRead(r) PROVE WriterInv'
    BY <1>5, <1>7 DEF MarkReadRead, Visible, Pair, AllOperations
  <1>8. ASSUME StarRead(r) \/ DeleteRead(r) \/ RestoreRead(r) PROVE WriterInv'
    BY <1>5, <1>8 DEF StarRead, DeleteRead, RestoreRead, Visible, Pair, AllOperations, Reads
  <1>9. ASSUME NEW u \in Users, NEW op \in Removals, NEW T \in SUBSET rows,
               \A e \in T : u \in Pair(e), Removal(r, u, op, T)
        PROVE  WriterInv'
    <2>1. PICK both \in SUBSET T :
            Begin(r, op, [NoTask EXCEPT !.pc = "write", !.user = u,
                                        !.kill = both, !.mark = T \ both])
      BY <1>9 DEF Removal
    <2>2. PICK t \in Task :
            t = [NoTask EXCEPT !.pc = "write", !.user = u,
                               !.kill = both, !.mark = T \ both]
      BY DEF NoTask, Task, TypeOK
    <2>3. t.pc = "write" /\ t.user = u /\ t.mark \cup t.kill = T
      BY <2>2 DEF NoTask
    <2>4. op \in AllOperations /\ op # "send" /\ op \notin Reads
      BY DEF Removals, AllOperations, Reads
    <2> QED
      BY <1>3, <1>9, <2>1, <2>2, <2>3, <2>4 DEF TypeOK
  <1>10. ASSUME RemovePermanentlyRead(r) PROVE WriterInv'
    BY <1>9, <1>10 DEF RemovePermanentlyRead, Removals, Visible, Pair
  <1>11. ASSUME EmptyTrashRead(r) PROVE WriterInv'
    BY <1>9, <1>11, InTrash DEF EmptyTrashRead, Removals
  <1>12. ASSUME DeleteBatchStart(r) PROVE WriterInv'
    <2>1. PICK u \in Users, E \in SUBSET rows, D \in SUBSET DOMAIN draft :
            Begin(r, "deleteBatch",
              [NoTask EXCEPT !.pc = "load", !.user = u, !.mark = E, !.drafts = D])
      BY <1>12 DEF DeleteBatchStart
    <2>2. PICK t \in Task :
            t = [NoTask EXCEPT !.pc = "load", !.user = u, !.mark = E, !.drafts = D]
      BY DEF NoTask, Task, TypeOK, DraftsTypeOK
    <2>3. t.pc = "load" /\ t.kill = {}
      BY <2>2 DEF NoTask
    <2> QED
      BY <1>3, <2>1, <2>2, <2>3 DEF AllOperations
  <1> QED
    BY <1>2, <1>4, <1>6, <1>7, <1>8, <1>10, <1>11, <1>12 DEF Read

LEMMA ContinueParties ==
  ASSUME TypeOK, TaskUsers, PartiesInv, NEW r \in Requests, Continue(r)
  PROVE  PartiesInv'
  <1> USE DEF PartiesInv
  <1>1. task[r] \in Task /\ WriterOf(task[r])
    BY DEF TypeOK, WriterInv
  <1>2. ASSUME SameEmails, NEW pc, pc # "idle", Goto(r, pc) \/ Finish(r),
               task[r].op # "send" /\ pc \in {"write", "loadDrafts"} =>
                 \A e \in task[r].mark \cup task[r].kill :
                   /\ e \in Issued /\ task[r].user \in Pair(e)
                   /\ task[r].op \in Reads => task[r].user = email[e].recipient
        PROVE  WriterInv'
    <2>1. CASE Goto(r, pc)
      <3>1. PICK t : t = [task[r] EXCEPT !.pc = pc]
        OBVIOUS
      <3>2. /\ t.op = task[r].op /\ t.pc = pc /\ t.user = task[r].user /\ t.to = task[r].to
            /\ t.mark = task[r].mark /\ t.kill = task[r].kill
        BY <1>1, <3>1 DEF Task
      <3>3. WriterOf(t)'
        BY <1>1, <1>2, <3>2 DEF WriterOf, SameEmails, Pair
      <3> QED
        BY <1>2, <2>1, <3>1, <3>3, WritersKept DEF Goto
    <2>2. CASE Finish(r)
      <3>1. WriterOf(NoTask)'
        BY DEF WriterOf, NoTask
      <3> QED
        BY <1>2, <2>2, <3>1, WritersKept DEF Finish
    <2> QED
      BY <1>2, <2>1, <2>2
  <1>3. ASSUME UNCHANGED <<rows, email>>
        PROVE  SameEmails /\ Issued' = Issued /\ TwoParties'
    BY <1>3 DEF SameEmails, Issued, TwoParties
  <1>4. ASSUME SendLoadDraft(r) \/ Push(r) \/ DbError(r) \/ Emit(r) PROVE PartiesInv'
    <2>1. /\ UNCHANGED <<rows, email>>
          /\ Finish(r) \/ Goto(r, "push") \/ (Goto(r, "write") /\ task[r].op = "send")
      BY <1>4 DEF SendLoadDraft, Push, DbError, Emit
    <2> QED
      BY <1>2, <1>3, <2>1
  <1>5. ASSUME DeleteBatchDrafts(r) PROVE PartiesInv'
    <2>1. /\ UNCHANGED <<rows, email>> /\ task[r].op # "send"
          /\ \/ Finish(r) \/ Goto(r, "loadEmails")
             \/ Goto(r, "write") /\ task[r].pc = "loadDrafts"
      BY <1>5 DEF DeleteBatchDrafts, DeleteBatchLoad
    <2> QED
      BY <1>1, <1>2, <1>3, <2>1 DEF WriterOf
  <1>6. ASSUME DeleteBatchEmails(r) PROVE PartiesInv'
    <2>1. /\ UNCHANGED <<rows, email>> /\ task[r].op = "deleteBatch"
          /\ \/ Finish(r)
             \/ /\ Goto(r, "loadDrafts") \/ Goto(r, "write")
                /\ \A e \in task[r].mark : Visible(task[r].user, e, FALSE)
      BY <1>6 DEF DeleteBatchEmails, DeleteBatchLoad
    <2>2. task[r].kill = {}
      BY <1>1, <2>1 DEF WriterOf, Removals
    <2> QED
      BY <1>2, <1>3, <2>1, <2>2 DEF Visible, Pair, Reads, TypeOK
  <1>7. ASSUME NEW op, NEW next \in {"emit", "done"}, Update(r, op, next) PROVE PartiesInv'
    <2>1. SameEmails /\ Issued' = Issued
      BY <1>7, UpdateKeeps, UpdateType
    <2>2. Finish(r) \/ Goto(r, next)
      BY <1>7 DEF Update
    <2>3. WriterInv'
      BY <1>2, <2>1, <2>2
    <2> QED
      BY <2>1, <2>3 DEF TwoParties, SameEmails
  <1>8. ASSUME DetailWrite(r) \/ MarkReadWrite(r) \/ StarWrite(r) \/ DeleteWrite(r)
                 \/ RestoreWrite(r) \/ RemovalWrite(r) \/ DeleteBatchWrite(r)
        PROVE  PartiesInv'
    BY <1>7, <1>8 DEF DetailWrite, MarkReadWrite, StarWrite, DeleteWrite, RestoreWrite,
                      RemovalWrite, DeleteBatchWrite
  <1>9. ASSUME SendCommit(r) PROVE PartiesInv'
    <2>1. PICK id \in EmailIds \ Issued :
            /\ email' = [e \in Issued \cup {id} |->
                 IF e = id THEN NewEmail(task[r]) ELSE email[e]]
            /\ task' = [task EXCEPT ![r].pc = "emit", ![r].mark = {id}]
      BY <1>9 DEF SendCommit
    <2>2. Issued' = Issued \cup {id} /\ \A e \in Issued : email'[e] = email[e]
      BY <2>1 DEF Issued
    <2>3. SameEmails
      BY <2>2 DEF SameEmails
    <2>4. task[r].op = "send" /\ task[r].user # task[r].to
      BY <1>1, <1>9 DEF SendCommit, AtWrite, WriterOf
    <2>5. PICK t : t = [task[r] EXCEPT !.pc = "emit", !.mark = {id}]
      OBVIOUS
    <2>6. /\ t.op = "send" /\ t.pc = "emit" /\ t.user = task[r].user
          /\ t.to = task[r].to /\ t.kill = task[r].kill
      BY <1>1, <2>4, <2>5 DEF Task
    <2>7. WriterOf(t)'
      BY <1>1, <2>4, <2>6 DEF WriterOf
    <2>8. task' = [task EXCEPT ![r] = t]
      BY <2>1, <2>5
    <2>9. WriterInv'
      BY <2>3, <2>7, <2>8, WritersKept
    <2>10. TwoParties'
      BY <2>1, <2>2, <2>4 DEF TwoParties, NewEmail
    <2> QED
      BY <2>9, <2>10
  <1> QED
    BY <1>4, <1>5, <1>6, <1>8, <1>9 DEF Continue

LEMMA PartiesStep ==
  ASSUME TypeOK, TaskUsers, PartiesInv, [Next]_vars
  PROVE  PartiesInv'
  <1>1. ASSUME UNCHANGED mailboxVars PROVE PartiesInv'
    BY <1>1 DEF mailboxVars, PartiesInv, WriterInv, WriterOf, TwoParties, Issued, Pair
  <1>2. CASE Crash
    BY <1>2 DEF Crash, PartiesInv, WriterInv, WriterOf, NoTask, TwoParties, Issued
  <1> QED
    BY <1>1, <1>2, ReadParties, ContinueParties DEF Next, vars

CorrespondenceInv == TypeInv /\ RemovalInv /\ PartiesInv

LEMMA CorrespondenceCorrect == Spec => []CorrespondenceInv
  <1>1. Init => RemovalInv /\ PartiesInv
    BY DEF Init, RemovalInv, PlanInv, PlanOf, AskedInv, PartiesInv, WriterInv, WriterOf,
           TwoParties, NoTask, Removals, Issued
  <1>2. TypeInv /\ RemovalInv /\ PartiesInv /\ [Next]_vars => RemovalInv' /\ PartiesInv'
    BY RemovalStep, PartiesStep DEF TypeInv
  <1> QED
    BY <1>1, <1>2, TypeInvCorrect, PTL DEF Spec, CorrespondenceInv

(* Steps that leave the rows alone leave every shelf alone.                *)
LEMMA ShelvesStay ==
  ASSUME UNCHANGED <<rows, email>>
  PROVE  UNCHANGED <<Mail, Shelf, Removed>>
  BY DEF Mail, Shelf, Removed, FoldersOf, RoleFolders, Kept, Trashed, Issued

LEMMA Quiet ==
  ASSUME UNCHANGED <<rows, email, asked>>, TypeOK'
  PROVE  Promised!RequestsChange
  <1>1. Active' \subseteq Users
    BY DEF Active, TypeOK, Task
  <1> QED
    BY <1>1, ShelvesStay DEF Promised!RequestsChange

(* A party of an email sees it through one role, which is the column a     *)
(* handler picks, and the other party sees it through the other.           *)
LEMMA OneRole ==
  ASSUME TwoParties, NEW e \in rows, e \in Issued, NEW u
  PROVE  /\ u \in Pair(e) => FoldersOf(u, e) = RoleFolders(e, Role(u, e))
         /\ u \notin Pair(e) => FoldersOf(u, e) = {}
  BY DEF TwoParties, FoldersOf, Role, Pair

(* A request that begins makes its user active.                            *)
LEMMA BeginActive ==
  ASSUME TypeOK, PartiesInv, NEW r \in Requests, NEW op, NEW t \in Task, NEW u \in Users,
         t.user = u, Begin(r, op, t)
  PROVE  Active' = Active \cup {u}
  <1>1. task[r].user = None
    BY DEF Begin, PartiesInv, WriterInv, WriterOf
  <1>2. task'[r].user = u
    BY DEF Begin, TypeOK, Task
  <1>3. \A q \in Requests \ {r} : task'[q] = task[q]
    BY DEF Begin, TypeOK
  <1>4. u # None
    BY NoneAssumption
  <1> QED
    BY <1>1, <1>2, <1>3, <1>4 DEF Active

LEMMA RemovalAsks ==
  ASSUME CorrespondenceInv, NEW r \in Requests, NEW u \in Users, NEW op, NEW T \in SUBSET rows,
         \A e \in T : u \in Pair(e) /\ Role(u, e) \in email[e].deleted,
         Removal(r, u, op, T)
  PROVE  Promised!Ask(u)
  <1> USE DEF CorrespondenceInv, TypeInv
  <1>1. PICK both \in SUBSET T :
          Begin(r, op, [NoTask EXCEPT !.pc = "write", !.user = u,
                                      !.kill = both, !.mark = T \ both])
    BY DEF Removal
  <1>2. PICK t \in Task :
          t = [NoTask EXCEPT !.pc = "write", !.user = u, !.kill = both, !.mark = T \ both]
    BY DEF NoTask, Task, TypeOK
  <1>3. t.user = u
    BY <1>2 DEF NoTask
  <1>4. Active' = Active \cup {u}
    BY <1>1, <1>2, <1>3, BeginActive
  <1>5. asked' = asked \cup ({u} \X T) /\ UNCHANGED <<Mail, Shelf, Removed>>
    BY ShelvesStay DEF Removal
  <1>6. T \in SUBSET Promised!Mine(u)
    BY DEF Promised!Mine, Promised!Between, Mail, Pair, TypeOK
  <1>7. ASSUME NEW e \in T PROVE Shelf[u][e] \in {{"trash"}, {}}
    <2>1. e \in Issued /\ e \in EmailIds
      BY DEF TypeOK
    <2>2. FoldersOf(u, e) = RoleFolders(e, Role(u, e))
      BY <2>1, OneRole DEF PartiesInv
    <2>3. Role(u, e) \in email[e].deleted
      OBVIOUS
    <2>4. RoleFolders(e, Role(u, e)) \in {{"trash"}, {}}
      BY <2>3 DEF RoleFolders, Trashed, Kept
    <2> QED
      BY <2>1, <2>2, <2>4 DEF Shelf
  <1> QED
    BY <1>4, <1>5, <1>6, <1>7 DEF Promised!Ask

LEMMA ReadImplements ==
  ASSUME CorrespondenceInv, TypeOK', NEW r \in Requests, Read(r)
  PROVE  Promised!AbstractNext
  <1> USE DEF CorrespondenceInv, TypeInv
  <1>1. ASSUME UNCHANGED <<rows, email, asked>> PROVE Promised!AbstractNext
    BY <1>1, Quiet DEF Promised!AbstractNext
  <1>2. CASE RemovePermanentlyRead(r)
    BY <1>2, RemovalAsks DEF RemovePermanentlyRead, Visible, Pair, Promised!AbstractNext
  <1>3. CASE EmptyTrashRead(r)
    <2>1. PICK u \in Users : Removal(r, u, "emptyTrash", Folder(u, "trash"))
      BY <1>3 DEF EmptyTrashRead
    <2>2. ASSUME NEW e \in Folder(u, "trash")
          PROVE  e \in rows /\ u \in Pair(e) /\ Role(u, e) \in email[e].deleted
      <3>1. e \in rows /\ u \in Pair(e)
        BY InTrash
      <3>2. FoldersOf(u, e) = RoleFolders(e, Role(u, e))
        BY <3>1, OneRole DEF PartiesInv, TypeOK
      <3>3. "trash" \in RoleFolders(e, Role(u, e))
        BY <3>2 DEF Folder
      <3> QED
        BY <3>1, <3>3 DEF RoleFolders, Trashed
    <2>3. Folder(u, "trash") \in SUBSET rows
      BY <2>2
    <2>4. Promised!Ask(u)
      BY <2>1, <2>2, <2>3, RemovalAsks
    <2> QED
      BY <2>4 DEF Promised!AbstractNext
  <1> QED
    BY <1>1, <1>2, <1>3 DEF Read, SendRead, DetailRead, MarkReadRead, StarRead, DeleteRead,
         RestoreRead, DeleteBatchStart, Load

(* The new email stands on the shelves of its two users.                   *)
LEMMA SendDelivers ==
  ASSUME CorrespondenceInv, NEW r \in Requests, SendCommit(r)
  PROVE  Promised!AbstractNext
  <1> USE DEF CorrespondenceInv, TypeInv
  <1>1. PICK id \in EmailIds \ Issued :
          /\ rows' = rows \cup {id}
          /\ email' = [e \in Issued \cup {id} |->
               IF e = id THEN NewEmail(task[r]) ELSE email[e]]
          /\ task' = [task EXCEPT ![r].pc = "emit", ![r].mark = {id}]
    BY DEF SendCommit
  <1>2. PICK u \in Users, to \in Users : task[r].user = u /\ task[r].to = to /\ u # to
    BY DEF SendCommit, AtWrite, TaskUsers, PartiesInv, WriterInv, WriterOf
  <1>3. /\ Issued' = Issued \cup {id} /\ \A e \in Issued : email'[e] = email[e]
        /\ email'[id] = NewEmail(task[r])
    BY <1>1 DEF Issued
  <1>4. rows \subseteq Issued /\ Issued \subseteq EmailIds
    BY DEF TypeOK
  <1>5. Mail' = [f \in DOMAIN Mail \cup {id} |->
                   IF f = id THEN [from |-> u, to |-> to] ELSE Mail[f]]
    BY <1>1, <1>2, <1>3 DEF Mail, NewEmail
  <1>6. ASSUME NEW w \in Users, NEW e \in EmailIds, e # id
        PROVE  FoldersOf(w, e)' = FoldersOf(w, e)
    BY <1>1, <1>3, <1>4, <1>6 DEF FoldersOf, RoleFolders, Kept, Trashed
  <1>7. ASSUME NEW w \in Users
        PROVE  /\ FoldersOf(w, id)' = IF w = u THEN {"sent"}
                                      ELSE IF w = to THEN {"inbox", "unread"} ELSE {}
               /\ FoldersOf(w, id) = {}
    <2>1. id \in rows' /\ id \notin rows
      BY <1>1, <1>4
    <2>2. /\ email'[id].sender = u /\ email'[id].recipient = to /\ email'[id].read = FALSE
          /\ email'[id].deleted = {} /\ email'[id].purged = {} /\ email'[id].starred = {}
      BY <1>2, <1>3 DEF NewEmail
    <2>3. RoleFolders(id, "sender")' = {"sent"}
      BY <2>2 DEF RoleFolders, Kept, Trashed
    <2>4. RoleFolders(id, "recipient")' = {"inbox", "unread"}
      BY <2>2 DEF RoleFolders, Kept, Trashed
    <2> QED
      BY <1>2, <2>1, <2>2, <2>3, <2>4 DEF FoldersOf
  <1>8. Shelf' = [Shelf EXCEPT ![u][id] = {"sent"}, ![to][id] = {"inbox", "unread"}]
    <2>1. \A w \in Users, e \in EmailIds :
            Shelf'[w][e] = FoldersOf(w, e)' /\ Shelf[w][e] = FoldersOf(w, e)
      BY DEF Shelf
    <2>2. /\ \A w \in Users, e \in EmailIds \ {id} : Shelf'[w][e] = Shelf[w][e]
          /\ \A w \in Users \ {u, to} : Shelf'[w][id] = Shelf[w][id]
          /\ Shelf'[u][id] = {"sent"} /\ Shelf'[to][id] = {"inbox", "unread"}
      <3>1. ASSUME NEW w \in Users, NEW e \in EmailIds \ {id} PROVE Shelf'[w][e] = Shelf[w][e]
        BY <1>6, <2>1
      <3>2. ASSUME NEW w \in Users
            PROVE  /\ Shelf'[w][id] = IF w = u THEN {"sent"}
                                      ELSE IF w = to THEN {"inbox", "unread"} ELSE {}
                   /\ Shelf[w][id] = {}
        BY <1>1, <1>7, <2>1
      <3> QED
        BY <1>2, <3>1, <3>2
    <2>3. /\ Shelf = [w \in Users |-> [e \in EmailIds |-> Shelf[w][e]]]
          /\ Shelf' = [w \in Users |-> [e \in EmailIds |-> Shelf'[w][e]]]
      BY DEF Shelf
    <2>4. PICK S, Q : S = Shelf /\ Q = Shelf'
      OBVIOUS
    <2>5. /\ S = [w \in Users |-> [e \in EmailIds |-> S[w][e]]]
          /\ Q = [w \in Users |-> [e \in EmailIds |-> Q[w][e]]]
      BY <2>3, <2>4, Zenon
    <2>6. /\ \A w \in Users, e \in EmailIds \ {id} : Q[w][e] = S[w][e]
          /\ \A w \in Users \ {u, to} : Q[w][id] = S[w][id]
          /\ Q[u][id] = {"sent"} /\ Q[to][id] = {"inbox", "unread"}
      BY <2>2, <2>4, Zenon
    <2>7. Q = [S EXCEPT ![u][id] = {"sent"}, ![to][id] = {"inbox", "unread"}]
      <3>1. ASSUME NEW w \in Users, NEW v, Q[w][id] = v PROVE Q[w] = [S[w] EXCEPT ![id] = v]
        <4>1. Q[w] = [e \in EmailIds |-> Q[w][e]] /\ S[w] = [e \in EmailIds |-> S[w][e]]
          BY <2>5, <2>6
        <4>2. \A e \in EmailIds \ {id} : Q[w][e] = S[w][e]
          BY <2>5, <2>6
        <4>3. DOMAIN Q[w] = EmailIds /\ DOMAIN S[w] = EmailIds
          BY <4>1
        <4> QED
          BY <3>1, <4>1, <4>2, <4>3
      <3>2. Q[u] = [S[u] EXCEPT ![id] = {"sent"}]
        BY <1>2, <2>5, <2>6, <3>1
      <3>3. Q[to] = [S[to] EXCEPT ![id] = {"inbox", "unread"}]
        BY <1>2, <2>5, <2>6, <3>1
      <3>4. \A w \in Users \ {u, to} : Q[w] = S[w]
        <4> SUFFICES ASSUME NEW w \in Users \ {u, to} PROVE Q[w] = S[w]
          OBVIOUS
        <4>1. Q[w] = [e \in EmailIds |-> Q[w][e]] /\ S[w] = [e \in EmailIds |-> S[w][e]]
          BY <2>5, <2>6
        <4>2. \A e \in EmailIds : Q[w][e] = S[w][e]
          BY <2>5, <2>6
        <4> QED
          BY <4>1, <4>2
      <3> QED
        BY <1>2, <2>5, <2>6, <3>2, <3>3, <3>4
    <2> QED
      BY <2>4, <2>7
  <1>9. Removed' = Removed
    BY <1>1, <1>3, <1>4 DEF Removed
  <1>10. Active' = Active /\ u \in Active
    <2>1. \A q \in Requests : task'[q].user = task[q].user
      BY <1>1 DEF TypeOK, Task
    <2> QED
      BY <1>2, <2>1, NoneAssumption DEF Active
  <1>11. asked' = asked
    BY DEF SendCommit
  <1>12. DOMAIN Mail = Issued
    BY DEF Mail
  <1> QED
    BY <1>2, <1>5, <1>8, <1>9, <1>10, <1>11, <1>12 DEF Promised!AbstractNext, Promised!Deliver

(* What a write leaves alone of the columns of the other role.             *)
LEMMA WrittenOther ==
  ASSUME NEW op, NEW row \in EmailRow, NEW role \in Roles, NEW other \in Roles, other # role
  PROVE  LET new == Written(op, row, role) IN
         /\ other \in new.deleted <=> other \in row.deleted
         /\ other \in new.purged <=> other \in row.purged
         /\ other \in new.starred <=> other \in row.starred
         /\ op \notin Reads => new.read = row.read
  <1> USE DEF Written, EmailRow, Reads
  <1>1. CASE op \in {"detail", "markRead"}
    BY <1>1
  <1>2. CASE op = "markUnread"
    BY <1>2
  <1>3. CASE op = "star"
    BY <1>3
  <1>4. CASE op = "unstar"
    BY <1>4
  <1>5. CASE op \in {"delete", "deleteBatch"}
    BY <1>5
  <1>6. CASE op = "restore"
    BY <1>6
  <1>7. CASE op \notin {"detail", "markRead", "markUnread", "star", "unstar",
                        "delete", "deleteBatch", "restore"}
    BY <1>7
  <1> QED
    BY <1>1, <1>2, <1>3, <1>4, <1>5, <1>6, <1>7

(* A role whose columns are left alone finds the row where it was; the     *)
(* read mark matters to the recipient only.                                *)
LEMMA RoleFoldersKept ==
  ASSUME NEW e, NEW role,
         role \in email'[e].deleted <=> role \in email[e].deleted,
         role \in email'[e].purged <=> role \in email[e].purged,
         role \in email'[e].starred <=> role \in email[e].starred,
         role = "sender" \/ email'[e].read = email[e].read
  PROVE  RoleFolders(e, role)' = RoleFolders(e, role)
  BY DEF RoleFolders, Kept, Trashed

(* Wherever a role finds a row, it is a place of Correspondence.           *)
LEMMA RolePlaces ==
  ASSUME NEW e, NEW role, NEW u, role = "sender" <=> Mail[e].from = u,
         role \in Roles, RoleFolders(e, role)' # {}
  PROVE  RoleFolders(e, role)' \in Promised!Places(u, e)
  <1> USE DEF Promised!Places
  <1>1. CASE Trashed(e, role)'
    BY <1>1 DEF RoleFolders
  <1>2. CASE ~Trashed(e, role)'
    <2>1. PICK S \in SUBSET {"favorites"} :
            RoleFolders(e, role)' =
              (IF role = "sender" THEN {"sent"}
               ELSE IF email'[e].read THEN {"inbox"} ELSE {"inbox", "unread"}) \cup S
      BY <1>2 DEF RoleFolders
    <2>2. CASE role = "sender"
      BY <2>1, <2>2
    <2>3. CASE role = "recipient"
      <3>1. PICK T \in SUBSET {"favorites", "unread"} : RoleFolders(e, role)' = {"inbox"} \cup T
        <4>1. CASE email'[e].read
          BY <2>1, <2>3, <4>1
        <4>2. CASE ~email'[e].read
          <5>1. {"inbox", "unread"} \cup S = {"inbox"} \cup ({"unread"} \cup S)
            OBVIOUS
          <5>2. {"unread"} \cup S \in SUBSET {"favorites", "unread"}
            OBVIOUS
          <5> QED
            BY <2>1, <2>3, <4>2, <5>1, <5>2
        <4> QED
          BY <4>1, <4>2
      <3>2. Mail[e].from # u
        BY <2>3
      <3> QED
        BY <3>1, <3>2
    <2> QED
      BY <2>2, <2>3 DEF Roles
  <1> QED
    BY <1>1, <1>2

LEMMA OneRoleNext ==
  ASSUME TwoParties', SameEmails, NEW e \in Issued, e \in rows', NEW u, u \in Pair(e)
  PROVE  FoldersOf(u, e)' = RoleFolders(e, Role(u, e))'
  <1>1. /\ email'[e].sender = email[e].sender /\ email'[e].recipient = email[e].recipient
        /\ email[e].sender # email[e].recipient
    BY DEF SameEmails, TwoParties
  <1>2. CASE u = email[e].sender
    BY <1>1, <1>2 DEF FoldersOf, Role
  <1>3. CASE u = email[e].recipient
    BY <1>1, <1>3 DEF FoldersOf, Role
  <1> QED
    BY <1>2, <1>3 DEF Pair

LEMMA UpdateRearranges ==
  ASSUME CorrespondenceInv, CorrespondenceInv',
         NEW r \in Requests, NEW op \in MarkWrites \cup Removals, NEW next \in {"emit", "done"},
         Update(r, op, next)
  PROVE  Promised!AbstractNext
  <1> USE DEF CorrespondenceInv, TypeInv
  <1>1. PICK u, mark, kill : u = task[r].user /\ mark = task[r].mark /\ kill = task[r].kill
    OBVIOUS
  <1>2. /\ op # "send" /\ op # "none" /\ task[r].pc = "write" /\ task[r].op = op
        /\ mark \cup kill \subseteq rows /\ rows' = rows \ kill
        /\ asked' = asked /\ Issued' = Issued /\ SameEmails
    BY <1>1, UpdateKeeps, UpdateType DEF Update, AtWrite, MarkWrites, Removals
  <1>3. /\ u \in Users
        /\ \A e \in mark \cup kill : u \in Pair(e) /\ (op \in Reads => u = email[e].recipient)
    BY <1>1, <1>2 DEF TaskUsers, PartiesInv, WriterInv, WriterOf
  <1>4. rows \subseteq Issued /\ Issued \subseteq EmailIds
    BY DEF TypeOK
  <1>5. \A e \in kill : \A w \in Pair(e) : <<w, e>> \in asked
    BY <1>1 DEF RemovalInv, PlanInv, PlanOf
  <1>6. \A e \in Issued : Pair(e)' = Pair(e) /\ \A w : Role(w, e)' = Role(w, e)
    BY <1>2 DEF SameEmails, Pair, Role
  <1>7. ASSUME NEW e \in rows \ kill, NEW w \in Users, w # u \/ e \notin mark
        PROVE  FoldersOf(w, e)' = FoldersOf(w, e)
    <2>1. e \in Issued /\ email[e] \in EmailRow /\ e \in rows'
      BY <1>2, <1>4 DEF TypeOK
    <2>2. PICK base \in EmailRow : base = Unlinked(email[e], kill)
      BY <2>1, UnlinkedType
    <2>3. /\ base.read = email[e].read /\ base.deleted = email[e].deleted
          /\ base.purged = email[e].purged /\ base.starred = email[e].starred
      BY <2>1, <2>2 DEF Unlinked, EmailRow
    <2>4. CASE w \notin Pair(e)
      BY <1>2, <1>6, <2>1, <2>4, OneRole DEF FoldersOf, Pair
    <2>5. CASE w \in Pair(e)
      <3>1. PICK role \in Roles : role = Role(w, e)
        BY DEF Role, Roles
      <3>2. FoldersOf(w, e) = RoleFolders(e, role)
        BY <2>1, <2>5, <3>1, OneRole DEF PartiesInv
      <3>3. FoldersOf(w, e)' = RoleFolders(e, role)'
        BY <1>2, <1>6, <2>1, <2>5, <3>1, OneRoleNext DEF PartiesInv
      <3>4. RoleFolders(e, role)' = RoleFolders(e, role)
        <4>1. CASE e \notin mark
          <5>1. email'[e] = base
            BY <1>1, <2>1, <2>2, <4>1 DEF Update
          <5> QED
            BY <2>3, <5>1, RoleFoldersKept
        <4>2. CASE e \in mark
          <5>1. PICK own \in Roles : own = Role(u, e)
            BY DEF Role, Roles
          <5>2. email'[e] = Written(op, base, own)
            BY <1>1, <2>1, <2>2, <4>2, <5>1 DEF Update
          <5>3. own # role
            BY <1>3, <1>7, <2>5, <3>1, <4>2, <5>1 DEF Role, Pair
          <5>4. op \in Reads => role = "sender"
            BY <1>3, <2>1, <3>1, <4>2, <5>1, <5>3 DEF Role, Roles, PartiesInv, TwoParties
          <5> QED
            BY <2>3, <5>2, <5>3, <5>4, WrittenOther, RoleFoldersKept
        <4> QED
          BY <4>1, <4>2
      <3> QED
        BY <3>2, <3>3, <3>4
    <2> QED
      BY <2>4, <2>5
  <1>8. ASSUME NEW e \in mark \ kill
        PROVE  FoldersOf(u, e)' \in Promised!Places(u, e) \cup {S \in {{}} : <<u, e>> \in asked}
    <2>1. e \in Issued /\ e \in rows' /\ u \in Pair(e) /\ e \in EmailIds
      BY <1>2, <1>3, <1>4
    <2>2. PICK role \in Roles : role = Role(u, e)
      BY DEF Role, Roles
    <2>3. FoldersOf(u, e)' = RoleFolders(e, role)'
      BY <1>2, <1>6, <2>1, <2>2, OneRoleNext DEF PartiesInv
    <2>4. /\ Party(e, role) = u /\ (role = "sender" <=> Mail[e].from = u)
      BY <2>1, <2>2 DEF Role, Party, Pair, Mail
    <2>5. Party(e, role)' = u
      BY <1>2, <2>1, <2>4 DEF SameEmails, Party
    <2>6. RoleFolders(e, role)' = {} => <<u, e>> \in asked
      <3>1. RoleFolders(e, role)' = {} => role \in email'[e].purged
        BY DEF RoleFolders, Kept, Trashed
      <3> QED
        BY <1>2, <2>1, <2>5, <3>1 DEF RemovalInv, AskedInv
    <2>7. RoleFolders(e, role)' # {} => RoleFolders(e, role)' \in Promised!Places(u, e)
      BY <2>4, RolePlaces
    <2> QED
      BY <2>3, <2>6, <2>7
  <1>9. kill \in SUBSET (Promised!Mine(u) \ Removed)
    BY <1>2, <1>3, <1>4 DEF Promised!Mine, Promised!Between, Mail, Pair, Removed
  <1>10. Removed' = Removed \cup kill
    BY <1>2, <1>4 DEF Removed
  <1>11. \A e \in kill : Promised!Between(e) \X {e} \subseteq asked
    <2> SUFFICES ASSUME NEW e \in kill, NEW w \in Promised!Between(e) PROVE <<w, e>> \in asked
      OBVIOUS
    <2>1. e \in Issued
      BY <1>2, <1>4
    <2>2. Promised!Between(e) = Pair(e)
      BY <2>1 DEF Promised!Between, Mail, Pair
    <2> QED
      BY <1>5, <2>2
  <1>12. ASSUME NEW w \in Users, NEW e \in EmailIds
         PROVE  IF e \in kill THEN Shelf'[w][e] = {}
                ELSE \/ Shelf'[w][e] = Shelf[w][e]
                     \/ /\ w = u /\ e \in Promised!Mine(u) \ Removed
                        /\ Shelf'[w][e] \in Promised!Places(u, e)
                                              \cup {S \in {{}} : <<u, e>> \in asked}
    <2>1. Shelf'[w][e] = FoldersOf(w, e)' /\ Shelf[w][e] = FoldersOf(w, e)
      BY DEF Shelf
    <2>2. CASE e \in kill \/ e \notin rows
      <3>1. e \notin rows'
        BY <1>2, <2>2
      <3>2. FoldersOf(w, e)' = {}
        BY <3>1 DEF FoldersOf
      <3>3. e \notin rows => FoldersOf(w, e) = {}
        BY DEF FoldersOf
      <3> QED
        BY <2>1, <2>2, <3>2, <3>3
    <2>3. CASE e \in rows \ kill /\ (w # u \/ e \notin mark)
      BY <1>7, <2>1, <2>3
    <2>4. CASE e \in mark \ kill /\ w = u
      <3>1. e \in Promised!Mine(u) \ Removed
        BY <1>2, <1>3, <1>4, <2>4 DEF Promised!Mine, Promised!Between, Mail, Pair, Removed
      <3> QED
        BY <1>8, <2>1, <2>4, <3>1
    <2> QED
      BY <2>2, <2>3, <2>4
  <1>13. u \in Active /\ Active' \in {Active, Active \ {u}}
    <2>1. \A q \in Requests \ {r} : task'[q].user = task[q].user
      BY <1>2 DEF Update, Finish, Goto, TypeOK
    <2>2. task'[r].user \in {u, None}
      BY <1>1 DEF Update, Finish, Goto, NoTask, TypeOK, Task
    <2>3. u # None /\ task[r].user = u
      BY <1>1, <1>3, NoneAssumption
    <2> QED
      BY <2>1, <2>2, <2>3 DEF Active
  <1>14. Mail' = Mail
    BY <1>2 DEF Mail, SameEmails
  <1>15. Promised!Rearrange(u)
    BY <1>2, <1>9, <1>10, <1>11, <1>12, <1>13, <1>14 DEF Promised!Rearrange
  <1> QED
    BY <1>3, <1>15 DEF Promised!AbstractNext

LEMMA ContinueImplements ==
  ASSUME CorrespondenceInv, CorrespondenceInv', NEW r \in Requests, Continue(r)
  PROVE  Promised!AbstractNext
  <1>1. CASE SendCommit(r)
    BY <1>1, SendDelivers
  <1>2. CASE DetailWrite(r) \/ MarkReadWrite(r) \/ StarWrite(r) \/ DeleteWrite(r)
              \/ RestoreWrite(r) \/ RemovalWrite(r) \/ DeleteBatchWrite(r)
    BY <1>2, UpdateRearranges DEF DetailWrite, MarkReadWrite, StarWrite, DeleteWrite,
         RestoreWrite, RemovalWrite, DeleteBatchWrite, MarkWrites, Removals
  <1>3. CASE SendLoadDraft(r) \/ DeleteBatchEmails(r) \/ DeleteBatchDrafts(r) \/ Emit(r)
              \/ Push(r) \/ DbError(r)
    <2>1. UNCHANGED <<rows, email, asked>>
      BY <1>3 DEF SendLoadDraft, DeleteBatchEmails, DeleteBatchDrafts, DeleteBatchLoad,
           Emit, Push, DbError
    <2> QED
      BY <2>1, Quiet DEF CorrespondenceInv, TypeInv, Promised!AbstractNext
  <1> QED
    BY <1>1, <1>2, <1>3 DEF Continue

LEMMA StepImplements ==
  ASSUME CorrespondenceInv, CorrespondenceInv', [Next]_vars
  PROVE  [Promised!AbstractNext]_(Promised!abstractVars)
  <1>1. ASSUME UNCHANGED <<rows, email, asked>> PROVE Promised!AbstractNext
    BY <1>1, Quiet DEF CorrespondenceInv, TypeInv, Promised!AbstractNext
  <1>2. CASE UNCHANGED mailboxVars
    BY <1>1, <1>2 DEF mailboxVars
  <1>3. CASE Crash
    BY <1>1, <1>3 DEF Crash
  <1>4. ASSUME NEW r \in Requests, Read(r) PROVE Promised!AbstractNext
    BY <1>4, ReadImplements DEF CorrespondenceInv, TypeInv
  <1>5. ASSUME NEW r \in Requests, Continue(r) PROVE Promised!AbstractNext
    BY <1>5, ContinueImplements
  <1> QED
    BY <1>2, <1>3, <1>4, <1>5 DEF Next, vars

(* The mailbox implements Correspondence: one row that two people share,   *)
(* and handlers that write by what they read before, look to each of the   *)
(* two like a copy of their own that only they can move.                   *)
THEOREM MailboxImplements == Spec => ImplementsCorrespondence
  <1>1. Init => Promised!AbstractInit
    <2> SUFFICES ASSUME Init PROVE Promised!AbstractInit
      OBVIOUS
    <2>1. Issued = {} /\ rows = {}
      BY DEF Init, Issued
    <2>2. \A r \in Requests : task[r].user = None
      BY DEF Init, NoTask
    <2>3. Mail = [e \in {} |-> {}] /\ Removed = {} /\ Active = {}
      BY <2>1, <2>2 DEF Mail, Removed, Active
    <2>4. Shelf = [u \in Users |-> [e \in EmailIds |-> {}]]
      BY <2>1 DEF Shelf, FoldersOf
    <2> QED
      BY <2>3, <2>4 DEF Init, Promised!AbstractInit
  <1> QED
    BY <1>1, StepImplements, CorrespondenceCorrect, PTL
       DEF Spec, ImplementsCorrespondence, Promised!AbstractSpec
=============================================================================
