----------------------------- MODULE MailboxMC -----------------------------
(* Instances of Mailbox for TLC: each run picks the handlers that meet.    *)
EXTENDS Mailbox, TLC

(* What two parties may do to one email, and batches of emails and drafts, *)
(* short of removing it.  The other handlers that write one column, or the *)
(* opposite of one, are among RemovalOps or write what these write.        *)
SideOps == {"send", "detail", "markUnread", "unstar", "deleteBatch"}

(* Two parties trash, restore and remove emails while they answer them.    *)
RemovalOps == {"send", "delete", "restore", "removePermanently", "emptyTrash"}

Symmetry ==
  Permutations(Requests) \cup Permutations(EmailIds) \cup Permutations(Users)
    \cup Permutations(DraftIds)
=============================================================================
