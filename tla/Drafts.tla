------------------------------- MODULE Drafts -------------------------------
(***************************************************************************)
(* DraftsService (src/modules/drafts/drafts.service.ts): table EmailDraft, *)
(* whose rows belong to a user or, before somebody has signed in, to a     *)
(* device.  A user who signs in claims the drafts of the device.  update,  *)
(* updateStatus and duplicate look a draft up by its owner, await, and     *)
(* write by its id alone, so that a claim or the mailbox may come between. *)
(*                                                                         *)
(* The mailbox sends and trashes drafts as well: this module is part of    *)
(* Mailbox, which extends it.                                              *)
(***************************************************************************)
EXTENDS Naturals

CONSTANTS
  Users,        \* the users, all of them registered
  Devices,      \* the values of X-Device-Id
  DraftIds,     \* supply of uuids for drafts: a bound
  Calls,        \* the bound on calls of DraftsController in progress at once
  None          \* a null column or an absent parameter

ASSUME NoDraftAssumption == None \notin Users \cup Devices \cup DraftIds

VARIABLES
  draft,        \* table "EmailDraft"
  call,         \* what each call of DraftsController is about to write
  sent          \* history: the drafts that an email was ever sent from

draftVars == <<draft, call, sent>>
-----------------------------------------------------------------------------
EmailStatus == {"DRAFT", "SENT", "TRASHED"}

(* ownerFrom: a signed-in user, or else a device.                          *)
Owners ==
  [user : Users, device : {None}] \cup [user : {None}, device : Devices]

Columns == [user : Users \cup {None}, device : Devices \cup {None}]
DraftRow ==
  [user : Users \cup {None}, device : Devices \cup {None}, status : EmailStatus]

Drafted(owner) == [user |-> owner.user, device |-> owner.device, status |-> "DRAFT"]

(* copy: the owner's columns as they were read.  Histories of what came    *)
(* between the reading and the writing: lost, the draft was claimed;       *)
(* early, an email was sent from it, so that the call had come before.     *)
NoCall ==
  [op |-> "none", owner |-> None, draft |-> None, copy |-> None,
   status |-> "DRAFT", lost |-> FALSE, early |-> FALSE]

Call ==
  {NoCall} \cup
  [op : {"update", "updateStatus", "duplicate"}, owner : Owners, draft : DraftIds,
   copy : Columns, status : EmailStatus, lost : BOOLEAN, early : BOOLEAN]

(* ownerWhere.                                                             *)
OwnerWhere(owner, d) ==
  IF owner.user # None THEN draft[d].user = owner.user
                       ELSE draft[d].device = owner.device

OwnDrafts(u) == {d \in DOMAIN draft : draft[d].user = u /\ draft[d].status = "DRAFT"}

With(d, row) == [x \in DOMAIN draft \cup {d} |-> IF x = d THEN row ELSE draft[x]]

DraftsInit ==
  /\ draft = [d \in {} |-> None]
  /\ call = [c \in Calls |-> NoCall]
  /\ sent = {}
-----------------------------------------------------------------------------
CreateDraft ==
  /\ \E owner \in Owners, d \in DraftIds \ DOMAIN draft : draft' = With(d, Drafted(owner))
  /\ UNCHANGED <<call, sent>>

CallOn(d, op, owner, status) ==
  [op |-> op, owner |-> owner, draft |-> d,
   copy |-> [user |-> draft[d].user, device |-> draft[d].device],
   status |-> status, lost |-> FALSE, early |-> FALSE]

(* The findFirst of a call: by owner, and for update by status too.        *)
FindDraft(c) ==
  /\ call[c].op = "none"
  /\ \E owner \in Owners, d \in DOMAIN draft,
        op \in {"update", "updateStatus", "duplicate"}, status \in EmailStatus :
       /\ OwnerWhere(owner, d)
       /\ op = "update" => draft[d].status = "DRAFT"
       /\ op # "updateStatus" => status = "DRAFT"
       /\ call' = [call EXCEPT ![c] = CallOn(d, op, owner, status)]
  /\ UNCHANGED <<draft, sent>>

AtCall(c, op) == call[c].op = op
EndCall(c) == call' = [call EXCEPT ![c] = NoCall]

(* Mutant: the row is written back as it was read, with its status.        *)
EditedAsRead(row) == [row EXCEPT !.status = "DRAFT"]

(* update writes texts, which are left out, and no other column.           *)
Edited(row) == row

UpdateDraft(c) ==
  /\ AtCall(c, "update")
  /\ draft' = [draft EXCEPT ![call[c].draft] = Edited(@)]
  /\ EndCall(c)
  /\ UNCHANGED sent

(* PATCH status, and DELETE, which is the status TRASHED: written by id,   *)
(* whatever the draft's owner and status have become since it was read.    *)
UpdateStatus(c) ==
  /\ AtCall(c, "updateStatus")
  /\ draft' = [draft EXCEPT ![call[c].draft].status = call[c].status]
  /\ EndCall(c)
  /\ UNCHANGED sent

(* The copy belongs to whom the draft belonged to when it was read.        *)
DuplicateDraft(c) ==
  /\ AtCall(c, "duplicate")
  /\ \E d \in DraftIds \ DOMAIN draft : draft' = With(d, Drafted(call[c].copy))
  /\ EndCall(c)
  /\ UNCHANGED sent

(* Mutant: a claimed draft stays the device's as well.                     *)
ClaimedByBoth(row, u) == [row EXCEPT !.user = u]

Claimed(row, u) == [row EXCEPT !.user = u, !.device = None]

ClaimDeviceDrafts(u, device) ==
  LET D == {d \in DOMAIN draft : draft[d].user = None /\ draft[d].device = device} IN
  /\ D # {}
  /\ draft' = [d \in DOMAIN draft |-> IF d \in D THEN Claimed(draft[d], u) ELSE draft[d]]
  /\ call' = [c \in Calls |-> IF call[c].draft \in D THEN [call[c] EXCEPT !.lost = TRUE]
                              ELSE call[c]]
  /\ UNCHANGED sent

(* The second statement of a call fails.                                   *)
CallFails(c) ==
  /\ call[c].op # "none"
  /\ EndCall(c)
  /\ UNCHANGED <<draft, sent>>

DraftsNext ==
  \/ CreateDraft
  \/ \E u \in Users, device \in Devices : ClaimDeviceDrafts(u, device)
  \/ \E c \in Calls : \/ FindDraft(c) \/ UpdateDraft(c) \/ UpdateStatus(c)
                      \/ DuplicateDraft(c) \/ CallFails(c)
-----------------------------------------------------------------------------
DraftsTypeOK ==
  /\ DOMAIN draft \subseteq DraftIds /\ draft \in [DOMAIN draft -> DraftRow]
  /\ call \in [Calls -> Call]
  /\ sent \subseteq DraftIds

(* Whom a draft belongs to: its user, if it has one.                       *)
OwnerOf(d) ==
  IF draft[d].user # None THEN [user |-> draft[d].user, device |-> None]
                          ELSE [user |-> None, device |-> draft[d].device]

(* A call holds a draft of its owner, unless a claim has taken it since.   *)
CallsKeepToOwners ==
  \A c \in Calls : call[c].op # "none" =>
    call[c].lost \/ OwnerOf(call[c].draft) = call[c].owner

(* A draft that became an email is offered as a draft again only by an     *)
(* updateStatus for that status: one of its owner, or one that had looked  *)
(* it up before it was sent.  The second case is the code's: nothing stops *)
(* a late updateStatus of the owner, or of the device that a claim has     *)
(* taken the draft from.  Nobody else's call can, and no late update,      *)
(* claim, duplicate, send or batch of anybody's.                           *)
Reopened(d) == draft[d].status # "DRAFT" /\ draft'[d].status = "DRAFT"

ReopenedBy(c, d) ==
  /\ AtCall(c, "updateStatus") /\ call[c].draft = d /\ call[c].status = "DRAFT"
  /\ call'[c] = NoCall
  /\ call[c].early \/ call[c].owner = OwnerOf(d)

SentStaysOut ==
  [][\A d \in sent : Reopened(d) => \E c \in Calls : ReopenedBy(c, d)]_draftVars
=============================================================================
