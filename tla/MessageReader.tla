---------------------------- MODULE MessageReader ----------------------------
(***************************************************************************)
(* A participant who reads a conversation page by page, from its newest    *)
(* message back, while others open conversations and send: Conversations   *)
(* with ConversationsService.messages.  A page is skip and take over the   *)
(* rows as they are when it is asked for, newest first, and rows of the    *)
(* same createdAt come in any order, another one on each page.  A deleted  *)
(* message keeps its row and its place, without its content, so that the   *)
(* pages do not depend on deletions.                                       *)
(***************************************************************************)
EXTENDS Conversations

CONSTANT Limit   \* messages on a page

ASSUME LimitAssumption == Limit \in Nat \ {0}

VARIABLE reader  \* who reads what, the pages read so far and what was on them

readerVars == <<reader, vars>>
-----------------------------------------------------------------------------
(* atStart is a history: the messages that were there on page 1.           *)
NoReader == [conv |-> None, pages |-> 0, seen |-> {}, atStart |-> {}, ended |-> FALSE]

In(c) == {m \in DOMAIN message : message[m].conv = c}

(* The orders in which the database may return the rows of a conversation. *)
NewestFirst(c) ==
  {row \in [1 .. Cardinality(In(c)) -> In(c)] :
     \A i, j \in DOMAIN row :
       i < j => row[i] # row[j] /\ message[row[i]].createdAt >= message[row[j]].createdAt}

(* Mutant: the pages are counted from zero.                                *)
SkipOneMore(page) == page * Limit

Skip(page) == (page - 1) * Limit

(* messages: what one page may hold.                                       *)
Pages(c, page) ==
  {{row[i] : i \in {i \in DOMAIN row : Skip(page) < i /\ i <= Skip(page) + Limit}} :
     row \in NewestFirst(c)}

(* The reader asks for the next page, until one comes back empty.          *)
ReadPage(c) ==
  /\ ~reader.ended
  /\ \E found \in Pages(c, reader.pages + 1) :
       reader' = [conv |-> c, pages |-> reader.pages + 1,
                  seen |-> reader.seen \cup found,
                  atStart |-> IF reader.pages = 0 THEN In(c) ELSE reader.atStart,
                  ended |-> found = {}]
  /\ UNCHANGED vars

(* The first page, of a conversation the reader takes part in.             *)
OpenConversation(u, c) ==
  /\ reader = NoReader
  /\ Participant(u, c)
  /\ ReadPage(c)

NextPage == reader.pages > 0 /\ ReadPage(reader.conv)

ReaderInit == Init /\ reader = NoReader

ReaderNext ==
  \/ Next /\ UNCHANGED reader
  \/ \E u \in Users, c \in DOMAIN conv : OpenConversation(u, c)
  \/ NextPage

ReaderSpec == ReaderInit /\ [][ReaderNext]_readerVars
-----------------------------------------------------------------------------
(* Nothing slips between two pages: whoever reads to the end has seen      *)
(* every message that was there when they began, whatever was sent or      *)
(* committed late meanwhile, unless it has its createdAt in common with    *)
(* another one: no second column decides the order of those.               *)
PagesMissNothing ==
  reader.ended =>
    \A m \in reader.atStart \ reader.seen :
      \E n \in In(reader.conv) \ {m} : message[n].createdAt = message[m].createdAt
=============================================================================
