# TLA+ for the Z backend

Z is a NestJS API: users dictate a message, Deepgram transcribes it, one of several AI
providers turns it into an email, and the email is sent inside the application, answered,
trashed and removed; users also hold direct conversations. One Node process serves all of it
over one PostgreSQL database. This directory models the parts of the backend that keep state,
checks them with TLC on small instances, and proves the most important properties with TLAPS.

How the program runs decides the shape of every module. Node runs the code between two
`await`s alone, so a step here is what a handler does between two awaits; requests interleave
at every await. Handlers read a row, await, and write by primary key, without locks and mostly
without a transaction around both. Maps kept in memory (idempotency, circuit breaker) die with
the process; the database does not.

## 1. Inventory

| Component | State | Operations | What is hard | What makes it correct | Modelled by |
|---|---|---|---|---|---|
| Mailbox (`modules/mailbox`) | `Email` rows, shared by sender and recipient, with columns for each | send, reply, detail, mark read or unread, star, delete, deleteBatch, restore, removePermanently, emptyTrash | read-then-write by id, in both parties' requests at once; event and push after the commit; crash before the event | nothing disappears for a party that did not ask for it; replies and threads join the right people; a party changes its own side only | `Mailbox`, `Correspondence` |
| Drafts (`modules/drafts`) | `EmailDraft` rows of a user or of an anonymous device | create, update, duplicate, status, delete, claim | claimed, sent or trashed between the read and the write of a call | only the owner changes one; a sent draft is no draft again | `Drafts`, part of `Mailbox` |
| Idempotency (`common/idempotency`) | map from key to promise, in memory | run, prune | operation against expiry, failure, size limit, restart | one operation in flight per key; failures not cached; live entries kept | `Idempotency` |
| AI router and orchestrator (`modules/ai/services`) | round-robin counter, health of each provider, misconfigured providers | generateEmail, one repair search | concurrent failures and successes, timeouts, cooldown | circuits open for a reason and for a cooldown; every request answered in time; an email that is handed on has the numbers of the transcript that the check recognises | `ProviderRouter` |
| AI providers | none | one HTTP call | fail in every way, or never answer | - | failures of `ProviderRouter` and the kinds of error made of them |
| Prompts, normalisers, validators, parser | none | pure functions on text | numbers said in words, in digits, with a unit, with a decimal comma, or in forms that no pattern takes | of the recognised numbers none lost, none invented | `EmailValidation`, in part |
| Authentication (`modules/auth`) | `User`, `EmailVerificationCode` | register, verify, resend, login, refresh, logout | five statements without a transaction, mail that fails, concurrent calls | sessions need verified addresses, which need mail; old codes stay invalid; logout is final | `EmailVerification`, `Accounts` |
| Mail (`modules/mail`) | none | one call to Brevo | fails after the code is stored | - | outcome of a step of `EmailVerification` |
| Conversations (`modules/conversations`) | `Conversation`, participants, `Message` | createOrOpenDirect, sendMessage, sendGeneratedEmail, markRead, deleteMessage, messages | two creations at once; rows older than the unique key; overlapping sends; pages by offset while messages arrive | one conversation per pair; opening never fails; list order; nothing slips between two pages; what is read stays read | `Conversations`, `MessageReader`, `Chat` |
| Chat gateway | socket rooms, rate buckets | connect, join, leave, send, typing, read | events after awaits; sockets that close meanwhile | rooms and events are those of participants; who is in the room hears | `Chat`, `RateLimit` |
| Speech and voice compose (`modules/speech`, `modules/compose`) | none of its own; runs inside an idempotent operation | transcribe, compose | two requests under one deadline; failure that is an answer | keeps its deadline, so that it ends before its entry | `VoiceCompose` |
| Notifications (`modules/notifications`) | push tokens, settings | register, revoke, settings, send | late revocations, of others and one's own; reports on tokens read earlier; settings read before | who is signed in is reached, unless their own late revocation took that back; who signed off is not | `PushTokens`; called from `Mailbox` |
| Users | none | two reads | - | - | not modelled |
| Rate limit guard | buckets in memory | canActivate | window edges, sweep | twice the limit at most; refusals have a reason; expired buckets go | `RateLimit` |
| Filter, interceptor, fetch with timeout, configuration, health, Prisma client | none | - | - | - | not modelled |
| deploy, scripts | outside the process | - | - | - | only as restarts |

Interactions: controllers wrap `send`, draft creation, `ai:compose`, `speech:transcribe` and
`compose:audio` in `IdempotencyService.run`. `compose:audio` calls SpeechService, then
AiOrchestratorService, which calls the router once or twice. `MailboxService.send` reads a draft of
DraftsService's table and writes an email in one transaction, then emits `email:new` through
MailboxEvents and awaits NotificationsService, which swallows every failure. ChatGateway and the
REST controller both call ConversationsService.

## 2. Modules

Each component has a module with its state and actions, an `...MC` module with the
definitions TLC needs, and, where there are theorems, a `...Proofs` module. A definition
marked "Mutant" in a comment is a deliberate bug; nothing uses it, and the table "mutants" of
PROJECT.json says which definition it replaces to show that a property notices.

**Mailbox.** `email[e]` holds the columns of a row; a pair of columns such as
`senderDeleted`/`recipientDeleted` is a set of roles. `rows` tells which rows still exist, so
that deleted ones can be spoken of. A slot of `Requests` serves one request after another:
`...Read` actions are the part of a handler up to its first await (guards included; a refused
request changes nothing and takes no step), `...Write` the rest, with the ids remembered in
between. `send` has four steps: read the email replied to; in the transaction, read the draft;
commit; emit and push. `Unlinked` is `onDelete: SetNull` of `replyTo`. `deleteBatch` has its
two queries run in either order. `asked` is a history variable, set when removePermanently or
emptyTrash begins for an email. The lists appear as `FoldersOf`, the folders whose conditions
(`folderWhere`) a row meets for a user.

**Drafts.** DraftsService, which Mailbox extends: a row belongs to a user or to a device, and
signing in claims a device's drafts. update, updateStatus and duplicate are a `FindDraft` by
owner and a write by id, so that a claim, a sending or a batch deletion comes between. `lost`
marks a call whose draft was claimed since it looked, `early` one whose draft was sent since;
`sent` is the history of drafts that became emails, which nothing takes out of it.
`SentStaysOut` is an action property: the step that makes a sent draft a draft again is the
write of an updateStatus to DRAFT, of the draft's owner or of a call that was `early`. The
latter is what the code does and hardly means (section 6), and no other write may do it.

**Correspondence.** What the mailbox promises, as if each party had a copy of each email:
requests move emails on the shelf of the user who made them and on nobody else's, an email
leaves a shelf only if its user asked, and is gone for good only if both did. It has no rows,
tasks or columns; Mailbox implements it with `Mail`, `Shelf`, `Removed` and `Active` computed
from the shared rows. That a restore may overlap a removal (section 6) is allowed here, since
the user has asked by then.

**Idempotency.** `entries` is the map, `run` every promise ever made. A request that finds a
live entry shares its promise and changes nothing. An entry is set after the synchronous part
of its operation, and the catch runs later. The service bounds no operation's length: `MaxRun`
is the environment's, and the assumption `RunsEndInTime == MaxRun < TTL` stands where a result
needs it, because the catch (idempotency.service.ts:16) deletes whatever entry the key has.
Without it, an operation that outlives its entry deletes its successor's.

**VoiceCompose.** The operation of `POST /compose/from-audio`, composed with Idempotency:
`op[o].step` is the await an operation is at, and `Run` maps it to the state of a promise.
It shows that this operation meets `RunsEndInTime`, and that the whole implements
`Idempotency!Spec`: `Idempotency` is the abstract specification, `run <- Run` the mapping.
Transcripts are abstracted to the thresholds they pass, all rejections for content to
`unusable`. `ComposeTime` is what `AnsweredInTime` of ProviderRouter bounds. At the default
settings `MaxRun` is 35 s and two searches, far below ten minutes.

**EmailValidation.** The deterministic check of an email against its transcript, and what the
normaliser does to numbers before it. A text is the set of its mentions of numbers, in whatever
form, each with the unit or month that follows: digits that stand alone, the six words of
NUMBER_WORDS, and all other forms (`Unlisted`: "trois", "20kg", "vingt-cinq", "9h30"). `Parts`
are the listed words in a compound, which the word boundaries let through; `Matched` are the
forms that a pattern takes whole. `Facts` is extractCriticalFacts, `RowOf` the `find` over
NUMBER_WORDS, which returns the first row that matches, `Contains` the search with no letter or
digit on either side (`Within`), so that a decimal contains its halves. `Recognised` is what of a
text's numbers the check can tell apart, and `KeepsRecognised` says no more than that these are
kept; section 6 lists what passes besides. The limits of the abstraction: decimals carry no unit,
`Units` are those that the third pattern keeps (before a symbol its last word boundary drops the
symbol, so that a price in euros with the sign is the bare number), removing repeated words only
drops a mention made twice, and all other checks (names, dates, times, references, greeting,
closing, language, wording) are the one bit `formed`.

**ProviderRouter.** Extends EmailValidation. A request is `arriving` before the await of the
counter, `routing` after it, `calling` while a provider works. Because the loop's code between
awaits is atomic, `Search` is the whole walk from one call to the next: circuits found expired
are reset on the way, unhealthy providers skipped. What providers answer and when is
nondeterministic: one of `Failures`, whose `Kind` the parser or normalizeSdkError decides, and
with it whether the request turns to another provider (`IsFailoverEligible`) and for which
`Reason`; or one of the emails in `Drafts`, which `Valid` accepts, sends to the one repair, or
rejects for good.

**EmailVerification.** A call is at one of eight statements. The four of
createAndSendVerificationCode (latest, invalidate, createCode, mail) interleave with those of
other calls; `Break` ends a call anywhere. The order of `createdAt` picks the latest code.
`superseded` and `logouts` are histories. bcrypt considers 72 bytes, which the header of a
token and its payload's start fill, so any refresh token of a user matches the stored hash of
another of the same user: the hash is modelled by whether it is set.

**Accounts.** What AuthService promises: an account is unknown, unverified or verified; codes
have an owner, are received by mail, and are spent when they are withdrawn or used; a code that
is entered while it is good is a claim, and only a claim verifies. It has no calls, statements,
attempts or clock. EmailVerification implements it: `Standing` and `Sessions` are read off the
rows of users, `Owner` and `Spent` off those of codes, and `Claims` is what the calls hold that
are about to confirm. A claim outlives the code, which may be withdrawn before the transaction
of its call: `Verify` asks for the claim alone, as verifyEmail does. Two calls may claim the
same code, so that the end of one may or may not take the claim away (`Drop`).

**Conversations.** `conv` is the table with its unique index, `Init` any set of rows older
than `directKey`, since the migration that added the column filled it for none. `findFirst`
has no order, so any matching row is returned. The transaction of `sendMessage` is two steps,
with the message's time taken in the first and the commit in the second.

**MessageReader.** Extends Conversations by a participant who reads page after page until one
is empty. A page is skip and take over the rows as they are at that moment, newest first; rows
of the same `createdAt` come in any order, and in another one on the next page, because
messages() sorts by that column alone. deleteMessage keeps the row and its place, so deletions
do not matter to pages. A message that commits late enters behind messages already read.

**Chat.** What goes on in open conversations. A call begins after its assertParticipant, whose
answer never changes, and is at the await named by `call[t].step`. A socket is one connection:
it is `connecting` while its token is verified, `on`, then `closed` for good; `room[c]` is the
room of socket.io, which a closed socket has left and does not enter (`Enter`). A message takes
its time from the insert (`Send`) and is seen from the commit; a socket's call goes on to
`Emit`. `marks` and `owed` are histories: of each participant the newest mark and whether an
older one has overtaken it; and who was in the room when a message committed, has not left it
since and has not been told. `EveryoneInRoomHears` is an invariant over `owed`: some call is
about to tell them.

**PushTokens.** `device` is the table by its unique token. A phone stands for its token; who is
signed in on it, the revocations on their way and the removed apps are the environment. The app
is not in the repository: that it registers when a user signs in, and again when it likes, and
revokes when they sign out is read off the two endpoints; it awaits the former, so that a user
who has not registered yet counts as not signed in, and not the latter, which may come late, be
repeated or be lost. The user who signs in may be another one or the one whose revocation is
still on its way; `overlapped` is the history of the latter case, as it was at the last
registration, in which the code takes the new registration back (section 6). Firebase calls only
dead tokens invalid, and dead tokens do not come back. `sendNewEmail` is its four awaits.

**RateLimit.** A request is one step, since neither limiter awaits. `Swept(Filled(k))` is the
order of canActivate: count, then sweep; a refused request throws before the counter of the
sweep. `Limit` stands for policy(), by key, and for the limits of the two kinds of socket
events. The process lives on throughout. It and Idempotency are the maps that the process keeps
in memory; both read its clock, module `Clock`.

## 3. Runs

| Run | Instance | What it shows |
|---|---|---|
| mailbox_replies | 2 users, 2 emails, 2 requests at a time; sends, replies, trash, restore and both kinds of removal | `ReplyAnswers`, `KeptUntilAsked`, `ImplementsCorrespondence` |
| mailbox_sides | 2 users, 1 device, 1 email, 2 drafts, 1 request to the mailbox and 1 call of the drafts at a time, 1 crash; no removals | `TypeOK`, `EveryEmailAnnounced`, `DraftsKeepToOwners`, `SentStaysOut` |
| mailbox_purge_race | 2 users, 1 email | violation of `PurgedOnlyFromTrash`, see section 6 |
| idempotency | 2 keys, 4 operations, size limit 2, 1 restart | `TypeOK`, `OncePerWindow`, `EntriesKept` |
| voice | 2 keys, 2 operations, 1 restart | `TypeOK`, `DeadlineKept`, `ImplementsIdempotency` |
| voice_retry | same | violation of `RetryRunsAgain` |
| router | 3 providers, 2 requests (one said in French, one in English with a decimal comma), 8 emails, 2 attempts, threshold 2, cooldown 2, counter wrapping at 3, `FairSpec`; numbers in forms that the check does not recognise in both transcripts and in the emails | `TypeOK`, `BreakerHolds` (`CircuitJustified` and `OpenMeansQuiet`), `CooldownKept`, `AnsweredInTime`, `CompletedKeepsRecognised`; `EveryRequestAnswered` |
| verification | 1 user, 3 codes, 2 calls at a time, 1 logout | `TypeOK`, `SessionsNeedMail`, `SupersededStayUsed`, `AttemptsBounded`, `RevivedOnlyByOverlap`, `ImplementsAccounts` |
| conversations | 2 users, 2 conversations which may be old, 3 messages, 2 calls, pages of 1, times 0..2, old conversations and messages 3 together (`FewMessages`) | `TypeOK`, `OpensAgree`, `OpensSucceed`, `LastMessageIsLatest`, `PagesMissNothing` |
| chat | 1 conversation of 2 users, a socket of each and 1 of a stranger, 1 message, 2 calls, times 0..1 | `TypeOK`, `OnlyParticipants`, `ReadStaysRead`, `EveryoneInRoomHears` |
| push_tokens | 2 users, 2 phones, 1 push at a time | `TypeOK`, `SignedInIsReachable`, `NoPushAfterSignOff` |
| rate_limit | 2 HTTP keys and 1 of a socket, limits 2 and 1, window 2, times 0..4, sweep at 3 | `RateTypeOK`, `LimitsKept` (`TwiceTheLimit` and `RefusedForAReason`), `ExpiredGo` |

Bounds. Two requests at a time are enough for every race in this code: each property relates at most
the read of one handler to the write of another, and slots are reused, so a run is a long sequence
of requests of which any two overlap. Two emails are an email and its reply; one user pair has both
roles. Longer reply chains and more users are covered by the proofs of `ThreadOfOnePair`, which says
nothing of two users only and is not run, and of `ReplyAnswers`. Users do not share accounts or
codes, so one user suffices for the races of verification; that no call touches another user's codes
or account, of which `ImplementsAccounts` also speaks, is `KeepsAccounts`, proved for any number of
users. One message is enough for a mark to be older and another to be newer than it; overlapping
calls of one socket can write their marks in either order already with two times. With a socket of
each participant the one that sends and the one that listens are different, and either may leave or
close while the other's message is on its way. Two users of two phones are each other's next user
and may also be their own; calls of sendNewEmail share nothing but the table, in which another
call's report only revokes, so that one at a time is enough for the reads of one call. One draft is
claimed or sent while a call holds it, the other is a duplicate. The emails of `router` state their
numbers in the words of the request, in digits, in the other text's way, one too many, one too few,
or are badly formed; some state other numbers where the check does not recognise them, and are
handed on. A pair needs two old conversations for a refused claim, which leaves none for a third; a
page boundary needs two messages and a third one to shift it, in a conversation of which age does
not matter: hence `FewMessages`, which limits their sum to 3. Two windows and a sweep within each
are what `TwiceTheLimit` needs. The clocks run far enough for an entry, code or circuit to expire
and to be replaced once; a limit of two attempts, two failures or two entries can be reached and
passed. MaxTime, MaxRefused, MaxCrashes, MaxRestarts, MaxLogouts, LastArrival and the supplies of
ids are bounds of the model and named so in each module.

Symmetry is used for requests, ids and users (in `chat`, the
two participants together with their sockets) in runs that check safety properties
only, never with liveness. `CHECK_DEADLOCK FALSE` is set everywhere: each model
stops when its supply of ids or its clock is used up, and the real system may be idle.

Fairness. `router`: `WF` of the clock and of what the event loop owes a request (continuations
and timers), never of a provider: the requests are answered even if no provider ever is.
That the
mailbox announces what it commits, and the gateway what a socket sends, are invariants instead:
somebody has been told, or a call is at the step that tells them. They need no fairness, can be
proved, and give the event because the event loop runs what follows an await.

## 4. Proofs

| Module | Theorems | Argument |
|---|---|---|
| MailboxProofs | `TypeCorrect`, `NothingDisappears`, `ThreadsAreOfOnePair`, `RepliesAnswer`, `EmailsAreAnnounced`, `DraftsAreTheirOwners`, `SentDraftsStayOut`, `MailboxImplements` | The properties are not inductive, since a write uses what was read earlier. `RemovalInv` adds what tasks plan: a row to be deleted is one that both parties asked to remove, and purged columns only those of a party that asked. The conversation invariant adds that a reply under way carries its original's thread and parties, even when the original is deleted meanwhile. `DueInv` adds that the request which is to announce an email has its recipient in mind. A draft's user, once set, never changes, so that what was looked up stays its owner's; only a device's draft is claimed. That sent drafts stay out is an action property of the same invariants: a call that holds a sent draft either found it after the sending, by its owner, or is marked `early`, and `ReopenStep` goes through the writes. For the refinement, `CorrespondenceInv` adds that every email is between two different users and that tasks mark emails of their user; each write is then a `Rearrange` of that user's, since it touches the columns of one role, SendCommit is `Deliver`, the first step of a removal `Ask`, other first and last steps `RequestsChange`. |
| InMemoryProofs, Idempotency | `TypeCorrect`, `DoesNotCacheFailures`, `SharesInFlight`, `LiveEntriesStay` | `EntryInv`: an entry is that of an operation of its key in this process that has not failed, and expires TTL after its start. `WindowInv`, under `RunsEndInTime`: conversely an operation younger than TTL that has not failed still has its entry. |
| InMemoryProofs, RateLimit | `RateTypeCorrect`, `LimitsAreKept`, `ExpiredBucketsGo` | Neither half of `LimitsKept` is inductive, since a bucket that is swept takes its count along. `Windows` (`KeyInv`) says what a bucket stands for: a current one has counted the last passes of its key, which lie in its window, up to the limit, and what passed before lies before the start of that window, all but `Limit` of it more than a window before that start. So of twice the limit and one requests the first and the last are of windows that do not touch, and a refused key has a full window behind it. `SweepInv`: the passes of the guard since an expired bucket ended are no more than those since the last sweep, which would have dropped it; it counts sets, with the theorems on cardinalities. |
| ProviderRouterProofs | `TypeCorrect`, `BreakerIsSound`, `CooldownsAreKept`, `RequestsAnsweredInTime`, `CompletedEmailsKeepRecognisedNumbers` | `HealthInv`: failures reach the threshold where a circuit is open, and calls to its provider began a cooldown before it ends. One lemma per action. For the numbers: a completed request carries an email that passed `Valid` with its own transcript, and `Valid` implies `KeepsRecognised`, whatever the texts, because every recognised number is a fact or a part of one, a fact is only ever found as a number of the same value (lemmas on rows, parts and facts) and normalising splits exactly the decimals with a comma. Nothing is claimed of the other numbers. For the types, a request that searches holds a list of configured providers and an offset within it. For the time, `TimeInv`: a request that has made n calls in its search, after MaxAttempts at most in the one before, is no later than n timeouts and those of the other after its beginning (`Due`), and while a call waits the clock stops at its timer (`NothingDue`). |
| EmailVerificationProofs | `Invariant`, `TypeCorrect`, `SessionsComeFromMail`, `InvalidatedForGood`, `LogoutIsFinal`, `AttemptsAreBounded`, `KeepsAccounts` | `Inv` adds to each call under way what it knows: a call that confirms holds a mailed code of its user, one that will issue tokens serves a verified user, and what it saw to be superseded is used. `Grows` says that no step takes such facts back. `AttemptsInv`: the attempts counted on a code and the calls about to count one are together below the maximum and the number of calls, as a call is let in below the maximum only. For the refinement, `Known` adds that a call which makes a code serves a registered user; each action then is one lemma: Invalidate is `Withdraw` of all codes of the user, since those not unused are spent already; a Verify that matches is `Enter`, since what was entered had been mailed to the user; Confirm is `Verify`; a Break there `GiveUp`; the rest `Issue`, `Receive`, `Join`, `SignIn`, `SignOut` or nothing. |
| ConversationsProofs | `Invariant`, `TypeCorrect`, `OneConversationPerPair`, `OpeningSucceeds`, `ListIsSorted`, `NothingSlipsBetweenPages` | `Inv` adds what calls know and what the index keeps: a call that will claim a key holds a conversation of old, one that will create found none of old for its pair; a conversation that is not of old has its key, an opened one too, and keys are unique per pair; messages are of existing conversations and committed no later than now. So a refused claim means two conversations of old, and the last to commit is the message whose time the list shows. For pages, `ReaderInv`: a message of the start that is unseen and shares its time with none has at least `pages * Limit` newer ones. New messages only move it back, and a page that reaches past that number shows it (`PageSkipsNone`, by a bijection between the places before a message and the messages newer than it); an empty page leaves nothing behind. |
| ChatProofs | `Invariant`, `TypeCorrect`, `ParticipantsOnly`, `ReadStays`, `EveryoneIsTold` | `Inv` adds what a call knows at its step (who entered, marks or sends takes part; what is emitted or deleted exists), that `lastReadAt` is the newest mark unless that was overtaken (`MarksInv`), that no message commits before its time, and that who is owed a message is in the room it goes to (`OwedInv`), so that the emission reaches them; a call leaves `emit` only by telling the room. |
| PushTokensProofs | `TypeCorrect`, `SignedInAreReached`, `SignedOffAreLeftAlone` | `PhonesInv`: tokens that Firebase reports are dead, and nobody is signed in with a dead one; if a revocation of the registered user's own is on its way, it was so as they registered (`overlapped`), for it is sent as they sign out; those of others do not match the row. What a call has read is compared with the histories it carries, which shrink when a token is registered or a user unmutes. |
| VoiceComposeProofs | `TypeCorrect`, `InTimeAlways`, `TranscriptionsEndInTime`, `ComposeIsIdempotent` | `InTime` says by when each operation came to its step and until when the clock may run while it is there. From it follow the deadline, and that Tick of VoiceCompose is a Tick of Idempotency, whose operations may not run longer than MaxRun. Start, Resolve, Reject and Restart map to Start, Succeed, Fail and Restart; a step between two awaits of an operation maps to a stutter. As the assumption of VoiceCompose makes `RunsEndInTime` true of its MaxRun, what InMemoryProofs shows of an operation is true of this one. |

The assumptions are the named `ASSUME`s on constants of each module (numbers are naturals,
`None` is no id; for `AttemptsAreBounded`, that the calls under way are finitely many), and
`RunsEndInTime` where stated. The theorems hold for any sets of users, ids, requests, keys and
providers.

## 5. Only model-checked, and not modelled

Model-checked only: liveness (`EveryRequestAnswered`), which is out of the prover's reach. Every
invariant, action property and refinement that a run checks is also a theorem. The other way round,
`ThreadOfOnePair` and that failures are not cached (`DoesNotCacheFailures`) are proved and have no
run of their own.

Not modelled: searches, pages and counts of the mailbox and the reads of Users, which change
nothing and combine nothing; prompts and the checks of an email other than that of numbers,
which are regular expressions on text;
typing and the events message:read and conversation:updated, which carry no state; who is
connected to the mailbox's rooms; texts of any kind; the deployment. A request that
is refused is not a step, so a property about what refusals say cannot be stated here.
Database isolation is taken as each statement or transaction being atomic when it commits,
with reads of the last committed state, which is what PostgreSQL's READ COMMITTED gives these
handlers; a statement that fails ends its call and has written nothing. A transaction that
commits although its acknowledgement is lost is therefore not among the failures: `send` would
answer with an error and announce nothing, and `EveryEmailAnnounced` does not speak of it. A
verification mail that Brevo delivers although the call to it times out is `Mail`, since nothing
of the server's state depends on how that call ends; one that arrives after the call has ended
is not modelled.

## 6. Disagreements found

- `mailbox_purge_race`: removePermanently refuses an email that is not in the trash
  (mailbox.service.ts:283), but purges by id afterwards; a restore by the same user in
  between leaves an email purged and not in the trash. It then is in no folder of the user's.
- `voice_retry`: a failed generation is returned as `retryable_error` and cached for ten
  minutes by the idempotency map, so that the retry it invites gets the same failure.

More places where docs and code differ, or where the code does what it hardly means, are plain
from the models or were met while writing them, and have no run:

- The README (line 80) says that old unused codes are invalidated on resend. Latest, invalidate
  and create are three statements of createAndSendVerificationCode, so that two resends that
  overlap leave two unused codes. verifyEmail only ever compares the latest; what holds is
  `SupersededStayUsed`.
- The README lists message:deleted among the events of the server; deleting a message emits
  nothing (`Delete` of Chat), so that the sockets in its room go on showing it.
- `find` in factIsPresent (email-validation.service.ts:129 and :140) returns the French row for
  10, 15 and 20, so that "20 computers" in an email is never found in a transcript that says
  "twenty computers" and the email is rejected. `RowOf` has this.
- The check of numbers sees the six words of NUMBER_WORDS and what its patterns take
  (email-validation.service.ts:13-20, :98-107), though the prompt asks to preserve every quantity.
  An email with "quatre" for "trois", or with "30kg" for "20kg" (no word boundary before the
  letters, line 101), passes, and so does "vingt-six" for "vingt-cinq", since both have the fact
  "vingt" (line 107). `Unlisted` and `Parts` have these, and the run `router` hands such
  emails on.
- updateStatus of a draft looks it up by its owner and writes by its id (drafts.service.ts:45-58).
  If the draft is sent in between, a late status DRAFT offers it again; the call may even be that
  of the device, when a user has claimed and sent the draft meanwhile. `ReopenedBy` has both.
- revokeDevice writes where user and token match (notifications.service.ts:26-28), whichever
  registration the request was meant for: a user who signs out and in again on a phone, and whose
  revocation comes late, loses the new registration until the app registers again.
  `SignedInIsReachable` excepts it, by `overlapped`.
- TranscriptNormalizerService (line 44) puts a space after every comma, "2,5" becomes "2, 5",
  and an email that writes "2,5" is rejected, although email-generation.prompt.ts asks to
  preserve every amount and quantity. `Normalised` has this; `KeepsRecognised` says what holds.
- list() of the mailbox (mailbox.service.ts:45) spreads the folder's `OR` over the search's in
  trash and favorites, where the search then has no effect.
- The README (line 46) says that the quality fallback uses nova-3 with `language=multi`;
  buildFallbackOptions (speech.service.ts:223) repeats the options of the first request.

## 7. Plan

Done: all components that keep state, with proofs of all that runs check but liveness; the
drafts of devices and their claim; the abstract mailbox and the abstract accounts; the check of
numbers; paging of messages.

Left:

1. Abstract specifications of a conversation (opened, its messages, who has read them) and of
   the reach of pushes, implemented by Conversations, Chat and PushTokens.
2. The mailbox's counts and its page of 100 against emails that arrive meanwhile.
3. The check of dates and times of an email, in the manner of EmailValidation.
