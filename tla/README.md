# chatview in TLA+

chatview is a chat system: a Go server that speaks gRPC, stores messages in
PostgreSQL and pushes events over a server stream, and a desktop client (Go,
Fyne) with a SQLite cache and an outbox. This directory holds TLA+ models of
both sides, the TLC configurations that check them on small instances, and
proofs for TLAPS. `PROJECT.json` names for every definition the source lines it
stands for, and for every hazard the properties that cover it.

    tlc -workers 2 -config MCChatSend.cfg MCChatSend     # check a run
    tlapm ChatSendProofs.tla                             # check the proofs

## 1. The system

### Server (`src/server`)

| Component | State it keeps | Operations | What makes it correct |
|---|---|---|---|
| Message sending (`service/chat_send.go`, `chat_dedupe.go`) | tables `messages`, `conversations.next_seq` | `SendMessage`: lookup by client id, receiver check, SERIALIZABLE transaction with up to three attempts, lookup after a unique violation, push after the commit | numbers of a conversation are 1, 2, 3, ...; one message per sender and client id; replies speak of stored messages; the handler always answers |
| Event hub (`eventhub/hub.go`) | map user -> client id -> channel of 64 events | Register, Unregister, Push, Broadcast, PushAdmins, KickUser, OnlinePubKeys | no send on a closed channel, no double close, no leak of streams past a kick |
| Event streams (`service/events.go`) | one goroutine per `Subscribe`, `sessions.is_online` | register, mark online, announce, deliver, unregister, mark offline, announce | friends are told the truth in the end; the table heals |
| Sessions (`db/session.go`, `db/db.go`) | table `sessions` | login inserts, expiry, cleanup every interval, deletion by a ban, presence healer | online marks agree with the streams |
| Administration (`service/admin.go`) | `users.status` | SetUserStatus, Broadcast, PollAdminEvents | a banned user is told, cut off, and stays out |
| Authentication (`service/auth.go`, `interceptor/auth.go`) | tables `users`, `challenges`, `sessions` | RequestChallenge, Login; every call and stream is authenticated | of several devices of one key one always gets in; no session of a banned user |
| History and read marks (`service/chat_history.go`, `chat_reads.go`) | table `conversation_reads` | paging by `server_seq`, MarkConversationRead | pages neither skip nor repeat; the mark only grows |
| Friends (`service/chat_friends.go`) | table `friendships` | ListFriends, AddFriend | adding twice is adding once |
| Process (`cmd/server/main.go`) | - | migrations, CleanupStaleOnline, healer and cleanup goroutines, shutdown | it serves on the schema of all its migrations; a restart leaves no stale row |

### Client (`src/client`)

| Component | State it keeps | Operations | What makes it correct |
|---|---|---|---|
| Outbox (`core/messages.go`, `core/outbox.go`, `storage/outbox.go`, `ui/outbox.go`) | tables `outbox`, `messages` | enqueue, send at once, worker with retries, recovery, Retry Failed, Clear Failed | no message is lost silently; "sent" means stored; a queued message is resolved |
| Session (`core/auth.go`, `ui/auth_view.go`, `ui/state.go`, `ui/async.go`) | owner of the store, token, offline flag, session version and context, PIN lockout | Login, offline login, reconnect, Lock | window, service, store and token tell of one session; goroutines of an ended one do no harm |
| History synchronisation (`core/history.go`, `storage/history.go`, `ui/sync.go`) | SQLite cache, the messages shown, request numbers | load, load older, sync with gap filling, merge | the cache has no holes after a sync |
| Event pipeline (`rpcclient/events.go`, `core/events.go`, `ui/events.go`) | the stream, two forwarding goroutines with a channel of 16 events and one of an error each, the backoff of `watchEvents` | subscribe, forward, handle, subscribe again | an online session has one watcher, whatever its stream does |
| Local store (`storage/store.go`, `migrations.go`) | the SQLite file | Open with its migrations, `SetOwner` | no row is lost or changes its owner on the way to a new schema |
| Identity and PIN (`identity/store.go`, `core/auth.go`) | one encrypted file; attempts left, `lockedUntil` | create, import, unlock; a wrong PIN, the lockout | what was reported as saved is in the file; the lockout bounds the PINs of logins |
| User interface (`ui/*`) | the callbacks' flags, the session version and context; widgets | buttons, refreshes, the admin view, opening and closing of the shell | a flag that blocks a refresh is cleared by someone |

### How the parts interact

The client calls the server over gRPC, every call with a deadline; an answer may
be lost, and a request may be carried out after the deadline. The server pushes
`FriendUpdate`, `MessageUpdate`, `AdminUpdate`, `ForceOffline`, `Broadcast`
through the hub, whose channels drop an event when they are full; the client
answers an event by calling the server again. Handlers share the hub under one
mutex and everything else through PostgreSQL transactions. In the client, work
runs in goroutines with the context of the UI session; their results come back
as callbacks on the UI thread, dropped if the session has ended, while the core
service, the store and the RPC client are single objects that serve whatever
session is current.

### What is hard

* concurrent transactions of one conversation, serialization failures, lost
  commit acknowledgements, retries of a request that is still running;
* the window between a commit and the push that follows it;
* streams of one user that start and end while the healer, a ban, a cleanup
  or a restart change the same rows;
* closing channels after the mutex is released;
* an outbox row that two goroutines send at once, whose results arrive in any
  order, after a logout, or after the message was cleared;
* a store whose owner changes under running goroutines, and a Lock, or a
  `ForceOffline`, during a login;
* events of a stream that broke, handled by a watcher that was cancelled, in the
  session that follows;
* several devices that log in with one key while it is banned and unbanned;
* migrations that are killed between two statements, on the server and on the
  client, or run in two processes at once; a file that is written in place;
* a cache that several synchronisations fill at once, from pages that are
  snapshots of different moments.

The list with lines is `hazards` in `PROJECT.json`.

## 2. The modules

Each module is about one component; what a neighbour does to it is an action of
its own (marked external in `PROJECT.json` when its code is elsewhere).

| Module | Code | State and actions |
|---|---|---|
| `MessageLog` | what `SendMessage` promises | abstract: a log per conversation, `Append`, `Ack` |
| `Delivery` | what the client promises about a message | abstract: taken, pending, failed, stored, dropped and shown messages |
| `TokenLife` | what the server promises about tokens and bans | abstract: tokens not drawn yet and living ones, banned users, the tokens a ban under way is to end |
| `ChatSend` | `service/chat_send.go`, `chat_dedupe.go`, parts of `db/db.go` and the migrations | a handler is a program counter, one action per SQL statement; row and key locks are read off the program counters |
| `Presence` | `eventhub/hub.go`, `service/events.go`, `service/admin.go`, `db/session.go`, server start | the hub's map, a channel per `Subscribe` handler, the sessions table, the healer's pass statement by statement |
| `Accounts` | `service/auth.go`, `service/admin.go`, `db/db.go`, `db/session.go`, `cmd/server/main.go` | the process with its migrations, the rows of users, challenges and sessions, a login of each device, a ban and the cleanup, one action per SQL statement, and per row where a statement waits for several |
| `Outbox` | `core/messages.go`, `core/outbox.go`, `storage/outbox.go`, `ui/outbox.go`, the login code | one action per statement of the store and per call; goroutines of ended sessions stay |
| `HistorySync` | `core/history.go`, `storage/history.go`, `service/chat_history.go` | the server's log, the client's cache, goroutines with the local variables of the two loops of `SyncConversation` |
| `Conversation` | `ui/sync.go`, `ui/state.go`, `service/chat_reads.go` | the list, cursor, request number and flags of the chat window, its goroutines and callbacks, the read mark on the server |
| `ClientFiles` | `storage/migrations.go`, `storage/store.go`, `identity/store.go`, the start in `cmd/` | the tables of the SQLite file, the identity file, the processes that open them; one action per statement and per step of a write |
| `ClientSession` | `ui/auth_view.go`, `async.go`, `events.go`, `state.go`, `sync.go`, `admin.go`, `core/auth.go`, `session.go`, `events.go`, `rpcclient/auth.go`, `events.go` | what the UI thread, the core service and every goroutine think of the session; logins, watchers, refreshes and their callbacks |
| `*Proofs` | | the theorems about the module of that name |
| `MC*` | | values for TLC, symmetry sets |

How they meet: `HistorySync` takes from `ChatSend` that a conversation's numbers
are 1, 2, 3, ... without holes (`Gapless`, proved), for that is what
`FirstServerSeqGap` relies on. `Outbox` takes from it that a repeated client id
stores one message (`OnePerKey`, proved). `Conversation` takes from `HistorySync`
only that a page holds messages that exist, so that its properties do not depend
on how the core got them. What both assume of the server, that a
conversation only grows, by one message with the next number, is a theorem about
`ChatSend` (`Feed`). `Presence` and `Accounts` both have the ban and the
life of a session: in `Presence` a login is one step and the streams are what is
watched, in `Accounts` the rows and their locks are, and there are no streams.
`Outbox` and `ClientSession` both have the session of the client: in `Outbox` it is
there to get in the way of sending, in `ClientSession` it is the subject, and a
send is only what calls a refresh when it answers.

### Correspondence worth knowing

* *Transactions.* In `ChatSend` a SERIALIZABLE transaction is its statements in
  order. The upsert of `EnsureConversation` takes the row lock; a transaction
  whose snapshot is older than the row fails with 40001 (`StaleSnapshot`), and
  PostgreSQL may fail any other with it (`SerializationFailure`). A key inserted
  and not yet committed makes a second INSERT of it wait (`KeyInFlight`). The
  transactions of `Accounts` are READ COMMITTED: a statement sees what is committed
  when it runs, waits for the locks of the rows it changes, and what it has written
  is in the local state of its call until the commit. The client's migrations have
  no transaction around them: each statement commits by itself.
* *Ignored errors* (`Presence`, `Outbox`, `HistorySync`) are a choice between the
  statement taking effect or not. `ClientFiles` has one of another kind: a
  read of the schema that fails is taken for an answer (`misread`).
* *Calls with a deadline* (`Outbox`). The request stays in `wire` after the
  client has given up, and may be carried out later.
* *Sessions of the client.* In `Outbox` goroutines carry `live`, whether their
  context is the current session's; the store's owner, the token and the offline
  flag are global, as in the code. In `ClientSession` a login carries the kind of
  context it was started with (`background` before the first session), and the
  watchers whether theirs was cancelled. `Service.Logout` is one step there:
  its parts follow each other without a wait, and what a login writes between
  them it can also write right after them.
* *Refinements.* `ChatSend` implements `MessageLog` (`LogSpec`): a commit appends, an OK
  reply acknowledges. `Outbox` implements `Delivery` (`DeliverySpec`): a message is
  pending while it has a row, in whatever state, and is settled when the row is
  deleted because the server answered; failed rows can be sent again or
  dropped, others cannot. `Accounts` implements `TokenLife` (`TokenLifeSpec`): the
  token of a login that has not committed is `fresh`, and a call of SetUserStatus is
  under way until it commits, fails or dies with the process.
* *Secrets* (`Accounts`). A challenge and a token are the call that drew them: two
  calls never draw the same. A signature is the challenge it was made for.
* *Channels* (`Presence`) are kept as a count of events and whether they are
  closed: what is checked of them is that nothing is sent on a closed one. In
  `ClientSession` the two forwarding goroutines and their channels are one buffer,
  and the error may overtake what it holds.
* *Timers.* The lockout of 30 s, the deadline of 15 s of a login, the backoff and
  the ticks are steps that may happen at any time.
* *Pages* (`HistorySync`). The server and SQLite select alike, and both are
  `Newer` and `Older` of a set of numbers.
* *The list* (`Conversation`) is the numbers of the followed conversation's
  messages, the highest number of another's, and whether a message without
  number is in it: what the read mark depends on.
* *Rows and tables* (`ClientFiles`). Of a row its owner and its id are kept; a table
  is missing, old or new, and beside it `legacy` says whether the renamed one
  exists and `left` what it holds.
* *History variables* are never read by an action. They keep what a property
  excepts by name: `late` and `announced` (`Presence`), `disturbed`,
  `revoked` and the value "missed" of `told` (`Accounts`), `mishaps`, `saved` and `reported` (`ClientFiles`),
  `entangled`, `tries` and `dropped` (`ClientSession`), `unkicked` (`Presence`),
  `cut` (`Conversation`).
* *Lost acknowledgements of a commit* are in `ChatSend`, in `Accounts` and, for a ban, in
  `Presence` (`BanUnacknowledged`): the rows are written, the caller is told of an
  error, and what would follow the commit does not.
* *Rows a statement meets* (`Accounts`). A DELETE or UPDATE of several rows takes those
  of its snapshot one by one, in any order, waits for the holder of each and passes
  over one that is gone (`DropSessions` and `LockSession`, `CleanupBegins`,
  `CleanupChallenge` and `CleanupSession`). One SetUserStatus runs at a time: a second
  one for the same user waits in its first statement and holds nothing, and two
  for different users have no row in common. The healer's UPDATE of
  `sessions` is in `Presence` and not among the lockers of `Accounts`: it is a transaction
  by itself, locks the session rows of one user and nothing else, and so can be part of
  no cycle but one over these rows, of the kind that `NoDeadlock` excepts.
* *Two DELETEs as one* (`Outbox`). `ClearFailed` is the second one: nothing reads what the
  first has deleted from `messages`, so that the steps between them go on as before.
* *Callbacks of a session that was replaced* (`Conversation`). A reconnect or the end of
  the session makes every task `replaced`, and a replaced one can only be
  dropped (`Outdated`, `Wanted`).
* *Answers without a flag* (`ClientSession`). What the user does (add a friend, send,
  ban) and what a message starts runs in a goroutine that blocks nothing while it is
  in flight. It may be in flight at any moment of a session and is not kept: its
  answer, `ActAnswers`, may come whenever there is a session.
* *A step that changes nothing* (`ClientSession`). `ExportPrivateKey` reads the identity
  file with a PIN; it is an action so that it is said: the lockout is not asked
  and nothing is counted.

## 3. Runs

| Run | Instance | What it shows |
|---|---|---|
| `send` | 2 handlers, 5 requests (a retry, two conflicting uses of its key, an unkeyed answer, an invalid one), 2 attempts, 2 messages | the safety of sending, that it implements `MessageLog`, that lock waits make no circle and every step brings the answer nearer |
| `send_live` | 2 handlers, 3 requests, 2 attempts, 2 messages | every handler answers |
| `outbox` | 1 message, 2 workers and the Send goroutine, 2 attempts, failing statements | nothing is lost silently, "sent" is true, the whole implements `Delivery` |
| `outbox_live` | 1 message, 1 worker, a store that answers | queued messages resolve, the composer reopens |
| `presence` | 1 user with 2 tokens, 2 client ids and 2 streams, 1 admin, channels of 1, a store that answers | no send on, nor second close of, a closed channel; a ban that is acknowledged ends the streams; the last one out tells the friends |
| `presence_heal` | 1 stream, failing statements, the healer | a stale "online" is repaired |
| `history_sync` | 2 goroutines, pages of 2, 2 rounds, 6 messages, failing statements | a synchronisation fills the holes, reaches the top and comes to its end |
| `conversation` | 2 goroutines, pages of 1, 2 messages, 2 loads, reconnects and ends of the session | the read mark and the loading flag |
| `conversation_mark` | pages of 2 | *violated*: see Findings |
| `accounts` | 2 devices of one key that log in once each, the configured admin, 2 migrations, 2 calls of SetUserStatus, 2 starts, the cleanup | a login gets in, a ban revokes, the admin is told, a served schema is complete, no cycle of locks but one, and it implements `TokenLife` |
| `client_files` | 2 processes, 2 tables, 1 owner, 1 id, 1 identity | no row is lost or changes hands, a lone start succeeds, the identity is kept |
| `client_session` | 1 key, 2 logins, 2 watchers, 2 attempts, a buffer of 1 event, 1 poll | one watcher per online session, one picture of the session, flags that are cleared, the lockout of logins |

**The bounds and why they are enough.** Two handlers are the least that can
race, and every lock in `ChatSend` is between two; the proofs cover any number.
`MaxSeq` stops new requests only: those under way still finish.
`MaxAttempts` is 5 (outbox) and 3 (send) in the code; 2 already has a first,
a repeated and a last attempt. In `Outbox` every row is handled by itself, so
one item meets all the goroutines that could ever race for it: the Send
goroutine, a worker of an ended session and one of the current session.
A channel of one event is empty or full; 64 adds nothing between. Two streams
and two tokens make all the pairs of streams: of one token or of two, with one
client id or with two. The friends' side of an announcement is a history variable,
so one user is enough.
In `HistorySync` six messages and pages of two make two separate
holes, a hole wider than a page, and newer messages that need more rounds than
there are. In `Conversation` two loads are the least at which an answer can be
outdated, by a second load of the same conversation or of another one.
In `Accounts` two devices overwrite each other's challenge; a ban takes two calls to
be taken back, and a second start finds what the first one left. Two sessions of one
user are the least that a ban and the cleanup can lock crosswise. In `Presence` with one
admin there is one kick at a time, so that of `ChannelsSound` the part about two
kicks is left to its theorem. Two tables are
one before and one after the one that is being migrated, and `Indexed` is not all of
them. In `ClientSession` two logins are one that is in flight during a Lock and
the one that follows, and two watchers a cancelled one and its successor; two
attempts have a wrong PIN that does not lock.
With two keys, one attempt, no buffer and no poll it was checked as well.

The proofs of section 4 hold for all values of all constants, but for liveness,
which rests on these instances alone. `OnePerKey` is proved and not run, since
`LogSpec` implies it. The type invariant of every module is proved
(`TypeCorrect`), so the runs leave it out.

**Deadlock** is checked in all runs but those of `HistorySync`, `Conversation`
and `Accounts`, because there the bound on the messages (`MaxSeq`), on the loads
(`MaxRequest`) or on logins, bans and starts may leave nothing to do. What
a deadlock would be in `Accounts`, a cycle of waiting for rows, is the invariant
`NoDeadlock`.

**Fairness.** Weak fairness of the steps of a goroutine: Go schedules it, its
calls end by their deadlines and its statements are answered. In `ChatSend` the
steps that wait for a lock are strongly fair, since PostgreSQL queues waiters.
In `Presence` the healer's statements are strongly fair: they may fail, but the
database is not down at every pass, and the server is not restarted for ever.
In `Outbox` the timers and the UI thread run; nothing is assumed of the network
(a lost request is an error by the deadline) nor of the user, so
`QueuedResolves` speaks of sessions that stay online and `ComposerReopens`
excepts a goroutine whose session was replaced. The other modules have no
liveness property and state no fairness.

## 4. Proofs

Every safety property, every action property and every refinement the runs check is
a theorem as well, for all values of the constants.

| Module | Properties | Inductive invariant | Assumptions and hypotheses |
|---|---|---|---|
| `ChatSendProofs` | `Gapless`, `OnePerKey`, `RepliesSound`, `ReplayConsistent`, `AlreadyExistsSound`, `PushAfterCommit`, `LogSpec`, `NeverStuck`, `AttemptsEnd`; `Feed` | `TypeInv`, `StoreInv`, `ReplyInv`, `ConflictFound` | `RequestsAssumption`, `BannableAssumption`, `AttemptsAssumption` |
| `PresenceProofs` | `ChannelsSound`, `BanEndsStreams`, `LastOneOutTells` | `HubInv`, `BanInv`, `Keeper` | those of the module; the last property: `~ StoreMayFail` |
| `AccountsProofs` | `ServesReady`, `BanRevokes`, `TokenLivesOn`, `AdminsTold`, `SomeoneGetsIn`, `NoDeadlock`, `TokenLifeSpec` | `TypeInv`, `StartInv`, `SessionInv`, `ToldInv`, `LoginInv`, `RowInv`, `HeldInv` | `AccountsAssumption` |
| `OutboxProofs` | `NoSilentLoss`, `SentIsStored`, `DeliverySpec` | `IndInv`, `TakenInv` | `MaxAttemptsAssumption`, `StoreMayFailAssumption`, `ThreadsAssumption` |
| `HistorySyncProofs` | `SyncFillsHoles`, `SyncReachesTop`, `WorkEnds` | `TaskInv` of every goroutine | `SizesAssumption` |
| `ConversationProofs` | `NoFutureRead`, `ReadNeverRecedes`, `LoadingHasAnswer` | `MarkInv`, `LoadInv` | `BoundsAssumption` |
| `ClientFilesProofs` | `RowsKept`, `OwnersKept`, `OpenSucceeds`, `ServedMigrated`, `IdentityKept` | `MigrationInv`, `Progress`, `OwnerInv` | those of the module |
| `ClientSessionProofs` | `SessionServed`, `Agree`, `FlagsAnswered`, `PinsBounded` | `AgreeInv`, `PinInv` | `KeysAssumption`, `BoundsAssumption`; the last property: finitely many logins |

### The server

**Sending.** None of the safety properties is inductive alone. `Gapless` is kept by a
commit only if the number the handler got under the lock is still the next one, so
the inductive invariant says of the locks what the code relies on: `RowsHeld` (a
handler past the upsert is the only one there for its conversation, and its
number is `next_seq`) and `KeysHeld` (a handler past its INSERT is the only one
with its key, and no committed row has it). `NotifyStored` ties the step after the
commit to the row. `IndInv` is `TypeInv` with `StoreInv` (these three, `Gapless`
and `OnePerKey`) and `ReplyInv` (what the replies and pushes say of the rows).
The steps that leave the rows alone and lock nothing are dealt with at once
(`Quiet`); locking, inserting and committing have a lemma each. For the
refinement, a commit is an `Append`, a step that adds an OK reply is an `Ack`, and
every other step leaves the mapped variables unchanged.

What the prover can be asked about termination is proved. `NeverStuck`: a
handler that waits for a row waits for one at its INSERT or its commit, one that waits
for a key waits for one at its commit, and a commit waits for nothing; the lookup
after a unique violation cannot come back empty, since messages are never deleted
(`ConflictFound`). `AttemptsEnd`: each step of a handler lowers its attempts left, or
its distance to the end of the attempt (`StepsLeft`), and the steps of others leave it
alone. That a handler with a step to take takes it is fairness, and so `Terminates`
itself is left to TLC.

**Accounts.**

* `ServesReady` (`StartInv`): a script and its row of `schema_migrations` have one
  transaction, so a migration is applied if and only if its script has taken
  effect, and the loop has passed those before the one it is at.
* `BanRevokes` and `TokenLivesOn` (`SessionInv`): a token nobody has drawn yet is in
  no set (`TokenInv`), so a row that appears was never revoked; and when a ban is about
  to commit, what is left of the tokens it found is what it deletes (`BanInv`).
* `AdminsTold` (`ToldInv`) needs beside itself that before the process serves no call
  is under way and every key counts as missed.
* `SomeoneGetsIn` (`LoginInv`): while a key has no session and nothing disturbed it, its
  row of challenges is the one of a call that has come past its commit and is
  not over (`Holder`), or there is no row and no call has come that far. A holder is
  not refused, whatever the others write; and it loses the row only to a later commit,
  which makes another the holder, or to a login that gets in.
* `NoDeadlock` rests on the order of the locks (users, challenges, sessions) and on
  `HeldInv`: a challenge the cleanup has locked is past its time and stays so, no call
  has it locked as well, and the cleanup has no session row before it is through with
  the challenges. With the statements the other way round
  (`CleanupSessionFirst`) TLC finds a ban and the cleanup waiting for each other, one
  for a session and one for a challenge. The property takes of a statement that
  may wait for one of several rows that it does. `Crossed` is the cycle that is left and
  excepted: both are at the session rows of one user, in different orders.
* `TokenLifeSpec`: a commit of a login is an `Issue`, any other end of it a `Discard`,
  the end of the process a `Stop` of all. That a ban ends all it is to end is `BanInv`.
  That no login lifts a ban needs `RowInv`: a call that has inserted its user holds the
  key alone, and until it commits there is no row that a ban could have found.

**Presence.** `ChannelsSound` rests on `HubInv`: a stream in the map is the one of its
user and id and open, and what a kick still has to close is open, in no map and in no other
kick. `BanEndsStreams` adds `BanInv`: a stream with an id of its own is where a kick
looks for it, or is being kicked; and if its user is banned, a ban that has
not kicked yet is under way, unless the last ban of the user was not acknowledged
(`unkicked`), after which the code kicks nobody. `LastOneOutTells` is proved for a store that answers
(`~ StoreMayFail`, a hypothesis of the theorem, without which the code does not have
the property): a token marked online has a handler that will unmark it
(`Keeper`).

### The client

**Outbox.** `IndInv` adds to the two invariants of the run that a goroutine in the
course of a send has a message (`ItemInv`) and that an answer of the server that is
about to be recorded is about a message it stored (`SentInv`). The statements of the
store have a lemma each. For the refinement of `Delivery`, rows, batches, requests,
stored messages and goroutines in the course of a send are shown to be of messages
that were taken (`TakenInv`); then a step of the store settles, fails, retries or
drops, the server's stores, and those of goroutines, network and session are invisible.

**History.** The cache that other goroutines change only grows, so the invariant can be said of each goroutine by
itself (`TaskInv`): a hole known at the start is cached, or lies between cached
messages and is therefore found again, and a page fetched for it holds the message
above the cursor (`HolesInv`); a message newer than the cache of the start
is above all that is cached until the second loop, and then cached and returned or
above its cursor (`FreshInv`). `WorkEnds` needs of the invariant only that the rounds are
counted: a round costs at most three steps, the rounds of gap filling come before the
turn to the newer pages, and what other goroutines and new messages change is not in
the measure (`WorkLeft`). As with `AttemptsEnd`, the safety half of an end.

**Conversation.**

* `NoFutureRead` (`NoFutureReadCorrect`) and `ReadNeverRecedes`
  (`ReadNeverRecedesCorrect`). A store of the mark says nothing of the newest
  message, which its handler read one statement before. `MarkInv` adds that every
  number between the two statements is at most the newest message's; it was so
  when it was read, and messages are never taken back. Only the server's two
  statements and new messages touch this (`MarkSteps`): the client may send any
  number.
* `LoadingHasAnswer` (`LoadingHasAnswerCorrect`). With the domain of `task` it is
  inductive (`LoadInv`): a step of a goroutine that is not awaited leaves
  the awaited one alone (`OtherAwaited`), and a step of one that is clears the flag. A
  reconnect drops the awaited one, and is excepted until the next load (`cut`).
* `TypeOK` (`TypeCorrect`). What the callbacks do with the list is a maximum of a
  non-empty set of numbers, which has one and is in the set (`MaxFacts`); the
  smallest one exists because < is well founded on the numbers (`LeastNumber`).

**Files.** The proofs are for any sequence of tables. RENAME fails where a renamed
table exists, so at most one process is past it for a table, and by the time it drops the renamed table
it has copied every id (`MigrationInv`, `Prepared`): that alone gives
`RowsKept`, whatever is killed or shared or misread. The rest speaks of a
process that has the directory to itself: it has brought the tables
before the one it is at to the new schema (`Progress`), and without a kill a
renamed table is one it is at work on (`OwnerInv`).

**Session.** For `Agree`, `AgreeInv` says when a login is alone: then no other is
in flight and the button is disabled (`AloneIsAlone`), what it has written so far is
its own (`AloneWrites`), and before it writes the old session is whole
(`UntilWritten`). For `PinsBounded` the goroutines that read the identity file
while the lockout begins are counted (`Loading`, `PinInv`). It is about logins:
the export of the key tries PINs outside of it.

### Only model-checked

Liveness (`Terminates`, `QueuedResolves`, `ComposerReopens`, `StalePresenceHeals`), which
is out of the prover's reach; of the first, and of the end of a synchronisation, the
part that is not fairness is proved. `ReadMarkShown` is false, see below.

## 5. Findings

* **The read mark passes unseen messages** (`conversation_mark`). Selecting a friend
  does not clear the list; a synchronisation that returns before the load merges
  its page into the other conversation's messages, and the largest number of all is
  sent as the read mark. The server clamps it to the newest message, so messages
  the client has not received count as read.

### Observed, without a run

What the models allow because the code does. No doc or test says otherwise, unless
one is named; the properties except these cases, most of them through a history
variable.

*Server*

* The end of an old stream marks its token offline after a new stream of the same
  token was marked online (`service/events.go:43`), and the healer does so to a
  user who subscribes after it has read the hub (`eventhub/hub.go:105`). The
  table says offline until the user subscribes again; the healer only clears.
* The healer pushes nothing to friends, though `server/configuration.md:33` speaks
  of their updates.
* A stream that registers between the push of `ForceOffline` and the kick, or whose
  channel is full, is closed without it (`service/admin.go:58`); one that was let in
  before the ban and registers after the kick is served.
* A ban whose commit takes effect while its acknowledgement is lost returns Internal
  before the push and the kick (`service/admin.go:54`): the user is banned and his streams
  are served until they end by themselves or he is banned again. `BanEndsStreams`
  excepts these users (`unkicked`).
* A ban and the cleanup may lock the expired session rows of one user in different orders
  and wait for each other; PostgreSQL fails one of them, the ban with Internal, the
  cleanup in silence until the next tick. `NoDeadlock` excepts this (`Crossed`). The
  healer's UPDATE of all sessions of a user (`db/session.go:70`) can meet each of the two in
  the same way.
* After a process that died between the commit of a message and its push nobody pushes it:
  the retry is answered from the lookup (`service/chat_send.go:48`).
* While one stream of a user ends, friends may be told that he is offline though
  another one is served; `LastOneOutTells` is about the last one.

*Client, sending and reading*

* `MarkOutboxRetry` updates the cached message whether or not the outbox still
  has the row (`storage/outbox.go:112`). If the Send goroutine and a worker both
  send a row and one fails after the other succeeded, a delivered message is shown
  as pending, and nothing sends it again.
* A reconnect (a login from the shell) replaces the session without clearing its flags
  (`ui/auth_view.go:124`, `shell_view.go:39`), and `doInSession` drops the callbacks
  of the former one (`ui/async.go:25`). If a load or an older page was under way,
  `historyLoading` stays set and Load Older disabled until the next load; if a message
  was being sent, `sending` stays set and the composer closed until a Lock.
  `LoadingHasAnswer` excepts the first (`cut`), `ComposerReopens` the second (`Orphaned`).
* A goroutine of a locked session enqueues its message under the empty owner
  (`core/messages.go:43`); no later session reads the row.
* `Message.error` is set while a message is pending;
  `chatview/common/types.proto:66` says it is for failures.
* A list of friends that was fetched before a Lock is cached under the owner the
  store has when it arrives.
* No synchronisation follows a stream that broke and was opened again: what was
  pushed in between is seen at the next event or selection. A `FriendUpdate` or
  `AdminUpdate` that arrives while a refresh is under way starts no other.

*Client, session*

* A login that is overtaken by Lock, or by a `ForceOffline`, ends in a callback that
  opens the shell: over a service without session or a store without owner
  (`ui/auth_view.go:113`). `Agree` leaves these sessions out (`entangled`);
  the next login or Lock that meets no other puts everything right.
* An event the cancelled watcher of a locked session still held is handled in the
  next session (`ui/events.go:40`): a `ForceOffline` logs that one out.
* An error of the stream may overtake the events before it (`core/events.go:17`), and
  what is left in the channels is dropped with them. If it was a `ForceOffline`, the
  client keeps subscribing, and being refused, until the user locks it. The
  forwarding goroutine may wait for ever to write an event nobody reads.
* `refreshing` stays set when a login ends during a refresh, or when an event
  that comes late starts one without a session (`ui/sync.go:12`); friends are
  refreshed again after the next Lock. `FlagsAnswered` excepts this by `dropped`.
* A reconnect that ends offline leaves the former token in the RPC client.
* The export of the private key tries PINs without looking at the lockout and without
  counting (`core/auth.go:35`): the lockout bounds the PINs of logins only, and so does
  `PinsBounded`.

*Client, files*

* A client killed between RENAME and INSERT of a migration
  (`storage/migrations.go:84`) finds no table, or a new one, at the next start and
  does not migrate: the rows stay in a `*_legacy` table that nothing reads,
  unsent messages of the outbox among them. `RowsKept` counts them as kept,
  `ServedMigrated` excepts starts that were killed.
* A failed read of the schema, or a second process, may have a table with owners
  migrated once more: its rows get the empty owner (`OwnersKept` excepts both).
* The identity file is written in place (`identity/store.go:133`): a crash or an
  error during the write leaves neither the former key nor the new one.
  `IdentityKept` speaks of what was reported as saved.

## 6. What is not modelled

* Ciphers, the bytes of keys and signatures, conversions, formatting, TLS,
  configuration, notices and widgets: no state that changes, or state that nothing
  depends on. The code generated from `src/proto`.
* Connection pools. `SendMessage` takes a second connection while its failed
  transaction holds one (`chat_send.go:78`); with 25 of them waiting they block
  each other until their deadlines, which belong to gRPC and to clients. Listed as
  a hazard.
* The delivery of events: a channel that is full drops them (`hub.go:92`), the
  code promises nothing else, and no property asks for it. In particular nothing
  is shown of a message being seen in the end.
* `skip_migrations`; a database whose migrations were applied by hand.
* In `HistorySync`: the offline mode, and rows without a number, which
  `Store.History` sorts as number 0 into a page from the cache.
* In `Conversation`: what a new session needs to begin (see `ClientSession`), the
  goroutines of other conversations except for
  their effect on the list, duplicates in the list after "load older" follows a
  merge of older messages, and the order of messages before the last one.
* In `ClientSession`: the worker's sends, which are in `Outbox`, and what the
  callbacks of a conversation do, which is in `Conversation`.
* `chat_friends.go`: reads, and one idempotent INSERT. What an administrator lists
  are reads.

## 7. State of the project

Done: every module of section 2, with the theorems of section 4: all safety and action
properties that are run, and the three refinements, are proved.

Left, in this order:

1. Abstract specifications of `Presence` (what friends and admins are told of a user)
   and of `ClientSession`, and proofs that they are implemented; a measure for the
   sends of `Outbox`, as `StepsLeft` is for those of the server.
2. A composition of the server's push, the watcher and the synchronisation, with
   an abstract specification of what a user sees in the end if the client
   stays connected. The code has no synchronisation after a reconnect, so what can
   be promised is weaker than delivery.
3. The connection pool under `SendMessage`, with deadlines.
4. The offline mode and rows without a number in `HistorySync`.
