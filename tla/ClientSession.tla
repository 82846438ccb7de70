---------------------------- MODULE ClientSession ----------------------------
(***************************************************************************)
(* The session of the client: logins, Lock, the event stream, and the      *)
(* goroutines that answer to the user interface.                           *)
(*                                                                         *)
(* Three parties keep a picture of the session: the user interface (ui,    *)
(* touched by its one thread only), core.Service with the store and the    *)
(* RPC client (core, whose parts are written one after the other), and the *)
(* goroutines, which carry the context they were started with.  A login    *)
(* runs in a goroutine and ends in a callback; Lock, and a ForceOffline    *)
(* that arrives, do not wait for it.                                       *)
(*                                                                         *)
(* A goroutine whose answer is dropped, because its context is cancelled   *)
(* or the session version has moved on, is forgotten at once, but for a    *)
(* poll, which clears its flag whatever the session, and a watcher, which  *)
(* may handle events after it was cancelled.                               *)
(***************************************************************************)
EXTENDS Integers, Sequences, FiniteSets

CONSTANTS
    Keys,       \* the identities the file may hold when it is read
    None,       \* no key
    Logins,     \* login goroutines
    Watchers,   \* goroutines of watchEvents
    Attempts,   \* bad PINs allowed before the lockout
    Buffer,     \* bound: events received and not yet handled
    MaxPolls    \* bound: polls of the admin data in flight

ASSUME KeysAssumption == None \notin Keys
ASSUME BoundsAssumption == Attempts \in Nat \ {0} /\ Buffer \in Nat /\ MaxPolls \in Nat

VARIABLES
    ui,         \* what the thread of the user interface owns
    core,       \* the session of core.Service, the owner of the store, the token, the worker
    lock,       \* the PIN lockout
    login,      \* the login goroutines
    watch,      \* the watchers
    entangled,  \* history: the last login or Lock met a login in flight
    tries       \* history: bad PINs of logins since the attempts were last restored

vars == <<ui, core, lock, login, watch, entangled, tries>>

Events == {"message", "update", "force"}

\* refreshFriends, and the sweep of syncUnreadConversations.
Tasks == {"friends", "sweep"}

NoSession == [key |-> None, offline |-> FALSE, poller |-> FALSE, loginInFlight |-> FALSE,
              refreshing |-> FALSE, refreshingAdmin |-> FALSE, syncingUnread |-> FALSE,
              adminList |-> FALSE, tasks |-> {}, polls |-> 0, dropped |-> FALSE]

NoCore == [key |-> None, offline |-> FALSE, owner |-> None, token |-> None, worker |-> FALSE]

NoLogin == [pc |-> "idle", key |-> None, offline |-> FALSE, ctx |-> "background", alone |-> TRUE]

NoWatch == [st |-> "off", live |-> FALSE, queue |-> <<>>, broken |-> FALSE]

NoLock == [left |-> Attempts, until |-> "none"]

Init ==
    /\ ui = NoSession
    /\ core = NoCore
    /\ lock = NoLock
    /\ login = [l \in Logins |-> NoLogin]
    /\ watch = [w \in Watchers |-> NoWatch]
    /\ entangled = FALSE
    /\ tries = 0

-----------------------------------------------------------------------------
(* The user interface: what its thread calls within one callback.          *)

\* runSessionTask and the other goroutines: without a session their answer
\* comes to a session that is not current.
Ask(u, task) == IF u.key = None THEN u ELSE [u EXCEPT !.tasks = @ \cup {task}]

RefreshFriends(u) ==
    IF u.refreshing THEN u
    ELSE Ask([u EXCEPT !.refreshing = TRUE, !.dropped = (u.key = None)], "friends")

RefreshAdmin(u) ==
    IF ~ u.adminList \/ u.refreshingAdmin THEN u
    ELSE [u EXCEPT !.refreshingAdmin = TRUE, !.polls = @ + 1]

SyncUnread(u) ==
    IF u.offline \/ u.syncingUnread THEN u
    ELSE Ask([u EXCEPT !.syncingUnread = TRUE], "sweep")

InFlight(l) == login[l].pc # "idle"

\* The session context is cancelled.
CancelLogins(logins) ==
    [l \in Logins |-> IF logins[l].ctx = "session"
                      THEN [logins[l] EXCEPT !.ctx = "cancelled"] ELSE logins[l]]

\* stopEvents: of a cancelled watcher only the events it holds matter.
Cancelled(w) == IF w.queue = <<>> THEN NoWatch ELSE [NoWatch EXCEPT !.queue = w.queue]

CancelWatchers == [w \in Watchers |-> Cancelled(watch[w])]

\* Mutant: Logout leaves the worker running.
KeepWorker(watching) ==
    /\ ui' = [NoSession EXCEPT !.adminList = ui.adminList, !.polls = ui.polls]
    /\ core' = [NoCore EXCEPT !.worker = core.worker]
    /\ login' = [l \in Logins |-> [CancelLogins(login)[l] EXCEPT !.alone = ~ InFlight(l)]]
    /\ watch' = watching
    /\ entangled' = (\E l \in Logins : InFlight(l))
    /\ UNCHANGED <<lock, tries>>

\* stopEvents, Service.Logout, resetSessionState and showAuth; the watchers go
\* on as told, cancelled.
Logout(watching) ==
    /\ ui' = [NoSession EXCEPT !.adminList = ui.adminList, !.polls = ui.polls]
    /\ core' = NoCore
    /\ login' = [l \in Logins |-> [CancelLogins(login)[l] EXCEPT !.alone = ~ InFlight(l)]]
    /\ watch' = watching
    /\ entangled' = (\E l \in Logins : InFlight(l))
    /\ UNCHANGED <<lock, tries>>

Lock == ui.key # None /\ Logout(CancelWatchers)

-----------------------------------------------------------------------------
(* A login.                                                                *)
Goto(l, pc) == login' = [login EXCEPT ![l].pc = pc]

Fail(l) == login' = [login EXCEPT ![l] = [NoLogin EXCEPT !.pc = "failed", !.alone = login[l].alone]]

Restored == lock' = NoLock /\ tries' = 0

BeginLogin(l) ==
    /\ ~ ui.loginInFlight
    /\ ~ InFlight(l)
    /\ ui' = [ui EXCEPT !.loginInFlight = TRUE]
    /\ LET others == \E k \in Logins : InFlight(k)
       IN  login' = [k \in Logins |->
             IF k = l THEN [NoLogin EXCEPT !.pc = "check", !.alone = ~ others,
                                !.ctx = IF ui.key = None THEN "background" ELSE "session"]
             ELSE [login[k] EXCEPT !.alone = ~ InFlight(k)]]
    /\ UNCHANGED <<core, lock, watch, entangled, tries>>

\* Mutant: the lockout is not looked at.
PassLocked(l) ==
    /\ login[l].pc = "check"
    /\ Goto(l, "load")
    /\ IF lock.until = "over" THEN Restored ELSE UNCHANGED <<lock, tries>>
    /\ UNCHANGED <<ui, core, watch, entangled>>

\* isLocked.
CheckLock(l) ==
    /\ login[l].pc = "check"
    /\ IF lock.until = "running" THEN Fail(l) ELSE Goto(l, "load")
    /\ IF lock.until = "over" THEN Restored ELSE UNCHANGED <<lock, tries>>
    /\ UNCHANGED <<ui, core, watch, entangled>>

LoadIdentity(l) ==
    /\ login[l].pc = "load"
    /\ \E key \in Keys : login' = [login EXCEPT ![l].pc = "rpc", ![l].key = key]
    /\ UNCHANGED <<ui, core, lock, watch, entangled, tries>>

\* recordBadPIN.
BadPIN(l) ==
    /\ login[l].pc = "load"
    /\ Fail(l)
    /\ lock' = IF lock.left <= 1 THEN [left |-> 0, until |-> "running"]
               ELSE [lock EXCEPT !.left = @ - 1]
    /\ tries' = tries + 1
    /\ UNCHANGED <<ui, core, watch, entangled>>

\* The lockout has lasted its 30 seconds.
LockoutEnds ==
    /\ lock.until = "running"
    /\ lock' = [lock EXCEPT !.until = "over"]
    /\ UNCHANGED <<ui, core, login, watch, entangled, tries>>

\* rpc.Login: the token is stored once the server accepted the signature.  The
\* context is of no more use to the login.
RpcLogin(l) ==
    /\ login[l].pc = "rpc"
    /\ login[l].ctx # "cancelled"
    /\ login' = [login EXCEPT ![l].pc = "owner", ![l].ctx = "background"]
    /\ core' = [core EXCEPT !.token = login[l].key]
    /\ UNCHANGED <<ui, lock, watch, entangled, tries>>

\* rpc.Login fails with one of the offlineLoginErrorMarkers.
Unreachable(l) ==
    /\ login[l].pc = "rpc"
    /\ login[l].ctx # "cancelled"
    /\ login' = [login EXCEPT ![l].pc = "owner", ![l].ctx = "background",
                              ![l].offline = TRUE]
    /\ UNCHANGED <<ui, core, lock, watch, entangled, tries>>

\* Any other error: the account is banned, or the context was cancelled.
RpcFails(l) ==
    /\ login[l].pc = "rpc"
    /\ Fail(l)
    /\ UNCHANGED <<ui, core, lock, watch, entangled, tries>>

SetCacheOwner(l) ==
    /\ login[l].pc = "owner"
    /\ Goto(l, "session")
    /\ core' = [core EXCEPT !.owner = login[l].key]
    /\ UNCHANGED <<ui, lock, watch, entangled, tries>>

\* resetLockout and setSession.
SetSession(l) ==
    /\ login[l].pc = "session"
    /\ Goto(l, "done")
    /\ Restored
    /\ core' = [core EXCEPT !.key = login[l].key, !.offline = login[l].offline]
    /\ UNCHANGED <<ui, watch, entangled>>

\* The callback of a login that failed, with AuthLockState.
LoginFailed(l) ==
    /\ login[l].pc = "failed"
    /\ login' = [login EXCEPT ![l] = NoLogin]
    /\ ui' = [ui EXCEPT !.loginInFlight = FALSE]
    /\ IF lock.until = "over" THEN Restored ELSE UNCHANGED <<lock, tries>>
    /\ UNCHANGED <<core, watch, entangled>>

\* startSessionContext, showShell and refreshFriends: the answers of the former
\* session are dropped, that of a refresh with the rest, while its flag stays.
Opened(u, key, offline, admin) ==
    LET shell == [u EXCEPT !.key = key, !.offline = offline, !.poller = TRUE,
                           !.loginInFlight = FALSE, !.syncingUnread = FALSE,
                           !.adminList = @ \/ admin, !.tasks = {},
                           !.dropped = u.refreshing]
        friends == RefreshFriends(shell)
    IN  IF admin /\ ~ offline THEN RefreshAdmin(friends) ELSE friends

\* watchEvents: a watcher w of its own for the new session.
WatchEvents(w) == [CancelWatchers EXCEPT ![w] = [NoWatch EXCEPT !.st = "connect", !.live = TRUE]]

\* The callback of a login that succeeded.
LoginSucceeds(l) ==
    /\ login[l].pc = "done"
    /\ \E admin \in BOOLEAN :
        /\ admin => ~ login[l].offline
        /\ ui' = Opened(ui, login[l].key, login[l].offline, admin)
        /\ ui'.polls <= MaxPolls
    /\ core' = [core EXCEPT !.worker = ~ login[l].offline /\ ~ core.offline]
    /\ IF login[l].offline THEN watch' = CancelWatchers
       ELSE \E w \in Watchers : watch[w] = NoWatch /\ watch' = WatchEvents(w)
    /\ login' = [CancelLogins(login) EXCEPT ![l] = NoLogin]
    /\ entangled' = ~ login[l].alone
    /\ UNCHANGED <<lock, tries>>

-----------------------------------------------------------------------------
(* What the user does, and the goroutines that answer.                     *)
Unchanged == UNCHANGED <<core, lock, login, watch, entangled, tries>>

RefreshButton == ui.key # None /\ ui' = RefreshFriends(ui) /\ Unchanged

\* Reveal in the export dialog, and ExportPrivateKey: it looks at no lockout and
\* counts nothing, so that it may try PINs one after the other, be they good or
\* bad, and leaves the session as it is.  (A dialog left open when the session
\* ends does the same.)
ExportPrivateKey == ui.key # None /\ UNCHANGED vars

Answered(task) == [ui EXCEPT !.tasks = @ \ {task}]

FriendsAnswer ==
    /\ "friends" \in ui.tasks
    /\ LET u == [Answered("friends") EXCEPT !.refreshing = FALSE]
       IN  ui' \in {u, SyncUnread(u)}
    /\ Unchanged

SweepAnswers ==
    /\ "sweep" \in ui.tasks
    /\ ui' = [Answered("sweep") EXCEPT !.syncingUnread = FALSE]
    /\ Unchanged

\* A friend was added, a message sent, or messages came by a synchronisation.
FriendAdded == ui' = RefreshFriends(ui)

\* A user was banned or unbanned.
StatusSet == ui' = RefreshAdmin(ui)

\* The answer of what the user, or an event, started in this session.  It
\* blocks nothing while it is in flight, and may be at any moment of the
\* session: it is not kept.
ActAnswers ==
    /\ ui.key # None
    /\ FriendAdded \/ StatusSet
    /\ ui'.polls <= MaxPolls
    /\ Unchanged

\* Mutant: the answer of a poll is dropped when there is no session.
PollDropped ==
    /\ ui.polls > 0
    /\ ui' = [ui EXCEPT !.polls = @ - 1, !.refreshingAdmin = @ /\ ui.key = None]
    /\ Unchanged

\* The flag is cleared before anything else is looked at.
PollAnswers ==
    /\ ui.polls > 0
    /\ ui' = [ui EXCEPT !.polls = @ - 1, !.refreshingAdmin = FALSE]
    /\ Unchanged

-----------------------------------------------------------------------------
(* The event stream.                                                       *)
Streaming(w) == watch[w].st = "stream" /\ watch[w].live /\ ~ watch[w].broken

SetWatch(w, new) ==
    /\ watch' = [watch EXCEPT ![w] = new]
    /\ UNCHANGED <<ui, core, lock, login, entangled, tries>>

\* Subscribe answers, or fails: the server is away, or knows no such token.
Subscribe(w) ==
    /\ watch[w].st = "connect" /\ watch[w].live
    /\ \/ core.token # None /\ SetWatch(w, [watch[w] EXCEPT !.st = "stream"])
       \/ SetWatch(w, [watch[w] EXCEPT !.st = "wait"])

Receive(w) ==
    /\ Streaming(w)
    /\ Len(watch[w].queue) < Buffer
    /\ \E e \in Events : SetWatch(w, [watch[w] EXCEPT !.queue = Append(@, e)])

Break(w) == Streaming(w) /\ SetWatch(w, [watch[w] EXCEPT !.broken = TRUE])

\* Mutant: the error of a stream ends the watcher.
ErrorReturns(w) ==
    /\ watch[w].live /\ watch[w].broken
    /\ SetWatch(w, NoWatch)

\* The error is taken by one of the two selects, be there events before it or
\* not: what the channels still hold is dropped with them.
StreamEnds(w) ==
    /\ watch[w].live /\ watch[w].broken
    /\ SetWatch(w, [NoWatch EXCEPT !.st = "wait", !.live = TRUE])

Backoff(w) ==
    /\ watch[w].st = "wait" /\ watch[w].live
    /\ SetWatch(w, [watch[w] EXCEPT !.st = "connect"])

\* A cancelled watcher sees it, at a select that may as well take an event.
WatcherEnds(w) ==
    /\ watch[w].queue # <<>> /\ ~ watch[w].live
    /\ SetWatch(w, NoWatch)

\* handleEvent, which does not ask which session the event was received in.
HandleEvent(w) ==
    /\ watch[w].queue # <<>>
    /\ LET event   == Head(watch[w].queue)
           rest    == [watch[w] EXCEPT !.queue = Tail(@)]
           handled == IF rest.live THEN rest ELSE Cancelled(rest)
       IN  \/ event = "message" /\ ui' = RefreshFriends(ui)
              /\ watch' = [watch EXCEPT ![w] = handled]
              /\ UNCHANGED <<core, lock, login, entangled, tries>>
           \/ event = "update" /\ ui' = RefreshAdmin(RefreshFriends(ui))
              /\ ui'.polls <= MaxPolls
              /\ watch' = [watch EXCEPT ![w] = handled]
              /\ UNCHANGED <<core, lock, login, entangled, tries>>
           \/ event = "force"
              /\ Logout([CancelWatchers EXCEPT ![w] = Cancelled(rest)])

-----------------------------------------------------------------------------
LoginStep(l) ==
    \/ BeginLogin(l) \/ CheckLock(l) \/ LoadIdentity(l) \/ BadPIN(l)
    \/ RpcLogin(l) \/ Unreachable(l) \/ RpcFails(l)
    \/ SetCacheOwner(l) \/ SetSession(l) \/ LoginFailed(l) \/ LoginSucceeds(l)

WatchStep(w) ==
    \/ Subscribe(w) \/ Receive(w) \/ Break(w) \/ StreamEnds(w)
    \/ Backoff(w) \/ WatcherEnds(w) \/ HandleEvent(w)

UiStep ==
    \/ RefreshButton \/ ExportPrivateKey
    \/ FriendsAnswer \/ SweepAnswers \/ ActAnswers \/ PollAnswers

Next ==
    \/ Lock \/ LockoutEnds \/ UiStep
    \/ \E l \in Logins : LoginStep(l)
    \/ \E w \in Watchers : WatchStep(w)

Spec == Init /\ [][Next]_vars

-----------------------------------------------------------------------------
Ui == [key : Keys \cup {None}, offline : BOOLEAN, poller : BOOLEAN, loginInFlight : BOOLEAN,
       refreshing : BOOLEAN, refreshingAdmin : BOOLEAN, syncingUnread : BOOLEAN,
       adminList : BOOLEAN, tasks : SUBSET Tasks, polls : 0 .. MaxPolls, dropped : BOOLEAN]

Core == [key : Keys \cup {None}, offline : BOOLEAN, owner : Keys \cup {None},
         token : Keys \cup {None}, worker : BOOLEAN]

Login == [pc : {"idle", "check", "load", "rpc", "owner", "session", "done", "failed"},
          key : Keys \cup {None}, offline : BOOLEAN,
          ctx : {"background", "session", "cancelled"}, alone : BOOLEAN]

Watch == [st : {"off", "connect", "stream", "wait"}, live : BOOLEAN,
          queue : Seq(Events), broken : BOOLEAN]

TypeOK ==
    /\ ui \in Ui
    /\ core \in Core
    /\ lock \in [left : 0 .. Attempts, until : {"none", "running", "over"}]
    /\ login \in [Logins -> Login]
    /\ watch \in [Watchers -> Watch]
    /\ \A w \in Watchers : Len(watch[w].queue) <= Buffer
    /\ entangled \in BOOLEAN
    /\ tries \in Nat

Quiet == \A l \in Logins : ~ InFlight(l)

Online == ui.key # None /\ ~ ui.offline

(***************************************************************************)
(* A session that is shown as online has exactly one watcher, whatever its *)
(* stream does, and no other session, and no locked one, has any: however  *)
(* logins, reconnects, Lock and ForceOffline follow each other.            *)
(***************************************************************************)
SessionServed ==
    /\ Online => \E w \in Watchers : watch[w].live
    /\ \A w \in Watchers : watch[w].live => Online /\ watch[w].st # "off"
    /\ \A v, w \in Watchers : watch[v].live /\ watch[w].live => v = w
    /\ ui.poller <=> ui.key # None

(***************************************************************************)
(* Between logins the user interface, core.Service, the owner of the store *)
(* and the token tell of the same session, and the worker runs when it is  *)
(* online; unless the last login or Lock met a login in flight.            *)
(***************************************************************************)
Agree == Quiet /\ ~ entangled =>
    /\ core.key = ui.key /\ core.owner = ui.key
    /\ core.offline = ui.offline
    /\ Online => core.token = ui.key
    /\ core.worker <=> Online

(***************************************************************************)
(* A flag that keeps a refresh from starting belongs to a goroutine that   *)
(* will clear it; but for refreshFriends called without a session, by an   *)
(* event that comes late, and for a login that ends during a refresh.      *)
(***************************************************************************)
FlagsAnswered ==
    /\ ui.syncingUnread => "sweep" \in ui.tasks
    /\ ui.refreshingAdmin => ui.polls > 0
    /\ ui.refreshing => "friends" \in ui.tasks \/ ui.dropped

(***************************************************************************)
(* Logins that race with each other do not outrun the lockout: before the  *)
(* attempts are restored they try no more than Attempts bad PINs, and one  *)
(* more for each that was in flight when the lockout began; and it begins  *)
(* no earlier.  It bounds logins only: ExportPrivateKey tries any number.  *)
(***************************************************************************)
PinsBounded ==
    /\ tries < Attempts + Cardinality(Logins)
    /\ lock.until # "none" => tries >= Attempts
=============================================================================
