------------------------------ MODULE Presence ------------------------------
(***************************************************************************)
(* Who is online: the event hub's map of streams in memory, the sessions   *)
(* table in PostgreSQL, and what the friends of a user were last told.     *)
(* EventService.Subscribe handlers, AdminService.SetUserStatus, logins and *)
(* the presence healer change them concurrently; the store may fail a      *)
(* statement, whose error most callers ignore; the server may restart.     *)
(*                                                                         *)
(* A channel is named by the handler that made it.  Hub.mu makes Register, *)
(* Unregister, Push and the map's part of KickUser single steps; the       *)
(* channels KickUser took out of the map are closed after the unlock.      *)
(* Of the events in a channel only the number is kept; a push to every     *)
(* watcher of a user (friends and admins) is one step of the model.        *)
(***************************************************************************)
EXTENDS Integers, FiniteSets

CONSTANTS
    Users, Tokens, ClientIds,
    Handlers,       \* goroutines of Subscribe
    Admins,         \* goroutines of SetUserStatus
    None,           \* no handler, no token, no user
    TokenOwner,     \* the user each session token is issued to
    Watchers,       \* for a user, the users that are friends or admins
    Capacity,       \* 64 in the code
    StoreMayFail,   \* whether statements may fail
    Healing         \* whether the healer runs: a bound of the model

ASSUME TokenOwnerAssumption == TokenOwner \in [Tokens -> Users]
ASSUME WatchersAssumption == Watchers \in [Users -> SUBSET Users]
ASSUME NoneAssumption == None \notin Users \cup Tokens \cup ClientIds \cup Handlers
ASSUME CapacityAssumption == Capacity \in Nat \ {0}

VARIABLES
    banned,         \* users whose status is 2
    session,        \* table sessions, a row per token
    streams,        \* Hub.streams, as a function of user and client id
    chan,           \* the channels: how much they hold, and whether they are closed
    handler,        \* the Subscribe goroutines
    admin,          \* the SetUserStatus goroutines
    healer,         \* RunPresenceHealer
    announced,      \* history: the last FriendStatus pushed about a user
    late,           \* history: handlers a kick came too early for, or whose id is not their own
    unkicked        \* history: users banned by a call whose commit was not acknowledged

vars == <<banned, session, streams, chan, handler, admin, healer, announced, late, unkicked>>

Idle == [pc |-> "idle", token |-> None, id |-> None, online |-> FALSE]

NoAdmin == [pc |-> "idle", user |-> None, kicked |-> {}]

NoPass == [pc |-> "idle", seen |-> {}, rows |-> {}]

Empty == [queued |-> 0, closed |-> FALSE]

User(h) == TokenOwner[handler[h].token]

At(h, pc) == handler[h].pc = pc

Goto(h, pc) == handler' = [handler EXCEPT ![h].pc = pc]

\* IsUserOnline: a session that has not expired is marked online.
Online(u) == \E t \in Tokens :
    TokenOwner[t] = u /\ session[t].state = "valid" /\ session[t].online

Registered(h) == \E k \in DOMAIN streams : streams[k] = h

\* Whether a statement whose error is ignored takes effect.
Outcomes == IF StoreMayFail THEN BOOLEAN ELSE {TRUE}

Init ==
    /\ banned = {}
    /\ session = [t \in Tokens |-> [state |-> "none", online |-> FALSE]]
    /\ streams = [k \in Users \X ClientIds |-> None]
    /\ chan = [h \in Handlers |-> Empty]
    /\ handler = [h \in Handlers |-> Idle]
    /\ admin = [x \in Admins |-> NoAdmin]
    /\ healer = NoPass
    /\ announced = [u \in Users |-> FALSE]
    /\ late = {}
    /\ unkicked = {}

-----------------------------------------------------------------------------
(***************************************************************************)
(* eventhub.                                                               *)
(***************************************************************************)
\* trySend to every stream of the users: a full channel drops the event.
Push(users) ==
    chan' = [h \in Handlers |->
        IF /\ \E k \in DOMAIN streams : k[1] \in users /\ streams[k] = h
           /\ chan[h].queued < Capacity
        THEN [chan[h] EXCEPT !.queued = @ + 1] ELSE chan[h]]

\* notifyFriendsStatus and notifyAdmins; nobody is told whose query fails.
Announce(u, status) ==
    /\ \E read \in Outcomes : announced' = [announced EXCEPT ![u] = IF read THEN status ELSE @]
    /\ Push(Watchers[u]) \/ (StoreMayFail /\ UNCHANGED chan)

\* MarkSessionClient updates the row of the token unless it has expired.
MarkSessionClient(t, online) ==
    \E done \in Outcomes :
        session' = IF done /\ session[t].state = "valid"
                   THEN [session EXCEPT ![t].online = online] ELSE session

-----------------------------------------------------------------------------
(***************************************************************************)
(* AuthService.Login reads the status of the user in one statement and     *)
(* inserts the session in a later one; a token is issued once.             *)
(***************************************************************************)
LoginCheck(t) ==
    /\ session[t].state = "none"
    /\ TokenOwner[t] \notin banned
    /\ session' = [session EXCEPT ![t].state = "login"]
    /\ UNCHANGED <<banned, streams, chan, handler, admin, healer, announced, late, unkicked>>

LoginCommit(t) ==
    /\ session[t].state = "login"
    /\ \E state \in {"valid", "none"} : session' = [session EXCEPT ![t].state = state]
    /\ UNCHANGED <<banned, streams, chan, handler, admin, healer, announced, late, unkicked>>

Expire(t) ==
    /\ session[t].state = "valid"
    /\ session' = [session EXCEPT ![t].state = "expired"]
    /\ UNCHANGED <<banned, streams, chan, handler, admin, healer, announced, late, unkicked>>

\* CleanupExpired marks expired sessions offline and deletes those of yesterday.
CleanupExpired(old) ==
    /\ \E t \in Tokens : session[t].state = "expired" /\ (session[t].online \/ t \in old)
    /\ session' = [t \in Tokens |->
            IF session[t].state # "expired" THEN session[t]
            ELSE [state |-> IF t \in old THEN "deleted" ELSE "expired", online |-> FALSE]]
    /\ UNCHANGED <<banned, streams, chan, handler, admin, healer, announced, late, unkicked>>

-----------------------------------------------------------------------------
(***************************************************************************)
(* EventService.Subscribe.  The stream interceptor authenticates once; a   *)
(* ban after that does not stop the handler from registering.  The name of *)
(* a handler is used again when nobody holds its channel any more.         *)
(***************************************************************************)
Authenticate(h, t, id) ==
    /\ At(h, "idle")
    /\ \A x \in Admins : h \notin admin[x].kicked
    /\ session[t].state = "valid" /\ TokenOwner[t] \notin banned
    /\ handler' = [handler EXCEPT ![h] = [Idle EXCEPT !.pc = "register", !.token = t, !.id = id]]
    /\ chan' = [chan EXCEPT ![h] = Empty]
    /\ LET same == {g \in Handlers \ {h} : handler[g].id = id /\ User(g) = TokenOwner[t]}
       IN  late' = IF same = {} THEN late \ {h} ELSE late \cup same \cup {h}
    /\ UNCHANGED <<banned, session, streams, admin, healer, announced, unkicked>>

Register(h) ==
    /\ At(h, "register")
    /\ streams' = [streams EXCEPT ![<<User(h), handler[h].id>>] = h]
    /\ Goto(h, "wasOnline")
    /\ UNCHANGED <<banned, session, chan, admin, healer, announced, late, unkicked>>

\* wasOnline, false if the query fails.
ReadWasOnline(h) ==
    /\ At(h, "wasOnline")
    /\ \E read \in Outcomes : handler' = [handler EXCEPT ![h].pc = "mark",
                                ![h].online = read /\ Online(User(h))]
    /\ UNCHANGED <<banned, session, streams, chan, admin, healer, announced, late, unkicked>>

MarkOnline(h) ==
    /\ At(h, "mark")
    /\ MarkSessionClient(handler[h].token, TRUE)
    /\ Goto(h, IF handler[h].online THEN "loop" ELSE "announce")
    /\ UNCHANGED <<banned, streams, chan, admin, healer, announced, late, unkicked>>

AnnounceOnline(h) ==
    /\ At(h, "announce")
    /\ Announce(User(h), TRUE)
    /\ Goto(h, "loop")
    /\ UNCHANGED <<banned, session, streams, admin, healer, late, unkicked>>

\* An event is sent to the client.
Deliver(h) ==
    /\ At(h, "loop")
    /\ chan[h].queued > 0
    /\ chan' = [chan EXCEPT ![h].queued = @ - 1]
    /\ UNCHANGED <<banned, session, streams, handler, admin, healer, announced, late, unkicked>>

\* The channel is closed and drained: the loop returns.
ChannelClosed(h) ==
    /\ At(h, "loop")
    /\ chan[h].closed /\ chan[h].queued = 0
    /\ Goto(h, "unregister")
    /\ UNCHANGED <<banned, session, streams, chan, admin, healer, announced, late, unkicked>>

\* The client is gone, Send fails, or gRPC ends the stream; select may prefer
\* this to the events in the channel.
StreamEnds(h) ==
    /\ At(h, "loop")
    /\ Goto(h, "unregister")
    /\ UNCHANGED <<banned, session, streams, chan, admin, healer, announced, late, unkicked>>

\* Mutant: every stream of the user is deleted.
UnregisterUser(h) ==
    /\ At(h, "unregister")
    /\ streams' = [k \in DOMAIN streams |-> IF k[1] = User(h) THEN None ELSE streams[k]]
    /\ Goto(h, "unmark")
    /\ UNCHANGED <<banned, session, chan, admin, healer, announced, late, unkicked>>

\* Deletes whatever channel is registered under the handler's client id.
Unregister(h) ==
    /\ At(h, "unregister")
    /\ streams' = [streams EXCEPT ![<<User(h), handler[h].id>>] = None]
    /\ Goto(h, "unmark")
    /\ UNCHANGED <<banned, session, chan, admin, healer, announced, late, unkicked>>

\* Mutant: the session stays marked online.
NoUnmark(h) ==
    /\ At(h, "unmark")
    /\ Goto(h, "isOnline")
    /\ UNCHANGED <<banned, session, streams, chan, admin, healer, announced, late, unkicked>>

MarkOffline(h) ==
    /\ At(h, "unmark")
    /\ MarkSessionClient(handler[h].token, FALSE)
    /\ Goto(h, "isOnline")
    /\ UNCHANGED <<banned, streams, chan, admin, healer, announced, late, unkicked>>

ReadIsOnline(h) ==
    /\ At(h, "isOnline")
    /\ \E read \in Outcomes :
        IF read /\ Online(User(h))
        THEN handler' = [handler EXCEPT ![h] = Idle]
        ELSE Goto(h, "announceOff")
    /\ UNCHANGED <<banned, session, streams, chan, admin, healer, announced, late, unkicked>>

AnnounceOffline(h) ==
    /\ At(h, "announceOff")
    /\ Announce(User(h), FALSE)
    /\ handler' = [handler EXCEPT ![h] = Idle]
    /\ UNCHANGED <<banned, session, streams, admin, healer, late, unkicked>>

-----------------------------------------------------------------------------
(***************************************************************************)
(* AdminService.SetUserStatus.  The transaction sets the status and, for a *)
(* ban, deletes the sessions; then ForceOffline is pushed and the streams  *)
(* are kicked.  A login that has read the status is not stopped.  A commit *)
(* may take effect and return an error all the same (the connection or the *)
(* call's context ends): the call gives up then, and tells nobody.         *)
(***************************************************************************)
SetBanned(u) ==
    /\ banned' = banned \cup {u}
    /\ session' = [t \in Tokens |->
            IF TokenOwner[t] = u /\ session[t].state \in {"valid", "expired"}
            THEN [state |-> "deleted", online |-> FALSE] ELSE session[t]]

Ban(x, u) ==
    /\ admin[x].pc = "idle"
    /\ SetBanned(u)
    /\ admin' = [admin EXCEPT ![x] = [NoAdmin EXCEPT !.pc = "push", !.user = u]]
    /\ unkicked' = unkicked \ {u}
    /\ UNCHANGED <<streams, chan, handler, healer, announced, late>>

BanUnacknowledged(x, u) ==
    /\ admin[x].pc = "idle"
    /\ SetBanned(u)
    /\ unkicked' = unkicked \cup ({u} \ banned)
    /\ UNCHANGED <<streams, chan, handler, admin, healer, announced, late>>

Unban(x, u) ==
    /\ admin[x].pc = "idle"
    /\ u \in banned
    /\ banned' = banned \ {u}
    /\ \/ admin' = [admin EXCEPT ![x] = [NoAdmin EXCEPT !.pc = "notify", !.user = u]]
       \/ UNCHANGED admin
    /\ unkicked' = unkicked \ {u}
    /\ UNCHANGED <<session, streams, chan, handler, healer, announced, late>>

PushForceOffline(x) ==
    /\ admin[x].pc = "push"
    /\ Push({admin[x].user})
    /\ admin' = [admin EXCEPT ![x].pc = "kick"]
    /\ UNCHANGED <<banned, session, streams, handler, healer, announced, late, unkicked>>

Clients(u) == {streams[<<u, id>>] : id \in ClientIds} \ {None}

\* Mutant: the channels are closed and stay in the map.
KickKeepsMap(x) ==
    /\ admin[x].pc = "kick"
    /\ admin' = [admin EXCEPT ![x] = [@ EXCEPT !.pc = "close", !.kicked = Clients(admin[x].user)]]
    /\ UNCHANGED <<banned, session, streams, chan, handler, healer, announced, late, unkicked>>

\* KickUser takes the user's streams out of the map ...
KickUser(x) ==
    /\ admin[x].pc = "kick"
    /\ admin' = [admin EXCEPT ![x] = [@ EXCEPT !.pc = "close", !.kicked = Clients(admin[x].user)]]
    /\ streams' = [k \in DOMAIN streams |-> IF k[1] = admin[x].user THEN None ELSE streams[k]]
    /\ late' = late \cup {h \in Handlers : At(h, "register") /\ User(h) = admin[x].user}
    /\ UNCHANGED <<banned, session, chan, handler, healer, announced, unkicked>>

\* ... and closes them one by one after the unlock.
CloseChannel(x) ==
    /\ admin[x].pc = "close"
    /\ \E h \in admin[x].kicked :
        /\ chan' = [chan EXCEPT ![h].closed = TRUE]
        /\ admin' = [admin EXCEPT ![x].kicked = @ \ {h}]
    /\ UNCHANGED <<banned, session, streams, handler, healer, announced, late, unkicked>>

Kicked(x) ==
    /\ admin[x].pc = "close" /\ admin[x].kicked = {}
    /\ admin' = [admin EXCEPT ![x].pc = "notify"]
    /\ UNCHANGED <<banned, session, streams, chan, handler, healer, announced, late, unkicked>>

\* PushAdmins: AdminUpdate to the admins, or nothing if they cannot be read.
NotifyAdmins(x) ==
    /\ admin[x].pc = "notify"
    /\ Push(Watchers[admin[x].user]) \/ (StoreMayFail /\ UNCHANGED chan)
    /\ admin' = [admin EXCEPT ![x] = NoAdmin]
    /\ UNCHANGED <<banned, session, streams, handler, healer, announced, late, unkicked>>

\* The other pushes: new messages, broadcasts, registrations.
OtherEvent(u) ==
    /\ Push({u})
    /\ UNCHANGED <<banned, session, streams, handler, admin, healer, announced, late, unkicked>>

-----------------------------------------------------------------------------
(***************************************************************************)
(* A pass of the healer: OnlinePubKeys, then the users with a session that *)
(* is marked online, then an UPDATE for each of them that was not seen.    *)
(***************************************************************************)
HealSnapshot ==
    /\ Healing
    /\ healer.pc = "idle"
    /\ healer' = [NoPass EXCEPT !.pc = "select",
            !.seen = {u \in Users : \E id \in ClientIds : streams[<<u, id>>] # None}]
    /\ UNCHANGED <<banned, session, streams, chan, handler, admin, announced, late, unkicked>>

HealSelect ==
    /\ healer.pc = "select"
    /\ healer' = [healer EXCEPT !.pc = "update",
            !.rows = {TokenOwner[t] : t \in {s \in Tokens : session[s].online}}]
    /\ UNCHANGED <<banned, session, streams, chan, handler, admin, announced, late, unkicked>>

\* Mutant: the seen users are the ones marked offline.
HealSeen(u) ==
    /\ healer.pc = "update" /\ u \in healer.rows
    /\ healer' = [healer EXCEPT !.rows = @ \ {u}]
    /\ session' = [t \in Tokens |->
            IF TokenOwner[t] = u /\ u \in healer.seen
            THEN [session[t] EXCEPT !.online = FALSE] ELSE session[t]]
    /\ UNCHANGED <<banned, streams, chan, handler, admin, announced, late, unkicked>>

HealUpdate(u) ==
    /\ healer.pc = "update" /\ u \in healer.rows
    /\ healer' = [healer EXCEPT !.rows = @ \ {u}]
    /\ session' = [t \in Tokens |->
            IF TokenOwner[t] = u /\ u \notin healer.seen
            THEN [session[t] EXCEPT !.online = FALSE] ELSE session[t]]
    /\ UNCHANGED <<banned, streams, chan, handler, admin, announced, late, unkicked>>

HealEnds ==
    /\ healer.pc = "update" /\ healer.rows = {}
    /\ healer' = NoPass
    /\ UNCHANGED <<banned, session, streams, chan, handler, admin, announced, late, unkicked>>

\* A statement of the pass fails, which ends it.
HealFails ==
    /\ StoreMayFail
    /\ healer.pc \in {"select", "update"}
    /\ healer' = NoPass
    /\ UNCHANGED <<banned, session, streams, chan, handler, admin, announced, late, unkicked>>

(***************************************************************************)
(* The server process ends, and starts again with CleanupStaleOnline, of   *)
(* which a failure is only logged.  Every stream is cut, so what friends   *)
(* were told before counts no more.                                        *)
(***************************************************************************)
Restart(cleaned) ==
    /\ \E h \in Handlers : ~ At(h, "idle")
    /\ cleaned \in Outcomes
    /\ session' = [t \in Tokens |->
            [state |-> IF session[t].state = "login" THEN "none" ELSE session[t].state,
             online |-> session[t].online /\ ~ cleaned]]
    /\ streams' = [k \in DOMAIN streams |-> None]
    /\ chan' = [h \in Handlers |-> Empty]
    /\ handler' = [h \in Handlers |-> Idle]
    /\ admin' = [x \in Admins |-> NoAdmin]
    /\ healer' = NoPass
    /\ announced' = [u \in Users |-> FALSE]
    /\ late' = {}
    /\ unkicked' = {}
    /\ UNCHANGED banned

-----------------------------------------------------------------------------
\* What a handler does by itself; only StreamEnds comes from outside.
Step(h) ==
    \/ Register(h) \/ ReadWasOnline(h) \/ MarkOnline(h) \/ AnnounceOnline(h)
    \/ Deliver(h) \/ ChannelClosed(h)
    \/ Unregister(h) \/ MarkOffline(h) \/ ReadIsOnline(h) \/ AnnounceOffline(h)

SetUserStatusStep(x) ==
    PushForceOffline(x) \/ KickUser(x) \/ CloseChannel(x) \/ Kicked(x) \/ NotifyAdmins(x)

Next ==
    \/ \E t \in Tokens : LoginCheck(t) \/ LoginCommit(t) \/ Expire(t)
    \/ \E old \in SUBSET Tokens : CleanupExpired(old)
    \/ \E h \in Handlers, t \in Tokens, id \in ClientIds : Authenticate(h, t, id)
    \/ \E h \in Handlers : Step(h) \/ StreamEnds(h)
    \/ \E x \in Admins, u \in Users : Ban(x, u) \/ BanUnacknowledged(x, u) \/ Unban(x, u)
    \/ \E x \in Admins : SetUserStatusStep(x)
    \/ \E u \in Users : OtherEvent(u) \/ HealUpdate(u)
    \/ HealSnapshot \/ HealSelect \/ HealEnds \/ HealFails
    \/ \E cleaned \in BOOLEAN : Restart(cleaned)

Spec == Init /\ [][Next]_vars

(***************************************************************************)
(* Goroutines run and the healer's ticker ticks.  The database is not down *)
(* at every pass, and the server is not restarted for ever.                *)
(***************************************************************************)
Fairness ==
    /\ \A h \in Handlers : WF_vars(Step(h))
    /\ \A x \in Admins : WF_vars(SetUserStatusStep(x))
    /\ WF_vars(HealSnapshot) /\ WF_vars(HealEnds) /\ SF_vars(HealSelect)
    /\ \A u \in Users : SF_vars(HealUpdate(u))

FairSpec == Spec /\ Fairness

-----------------------------------------------------------------------------
Serving == {"wasOnline", "mark", "announce", "loop"}

SessionRows == [state : {"none", "login", "valid", "expired", "deleted"}, online : BOOLEAN]
Channels == [queued : 0 .. Capacity, closed : BOOLEAN]
Busy == Serving \cup {"register", "unregister", "unmark", "isOnline", "announceOff"}
Goroutines == [pc : {"idle"}, token : {None}, id : {None}, online : BOOLEAN] \cup
              [pc : Busy, token : Tokens, id : ClientIds, online : BOOLEAN]
Calls == [pc : {"idle"}, user : {None}, kicked : {{}}] \cup
         [pc : {"push", "kick", "close", "notify"}, user : Users, kicked : SUBSET Handlers]
Passes == [pc : {"idle", "select", "update"}, seen : SUBSET Users, rows : SUBSET Users]

TypeOK ==
    /\ banned \subseteq Users
    /\ session \in [Tokens -> SessionRows]
    /\ streams \in [Users \X ClientIds -> Handlers \cup {None}]
    /\ chan \in [Handlers -> Channels]
    /\ handler \in [Handlers -> Goroutines]
    /\ admin \in [Admins -> Calls]
    /\ healer \in Passes
    /\ announced \in [Users -> BOOLEAN]
    /\ late \subseteq Handlers
    /\ unkicked \subseteq Users

(***************************************************************************)
(* A channel in the hub's map is open and has a handler that will remove   *)
(* it: no Push sends on a closed channel, which would panic.  KickUser     *)
(* closes no channel twice, which would panic too.  Client ids may         *)
(* collide, handlers end and kicks of one user overlap.                    *)
(***************************************************************************)
ChannelsSound ==
    /\ \A h \in Handlers : Registered(h) =>
        ~ chan[h].closed /\ handler[h].pc \in Serving \cup {"unregister"}
    /\ \A x \in Admins : \A h \in admin[x].kicked : ~ chan[h].closed
    /\ \A x, y \in Admins : x # y => admin[x].kicked \cap admin[y].kicked = {}

(***************************************************************************)
(* Once a ban has been carried out, the user's only streams left serving   *)
(* are those whose handler had authenticated, and not yet registered, when *)
(* the kick came, and those that were given an id in use (the Go client    *)
(* draws it at random): a stream that ends takes its namesake out of the   *)
(* map, where the kick does not find it.  A ban that took effect without   *)
(* its commit being acknowledged is not carried out: the user's streams    *)
(* are served until he is banned once more.                                *)
(***************************************************************************)
BanEndsStreams ==
    \A h \in Handlers :
        /\ handler[h].pc \in Serving /\ ~ chan[h].closed
        /\ User(h) \in banned \ unkicked
        /\ \A x \in Admins : admin[x].user = User(h) => admin[x].pc = "notify"
        => h \in late

Away(u) == \A h \in Handlers : handler[h].token # None => User(h) # u

(***************************************************************************)
(* When a user's last stream goroutine is gone, his friends were last told *)
(* that he is offline, whichever streams of his came and went in between,  *)
(* were kicked, or lost their session.  A failing store breaks this.       *)
(***************************************************************************)
LastOneOutTells == \A u \in Users : Away(u) => ~ announced[u]

(***************************************************************************)
(* A user without streams does not stay online in the sessions table, also *)
(* if the statement that should have marked him offline failed.            *)
(***************************************************************************)
StalePresenceHeals == \A u \in Users : <>[]Away(u) => <>[](~ Online(u))
=============================================================================
