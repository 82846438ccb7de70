------------------------------ MODULE Accounts ------------------------------
(***************************************************************************)
(* Accounts of the server: registration and login by challenge, bans, the  *)
(* start and the end of the process, migrations.                           *)
(*                                                                         *)
(* Several devices may hold one key.  A login is two calls of the client,  *)
(* RequestChallenge and Login, each a READ COMMITTED transaction of its    *)
(* own; every SQL statement is an action, what a transaction has written   *)
(* is in the local state of its call until it commits, and the row locks   *)
(* it holds are read off the program counters.  Presence models what the   *)
(* streams of a banned user see; here the rows matter.                     *)
(*                                                                         *)
(* One SetUserStatus runs at a time: of two of one user the second waits   *)
(* in its first statement with nothing held, and two of different users    *)
(* have no row in common.                                                  *)
(***************************************************************************)
EXTENDS Naturals, FiniteSets

CONSTANTS
    Keys,          \* accounts, by public key
    Admin,         \* cfg.AdminPubKey
    Devices,       \* clients that log in
    KeyOf,         \* the key of a device
    Versions,      \* the number of migration files
    MaxTries,      \* bound: logins of a device
    MaxBans,       \* bound: calls of SetUserStatus
    MaxStarts,     \* bound: starts of the process
    None,          \* no row
    Old            \* a row past expires_at

ASSUME AccountsAssumption ==
    /\ Admin \in Keys
    /\ KeyOf \in [Devices -> Keys]
    /\ {Versions, MaxTries, MaxBans, MaxStarts} \subseteq Nat
    /\ {None, Old} \intersect (Devices \X (1..MaxTries)) = {} /\ None # Old
    /\ None \notin Devices

VARIABLES
    server,        \* where main is
    version,       \* the migration ApplyMigrations is at
    starts,        \* starts of the process so far
    applied,       \* rows of schema_migrations
    changed,       \* migrations whose script has taken effect
    status,        \* users.status, or "none" when there is no row
    admins,        \* users.role = 1
    challenge,     \* challenges: the row of a key, or None
    sessions,      \* sessions: the tokens of the table not past expires_at
    expired,       \* sessions: those past it, which nothing but a DELETE looks at
    at,            \* the next statement of a device's call
    tries,         \* logins a device has begun
    wrote,         \* has the call created the user, or met a row to delete?
    cleanup,       \* the transaction of RunCleanup's goroutine
    ban,           \* the call of SetUserStatus in progress
    bans,          \* calls of SetUserStatus so far
    told,          \* status as an admin sees it who polls at each AdminUpdate,
                   \* "missed" if its last change was announced to no one
    revoked,       \* tokens that were in the table when a ban of their owner began
    disturbed      \* keys that met a ban, an expiry, a failure or a stop

startVars == <<server, version, starts, applied, changed, cleanup>>
rowVars == <<status, admins, challenge, sessions, expired>>
callVars == <<at, tries, wrote>>
banVars == <<ban, bans>>
histVars == <<told, revoked, disturbed>>
vars == <<startVars, rowVars, callVars, banVars, histVars>>

(* A challenge and a token carry the call that drew them at random.        *)
Ids == Devices \X (1..MaxTries)
Own(d) == <<d, tries[d]>>
Owner(t) == KeyOf[t[1]]
DevicesOf(k) == {d \in Devices : KeyOf[d] = k}

InRequest == {"insertUser", "upsert", "commitRequest", "announce"}
InLogin == {"select", "insertSession", "deleteChallenge", "commitLogin"}
LoggingIn == {KeyOf[d] : d \in Devices}
InCall == InRequest \union InLogin
NoBan == [pc |-> "idle", target |-> Admin, to |-> "active", hit |-> FALSE,
          seen |-> {}, todo |-> {}, drop |-> {}]
NoCleanup == [on |-> FALSE, stale |-> {}, keys |-> {}, lapsed |-> {}, rows |-> {}]

(* AuthenticateToken: who may call.                                        *)
Valid(t) == t \in sessions /\ status[Owner(t)] = "active"
Serving == server \in {"serve", "drain"}

Init ==
    /\ server = "down" /\ version = 1 /\ starts = 0
    /\ \E n \in 0..Versions : applied = 1..n /\ changed = 1..n
    /\ status \in [Keys -> {"none", "active"}]
    /\ admins = {}
    /\ challenge = [k \in Keys |-> None] /\ sessions = {} /\ expired = {}
    /\ at = [d \in Devices |-> "idle"]
    /\ tries = [d \in Devices |-> 0]
    /\ wrote = [d \in Devices |-> FALSE]
    /\ cleanup = NoCleanup /\ ban = NoBan /\ bans = 0
    /\ told = [k \in Keys |-> "missed"]
    /\ revoked = {} /\ disturbed = {}

-----------------------------------------------------------------------------
(* The process: main, with an admin_pub_key and without skip_migrations.   *)

StartServer ==
    /\ server = "down" /\ starts < MaxStarts
    /\ server' = "check" /\ version' = 1 /\ starts' = starts + 1
    /\ UNCHANGED <<applied, changed, cleanup, rowVars, callVars, banVars, histVars>>

(* ApplyMigrations: SELECT EXISTS, then a transaction of script and row.   *)
MigrationCheck ==
    /\ server = "check"
    /\ \/ /\ version > Versions
          /\ server' = "seed" /\ UNCHANGED version
       \/ /\ version \in applied
          /\ version' = version + 1 /\ UNCHANGED server
       \/ /\ version \in 1..Versions \ applied
          /\ server' = "script" /\ UNCHANGED version
    /\ UNCHANGED <<starts, applied, changed, cleanup, rowVars, callVars, banVars, histVars>>

MigrationScript ==
    /\ server = "script"
    /\ server' = "record"
    /\ UNCHANGED <<version, starts, applied, changed, cleanup, rowVars, callVars, banVars,
                   histVars>>

MigrationCommit ==
    /\ server = "record"
    /\ server' = "check" /\ version' = version + 1
    /\ applied' = applied \union {version}
    /\ changed' = changed \union {version}
    /\ UNCHANGED <<starts, cleanup, rowVars, callVars, banVars, histVars>>

\* Mutant: ON CONFLICT DO NOTHING.
SeedNewAdmin ==
    /\ server = "seed"
    /\ server' = "serve"
    /\ IF status[Admin] = "none"
       THEN status' = [status EXCEPT ![Admin] = "active"] /\ admins' = admins \union {Admin}
       ELSE UNCHANGED <<status, admins>>
    /\ UNCHANGED <<version, starts, applied, changed, cleanup, challenge, sessions, expired,
                   callVars, banVars, histVars>>

(* SeedAdmin: the upsert makes the key an active admin, whatever it was.   *)
SeedAdmin ==
    /\ server = "seed"
    /\ server' = "serve"
    /\ status' = [status EXCEPT ![Admin] = "active"]
    /\ admins' = admins \union {Admin}
    /\ UNCHANGED <<version, starts, applied, changed, cleanup, challenge, sessions, expired,
                   callVars, banVars, histVars>>

(* The end of the process rolls every open transaction back, and the       *)
(* AdminUpdate events not sent yet are never sent.                         *)
Halt ==
    /\ server' = "down"
    /\ at' = [d \in Devices |-> IF at[d] \in InCall THEN "failed" ELSE at[d]]
    /\ ban' = NoBan /\ cleanup' = NoCleanup
    /\ told' = [k \in Keys |-> "missed"]
    /\ disturbed' = disturbed \union {k \in Keys : \E d \in DevicesOf(k) : at[d] \in InCall}
    /\ wrote' = [d \in Devices |-> FALSE]
    /\ UNCHANGED <<version, starts, applied, changed, rowVars, tries, bans, revoked>>

(* A failing step of the start (os.Exit), a crash, or Stop after the       *)
(* ten seconds of a GracefulStop.                                          *)
ServerStops ==
    /\ server # "down"
    /\ Halt

Shutdown ==
    /\ server = "serve"
    /\ server' = "drain"
    /\ UNCHANGED <<version, starts, applied, changed, cleanup, rowVars, callVars, banVars,
                   histVars>>

(* GracefulStop returns once the calls under way have ended.               *)
Drained ==
    /\ server = "drain"
    /\ \A d \in Devices : at[d] \notin InCall
    /\ ban.pc = "idle"
    /\ Halt

-----------------------------------------------------------------------------
(* Row locks.  A row inserted and not committed is invisible to others,    *)
(* but an INSERT of the same key waits for it, and for an UPDATE of it.    *)

ChallengeLocked(k, self) ==
    \E d \in DevicesOf(k) \ {self} :
        at[d] = "commitRequest" \/ (at[d] = "commitLogin" /\ wrote[d])

BanHolds(k) ==
    ban.target = k /\ ban.hit /\ ban.pc \in {"dropSessions", "lockSessions", "commit"}

(* Does a statement that wants the challenge of k have to wait?            *)
Held(k, self) == ChallengeLocked(k, self) \/ BanHolds(k) \/ k \in cleanup.keys

(* A row of sessions is locked by a ban of its owner, or by the cleanup.   *)
BanHoldsRow(t) == t \in ban.drop /\ ban.pc \in {"lockSessions", "commit"}

\* Mutant: the INSERT of a key does not wait for one under way.
NotLocked(k, self) == FALSE

UserLocked(k, self) ==
    \/ \E d \in DevicesOf(k) \ {self} : at[d] \in {"upsert", "commitRequest"} /\ wrote[d]
    \/ ban.target = k /\ ban.pc \in {"dropChallenge", "dropSessions", "lockSessions", "commit"}

Goto(d, pc) == at' = [at EXCEPT ![d] = pc]
Disturb(k) == disturbed' = disturbed \union ({k} \intersect LoggingIn)

-----------------------------------------------------------------------------
(* RequestChallenge.                                                       *)

RequestChallenge(d) ==
    /\ server = "serve"
    /\ at[d] \notin InCall /\ tries[d] < MaxTries
    /\ Goto(d, "insertUser")
    /\ tries' = [tries EXCEPT ![d] = @ + 1]
    /\ wrote' = [wrote EXCEPT ![d] = FALSE]
    /\ UNCHANGED <<startVars, rowVars, banVars, histVars>>

InsertUser(d) ==
    /\ at[d] = "insertUser"
    /\ ~UserLocked(KeyOf[d], d)
    /\ wrote' = [wrote EXCEPT ![d] = status[KeyOf[d]] = "none"]
    /\ Goto(d, "upsert")
    /\ UNCHANGED <<startVars, rowVars, tries, banVars, histVars>>

UpsertChallenge(d) ==
    /\ at[d] = "upsert"
    /\ ~Held(KeyOf[d], d)
    /\ Goto(d, "commitRequest")
    /\ UNCHANGED <<startVars, rowVars, tries, wrote, banVars, histVars>>

(* The rows of the transaction, when it commits.                           *)
RequestRows(d) ==
    /\ status' = [status EXCEPT ![KeyOf[d]] = IF wrote[d] THEN "active" ELSE @]
    /\ challenge' = [challenge EXCEPT ![KeyOf[d]] = Own(d)]
    /\ UNCHANGED <<admins, sessions, expired>>

\* Mutant: the admins are not told of a new user.
CommitSilently(d) ==
    /\ at[d] = "commitRequest"
    /\ RequestRows(d)
    /\ Goto(d, "select")
    /\ UNCHANGED <<startVars, tries, wrote, banVars, histVars>>

CommitRequest(d) ==
    /\ at[d] = "commitRequest"
    /\ RequestRows(d)
    /\ Goto(d, IF wrote[d] THEN "announce" ELSE "select")
    /\ UNCHANGED <<startVars, tries, wrote, banVars, histVars>>

Misses(ks) == told' = [k \in Keys |-> IF k \in ks THEN "missed" ELSE told[k]]

(* PollAdminEvents, of every user: whether he is banned. *)
PollAdminEvents == status

(* PushAdmins: the event goes to the admins of the table at that moment,   *)
(* and what the table holds then is what a poll after it will read.        *)
TellAdmins(k) ==
    IF Admin \in admins /\ status[Admin] = "active"
    THEN told' = PollAdminEvents
    ELSE Misses({k})

Announce(d) ==
    /\ at[d] = "announce"
    /\ TellAdmins(KeyOf[d])
    /\ Goto(d, "select")
    /\ UNCHANGED <<startVars, rowVars, tries, wrote, banVars, revoked, disturbed>>

-----------------------------------------------------------------------------
(* Login.  The first statement reads what is committed; its checks follow. *)

Acceptable(d) ==
    /\ challenge[KeyOf[d]] = Own(d)    \* there, not expired, and the one signed
    /\ status[KeyOf[d]] # "banned"

\* Mutant: a challenge is good for one attempt.
SelectConsuming(d) ==
    /\ at[d] = "select"
    /\ Goto(d, IF Acceptable(d) THEN "insertSession" ELSE "refused")
    /\ challenge' = [challenge EXCEPT ![KeyOf[d]] = IF Acceptable(d) THEN @ ELSE None]
    /\ wrote' = [wrote EXCEPT ![d] = FALSE]
    /\ UNCHANGED <<startVars, status, admins, sessions, expired, tries, banVars, histVars>>

SelectChallenge(d) ==
    /\ at[d] = "select"
    /\ Goto(d, IF Acceptable(d) THEN "insertSession" ELSE "refused")
    /\ wrote' = [wrote EXCEPT ![d] = FALSE]
    /\ UNCHANGED <<startVars, rowVars, tries, banVars, histVars>>

InsertSession(d) ==
    /\ at[d] = "insertSession"
    /\ Goto(d, "deleteChallenge")
    /\ UNCHANGED <<startVars, rowVars, tries, wrote, banVars, histVars>>

(* The DELETE waits for the transaction that holds the row it sees.        *)
DeleteChallenge(d) ==
    /\ at[d] = "deleteChallenge"
    /\ challenge[KeyOf[d]] # None => ~Held(KeyOf[d], d)
    /\ wrote' = [wrote EXCEPT ![d] = challenge[KeyOf[d]] # None]
    /\ Goto(d, "commitLogin")
    /\ UNCHANGED <<startVars, rowVars, tries, banVars, histVars>>

\* Mutant: a login ends the user's other sessions.
OneSessionPerUser(d) ==
    /\ sessions' = {t \in sessions : Owner(t) # KeyOf[d]} \union {Own(d)}
    /\ challenge' = [challenge EXCEPT ![KeyOf[d]] = IF wrote[d] THEN None ELSE @]
    /\ UNCHANGED <<status, admins, expired>>

LoginRows(d) ==
    /\ sessions' = sessions \union {Own(d)}
    /\ challenge' = [challenge EXCEPT ![KeyOf[d]] = IF wrote[d] THEN None ELSE @]
    /\ UNCHANGED <<status, admins, expired>>

CommitLogin(d) ==
    /\ at[d] = "commitLogin"
    /\ LoginRows(d)
    /\ Goto(d, "in")
    /\ wrote' = [wrote EXCEPT ![d] = FALSE]
    /\ UNCHANGED <<startVars, tries, banVars, histVars>>

(* A database error or the deadline of the call: the deferred Rollback.    *)
(* PushAdmins takes the context of the call, so that it may tell nobody.   *)
CallFails(d) ==
    /\ at[d] \in InCall
    /\ Goto(d, "failed")
    /\ Misses(IF at[d] = "announce" THEN {KeyOf[d]} ELSE {})
    /\ Disturb(KeyOf[d])
    /\ wrote' = [wrote EXCEPT ![d] = FALSE]
    /\ UNCHANGED <<startVars, rowVars, tries, banVars, revoked>>

(* The commit takes effect and the caller is told of an error.             *)
CommitAckLost(d) ==
    /\ \/ at[d] = "commitRequest" /\ RequestRows(d)
       \/ at[d] = "commitLogin" /\ LoginRows(d)
    /\ Goto(d, "failed")
    /\ Misses({k \in Keys : status'[k] # status[k]})
    /\ Disturb(KeyOf[d])
    /\ wrote' = [wrote EXCEPT ![d] = FALSE]
    /\ UNCHANGED <<startVars, tries, banVars, revoked>>

-----------------------------------------------------------------------------
(* SetUserStatus, called by the admin: AdminUnary and the handler.         *)

BeginBan(k, to) ==
    /\ server = "serve" /\ ban.pc = "idle" /\ bans < MaxBans
    /\ Admin \in admins /\ status[Admin] = "active"
    /\ ban' = [pc |-> "update", target |-> k, to |-> to, hit |-> FALSE,
               seen |-> {t \in sessions : Owner(t) = k}, todo |-> {}, drop |-> {}]
    /\ bans' = bans + 1
    /\ Disturb(k)
    /\ UNCHANGED <<startVars, rowVars, callVars, told, revoked>>

(* UPDATE users: no row, no change, and NotFound in the end.               *)
UpdateStatus ==
    /\ ban.pc = "update"
    /\ ban' = IF status[ban.target] = "none" THEN NoBan
              ELSE [ban EXCEPT !.pc = IF ban.to = "banned" THEN "dropChallenge" ELSE "commit"]
    /\ UNCHANGED <<startVars, rowVars, callVars, bans, histVars>>

DropChallenge ==
    /\ ban.pc = "dropChallenge"
    /\ challenge[ban.target] # None => ~Held(ban.target, None)
    /\ ban' = [ban EXCEPT !.pc = "dropSessions", !.hit = challenge[ban.target] # None]
    /\ UNCHANGED <<startVars, rowVars, callVars, bans, histVars>>

\* Mutant: the sessions of a banned user stay.
KeepSessions ==
    /\ ban.pc = "dropSessions"
    /\ ban' = [ban EXCEPT !.pc = "commit"]
    /\ UNCHANGED <<startVars, rowVars, callVars, bans, histVars>>

(* The DELETE takes the rows of its snapshot one by one, in no order that  *)
(* the SQL gives, and passes over one that is gone when it comes to it.    *)
Dropping(rows) == IF rows = {} THEN "commit" ELSE "lockSessions"

DropSessions ==
    /\ ban.pc = "dropSessions"
    /\ LET rows == {t \in sessions \union expired : Owner(t) = ban.target} IN
       ban' = [ban EXCEPT !.pc = Dropping(rows), !.todo = rows]
    /\ UNCHANGED <<startVars, rowVars, callVars, bans, histVars>>

LockSession(t) ==
    /\ ban.pc = "lockSessions" /\ t \in ban.todo
    /\ t \notin cleanup.rows
    /\ ban' = [ban EXCEPT !.pc = Dropping(ban.todo \ {t}), !.todo = @ \ {t},
                          !.drop = @ \union ({t} \intersect (sessions \union expired))]
    /\ UNCHANGED <<startVars, rowVars, callVars, bans, histVars>>

CommitStatus ==
    /\ ban.pc = "commit"
    /\ status' = [status EXCEPT ![ban.target] = ban.to]
    /\ challenge' = [challenge EXCEPT ![ban.target] = IF ban.hit THEN None ELSE @]
    /\ sessions' = sessions \ ban.drop /\ expired' = expired \ ban.drop
    /\ ban' = [NoBan EXCEPT !.pc = "announce", !.target = ban.target]
    /\ revoked' = revoked \union (IF ban.to = "banned" THEN ban.seen ELSE {})
    /\ UNCHANGED <<startVars, admins, callVars, bans, told, disturbed>>

(* The push to the user and the kick are in Presence.                      *)
AnnounceBan ==
    /\ ban.pc = "announce"
    /\ TellAdmins(ban.target)
    /\ ban' = NoBan
    /\ UNCHANGED <<startVars, rowVars, callVars, bans, revoked, disturbed>>

BanFails ==
    /\ ban.pc # "idle"
    /\ ban' = NoBan
    /\ Misses(IF ban.pc = "announce" THEN {ban.target} ELSE {})
    /\ UNCHANGED <<startVars, rowVars, callVars, bans, revoked, disturbed>>

-----------------------------------------------------------------------------
(* Time.                                                                   *)

ChallengeExpires(k) ==
    /\ challenge[k] \notin {None, Old}
    /\ challenge' = [challenge EXCEPT ![k] = Old]
    /\ Disturb(k)
    /\ UNCHANGED <<startVars, status, admins, sessions, expired, callVars, banVars,
                   told, revoked>>

SessionExpires(t) ==
    /\ t \in sessions
    /\ sessions' = sessions \ {t} /\ expired' = expired \union {t}
    /\ Disturb(Owner(t))
    /\ UNCHANGED <<startVars, status, admins, challenge, callVars, banVars,
                   told, revoked>>

-----------------------------------------------------------------------------
(* CleanupExpired: three statements in one implicit transaction, which     *)
(* keeps the rows it has met locked to its commit.  now() is that of its   *)
(* begin, so that one that finds nothing past its time then never does.    *)

CleanupBegins ==
    /\ Serving /\ ~cleanup.on
    /\ expired # {} \/ \E k \in Keys : challenge[k] = Old
    /\ cleanup' = [NoCleanup EXCEPT !.on = TRUE, !.lapsed = expired,
                                    !.stale = {k \in Keys : challenge[k] = Old}]
    /\ UNCHANGED <<server, version, starts, applied, changed, rowVars, callVars, banVars,
                   histVars>>

(* DELETE FROM challenges, row by row; one renewed meanwhile is left.      *)
CleanupChallenge(k) ==
    /\ k \in cleanup.stale
    /\ challenge[k] # None => ~Held(k, None)
    /\ cleanup' = [cleanup EXCEPT !.stale = @ \ {k},
                                  !.keys = @ \union {j \in {k} : challenge[j] = Old}]
    /\ UNCHANGED <<server, version, starts, applied, changed, rowVars, callVars, banVars,
                   histVars>>

\* Mutant: the statement about sessions comes first.
CleanupSessionFirst(t) ==
    /\ t \in cleanup.lapsed
    /\ ~BanHoldsRow(t)
    /\ cleanup' = [cleanup EXCEPT !.lapsed = @ \ {t}, !.rows = @ \union ({t} \intersect expired)]
    /\ UNCHANGED <<server, version, starts, applied, changed, rowVars, callVars, banVars,
                   histVars>>

(* UPDATE sessions SET is_online = false, row by row (Presence has the     *)
(* column).                                                                *)
CleanupSession(t) ==
    /\ cleanup.stale = {} /\ t \in cleanup.lapsed
    /\ ~BanHoldsRow(t)
    /\ cleanup' = [cleanup EXCEPT !.lapsed = @ \ {t}, !.rows = @ \union ({t} \intersect expired)]
    /\ UNCHANGED <<server, version, starts, applied, changed, rowVars, callVars, banVars,
                   histVars>>

(* The last DELETE takes of the rows just updated those a day old, and     *)
(* waits for nobody.                                                       *)
CleanupCommits ==
    /\ cleanup.on /\ cleanup.stale = {} /\ cleanup.lapsed = {}
    /\ challenge' = [k \in Keys |-> IF k \in cleanup.keys THEN None ELSE challenge[k]]
    /\ \E dayOld \in SUBSET cleanup.rows : expired' = expired \ dayOld
    /\ cleanup' = NoCleanup
    /\ UNCHANGED <<server, version, starts, applied, changed, status, admins, sessions, callVars,
                   banVars, histVars>>

(* An error, which RunCleanup drops.                                       *)
CleanupFails ==
    /\ cleanup.on
    /\ cleanup' = NoCleanup
    /\ UNCHANGED <<server, version, starts, applied, changed, rowVars, callVars, banVars,
                   histVars>>

-----------------------------------------------------------------------------
Start == StartServer \/ MigrationCheck \/ MigrationScript \/ MigrationCommit \/ SeedAdmin
Request(d) == InsertUser(d) \/ UpsertChallenge(d) \/ CommitRequest(d) \/ Announce(d)
Login(d) == SelectChallenge(d) \/ InsertSession(d) \/ DeleteChallenge(d) \/ CommitLogin(d)
SetUserStatus ==
    \/ UpdateStatus \/ DropChallenge \/ DropSessions
    \/ \E t \in ban.todo : LockSession(t)
    \/ CommitStatus \/ AnnounceBan
CleanupExpired ==
    \/ CleanupBegins \/ CleanupCommits \/ CleanupFails
    \/ \E k \in cleanup.stale : CleanupChallenge(k)
    \/ \E t \in cleanup.lapsed : CleanupSession(t)

Next ==
    \/ Start \/ ServerStops \/ Shutdown \/ Drained
    \/ \E d \in Devices : \/ RequestChallenge(d) \/ Request(d) \/ Login(d)
                          \/ CallFails(d) \/ CommitAckLost(d)
    \/ \E k \in Keys, to \in {"active", "banned"} : BeginBan(k, to)
    \/ SetUserStatus \/ BanFails
    \/ \E k \in Keys : ChallengeExpires(k)
    \/ \E t \in sessions : SessionExpires(t)
    \/ CleanupExpired

Spec == Init /\ [][Next]_vars

-----------------------------------------------------------------------------
TypeOK ==
    /\ server \in {"down", "check", "script", "record", "seed", "serve", "drain"}
    /\ version \in 1..(Versions + 1) /\ starts \in 0..MaxStarts
    /\ applied \subseteq 1..Versions /\ changed \subseteq 1..Versions
    /\ status \in [Keys -> {"none", "active", "banned"}] /\ admins \subseteq Keys
    /\ challenge \in [Keys -> Ids \union {None, Old}] /\ sessions \subseteq Ids
    /\ expired \subseteq Ids
    /\ cleanup \in [on : BOOLEAN, stale : SUBSET Keys, keys : SUBSET Keys,
                   lapsed : SUBSET Ids, rows : SUBSET Ids]
    /\ at \in [Devices -> InCall \union {"idle", "in", "refused", "failed"}]
    /\ tries \in [Devices -> 0..MaxTries]
    /\ wrote \in [Devices -> BOOLEAN]
    /\ ban \in [pc : {"idle", "update", "dropChallenge", "dropSessions", "lockSessions", "commit",
                     "announce"},
               target : Keys, to : {"active", "banned"}, hit : BOOLEAN,
               seen : SUBSET Ids, todo : SUBSET Ids, drop : SUBSET Ids]
    /\ bans \in 0..MaxBans
    /\ told \in [Keys -> {"none", "active", "banned", "missed"}]
    /\ disturbed \subseteq Keys /\ revoked \subseteq Ids

(* A token that was in the table when a ban of its owner began is never    *)
(* accepted again once the ban has committed, not even after the user is   *)
(* unbanned: SetUserStatus deletes the sessions it finds, and no other     *)
(* call brings one back.                                                   *)
BanRevokes == \A t \in revoked : ~Valid(t)

(* Devices of one key that log in at once overwrite each other's challenge *)
(* and delete it, but one of them gets in: only the challenge of the last  *)
(* request can be the one that is verified, and only a login that gets in  *)
(* deletes it.                                                             *)
SomeoneGetsIn ==
    \A k \in Keys \ disturbed :
        (/\ \A d \in DevicesOf(k) : at[d] \notin InCall
         /\ \E d \in DevicesOf(k) : at[d] = "refused")
            => \E t \in sessions : Owner(t) = k

(* An admin who polls at each AdminUpdate has the status of every account, *)
(* but of those whose change is about to be announced or whose             *)
(* announcement was lost: the events follow the commits.                   *)
AdminsTold ==
    \A k \in Keys : told[k] # status[k] =>
        \/ told[k] = "missed"
        \/ \E d \in DevicesOf(k) : at[d] = "announce"
        \/ ban.pc = "announce" /\ ban.target = k

(* The process serves on the schema of all its migrations, each applied,   *)
(* and with the configured key an admin, whatever became of earlier starts *)
(* and whatever the key was before.                                        *)
ServesReady ==
    Serving => /\ applied = 1..Versions /\ changed = 1..Versions
               /\ Admin \in admins

(* A token that is accepted is accepted until it expires or its owner is   *)
(* banned: logins of other devices, the cleanup and restarts leave it.     *)
TokenLivesOn ==
    [][\A t \in sessions : t \in sessions' \/ SessionExpires(t) \/ status'[Owner(t)] = "banned"]_vars

(* RequestChallenge, Login, SetUserStatus and the cleanup take rows of     *)
(* users before challenges before sessions, and every way out of one gives *)
(* its rows up: when one may wait for a row, another goes on whichever row *)
(* it takes next.  One cycle is possible and excepted: a ban and the       *)
(* cleanup take the expired session rows of one user in different orders,  *)
(* and each has one the other wants.  PostgreSQL then fails one of them.   *)
Waits(d) ==
    \/ at[d] = "insertUser" /\ UserLocked(KeyOf[d], d)
    \/ at[d] = "upsert" /\ Held(KeyOf[d], d)
    \/ at[d] = "deleteChallenge" /\ challenge[KeyOf[d]] # None /\ Held(KeyOf[d], d)
BanWaits ==
    \/ ban.pc = "dropChallenge" /\ challenge[ban.target] # None /\ Held(ban.target, None)
    \/ ban.pc = "lockSessions" /\ ban.todo \intersect cleanup.rows # {}
CleanupWaits ==
    \/ \E k \in cleanup.stale : challenge[k] # None /\ Held(k, None)
    \/ cleanup.stale = {} /\ \E t \in cleanup.lapsed : BanHoldsRow(t)
Crossed ==
    /\ ban.pc = "lockSessions"
    /\ ban.todo \intersect cleanup.rows # {} /\ ban.drop \intersect cleanup.lapsed # {}
NoDeadlock ==
    (BanWaits \/ CleanupWaits \/ \E d \in Devices : Waits(d)) =>
        \/ ban.pc # "idle" /\ ~BanWaits
        \/ cleanup.on /\ ~CleanupWaits
        \/ \E d \in Devices : at[d] \in InCall /\ ~Waits(d)
        \/ Crossed

(* The promise about tokens and bans, which this module keeps: statements, *)
(* locks, crashes and restarts give a token one life and a ban its effect. *)
(* In particular no login creates, and so unbans, a user who has a row.    *)
Unborn(t) == t[2] > tries[t[1]] \/ (t = Own(t[1]) /\ at[t[1]] \in InCall)
UnderWay == ban.pc \notin {"idle", "announce"}
Life == INSTANCE TokenLife WITH
    Tokens <- Ids, Users <- Keys, Root <- Admin, OwnerOf <- [t \in Ids |-> Owner(t)],
    fresh <- {t \in Ids : Unborn(t)}, live <- sessions,
    banned <- {k \in Keys : status[k] = "banned"},
    called <- IF UnderWay THEN {ban.target} ELSE {},
    doomed <- IF UnderWay THEN ban.seen ELSE {}
TokenLifeSpec == Life!Spec
=============================================================================
