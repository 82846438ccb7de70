--------------------------- MODULE AccountsProofs ---------------------------
(***************************************************************************)
(* What Accounts keeps for every number of keys, devices, logins, bans and *)
(* starts: its types, what the process serves on, the life of a token, and *)
(* that a ban revokes the tokens it found.                                 *)
(***************************************************************************)
EXTENDS Accounts, TLAPS

(* A call under way has been counted, so that its token is one of Ids; and *)
(* a migration under way is one of the files.                              *)
CallsCounted == \A d \in Devices : at[d] \in InCall => tries[d] # 0
VersionIsFile == server \in {"script", "record"} => version \in 1..Versions
TypeInv == TypeOK /\ CallsCounted /\ VersionIsFile

LEMMA TypeInit == Init => TypeInv
BY AccountsAssumption DEF Init, TypeInv, TypeOK, CallsCounted, VersionIsFile, InCall,
   InRequest, InLogin, NoBan, NoCleanup, Ids

LEMMA TypeStart == ASSUME TypeInv, Start PROVE TypeInv'
<1> USE AccountsAssumption DEF TypeInv, TypeOK, CallsCounted, VersionIsFile, rowVars,
        callVars, banVars, histVars
<1>1. CASE StartServer BY <1>1 DEF StartServer
<1>2. CASE MigrationCheck BY <1>2 DEF MigrationCheck
<1>3. CASE MigrationScript BY <1>3 DEF MigrationScript
<1>4. CASE MigrationCommit BY <1>4 DEF MigrationCommit
<1>5. CASE SeedAdmin BY <1>5 DEF SeedAdmin
<1> QED BY <1>1, <1>2, <1>3, <1>4, <1>5 DEF Start

LEMMA OwnIsId == ASSUME TypeInv, NEW d \in Devices, at[d] \in InCall
                 PROVE Own(d) \in Ids
BY AccountsAssumption DEF TypeInv, TypeOK, CallsCounted, Own, Ids

LEMMA TypeStop ==
    ASSUME TypeInv, ServerStops \/ Shutdown \/ Drained PROVE TypeInv'
<1> USE AccountsAssumption DEF TypeInv, TypeOK, CallsCounted, VersionIsFile, rowVars,
        callVars, banVars, histVars
<1>1. CASE Halt BY <1>1 DEF Halt, NoBan, NoCleanup, InCall, InRequest, InLogin
<1>2. CASE Shutdown BY <1>2 DEF Shutdown
<1> QED BY <1>1, <1>2 DEF ServerStops, Drained

LEMMA TypeCall ==
    ASSUME TypeInv, NEW d \in Devices,
           \/ RequestChallenge(d) \/ Request(d) \/ Login(d) \/ CallFails(d) \/ CommitAckLost(d)
    PROVE TypeInv'
<1> USE AccountsAssumption DEF TypeInv, TypeOK, CallsCounted, VersionIsFile, startVars,
        rowVars, banVars, histVars, Goto, InCall, InRequest, InLogin
<1>1. CASE RequestChallenge(d) BY <1>1 DEF RequestChallenge
<1>2. CASE InsertUser(d) BY <1>2 DEF InsertUser
<1>3. CASE UpsertChallenge(d) BY <1>3 DEF UpsertChallenge
<1>4. CASE CommitRequest(d) BY <1>4, OwnIsId DEF CommitRequest, RequestRows
<1>5. CASE Announce(d) BY <1>5 DEF Announce, TellAdmins, Misses, PollAdminEvents
<1>6. CASE SelectChallenge(d) BY <1>6 DEF SelectChallenge
<1>7. CASE InsertSession(d) BY <1>7 DEF InsertSession
<1>8. CASE DeleteChallenge(d) BY <1>8 DEF DeleteChallenge
<1>9. CASE CommitLogin(d) BY <1>9, OwnIsId DEF CommitLogin, LoginRows
<1>10. CASE CallFails(d) BY <1>10 DEF CallFails, Misses, Disturb
<1>11. CASE CommitAckLost(d)
  <2>1. Own(d) \in Ids BY <1>11, OwnIsId DEF CommitAckLost
  <2>2. CASE at[d] = "commitRequest" /\ RequestRows(d)
    BY <1>11, <2>1, <2>2 DEF CommitAckLost, Misses, RequestRows, Disturb
  <2>3. CASE at[d] = "commitLogin" /\ LoginRows(d)
    BY <1>11, <2>1, <2>3 DEF CommitAckLost, Misses, LoginRows, Disturb
  <2> QED BY <1>11, <2>2, <2>3 DEF CommitAckLost
<1> QED BY <1>1, <1>2, <1>3, <1>4, <1>5, <1>6, <1>7, <1>8, <1>9, <1>10, <1>11 DEF Request, Login

LEMMA TypeBan ==
    ASSUME TypeInv,
           \/ \E k \in Keys, to \in {"active", "banned"} : BeginBan(k, to)
           \/ SetUserStatus \/ BanFails
    PROVE TypeInv'
<1> USE AccountsAssumption DEF TypeInv, TypeOK, CallsCounted, VersionIsFile, startVars,
        rowVars, callVars, histVars
<1>1. ASSUME NEW k \in Keys, NEW to \in {"active", "banned"}, BeginBan(k, to) PROVE TypeInv'
  BY <1>1 DEF BeginBan, Disturb
<1>2. CASE UpdateStatus BY <1>2 DEF UpdateStatus, NoBan
<1>3. CASE DropChallenge BY <1>3 DEF DropChallenge
<1>4. CASE DropSessions BY <1>4 DEF DropSessions, Dropping
<1>5. CASE CommitStatus BY <1>5 DEF CommitStatus, NoBan
<1>6. CASE AnnounceBan BY <1>6 DEF AnnounceBan, TellAdmins, Misses, PollAdminEvents, NoBan
<1>7. CASE BanFails BY <1>7 DEF BanFails, Misses, NoBan
<1>8. ASSUME NEW t \in ban.todo, LockSession(t) PROVE TypeInv'
  BY <1>8 DEF LockSession, Dropping
<1> QED BY <1>1, <1>2, <1>3, <1>4, <1>5, <1>6, <1>7, <1>8 DEF SetUserStatus

(* The cleanup changes challenges and past rows, and nothing else of the   *)
(* tables or the calls.                                                    *)
LEMMA CleanupChanges ==
    ASSUME CleanupExpired
    PROVE  UNCHANGED <<server, version, starts, applied, changed, status, admins, sessions,
                       callVars, banVars, histVars>>
BY DEF CleanupExpired, CleanupBegins, CleanupChallenge, CleanupSession, CleanupCommits,
   CleanupFails, rowVars

LEMMA TypeCleanup == ASSUME TypeInv, CleanupExpired PROVE TypeInv'
<1> USE AccountsAssumption DEF TypeInv, TypeOK, CallsCounted, VersionIsFile, rowVars,
        callVars, banVars, histVars
<1>1. CASE CleanupBegins BY <1>1 DEF CleanupBegins, NoCleanup
<1>2. ASSUME NEW k \in cleanup.stale, CleanupChallenge(k) PROVE TypeInv'
  BY <1>2 DEF CleanupChallenge
<1>3. ASSUME NEW t \in cleanup.lapsed, CleanupSession(t) PROVE TypeInv'
  BY <1>3 DEF CleanupSession
<1>4. CASE CleanupCommits BY <1>4 DEF CleanupCommits, NoCleanup
<1>5. CASE CleanupFails BY <1>5 DEF CleanupFails, NoCleanup
<1> QED BY <1>1, <1>2, <1>3, <1>4, <1>5 DEF CleanupExpired

LEMMA TypeTime ==
    ASSUME TypeInv,
           \/ \E k \in Keys : ChallengeExpires(k)
           \/ \E t \in sessions : SessionExpires(t)
    PROVE TypeInv'
<1> USE AccountsAssumption DEF TypeInv, TypeOK, CallsCounted, VersionIsFile, startVars,
        callVars, banVars, histVars, Disturb
<1>1. ASSUME NEW k \in Keys, ChallengeExpires(k) PROVE TypeInv'
  BY <1>1 DEF ChallengeExpires
<1>2. ASSUME NEW t \in Ids, SessionExpires(t) PROVE TypeInv'
  BY <1>2 DEF SessionExpires, LoggingIn
<1> QED BY <1>1, <1>2

LEMMA TypeStep == TypeInv /\ [Next]_vars => TypeInv'
<1> SUFFICES ASSUME TypeInv, [Next]_vars PROVE TypeInv'
  OBVIOUS
<1>1. CASE UNCHANGED vars
  BY <1>1 DEF TypeInv, TypeOK, CallsCounted, VersionIsFile, vars, startVars, rowVars,
     callVars, banVars, histVars
<1>2. CASE Next
  BY <1>2, TypeStart, TypeStop, TypeCall, TypeBan, TypeTime, TypeCleanup DEF Next
<1> QED BY <1>1, <1>2

(* Every value stays of its type: a challenge or token in a table is one   *)
(* that a counted call drew.                                               *)
THEOREM TypeCorrect == Spec => []TypeOK
<1>1. TypeInv => TypeOK BY DEF TypeInv
<1> QED BY <1>1, TypeInit, TypeStep, PTL DEF Spec

LEMMA TypeInvariance == Spec => []TypeInv
BY TypeInit, TypeStep, PTL DEF Spec

-----------------------------------------------------------------------------
(***************************************************************************)
(* The start.  Up to the migration it is at, all are applied.              *)
(***************************************************************************)
StartInv ==
    /\ changed = applied
    /\ server \in {"check", "script", "record"} => \A v \in 1..Versions : v < version => v \in applied
    /\ server = "seed" \/ Serving => applied = 1..Versions
    /\ Serving => Admin \in admins

LEMMA StartInit == Init => StartInv
BY DEF Init, StartInv, Serving

LEMMA StartStep == TypeInv /\ StartInv /\ [Next]_vars => StartInv'
<1> SUFFICES ASSUME TypeInv, StartInv, [Next]_vars PROVE StartInv'
  OBVIOUS
<1> USE AccountsAssumption DEF TypeInv, TypeOK, VersionIsFile, StartInv, Serving, startVars
<1>1. CASE UNCHANGED <<server, version, applied, changed, admins>>
  BY <1>1
<1>2. CASE StartServer BY <1>2 DEF StartServer, rowVars
<1>3. CASE MigrationCheck
  <2>1. CASE version > Versions
    <3>1. server' = "seed" /\ UNCHANGED <<applied, changed, admins>>
      BY <1>3, <2>1 DEF MigrationCheck, rowVars
    <3>2. \A v \in 1..Versions : v < version
      BY <2>1
    <3>3. applied = 1..Versions
      BY <1>3, <3>2 DEF MigrationCheck
    <3> QED BY <3>1, <3>3
  <2>2. CASE version \in applied BY <1>3, <2>2 DEF MigrationCheck, rowVars
  <2>3. CASE version \in 1..Versions \ applied BY <1>3, <2>3 DEF MigrationCheck, rowVars
  <2> QED BY <1>3, <2>1, <2>2, <2>3 DEF MigrationCheck
<1>4. CASE MigrationScript BY <1>4 DEF MigrationScript, rowVars
<1>5. CASE MigrationCommit BY <1>5 DEF MigrationCommit, rowVars
<1>6. CASE SeedAdmin BY <1>6 DEF SeedAdmin
<1>7. CASE Halt BY <1>7 DEF Halt, rowVars
<1>8. CASE Shutdown BY <1>8 DEF Shutdown, rowVars
<1>9. ASSUME NEW d \in Devices,
             \/ RequestChallenge(d) \/ Request(d) \/ Login(d) \/ CallFails(d) \/ CommitAckLost(d)
      PROVE UNCHANGED <<startVars, admins>>
  BY <1>9 DEF Request, Login, RequestChallenge, InsertUser, UpsertChallenge, CommitRequest,
     RequestRows, Announce, SelectChallenge, InsertSession, DeleteChallenge, CommitLogin,
     LoginRows, CallFails, CommitAckLost, rowVars
<1>10. ASSUME \/ \E k \in Keys, to \in {"active", "banned"} : BeginBan(k, to)
              \/ SetUserStatus \/ BanFails
       PROVE UNCHANGED <<startVars, admins>>
  BY <1>10 DEF BeginBan, SetUserStatus, UpdateStatus, DropChallenge, DropSessions, LockSession,
     CommitStatus, AnnounceBan, BanFails, rowVars
<1>11. ASSUME \/ \E k \in Keys : ChallengeExpires(k)
              \/ \E t \in sessions : SessionExpires(t)
              \/ CleanupExpired
       PROVE UNCHANGED <<server, version, applied, changed, admins>>
  BY <1>11, CleanupChanges DEF ChallengeExpires, SessionExpires
<1>12. CASE UNCHANGED vars BY <1>1, <1>12 DEF vars, rowVars
<1> QED BY <1>1, <1>2, <1>3, <1>4, <1>5, <1>6, <1>7, <1>8, <1>9, <1>10, <1>11, <1>12
       DEF Next, Start, ServerStops, Drained

(***************************************************************************)
(* A server that serves has all its migrations and its admin, for every    *)
(* number of migrations and after every sequence of broken starts.         *)
(***************************************************************************)
THEOREM ServesReadyCorrect == Spec => []ServesReady
<1>1. StartInv => ServesReady BY DEF StartInv, ServesReady
<1>2. Spec => []StartInv BY StartInit, StartStep, TypeInvariance, PTL DEF Spec
<1> QED BY <1>1, <1>2, PTL

-----------------------------------------------------------------------------
(***************************************************************************)
(* Tokens.  A call under way has not put its token anywhere yet, and a     *)
(* ban that is about to commit deletes what is left of the tokens it found.*)
(***************************************************************************)
TokenInv ==
    /\ \A t \in Ids : Unborn(t) => t \notin sessions \union ban.seen \union revoked
    /\ revoked \intersect sessions = {}

BanInv ==
    /\ \A t \in ban.seen : Owner(t) = ban.target
    /\ \A t \in ban.drop : Owner(t) = ban.target /\ ban.to = "banned"
    /\ \A t \in ban.todo : Owner(t) = ban.target
    /\ ban.pc \in {"dropChallenge", "dropSessions", "lockSessions"} => ban.to = "banned"
    /\ ban.pc = "lockSessions" => ban.seen \intersect sessions \subseteq ban.drop \union ban.todo
    /\ ban.pc = "commit" /\ ban.to = "banned" => ban.seen \intersect sessions \subseteq ban.drop

SessionInv == TokenInv /\ BanInv

LEMMA SessionInit == Init => SessionInv
BY DEF Init, SessionInv, TokenInv, BanInv, NoBan

(* The steps that leave tokens and the ban as they are, and begin no call. *)
LEMMA SessionKept ==
    ASSUME TypeInv, SessionInv, UNCHANGED <<tries, sessions, ban, revoked>>,
           \A d \in Devices : at'[d] \in InCall => at[d] \in InCall
    PROVE SessionInv'
BY DEF SessionInv, TokenInv, BanInv, Unborn, Own, Owner, Ids

LEMMA SessionCall ==
    ASSUME TypeInv, SessionInv, NEW d \in Devices,
           \/ RequestChallenge(d) \/ Request(d) \/ Login(d) \/ CallFails(d) \/ CommitAckLost(d)
    PROVE SessionInv'
<1> USE DEF banVars, startVars, histVars, rowVars, Goto
<1> USE DEF InCall, InRequest, InLogin
<1>1. CASE RequestChallenge(d)
  <2>1. UNCHANGED <<sessions, ban, revoked>> BY <1>1 DEF RequestChallenge
  <2>2. \A t \in Ids : Unborn(t)' => Unborn(t)
    BY <1>1, AccountsAssumption DEF RequestChallenge, Unborn, Own, Ids, TypeInv, TypeOK
  <2> QED BY <2>1, <2>2 DEF SessionInv, TokenInv, BanInv, Owner
<1>2. ASSUME at[d] = "commitLogin", LoginRows(d), UNCHANGED <<tries, ban, revoked>>,
             \E pc \in {"in", "failed"} : Goto(d, pc)
      PROVE SessionInv'
  <2>1. Own(d) \in Ids /\ Unborn(Own(d))
    BY <1>2, OwnIsId DEF Unborn, Own
  <2>2. Own(d) \notin sessions \union ban.seen \union revoked
    BY <2>1 DEF SessionInv, TokenInv
  <2>3. sessions' = sessions \union {Own(d)} BY <1>2 DEF LoginRows
  <2>4. \A t \in Ids : Unborn(t)' => Unborn(t) /\ t # Own(d)
    BY <1>2, AccountsAssumption DEF Unborn, Own, Ids, TypeInv, TypeOK
  <2>5. TokenInv' BY <1>2, <2>2, <2>3, <2>4 DEF SessionInv, TokenInv
  <2>6. BanInv' BY <1>2, <2>2, <2>3 DEF SessionInv, BanInv, Owner
  <2> QED BY <2>5, <2>6 DEF SessionInv
<1>3. CASE CommitLogin(d) BY <1>2, <1>3 DEF CommitLogin
<1>4. CASE CommitAckLost(d) /\ at[d] = "commitLogin"
  BY <1>2, <1>4 DEF CommitAckLost
<1>5. CASE CommitAckLost(d) /\ at[d] # "commitLogin"
  BY <1>5, SessionKept DEF CommitAckLost, Misses, RequestRows, TypeInv, TypeOK
<1>6. CASE Request(d)
  BY <1>6, SessionKept DEF Request, InsertUser, UpsertChallenge, CommitRequest, RequestRows,
     Announce, TypeInv, TypeOK
<1>7. CASE SelectChallenge(d) \/ InsertSession(d) \/ DeleteChallenge(d) \/ CallFails(d)
  BY <1>7, SessionKept DEF SelectChallenge, InsertSession, DeleteChallenge, CallFails, TypeInv,
     TypeOK
<1> QED BY <1>1, <1>3, <1>4, <1>5, <1>6, <1>7 DEF Login

LEMMA SessionBan ==
    ASSUME TypeInv, SessionInv,
           \/ \E k \in Keys, to \in {"active", "banned"} : BeginBan(k, to)
           \/ SetUserStatus \/ BanFails
    PROVE SessionInv'
<1> USE DEF startVars, callVars, histVars, rowVars, TypeInv, TypeOK
<1> SUFFICES UNCHANGED <<at, tries>> => SessionInv'
  BY DEF BeginBan, SetUserStatus, UpdateStatus, DropChallenge, DropSessions, LockSession,
     CommitStatus, AnnounceBan, BanFails
<1> HAVE UNCHANGED <<at, tries>>
<1> USE DEF SessionInv, TokenInv, BanInv, Unborn, Own, Owner
<1>1. ASSUME NEW k \in Keys, NEW to \in {"active", "banned"}, BeginBan(k, to) PROVE SessionInv'
  BY <1>1 DEF BeginBan
<1>2. CASE UpdateStatus BY <1>2 DEF UpdateStatus, NoBan
<1>3. CASE DropChallenge BY <1>3 DEF DropChallenge
<1>4. CASE DropSessions BY <1>4 DEF DropSessions, Dropping
<1>7. ASSUME NEW t \in ban.todo, LockSession(t) PROVE SessionInv'
  BY <1>7 DEF LockSession, Dropping
<1>5. CASE CommitStatus
  <2>1. ban' = [NoBan EXCEPT !.pc = "announce", !.target = ban.target] BY <1>5 DEF CommitStatus
  <2>2. BanInv' BY <1>5, <2>1 DEF CommitStatus, NoBan
  <2>3. (revoked \intersect sessions = {})' BY <1>5 DEF CommitStatus
  <2>4. TokenInv' BY <1>5, <2>1, <2>3 DEF CommitStatus, NoBan
  <2> QED BY <2>2, <2>4
<1>6. CASE AnnounceBan \/ BanFails BY <1>6 DEF AnnounceBan, BanFails, NoBan
<1> QED BY <1>1, <1>2, <1>3, <1>4, <1>5, <1>6, <1>7 DEF SetUserStatus

LEMMA SessionOther ==
    ASSUME TypeInv, SessionInv,
           \/ UNCHANGED vars \/ Start \/ ServerStops \/ Shutdown \/ Drained
           \/ \E k \in Keys : ChallengeExpires(k)
           \/ \E t \in sessions : SessionExpires(t)
           \/ CleanupExpired
    PROVE SessionInv'
<1> USE DEF startVars, callVars, banVars, histVars, rowVars
<1>1. CASE UNCHANGED vars BY <1>1, SessionKept DEF vars
<1>2. CASE Start \/ Shutdown
  BY <1>2, SessionKept DEF Start, StartServer, MigrationCheck, MigrationScript, MigrationCommit,
     SeedAdmin, Shutdown
<1>3. CASE Halt
  <2>1. \A t \in Ids : Unborn(t)' => Unborn(t)
    BY <1>3, AccountsAssumption DEF Halt, Unborn, Own, Ids, TypeInv, TypeOK, InCall, InRequest,
       InLogin
  <2>2. UNCHANGED <<sessions, revoked>> /\ ban' = NoBan BY <1>3 DEF Halt
  <2> QED BY <2>1, <2>2 DEF SessionInv, TokenInv, BanInv, NoBan
<1>4. CASE (\E k \in Keys : ChallengeExpires(k)) \/ CleanupExpired
  BY <1>4, SessionKept, CleanupChanges DEF ChallengeExpires
<1>5. CASE \E t \in sessions : SessionExpires(t)
  <2>1. sessions' \subseteq sessions /\ UNCHANGED <<at, tries, ban, revoked>>
    BY <1>5 DEF SessionExpires
  <2> QED BY <2>1 DEF SessionInv, TokenInv, BanInv, Unborn, Own, Owner
<1> QED BY <1>1, <1>2, <1>3, <1>4, <1>5 DEF ServerStops, Drained

LEMMA SessionInvariance == Spec => []SessionInv
<1>1. TypeInv /\ SessionInv /\ [Next]_vars => SessionInv'
  BY SessionCall, SessionBan, SessionOther DEF Next
<1> QED BY <1>1, SessionInit, TypeInvariance, PTL DEF Spec

(***************************************************************************)
(* No token a ban found in the table is accepted again, whatever logins,   *)
(* unbans, crashes and restarts follow.                                    *)
(***************************************************************************)
THEOREM BanRevokesCorrect == Spec => []BanRevokes
<1>1. SessionInv => BanRevokes BY DEF SessionInv, TokenInv, BanRevokes, Valid
<1> QED BY <1>1, SessionInvariance, PTL

(***************************************************************************)
(* No step takes a token out of the table but its expiry and the commit of *)
(* a ban of its owner.                                                     *)
(***************************************************************************)
THEOREM TokenLivesOnCorrect == Spec => TokenLivesOn
<1> DEFINE Kept == \A t \in sessions : t \in sessions' \/ SessionExpires(t)
                                      \/ status'[Owner(t)] = "banned"
<1>1. ASSUME TypeInv, SessionInv, [Next]_vars PROVE [Kept]_vars
  <2> SUFFICES ASSUME Next PROVE Kept
    BY <1>1
  <2> USE DEF startVars, callVars, banVars, histVars, rowVars
  <2>1. CASE sessions \subseteq sessions' BY <2>1
  <2>2. CASE Start \/ ServerStops \/ Shutdown \/ Drained
    BY <2>1, <2>2 DEF Start, StartServer, MigrationCheck, MigrationScript, MigrationCommit,
       SeedAdmin, Shutdown, ServerStops, Drained, Halt
  <2>3. ASSUME NEW d \in Devices,
               \/ RequestChallenge(d) \/ Request(d) \/ Login(d) \/ CallFails(d) \/ CommitAckLost(d)
        PROVE sessions \subseteq sessions'
    BY <2>3 DEF Request, Login, RequestChallenge, InsertUser, UpsertChallenge, CommitRequest,
       RequestRows, Announce, SelectChallenge, InsertSession, DeleteChallenge, CommitLogin,
       LoginRows, CallFails, CommitAckLost
  <2>4. CASE CommitStatus
    <3>1. \A t \in ban.drop : Owner(t) = ban.target /\ ban.to = "banned"
      BY <1>1 DEF SessionInv, BanInv
    <3>2. sessions' = sessions \ ban.drop /\ status' = [status EXCEPT ![ban.target] = ban.to]
      BY <2>4 DEF CommitStatus
    <3> QED BY <1>1, <3>1, <3>2 DEF TypeInv, TypeOK
  <2>5. CASE \/ \E k \in Keys, to \in {"active", "banned"} : BeginBan(k, to)
             \/ UpdateStatus \/ DropChallenge \/ DropSessions \/ AnnounceBan \/ BanFails
             \/ \E t \in ban.todo : LockSession(t)
    BY <2>1, <2>5 DEF BeginBan, UpdateStatus, DropChallenge, DropSessions, LockSession,
       AnnounceBan, BanFails
  <2>6. ASSUME NEW t \in sessions, SessionExpires(t) PROVE Kept
    BY <2>6 DEF SessionExpires
  <2>7. CASE (\E k \in Keys : ChallengeExpires(k)) \/ CleanupExpired
    BY <2>1, <2>7, CleanupChanges DEF ChallengeExpires
  <2> QED BY <2>1, <2>2, <2>3, <2>4, <2>5, <2>6, <2>7 DEF Next, SetUserStatus
<1> QED BY <1>1, TypeInvariance, SessionInvariance, PTL DEF Spec, TokenLivesOn

-----------------------------------------------------------------------------
(***************************************************************************)
(* The admins' view.  Before the process serves nothing is under way and   *)
(* every announcement counts as lost.                                      *)
(***************************************************************************)
Announcing(k) ==
    \/ \E d \in DevicesOf(k) : at[d] = "announce"
    \/ ban.pc = "announce" /\ ban.target = k
ToldInv ==
    /\ \A k \in Keys : told[k] \in {status[k], "missed"} \/ Announcing(k)
    /\ ~Serving => /\ \A k \in Keys : told[k] = "missed"
                   /\ ban.pc = "idle"
                   /\ \A d \in Devices : at[d] \notin InCall

LEMMA ToldInit == Init => ToldInv
BY DEF Init, ToldInv, NoBan, InCall, InRequest, InLogin

LEMMA ToldCall ==
    ASSUME TypeInv, ToldInv, NEW d \in Devices,
           \/ RequestChallenge(d) \/ Request(d) \/ Login(d) \/ CallFails(d) \/ CommitAckLost(d)
    PROVE ToldInv'
<1> USE AccountsAssumption DEF banVars, startVars, histVars, rowVars, Goto, TypeInv, TypeOK,
        ToldInv, Announcing, DevicesOf, Serving
<1> USE DEF InCall, InRequest, InLogin
<1>1. CASE RequestChallenge(d) BY <1>1 DEF RequestChallenge
<1>2. CASE InsertUser(d) BY <1>2 DEF InsertUser
<1>3. CASE UpsertChallenge(d) BY <1>3 DEF UpsertChallenge
<1>4. CASE CommitRequest(d)
  <2>1. CASE wrote[d] BY <1>4, <2>1 DEF CommitRequest, RequestRows
  <2>2. CASE ~wrote[d] BY <1>4, <2>2 DEF CommitRequest, RequestRows
  <2> QED BY <2>1, <2>2
<1>5. CASE Announce(d) BY <1>5 DEF Announce, TellAdmins, Misses, PollAdminEvents
<1>6. CASE SelectChallenge(d) BY <1>6 DEF SelectChallenge
<1>7. CASE InsertSession(d) BY <1>7 DEF InsertSession
<1>8. CASE DeleteChallenge(d) BY <1>8 DEF DeleteChallenge
<1>9. CASE CommitLogin(d) BY <1>9 DEF CommitLogin, LoginRows
<1>10. CASE CallFails(d) BY <1>10 DEF CallFails, Misses
<1>11. CASE CommitAckLost(d)
  <2>1. CASE at[d] = "commitRequest" BY <1>11, <2>1 DEF CommitAckLost, Misses, RequestRows
  <2>2. CASE at[d] = "commitLogin" BY <1>11, <2>2 DEF CommitAckLost, Misses, LoginRows
  <2> QED BY <1>11, <2>1, <2>2 DEF CommitAckLost
<1> QED BY <1>1, <1>2, <1>3, <1>4, <1>5, <1>6, <1>7, <1>8, <1>9, <1>10, <1>11 DEF Request, Login

LEMMA ToldBan ==
    ASSUME TypeInv, ToldInv,
           \/ \E k \in Keys, to \in {"active", "banned"} : BeginBan(k, to)
           \/ SetUserStatus \/ BanFails
    PROVE ToldInv'
<1> USE DEF startVars, rowVars, callVars, histVars, TypeInv, TypeOK, ToldInv, Announcing, Serving
<1>1. ASSUME NEW k \in Keys, NEW to \in {"active", "banned"}, BeginBan(k, to) PROVE ToldInv'
  BY <1>1 DEF BeginBan
<1>2. CASE UpdateStatus BY <1>2 DEF UpdateStatus, NoBan
<1>3. CASE DropChallenge BY <1>3 DEF DropChallenge
<1>4. CASE DropSessions BY <1>4 DEF DropSessions, Dropping
<1>5. CASE CommitStatus BY <1>5 DEF CommitStatus, NoBan
<1>6. CASE AnnounceBan BY <1>6 DEF AnnounceBan, TellAdmins, Misses, PollAdminEvents, NoBan
<1>7. CASE BanFails BY <1>7 DEF BanFails, Misses, NoBan
<1>8. ASSUME NEW t \in ban.todo, LockSession(t) PROVE ToldInv'
  BY <1>8 DEF LockSession, Dropping
<1> QED BY <1>1, <1>2, <1>3, <1>4, <1>5, <1>6, <1>7, <1>8 DEF SetUserStatus

LEMMA ToldOther ==
    ASSUME TypeInv, ToldInv,
           \/ UNCHANGED vars \/ Start \/ ServerStops \/ Shutdown \/ Drained
           \/ \E k \in Keys : ChallengeExpires(k)
           \/ \E t \in sessions : SessionExpires(t)
           \/ CleanupExpired
    PROVE ToldInv'
<1> USE AccountsAssumption DEF startVars, callVars, banVars, histVars, rowVars, TypeInv, TypeOK,
        ToldInv, Announcing, Serving
<1>1. CASE UNCHANGED vars BY <1>1 DEF vars
<1>2. CASE StartServer BY <1>2 DEF StartServer
<1>3. CASE MigrationCheck BY <1>3 DEF MigrationCheck
<1>4. CASE MigrationScript \/ MigrationCommit BY <1>4 DEF MigrationScript, MigrationCommit
<1>5. CASE SeedAdmin BY <1>5 DEF SeedAdmin
<1>6. CASE Halt BY <1>6 DEF Halt, NoBan, InCall, InRequest, InLogin
<1>7. CASE Shutdown BY <1>7 DEF Shutdown
<1>8. CASE (\E k \in Keys : ChallengeExpires(k)) \/ CleanupExpired
  BY <1>8, CleanupChanges DEF ChallengeExpires
<1>9. CASE \E t \in sessions : SessionExpires(t) BY <1>9 DEF SessionExpires
<1> QED BY <1>1, <1>2, <1>3, <1>4, <1>5, <1>6, <1>7, <1>8, <1>9 DEF Start, ServerStops, Drained

LEMMA ToldInvariance == Spec => []ToldInv
<1>1. TypeInv /\ ToldInv /\ [Next]_vars => ToldInv'
  BY ToldCall, ToldBan, ToldOther DEF Next
<1> QED BY <1>1, ToldInit, TypeInvariance, PTL DEF Spec

(***************************************************************************)
(* The events follow the commits: what an admin has not heard of is about  *)
(* to be announced, or its announcement was lost with a call or a process. *)
(***************************************************************************)
THEOREM AdminsToldCorrect == Spec => []AdminsTold
<1>1. ToldInv => AdminsTold BY DEF ToldInv, AdminsTold, Announcing
<1> QED BY <1>1, ToldInvariance, PTL

-----------------------------------------------------------------------------
(***************************************************************************)
(* The rows of challenges the cleanup holds.  Each is one it found past    *)
(* its time, it stays so, and no call has it locked as well.               *)
(***************************************************************************)
Locks(d) == at[d] = "commitRequest" \/ (at[d] = "commitLogin" /\ wrote[d])
Kept(k) == challenge[k] = Old /\ ~BanHolds(k) /\ \A d \in DevicesOf(k) : ~Locks(d)
HeldInv ==
    /\ \A k \in cleanup.keys : Kept(k)
    /\ ban.pc \in {"update", "dropChallenge"} => ~ban.hit
    /\ cleanup.stale \intersect cleanup.keys = {}
    /\ cleanup.stale # {} \/ ~cleanup.on => cleanup.rows = {}
    /\ ~cleanup.on => cleanup.stale = {} /\ cleanup.keys = {} /\ cleanup.lapsed = {}

LEMMA HeldInit == Init => HeldInv
BY DEF Init, HeldInv, NoCleanup, NoBan

(* A step of a call.                                                       *)
LEMMA HeldGoto ==
    ASSUME TypeInv, HeldInv, NEW d \in Devices, NEW pc, Goto(d, pc),
           KeyOf[d] \in cleanup.keys =>
               ~(pc = "commitRequest" \/ (pc = "commitLogin" /\ wrote'[d])),
           \A e \in Devices \ {d} : wrote'[e] = wrote[e],
           UNCHANGED <<cleanup, ban>>,
           \A k \in cleanup.keys : challenge'[k] = challenge[k]
    PROVE HeldInv'
<1>1. /\ at'[d] = pc
      /\ \A e \in Devices \ {d} : at'[e] = at[e]
  BY DEF Goto, TypeInv, TypeOK
<1>2. ASSUME NEW k \in cleanup.keys PROVE Kept(k)'
  <2>1. challenge'[k] = Old /\ ~BanHolds(k)' BY <1>2 DEF HeldInv, Kept, BanHolds
  <2>2. ASSUME NEW e \in DevicesOf(k) PROVE ~Locks(e)'
    BY <1>1, <1>2, <2>2 DEF HeldInv, Kept, Locks, DevicesOf
  <2> QED BY <2>1, <2>2 DEF Kept, DevicesOf
<1> QED BY <1>2 DEF HeldInv

LEMMA HeldCall ==
    ASSUME TypeInv, HeldInv, NEW d \in Devices,
           \/ RequestChallenge(d) \/ Request(d) \/ Login(d) \/ CallFails(d) \/ CommitAckLost(d)
    PROVE HeldInv'
<1> USE DEF startVars, banVars, histVars, rowVars, TypeInv, TypeOK
<1>0. cleanup.keys \subseteq Keys OBVIOUS
<1>a. Locks(d) => KeyOf[d] \notin cleanup.keys BY DEF HeldInv, Kept, DevicesOf
<1>b. ~Held(KeyOf[d], d) => KeyOf[d] \notin cleanup.keys BY DEF Held
<1>c. ASSUME RequestRows(d), Locks(d) PROVE \A k \in cleanup.keys : challenge'[k] = challenge[k]
  BY <1>0, <1>a, <1>c DEF RequestRows
<1>d. ASSUME LoginRows(d), at[d] = "commitLogin"
      PROVE \A k \in cleanup.keys : challenge'[k] = challenge[k]
  BY <1>0, <1>a, <1>d DEF LoginRows, Locks
<1>1. CASE RequestChallenge(d) BY <1>1, HeldGoto DEF RequestChallenge
<1>2. CASE InsertUser(d) BY <1>2, HeldGoto DEF InsertUser
<1>3. CASE UpsertChallenge(d) BY <1>3, <1>b, HeldGoto DEF UpsertChallenge
<1>4. CASE CommitRequest(d)
  <2>1. PICK pc \in {"announce", "select"} : Goto(d, pc) BY <1>4 DEF CommitRequest
  <2> QED BY <1>4, <1>c, <2>1, HeldGoto DEF CommitRequest, Locks
<1>5. CASE Announce(d) BY <1>5, HeldGoto DEF Announce
<1>6. CASE SelectChallenge(d)
  <2>1. PICK pc \in {"insertSession", "refused"} : Goto(d, pc) BY <1>6 DEF SelectChallenge
  <2> QED BY <1>6, <2>1, HeldGoto DEF SelectChallenge
<1>7. CASE InsertSession(d) BY <1>7, HeldGoto DEF InsertSession
<1>8. CASE DeleteChallenge(d)
  <2>1. KeyOf[d] \in cleanup.keys => challenge[KeyOf[d]] # None
    BY AccountsAssumption DEF HeldInv, Kept
  <2>2. KeyOf[d] \notin cleanup.keys BY <1>8, <1>b, <2>1 DEF DeleteChallenge
  <2> QED BY <1>8, <2>2, HeldGoto DEF DeleteChallenge
<1>9. CASE CommitLogin(d) BY <1>9, <1>d, HeldGoto DEF CommitLogin
<1>10. CASE CallFails(d) BY <1>10, HeldGoto DEF CallFails
<1>11. CASE CommitAckLost(d)
  <2>1. \A k \in cleanup.keys : challenge'[k] = challenge[k]
    BY <1>11, <1>c, <1>d DEF CommitAckLost, Locks
  <2> QED BY <1>11, <2>1, HeldGoto DEF CommitAckLost
<1> QED BY <1>1, <1>2, <1>3, <1>4, <1>5, <1>6, <1>7, <1>8, <1>9, <1>10, <1>11 DEF Request, Login

LEMMA HeldBan ==
    ASSUME TypeInv, HeldInv,
           \/ \E k \in Keys, to \in {"active", "banned"} : BeginBan(k, to)
           \/ SetUserStatus \/ BanFails
    PROVE HeldInv'
<1> USE DEF startVars, callVars, histVars, rowVars, TypeInv, TypeOK
<1>1. UNCHANGED <<cleanup, at, wrote>>
  BY DEF BeginBan, SetUserStatus, UpdateStatus, DropChallenge, DropSessions, LockSession,
     CommitStatus, AnnounceBan, BanFails
<1>2. ASSUME \A k \in cleanup.keys : challenge'[k] = challenge[k] /\ ~BanHolds(k)',
             ban'.pc \in {"update", "dropChallenge"} => ~ban'.hit
      PROVE HeldInv'
  <2>1. \A k \in cleanup.keys : Kept(k)'
    BY <1>1, <1>2 DEF HeldInv, Kept, Locks, DevicesOf
  <2> QED BY <1>1, <1>2, <2>1 DEF HeldInv
<1>3. \A k \in cleanup.keys : ~BanHolds(k) /\ challenge[k] # None
  BY AccountsAssumption DEF HeldInv, Kept
<1>4. ASSUME NEW k \in Keys, NEW to \in {"active", "banned"}, BeginBan(k, to) PROVE HeldInv'
  BY <1>2, <1>4 DEF BeginBan, BanHolds
<1>5. CASE UpdateStatus BY <1>2, <1>5 DEF UpdateStatus, BanHolds, HeldInv, NoBan
<1>6. CASE DropChallenge
  <2>1. challenge[ban.target] # None => ban.target \notin cleanup.keys
    BY <1>6 DEF DropChallenge, Held
  <2>2. ban.target \notin cleanup.keys BY <1>3, <2>1
  <2> QED BY <1>2, <1>6, <2>2 DEF DropChallenge, BanHolds
<1>7. CASE DropSessions \/ \E t \in ban.todo : LockSession(t)
  <2>1. /\ UNCHANGED challenge /\ ban'.target = ban.target /\ ban'.hit = ban.hit
        /\ ban.pc \in {"dropSessions", "lockSessions"}
        /\ ban'.pc \in {"lockSessions", "commit"}
    <3>1. CASE DropSessions BY <3>1 DEF DropSessions, Dropping
    <3>2. ASSUME NEW t \in ban.todo, LockSession(t)
          PROVE  /\ UNCHANGED challenge /\ ban'.target = ban.target /\ ban'.hit = ban.hit
                 /\ ban.pc = "lockSessions" /\ ban'.pc \in {"lockSessions", "commit"}
      BY <3>2 DEF LockSession, Dropping
    <3> QED BY <1>7, <3>1, <3>2
  <2> QED BY <1>2, <1>3, <2>1 DEF BanHolds
<1>8. CASE CommitStatus
  <2>1. ban.hit => ban.target \notin cleanup.keys BY <1>3, <1>8 DEF CommitStatus, BanHolds
  <2> QED BY <1>2, <1>8, <2>1 DEF CommitStatus, BanHolds, NoBan
<1>9. CASE AnnounceBan \/ BanFails BY <1>2, <1>9 DEF AnnounceBan, BanFails, BanHolds, NoBan
<1> QED BY <1>4, <1>5, <1>6, <1>7, <1>8, <1>9 DEF SetUserStatus

LEMMA HeldCleanup == ASSUME TypeInv, HeldInv, CleanupExpired PROVE HeldInv'
<1> USE DEF rowVars, callVars, banVars, histVars, TypeInv, TypeOK
<1>1. UNCHANGED <<at, wrote, ban>> BY CleanupChanges
<1>2. ASSUME cleanup' = NoCleanup PROVE HeldInv'
  BY <1>1, <1>2 DEF HeldInv, NoCleanup
<1>3. CASE CleanupBegins BY <1>1, <1>3 DEF CleanupBegins, HeldInv, NoCleanup
<1>4. ASSUME NEW k \in cleanup.stale, CleanupChallenge(k) PROVE HeldInv'
  <2>1. UNCHANGED challenge BY <1>4 DEF CleanupChallenge
  <2>2. ASSUME challenge[k] = Old PROVE Kept(k)
    <3>1. ~Held(k, None) BY <1>4, <2>2, AccountsAssumption DEF CleanupChallenge
    <3> QED BY <2>2, <3>1, AccountsAssumption DEF Kept, Held, ChallengeLocked, Locks, DevicesOf
  <2>3. \A j \in cleanup'.keys : Kept(j)
    BY <1>4, <2>2 DEF CleanupChallenge, HeldInv
  <2>4. \A j \in cleanup'.keys : Kept(j)'
    BY <1>1, <2>1, <2>3 DEF Kept, BanHolds, Locks, DevicesOf
  <2> QED BY <1>1, <1>4, <2>4 DEF CleanupChallenge, HeldInv
<1>5. ASSUME NEW t \in cleanup.lapsed, CleanupSession(t) PROVE HeldInv'
  <2>1. UNCHANGED challenge /\ cleanup'.keys = cleanup.keys BY <1>5 DEF CleanupSession
  <2>2. \A j \in cleanup.keys : Kept(j)'
    BY <1>1, <2>1 DEF HeldInv, Kept, BanHolds, Locks, DevicesOf
  <2> QED BY <1>1, <1>5, <2>1, <2>2 DEF CleanupSession, HeldInv
<1> QED BY <1>2, <1>3, <1>4, <1>5 DEF CleanupExpired, CleanupCommits, CleanupFails

LEMMA HeldOther ==
    ASSUME TypeInv, HeldInv,
           \/ UNCHANGED vars \/ Start \/ ServerStops \/ Shutdown \/ Drained
           \/ \E k \in Keys : ChallengeExpires(k)
           \/ \E t \in sessions : SessionExpires(t)
    PROVE HeldInv'
<1> USE DEF startVars, callVars, banVars, histVars, rowVars
<1>1. CASE Halt BY <1>1 DEF Halt, HeldInv, NoCleanup, NoBan
<1>2. ASSUME UNCHANGED <<cleanup, at, wrote, ban>>,
             \A k \in cleanup.keys : challenge'[k] = challenge[k]
      PROVE HeldInv'
  BY <1>2 DEF HeldInv, Kept, BanHolds, Locks, DevicesOf
<1>3. CASE UNCHANGED vars \/ Start \/ Shutdown \/ \E t \in sessions : SessionExpires(t)
  BY <1>2, <1>3 DEF vars, Start, StartServer, MigrationCheck, MigrationScript, MigrationCommit,
     SeedAdmin, Shutdown, SessionExpires
<1>4. ASSUME NEW k \in Keys, ChallengeExpires(k) PROVE HeldInv'
  <2>1. k \notin cleanup.keys BY <1>4 DEF ChallengeExpires, HeldInv, Kept
  <2> QED BY <1>2, <1>4, <2>1 DEF ChallengeExpires, TypeInv, TypeOK
<1> QED BY <1>1, <1>3, <1>4 DEF ServerStops, Drained

LEMMA HeldInvariance == Spec => []HeldInv
<1>1. TypeInv /\ HeldInv /\ [Next]_vars => HeldInv'
  BY HeldCall, HeldBan, HeldCleanup, HeldOther DEF Next
<1> QED BY <1>1, HeldInit, TypeInvariance, PTL DEF Spec

-----------------------------------------------------------------------------
(***************************************************************************)
(* Logins of devices that share a key.  As long as no session of the key   *)
(* exists, and nothing else came in between, its challenge is the one of a *)
(* call that is still going on, or no call has come as far as to commit    *)
(* one: the others may be refused, that one will not be.                   *)
(***************************************************************************)
Drawn == {"announce"} \union InLogin
SessionOf(k) == \E t \in sessions : Owner(t) = k
Holder(k, d) == challenge[k] = Own(d) /\ at[d] \in Drawn
LoginInv == \A k \in LoggingIn \ disturbed :
    /\ ban.pc # "idle" => ban.target # k
    /\ status[k] # "banned" /\ challenge[k] # Old
    /\ ~SessionOf(k) =>
        \/ /\ challenge[k] = None
           /\ \A d \in DevicesOf(k) : at[d] \notin Drawn \union {"refused"}
        \/ \E d \in DevicesOf(k) : Holder(k, d)

LEMMA LoginInit == Init => LoginInv
BY AccountsAssumption DEF Init, LoginInv, LoggingIn, NoBan, DevicesOf, Drawn, InLogin

(* The steps that leave alone what LoginInv speaks of.                     *)
LEMMA LoginKept ==
    ASSUME LoginInv, disturbed \subseteq disturbed', sessions \subseteq sessions',
           UNCHANGED <<status, challenge, at, tries>>,
           \A k \in LoggingIn \ disturbed' :
               ban'.pc # "idle" /\ ban'.target = k => ban.pc # "idle" /\ ban.target = k
    PROVE LoginInv'
BY DEF LoginInv, LoggingIn, SessionOf, Holder, DevicesOf, Drawn, Own, Owner

LEMMA LoginStart ==
    ASSUME TypeInv, LoginInv, Start \/ Shutdown PROVE LoginInv'
<1> USE DEF startVars, callVars, banVars, histVars, rowVars
<1>1. CASE SeedAdmin
  <2>1. UNCHANGED <<challenge, sessions, at, tries, ban, disturbed>> BY <1>1 DEF SeedAdmin
  <2>2. \A k \in Keys : status[k] # "banned" => status'[k] # "banned"
    BY <1>1 DEF SeedAdmin, TypeInv, TypeOK
  <2> QED BY <2>1, <2>2, AccountsAssumption
       DEF LoginInv, LoggingIn, SessionOf, Holder, DevicesOf, Drawn, Own, Owner
<1>2. CASE StartServer \/ MigrationCheck \/ MigrationScript \/ MigrationCommit \/ Shutdown
  BY <1>2, LoginKept DEF StartServer, MigrationCheck, MigrationScript, MigrationCommit, Shutdown
<1> QED BY <1>1, <1>2 DEF Start

(* A stop cuts off the calls, and with them the holders of challenges.     *)
LEMMA LoginHalt == ASSUME TypeInv, LoginInv, Halt PROVE LoginInv'
<1> USE DEF rowVars, DevicesOf, Owner, SessionOf
<1>1. UNCHANGED <<sessions, status, challenge, tries>> /\ ban' = NoBan /\ disturbed \subseteq disturbed'
  BY DEF Halt
<1> SUFFICES ASSUME NEW k \in LoggingIn \ disturbed', ~SessionOf(k)
             PROVE  /\ challenge[k] = None
                    /\ \A d \in DevicesOf(k) : at'[d] \notin Drawn \union {"refused"}
  BY <1>1 DEF LoginInv, LoggingIn, NoBan
<1>2. k \in Keys BY AccountsAssumption DEF LoggingIn
<1>3. \A d \in DevicesOf(k) : at[d] \notin InCall /\ at'[d] = at[d]
  BY <1>2 DEF Halt
<1>4. ~ \E d \in DevicesOf(k) : Holder(k, d)
  BY <1>3 DEF Holder, Drawn, InCall, InRequest
<1> QED BY <1>1, <1>3, <1>4 DEF LoginInv

(* A step of a call that is not its last one, nor commits a challenge.     *)
LEMMA LoginGoto ==
    ASSUME TypeInv, LoginInv, NEW d \in Devices, NEW pc, Goto(d, pc),
           at[d] \in Drawn => pc \in Drawn \union {"refused"},
           at[d] \notin Drawn => pc \notin Drawn \union {"refused"},
           pc = "refused" => ~Acceptable(d),
           UNCHANGED <<status, challenge, sessions, tries, ban, disturbed>>
    PROVE LoginInv'
<1> USE DEF DevicesOf, Owner, SessionOf, Own
<1>1. /\ at'[d] = pc
      /\ \A e \in Devices \ {d} : at'[e] = at[e]
  BY DEF Goto, TypeInv, TypeOK
<1> SUFFICES ASSUME NEW k \in LoggingIn \ disturbed, ~SessionOf(k)
             PROVE  \/ /\ challenge[k] = None
                       /\ \A e \in DevicesOf(k) : at'[e] \notin Drawn \union {"refused"}
                    \/ \E e \in DevicesOf(k) : challenge[k] = Own(e) /\ at'[e] \in Drawn
  BY DEF LoginInv, LoggingIn, Holder
<1>2. CASE /\ challenge[k] = None
           /\ \A e \in DevicesOf(k) : at[e] \notin Drawn \union {"refused"}
  BY <1>1, <1>2
<1>3. CASE \E e \in DevicesOf(k) : Holder(k, e)
  <2>1. PICK e \in DevicesOf(k) : challenge[k] = Own(e) /\ at[e] \in Drawn
    BY <1>3 DEF Holder
  <2>2. CASE e # d BY <1>1, <2>1, <2>2
  <2>3. CASE e = d
    <3>1. KeyOf[d] = k /\ status[k] # "banned" BY <2>3 DEF LoginInv
    <3>2. Acceptable(d) BY <2>1, <2>3, <3>1 DEF Acceptable
    <3> QED BY <1>1, <2>1, <2>3, <3>2
  <2> QED BY <2>2, <2>3
<1> QED BY <1>2, <1>3 DEF LoginInv

LEMMA LoginCall ==
    ASSUME TypeInv, LoginInv, NEW d \in Devices,
           \/ RequestChallenge(d) \/ Request(d) \/ Login(d) \/ CallFails(d) \/ CommitAckLost(d)
    PROVE LoginInv'
<1> USE DEF startVars, banVars, histVars, rowVars
<1>k. KeyOf[d] \in Keys /\ KeyOf[d] \in LoggingIn BY AccountsAssumption DEF LoggingIn
<1>1. CASE RequestChallenge(d)
  <2>1. /\ UNCHANGED <<status, challenge, sessions, ban, disturbed>>
        /\ at[d] \notin Drawn /\ at'[d] \notin Drawn \union {"refused"}
        /\ \A e \in Devices \ {d} : at'[e] = at[e] /\ tries'[e] = tries[e]
    BY <1>1 DEF RequestChallenge, Goto, InCall, InRequest, Drawn, InLogin, TypeInv, TypeOK
  <2> QED BY <2>1 DEF LoginInv, LoggingIn, SessionOf, Holder, DevicesOf, Own, Owner
<1>2. CASE InsertUser(d) \/ UpsertChallenge(d) \/ Announce(d)
  BY <1>2, LoginGoto DEF InsertUser, UpsertChallenge, Announce, Drawn, InLogin, TypeInv, TypeOK
<1>3. CASE SelectChallenge(d)
  BY <1>3, LoginGoto DEF SelectChallenge, Drawn, InLogin
<1>4. CASE InsertSession(d) \/ DeleteChallenge(d)
  BY <1>4, LoginGoto DEF InsertSession, DeleteChallenge, Drawn, InLogin
<1>5. ASSUME NEW pc, Goto(d, pc), at[d] \in InCall,
             \/ pc \in {"announce", "select"} /\ RequestRows(d)
             \/ pc = "in" /\ LoginRows(d)
             \/ KeyOf[d] \in disturbed' /\ (RequestRows(d) \/ LoginRows(d) \/ UNCHANGED rowVars),
             UNCHANGED <<tries, ban>>, disturbed \subseteq disturbed'
      PROVE LoginInv'
  <2>1. /\ at'[d] = pc
        /\ \A e \in Devices \ {d} : at'[e] = at[e]
    BY <1>5 DEF Goto, TypeInv, TypeOK
  <2>2. \A k \in Keys \ {KeyOf[d]} : status'[k] = status[k] /\ challenge'[k] = challenge[k]
    BY <1>5, <1>k DEF RequestRows, LoginRows, TypeInv, TypeOK
  <2>3. sessions \subseteq sessions' BY <1>5 DEF RequestRows, LoginRows
  <2> SUFFICES ASSUME NEW k \in LoggingIn \ disturbed'
               PROVE  /\ ban.pc # "idle" => ban.target # k
                      /\ status'[k] # "banned" /\ challenge'[k] # Old
                      /\ ~SessionOf(k)' =>
                          \/ /\ challenge'[k] = None
                             /\ \A e \in DevicesOf(k) : at'[e] \notin Drawn \union {"refused"}
                          \/ \E e \in DevicesOf(k) : Holder(k, e)'
    BY <1>5 DEF LoginInv, LoggingIn, DevicesOf
  <2>k. k \in Keys /\ k \in LoggingIn \ disturbed BY <1>5, AccountsAssumption DEF LoggingIn
  <2>4. CASE k # KeyOf[d]
    <3>1. \A e \in DevicesOf(k) : e # d BY <2>4 DEF DevicesOf
    <3>2. \A e \in DevicesOf(k) : Holder(k, e) => Holder(k, e)'
      BY <1>5, <2>1, <2>2, <2>4, <2>k, <3>1 DEF Holder, Own, DevicesOf
    <3>3. SessionOf(k) => SessionOf(k)' BY <2>3 DEF SessionOf, Owner
    <3> QED BY <2>1, <2>2, <2>4, <2>k, <3>1, <3>2, <3>3 DEF LoginInv, DevicesOf
  <2>5. CASE k = KeyOf[d] /\ pc \in {"announce", "select"} /\ RequestRows(d)
    <3>1. challenge'[k] = Own(d) /\ status'[k] # "banned"
      BY <2>5, <2>k DEF RequestRows, LoginInv, TypeInv, TypeOK
    <3>2. Own(d) # Old BY <1>5, OwnIsId, AccountsAssumption DEF Ids
    <3>3. Holder(k, d)' BY <1>5, <2>1, <2>5, <3>1 DEF Holder, Own, Drawn, InLogin
    <3> QED BY <2>5, <2>k, <3>1, <3>2, <3>3 DEF LoginInv, DevicesOf
  <2>6. CASE k = KeyOf[d] /\ pc = "in" /\ LoginRows(d)
    <3>1. Own(d) \in sessions' /\ Owner(Own(d)) = k BY <2>6 DEF LoginRows, Own, Owner
    <3>2. challenge'[k] # Old /\ status'[k] = status[k]
      BY <2>6, <2>k, AccountsAssumption DEF LoginRows, LoginInv, TypeInv, TypeOK
    <3> QED BY <2>k, <3>1, <3>2 DEF LoginInv, SessionOf, Owner
  <2> QED BY <1>5, <2>4, <2>5, <2>6
<1>6. CASE CommitRequest(d) BY <1>6, <1>5 DEF CommitRequest, InCall, InRequest
<1>7. CASE CommitLogin(d) BY <1>7, <1>5 DEF CommitLogin, InCall, InLogin
<1>8. CASE CallFails(d) BY <1>8, <1>5, <1>k DEF CallFails, Disturb
<1>9. CASE CommitAckLost(d)
  BY <1>9, <1>5, <1>k DEF CommitAckLost, Disturb, InCall, InRequest, InLogin
<1> QED BY <1>1, <1>2, <1>3, <1>4, <1>6, <1>7, <1>8, <1>9 DEF Request, Login

LEMMA LoginBan ==
    ASSUME TypeInv, SessionInv, LoginInv,
           \/ \E k \in Keys, to \in {"active", "banned"} : BeginBan(k, to)
           \/ SetUserStatus \/ BanFails
    PROVE LoginInv'
<1> USE DEF startVars, callVars, histVars, rowVars
<1>1. ASSUME NEW k \in Keys, NEW to \in {"active", "banned"}, BeginBan(k, to) PROVE LoginInv'
  BY <1>1, LoginKept DEF BeginBan, Disturb
<1>2. CASE UpdateStatus \/ DropChallenge \/ DropSessions \/ \E t \in ban.todo : LockSession(t)
  <2>1. UNCHANGED <<status, challenge, sessions, at, tries, disturbed>>
    BY <1>2 DEF UpdateStatus, DropChallenge, DropSessions, LockSession
  <2>2. ban.pc # "idle" /\ (ban' = NoBan \/ ban'.target = ban.target)
    BY <1>2 DEF UpdateStatus, DropChallenge, DropSessions, LockSession, TypeInv, TypeOK
  <2> QED BY <2>1, <2>2, LoginKept DEF NoBan
<1>3. CASE AnnounceBan \/ BanFails
  BY <1>3, LoginKept DEF AnnounceBan, BanFails, NoBan
<1>4. CASE CommitStatus
  <2>1. UNCHANGED <<at, tries, disturbed>>
        /\ ban' = [NoBan EXCEPT !.pc = "announce", !.target = ban.target]
    BY <1>4 DEF CommitStatus
  <2>2. \A k \in LoggingIn \ disturbed : k # ban.target
    BY <1>4 DEF LoginInv, CommitStatus
  <2>3. \A k \in Keys \ {ban.target} : status'[k] = status[k] /\ challenge'[k] = challenge[k]
    BY <1>4 DEF CommitStatus, TypeInv, TypeOK
  <2>4. \A k \in Keys \ {ban.target} : SessionOf(k) => SessionOf(k)'
    BY <1>4 DEF CommitStatus, SessionOf, Owner, SessionInv, BanInv
  <2>5. LoggingIn \subseteq Keys BY AccountsAssumption DEF LoggingIn
  <2>6. ban'.target = ban.target BY <2>1 DEF NoBan
  <2> QED BY <2>1, <2>2, <2>3, <2>4, <2>5, <2>6
       DEF LoginInv, LoggingIn, Holder, DevicesOf, Own, Drawn
<1> QED BY <1>1, <1>2, <1>3, <1>4 DEF SetUserStatus

LEMMA LoginTime ==
    ASSUME TypeInv, HeldInv, LoginInv,
           \/ \E k \in Keys : ChallengeExpires(k)
           \/ \E t \in sessions : SessionExpires(t)
           \/ CleanupExpired
    PROVE LoginInv'
<1> USE DEF startVars, callVars, banVars, histVars
<1>0. LoggingIn \subseteq Keys BY AccountsAssumption DEF LoggingIn
<1>1. ASSUME NEW k \in Keys, ChallengeExpires(k) PROVE LoginInv'
  <2>1. UNCHANGED <<status, sessions, at, tries, ban>>
        /\ disturbed' = disturbed \union ({k} \intersect LoggingIn)
    BY <1>1 DEF ChallengeExpires, Disturb
  <2>2. \A j \in Keys \ {k} : challenge'[j] = challenge[j]
    BY <1>1 DEF ChallengeExpires, TypeInv, TypeOK
  <2> QED BY <1>0, <2>1, <2>2
       DEF LoginInv, LoggingIn, SessionOf, Holder, DevicesOf, Own, Owner, Drawn
<1>2. ASSUME NEW t \in sessions, SessionExpires(t) PROVE LoginInv'
  <2>1. UNCHANGED <<status, challenge, at, tries, ban>>
        /\ disturbed' = disturbed \union ({Owner(t)} \intersect LoggingIn)
        /\ sessions' = sessions \ {t}
    BY <1>2 DEF SessionExpires, Disturb
  <2>2. \A k \in LoggingIn \ disturbed' : SessionOf(k) => SessionOf(k)'
    BY <2>1 DEF SessionOf, Owner
  <2> QED BY <2>1, <2>2 DEF LoginInv, LoggingIn, Holder, DevicesOf, Own, Drawn
<1>3. CASE CleanupExpired
  <2>1. UNCHANGED <<status, sessions, at, tries, ban, disturbed>> BY <1>3, CleanupChanges
  <2>2. \A k \in Keys : challenge[k] # Old => challenge'[k] = challenge[k]
    <3>1. CASE CleanupCommits BY <3>1 DEF CleanupCommits, HeldInv, Kept
    <3>2. CASE ~CleanupCommits
      BY <1>3, <3>2 DEF CleanupExpired, CleanupBegins, CleanupChallenge, CleanupSession,
         CleanupFails, rowVars
    <3> QED BY <3>1, <3>2
  <2> QED BY <1>0, <2>1, <2>2
       DEF LoginInv, LoggingIn, SessionOf, Holder, DevicesOf, Own, Owner, Drawn
<1> QED BY <1>1, <1>2, <1>3

(***************************************************************************)
(* Of the devices of one key that log in at once, however many there are   *)
(* and however often they try, one gets in.                                *)
(***************************************************************************)
THEOREM SomeoneGetsInCorrect == Spec => []SomeoneGetsIn
<1>1. LoginInv => SomeoneGetsIn
  <2> SUFFICES ASSUME LoginInv, NEW k \in Keys \ disturbed,
                      \A d \in DevicesOf(k) : at[d] \notin InCall,
                      NEW e \in DevicesOf(k), at[e] = "refused"
               PROVE SessionOf(k)
    BY DEF SomeoneGetsIn, SessionOf
  <2>1. k \in LoggingIn \ disturbed BY DEF LoggingIn, DevicesOf
  <2> QED BY <2>1 DEF LoginInv, Holder, Drawn, InCall, InRequest, InLogin
<1>2. TypeInv /\ SessionInv /\ HeldInv /\ LoginInv /\ [Next]_vars => LoginInv'
  <2>1. CASE UNCHANGED vars
    BY <2>1, LoginKept DEF vars, rowVars, callVars, banVars, histVars
  <2> QED
    BY <2>1, LoginStart, LoginHalt, LoginCall, LoginBan, LoginTime
    DEF Next, ServerStops, Drained
<1>3. Spec => []LoginInv
  BY <1>2, LoginInit, TypeInvariance, SessionInvariance, HeldInvariance, PTL DEF Spec
<1> QED BY <1>1, <1>3, PTL

-----------------------------------------------------------------------------
(***************************************************************************)
(* No deadlock of row locks but over the expired session rows of one user, *)
(* for every number of devices, keys and rows: the holder of a challenge   *)
(* by a login is past its last wait, the holder of a user waits for a      *)
(* challenge at most, and of a ban and the cleanup that wait for each      *)
(* other both are at the sessions.                                         *)
(***************************************************************************)
THEOREM NoDeadlockCorrect == Spec => []NoDeadlock
<1> DEFINE Goes(d) == at[d] \in InCall /\ ~Waits(d)
           Served == \/ ban.pc # "idle" /\ ~BanWaits
                     \/ cleanup.on /\ ~CleanupWaits
                     \/ \E d \in Devices : Goes(d)
                     \/ Crossed
<1>1. ASSUME TypeInv, HeldInv PROVE NoDeadlock
  <2>1. ASSUME NEW k, NEW self, ChallengeLocked(k, self) PROVE Served
    <3>1. PICK d \in Devices : at[d] \in {"commitRequest", "commitLogin"}
      BY <2>1 DEF ChallengeLocked, DevicesOf
    <3> QED BY <3>1 DEF Waits, InCall, InRequest, InLogin
  <2>2. CleanupWaits => cleanup.on BY <1>1 DEF CleanupWaits, HeldInv
  <2>3. ASSUME ban.pc = "lockSessions" PROVE Served
    <3>1. CASE BanWaits
      <4>1. ban.todo \intersect cleanup.rows # {} BY <2>3, <3>1 DEF BanWaits
      <4>2. cleanup.on /\ cleanup.stale = {} BY <1>1, <4>1 DEF HeldInv
      <4>3. CASE CleanupWaits
        <5>1. ban.drop \intersect cleanup.lapsed # {}
          BY <4>2, <4>3 DEF CleanupWaits, BanHoldsRow
        <5> QED BY <2>3, <4>1, <5>1 DEF Crossed
      <4> QED BY <4>2, <4>3
    <3> QED BY <2>3, <3>1
  <2>4. ASSUME ban.pc \in {"dropSessions", "commit"} PROVE Served
    BY <2>4 DEF BanWaits
  <2>5. ASSUME NEW k, BanHolds(k) PROVE Served BY <2>3, <2>4, <2>5 DEF BanHolds
  <2>6. ASSUME CleanupWaits PROVE Served
    <3>1. CASE cleanup.stale # {}
      <4>1. PICK k \in cleanup.stale : Held(k, None) BY <2>6, <3>1 DEF CleanupWaits
      <4>2. CASE k \in cleanup.keys
        BY <1>1, <4>2 DEF HeldInv
      <4> QED BY <2>1, <2>5, <4>1, <4>2 DEF Held
    <3>2. CASE cleanup.stale = {}
      <4>1. PICK t \in cleanup.lapsed : BanHoldsRow(t) BY <2>6, <3>2 DEF CleanupWaits
      <4> QED BY <2>3, <2>4, <4>1 DEF BanHoldsRow
    <3> QED BY <3>1, <3>2
  <2>7. ASSUME NEW k, NEW self, Held(k, self) PROVE Served
    <3>1. CASE k \in cleanup.keys
      <4>1. cleanup.on BY <1>1, <3>1 DEF HeldInv
      <4> QED BY <2>6, <4>1
    <3> QED BY <2>1, <2>5, <2>7, <3>1 DEF Held
  <2>8. BanWaits => Served
    BY <2>3, <2>7 DEF BanWaits
  <2>9. ban.pc # "idle" => Served BY <2>8
  <2>10. ASSUME NEW k, NEW self, UserLocked(k, self) PROVE Served
    <3>1. CASE \E d \in Devices : at[d] \in {"upsert", "commitRequest"}
      <4>1. PICK d \in Devices : at[d] \in {"upsert", "commitRequest"} BY <3>1
      <4>2. CASE Waits(d) BY <2>7, <4>1, <4>2 DEF Waits
      <4> QED BY <4>1, <4>2 DEF InCall, InRequest
    <3> QED BY <2>9, <2>10, <3>1 DEF UserLocked, DevicesOf
  <2>11. ASSUME NEW d \in Devices, Waits(d) PROVE Served
    BY <2>7, <2>10, <2>11 DEF Waits
  <2> QED BY <2>6, <2>8, <2>11 DEF NoDeadlock
<1> QED BY <1>1, TypeInvariance, HeldInvariance, PTL

-----------------------------------------------------------------------------
(***************************************************************************)
(* The promise of TokenLife.  A call that has inserted its user holds the  *)
(* lock of the key alone, and there is no row yet that a ban could find.   *)
(***************************************************************************)
Inserting(d) == wrote[d] /\ at[d] \in {"upsert", "commitRequest"}
Updated == {"dropChallenge", "dropSessions", "lockSessions", "commit"}
RowInv ==
    /\ \A d \in Devices : Inserting(d) => status[KeyOf[d]] = "none"
    /\ \A d, e \in Devices : Inserting(d) /\ Inserting(e) /\ KeyOf[d] = KeyOf[e] => d = e
    /\ ban.pc \in Updated => status[ban.target] # "none"

LEMMA RowInit == Init => RowInv
BY DEF Init, RowInv, Updated, Inserting, NoBan

(* The steps that change no status, insert no user and begin no ban.       *)
LEMMA RowKept ==
    ASSUME RowInv, UNCHANGED status, \A d \in Devices : Inserting(d)' => Inserting(d),
           ban'.pc \in Updated => ban'.target = ban.target /\ ban.pc \in Updated
    PROVE RowInv'
BY DEF RowInv

LEMMA RowCall ==
    ASSUME TypeInv, RowInv, NEW d \in Devices,
           \/ RequestChallenge(d) \/ Request(d) \/ Login(d) \/ CallFails(d) \/ CommitAckLost(d)
    PROVE RowInv'
<1> USE DEF banVars, startVars, histVars, rowVars, Goto, TypeInv, TypeOK, Inserting
<1>1. CASE RequestChallenge(d) BY <1>1, RowKept DEF RequestChallenge
<1>2. CASE InsertUser(d)
  <2>1. UNCHANGED <<status, ban>>
        /\ \A e \in Devices \ {d} : at'[e] = at[e] /\ wrote'[e] = wrote[e]
    BY <1>2 DEF InsertUser
  <2>2. wrote'[d] => status[KeyOf[d]] = "none" BY <1>2 DEF InsertUser
  <2>3. \A e \in Devices \ {d} : KeyOf[e] = KeyOf[d] => ~Inserting(e)
    BY <1>2 DEF InsertUser, UserLocked, DevicesOf
  <2> QED BY <2>1, <2>2, <2>3 DEF RowInv
<1>3. CASE UpsertChallenge(d)
  <2>1. \A e \in Devices : Inserting(e)' => Inserting(e) BY <1>3 DEF UpsertChallenge
  <2> QED BY <1>3, <2>1 DEF UpsertChallenge, RowInv
<1>4. ASSUME NEW pc \in {"announce", "select", "failed"}, Goto(d, pc), RequestRows(d),
             at[d] = "commitRequest", UNCHANGED ban,
             \A e \in Devices \ {d} : wrote'[e] = wrote[e]
      PROVE RowInv'
  <2>1. \A e \in Devices : Inserting(e)' => Inserting(e) /\ e # d BY <1>4
  <2>2. KeyOf[d] \in Keys BY AccountsAssumption
  <2>3. \A k \in Keys : status'[k] # status[k] => k = KeyOf[d] /\ wrote[d] /\ status'[k] = "active"
    BY <1>4, <2>2 DEF RequestRows
  <2>4. \A e \in Devices : Inserting(e)' => KeyOf[e] # KeyOf[d] \/ ~wrote[d]
    BY <1>4, <2>1 DEF RowInv
  <2>5. \A e \in Devices : KeyOf[e] \in Keys BY AccountsAssumption
  <2>6. \A e \in Devices : Inserting(e)' => status'[KeyOf[e]] = "none"
    BY <2>1, <2>3, <2>4, <2>5 DEF RowInv
  <2>7. (ban.pc \in Updated => status[ban.target] # "none")'
    BY <1>4, <2>3 DEF RowInv
  <2> QED BY <2>1, <2>6, <2>7 DEF RowInv
<1>5. CASE CommitRequest(d) BY <1>4, <1>5 DEF CommitRequest
<1>6. CASE Announce(d) BY <1>6, RowKept DEF Announce, RowInv
<1>7. CASE SelectChallenge(d) \/ InsertSession(d) \/ DeleteChallenge(d) \/ CallFails(d)
  <2>1. UNCHANGED <<status, ban>> /\ \A e \in Devices : Inserting(e)' => Inserting(e)
    BY <1>7 DEF SelectChallenge, InsertSession, DeleteChallenge, CallFails
  <2> QED BY <2>1 DEF RowInv
<1>8. CASE CommitLogin(d) BY <1>8 DEF CommitLogin, LoginRows, RowInv
<1>9. CASE CommitAckLost(d)
  <2>1. CASE at[d] = "commitRequest" BY <1>4, <1>9, <2>1 DEF CommitAckLost
  <2>2. CASE at[d] = "commitLogin" /\ LoginRows(d)
    BY <1>9, <2>2 DEF CommitAckLost, LoginRows, RowInv
  <2> QED BY <1>9, <2>1, <2>2 DEF CommitAckLost
<1> QED BY <1>1, <1>2, <1>3, <1>5, <1>6, <1>7, <1>8, <1>9 DEF Request, Login

LEMMA RowBan ==
    ASSUME TypeInv, RowInv,
           \/ \E k \in Keys, to \in {"active", "banned"} : BeginBan(k, to)
           \/ SetUserStatus \/ BanFails
    PROVE RowInv'
<1> USE DEF startVars, rowVars, callVars, histVars, TypeInv, TypeOK, Inserting, RowInv, Updated
<1>1. ASSUME NEW k \in Keys, NEW to \in {"active", "banned"}, BeginBan(k, to) PROVE RowInv'
  BY <1>1 DEF BeginBan
<1>2. CASE UpdateStatus BY <1>2 DEF UpdateStatus, NoBan
<1>3. CASE DropChallenge \/ DropSessions \/ \E t \in ban.todo : LockSession(t)
  <2>1. /\ UNCHANGED <<status, callVars>> /\ ban'.target = ban.target
        /\ ban.pc \in {"dropChallenge", "dropSessions", "lockSessions"}
    BY <1>3 DEF DropChallenge, DropSessions, LockSession
  <2> QED BY <2>1
<1>4. CASE CommitStatus
  <2>1. UNCHANGED callVars /\ ban'.pc = "announce" /\ status[ban.target] # "none"
        /\ \A k \in Keys \ {ban.target} : status'[k] = status[k]
    BY <1>4 DEF CommitStatus, NoBan
  <2>2. \A e \in Devices : KeyOf[e] \in Keys BY AccountsAssumption
  <2> QED BY <2>1, <2>2
<1>5. CASE AnnounceBan \/ BanFails BY <1>5 DEF AnnounceBan, BanFails, NoBan
<1> QED BY <1>1, <1>2, <1>3, <1>4, <1>5 DEF SetUserStatus

LEMMA RowOther ==
    ASSUME TypeInv, RowInv, ToldInv,
           \/ UNCHANGED vars \/ Start \/ ServerStops \/ Shutdown \/ Drained
           \/ \E k \in Keys : ChallengeExpires(k)
           \/ \E t \in sessions : SessionExpires(t)
           \/ CleanupExpired
    PROVE RowInv'
<1> USE DEF startVars, callVars, banVars, histVars, rowVars, Inserting
<1>1. CASE SeedAdmin
  <2>1. ban'.pc = "idle" /\ \A d \in Devices : ~Inserting(d)'
    BY <1>1 DEF SeedAdmin, ToldInv, Serving, InCall, InRequest
  <2> QED BY <2>1 DEF RowInv, Updated
<1>2. CASE Halt
  <2>1. UNCHANGED status /\ ban'.pc = "idle" /\ \A d \in Devices : ~Inserting(d)'
    BY <1>2 DEF Halt, NoBan, InCall, InRequest
  <2> QED BY <2>1 DEF RowInv, Updated
<1>3. CASE \/ UNCHANGED vars \/ Start \/ Shutdown
           \/ \E k \in Keys : ChallengeExpires(k)
           \/ \E t \in sessions : SessionExpires(t)
           \/ CleanupExpired
  <2>1. SeedAdmin \/ UNCHANGED <<status, at, wrote, ban>>
    BY <1>3, CleanupChanges DEF vars, Start, StartServer, MigrationCheck, MigrationScript,
       MigrationCommit, Shutdown, ChallengeExpires, SessionExpires
  <2> QED BY <1>1, <2>1 DEF RowInv
<1> QED BY <1>2, <1>3 DEF ServerStops, Drained

LEMMA RowInvariance == Spec => []RowInv
<1>1. TypeInv /\ ToldInv /\ RowInv /\ [Next]_vars => RowInv'
  BY RowCall, RowBan, RowOther DEF Next
<1> QED BY <1>1, RowInit, TypeInvariance, ToldInvariance, PTL DEF Spec

(* What TokenLife sees of a state, and how the steps of a call change it.  *)
Fresh == {t \in Ids : Unborn(t)}
Banned == {k \in Keys : status[k] = "banned"}

LEMMA LifeSame ==
    ASSUME Fresh' = Fresh, Banned' = Banned, UNCHANGED sessions,
           UnderWay' <=> UnderWay,
           UnderWay => ban'.target = ban.target /\ ban'.seen = ban.seen
    PROVE UNCHANGED Life!lifeVars
BY DEF Life!lifeVars, Fresh, Banned

LEMMA FreshKept ==
    ASSUME UNCHANGED tries, \A d \in Devices : at'[d] \in InCall <=> at[d] \in InCall
    PROVE Fresh' = Fresh
BY DEF Fresh, Unborn, Own, Ids

LEMMA FreshSpent ==
    ASSUME TypeInv, NEW d \in Devices, NEW pc, pc \notin InCall, at[d] \in InCall, Goto(d, pc),
           UNCHANGED tries
    PROVE Own(d) \in Fresh /\ Fresh' = Fresh \ {Own(d)}
<1>1. Own(d) \in Fresh BY OwnIsId DEF Fresh, Unborn, Own
<1>2. at'[d] = pc /\ \A e \in Devices \ {d} : at'[e] = at[e]
  BY DEF Goto, TypeInv, TypeOK
<1>3. ~(tries[d] > tries[d]) BY AccountsAssumption DEF TypeInv, TypeOK
<1>4. \A t \in Ids : Unborn(t)' <=> Unborn(t) /\ t # Own(d)
  BY <1>2, <1>3 DEF Unborn, Own, Ids
<1> QED BY <1>1, <1>4 DEF Fresh

(* A call that does not get in gives its token up.                         *)
LEMMA LifeDiscards ==
    ASSUME TypeInv, NEW d \in Devices, NEW pc, pc \notin InCall, at[d] \in InCall, Goto(d, pc),
           UNCHANGED <<tries, sessions, ban>>, Banned' = Banned
    PROVE Life!Next
<1>1. Own(d) \in Fresh /\ Fresh' = Fresh \ {Own(d)} BY FreshSpent
<1>2. Life!Discard(Own(d)) BY <1>1 DEF Life!Discard, Fresh, Banned, UnderWay
<1> QED BY <1>1, <1>2 DEF Life!Next, Fresh

(* One that gets in issues it.                                             *)
LEMMA LifeIssues ==
    ASSUME TypeInv, NEW d \in Devices, NEW pc, pc \notin InCall, at[d] \in InCall, Goto(d, pc),
           LoginRows(d), UNCHANGED <<tries, ban>>
    PROVE Life!Next
<1>1. Own(d) \in Fresh /\ Fresh' = Fresh \ {Own(d)} BY FreshSpent
<1>2. sessions' = sessions \union {Own(d)} /\ UNCHANGED status BY DEF LoginRows
<1>3. Life!Issue(Own(d)) BY <1>1, <1>2 DEF Life!Issue, Fresh, UnderWay
<1> QED BY <1>1, <1>3 DEF Life!Next, Fresh

(* A request that commits creates a user at most, who is not banned.       *)
LEMMA RequestBansNobody ==
    ASSUME TypeInv, RowInv, NEW d \in Devices, at[d] = "commitRequest", RequestRows(d)
    PROVE Banned' = Banned
<1>1. KeyOf[d] \in Keys BY AccountsAssumption
<1>2. wrote[d] => status[KeyOf[d]] = "none" BY DEF RowInv, Inserting
<1>3. \A k \in Keys : status'[k] = "banned" <=> status[k] = "banned"
  BY <1>1, <1>2 DEF RequestRows, TypeInv, TypeOK
<1> QED BY <1>3 DEF Banned

LEMMA LifeCall ==
    ASSUME TypeInv, RowInv, NEW d \in Devices,
           \/ RequestChallenge(d) \/ Request(d) \/ Login(d) \/ CallFails(d) \/ CommitAckLost(d)
    PROVE [Life!Next]_(Life!lifeVars)
<1> USE DEF banVars, startVars, histVars, rowVars
<1>1. CASE RequestChallenge(d)
  <2>1. /\ at[d] \notin InCall /\ at'[d] \in InCall /\ tries'[d] = tries[d] + 1
        /\ \A e \in Devices \ {d} : at'[e] = at[e] /\ tries'[e] = tries[e]
    BY <1>1 DEF RequestChallenge, Goto, InCall, InRequest, TypeInv, TypeOK
  <2>2. \A t \in Ids : t[1] = d => (Unborn(t)' <=> Unborn(t))
    <3> SUFFICES ASSUME NEW n \in 1..MaxTries PROVE Unborn(<<d, n>>)' <=> Unborn(<<d, n>>)
      BY DEF Ids
    <3>1. tries[d] \in Nat /\ n \in Nat BY AccountsAssumption DEF TypeInv, TypeOK
    <3>2. Unborn(<<d, n>>) <=> n > tries[d] BY <2>1 DEF Unborn
    <3>3. Unborn(<<d, n>>)' <=> n > tries[d] + 1 \/ n = tries[d] + 1
      BY <2>1 DEF Unborn, Own
    <3> QED BY <3>1, <3>2, <3>3
  <2>3. \A t \in Ids : t[1] # d => (Unborn(t)' <=> Unborn(t))
    BY <2>1 DEF Ids, Unborn, Own
  <2>4. Fresh' = Fresh BY <2>2, <2>3 DEF Fresh
  <2> QED BY <1>1, <2>4, LifeSame DEF RequestChallenge, UnderWay, Banned
<1>2. ASSUME NEW pc \in InCall, Goto(d, pc), at[d] \in InCall, Banned' = Banned,
             UNCHANGED <<tries, sessions, ban>>
      PROVE [Life!Next]_(Life!lifeVars)
  <2>1. \A e \in Devices : at'[e] \in InCall <=> at[e] \in InCall
    BY <1>2 DEF Goto, TypeInv, TypeOK
  <2> QED BY <1>2, <2>1, FreshKept, LifeSame DEF UnderWay
<1>3. CASE InsertUser(d) \/ UpsertChallenge(d) \/ Announce(d) \/ InsertSession(d) \/ DeleteChallenge(d)
  BY <1>3, <1>2 DEF InsertUser, UpsertChallenge, Announce, InsertSession, DeleteChallenge,
     Banned, InCall, InRequest, InLogin, TypeInv, TypeOK
<1>4. CASE CommitRequest(d)
  BY <1>4, <1>2, RequestBansNobody DEF CommitRequest, RequestRows, InCall, InRequest, InLogin
<1>5. CASE SelectChallenge(d)
  <2>1. at[d] \in InCall /\ UNCHANGED <<status, sessions, tries, ban>> /\ Banned' = Banned
    BY <1>5 DEF SelectChallenge, InCall, InLogin, Banned
  <2>2. Goto(d, "insertSession") \/ Goto(d, "refused") BY <1>5 DEF SelectChallenge
  <2>3. "insertSession" \in InCall /\ "refused" \notin InCall BY DEF InCall, InRequest, InLogin
  <2>4. CASE Goto(d, "insertSession") BY <1>2, <2>1, <2>3, <2>4
  <2>5. CASE Goto(d, "refused") BY <2>1, <2>3, <2>5, LifeDiscards
  <2> QED BY <2>2, <2>4, <2>5
<1>6. "in" \notin InCall /\ "failed" \notin InCall /\ {"commitRequest", "commitLogin"} \subseteq InCall
  BY DEF InCall, InRequest, InLogin
<1>7. CASE CommitLogin(d) BY <1>6, <1>7, LifeIssues DEF CommitLogin
<1>8. CASE CallFails(d) BY <1>6, <1>8, LifeDiscards DEF CallFails, Banned
<1>9. CASE CommitAckLost(d)
  <2>1. CASE at[d] = "commitRequest" /\ RequestRows(d)
    BY <1>6, <1>9, <2>1, LifeDiscards, RequestBansNobody DEF CommitAckLost, RequestRows
  <2>2. CASE at[d] = "commitLogin" /\ LoginRows(d)
    BY <1>6, <1>9, <2>2, LifeIssues DEF CommitAckLost
  <2> QED BY <1>9, <2>1, <2>2 DEF CommitAckLost
<1> QED BY <1>1, <1>3, <1>4, <1>5, <1>7, <1>8, <1>9 DEF Request, Login

LEMMA LifeInit == Init => Life!Init
BY AccountsAssumption DEF Init, Life!Init, Ids, Unborn, Own, InCall, InRequest, InLogin, NoBan, UnderWay

LEMMA LifeBan ==
    ASSUME TypeInv, SessionInv,
           \/ \E k \in Keys, to \in {"active", "banned"} : BeginBan(k, to)
           \/ SetUserStatus \/ BanFails
    PROVE [Life!Next]_(Life!lifeVars)
<1> USE DEF startVars, rowVars, callVars, histVars
<1>0. UNCHANGED <<at, tries>> /\ Fresh' = Fresh
  BY FreshKept DEF BeginBan, SetUserStatus, UpdateStatus, DropChallenge, DropSessions, LockSession,
     CommitStatus, AnnounceBan, BanFails
<1>1. ASSUME NEW k \in Keys, NEW to \in {"active", "banned"}, BeginBan(k, to)
      PROVE Life!Next
  <2>1. /\ ~UnderWay /\ UnderWay' /\ ban'.target = k
        /\ ban'.seen = {t \in sessions : Owner(t) = k}
        /\ UNCHANGED <<status, sessions>>
    BY <1>1 DEF BeginBan, UnderWay
  <2>2. Life!TokensOf(k) = {t \in sessions : Owner(t) = k}
    BY DEF Life!TokensOf, TypeInv, TypeOK
  <2>3. Life!Begin(k) BY <1>0, <2>1, <2>2 DEF Life!Begin, Fresh
  <2> QED BY <2>3 DEF Life!Next
<1>2. ASSUME UnderWay, ban' = NoBan, UNCHANGED <<status, sessions>> PROVE Life!Next
  <2>1. Life!Stop({}) BY <1>0, <1>2 DEF Life!Stop, UnderWay, NoBan, Fresh
  <2> QED BY <2>1 DEF Life!Next
<1>3. CASE UpdateStatus
  <2>1. UnderWay /\ UNCHANGED <<status, sessions>> BY <1>3 DEF UpdateStatus, UnderWay
  <2>2. CASE ban' = NoBan BY <1>2, <2>1, <2>2
  <2>3. CASE ban' # NoBan
    <3>1. UnderWay' /\ ban'.target = ban.target /\ ban'.seen = ban.seen
      BY <1>3, <2>3 DEF UpdateStatus, UnderWay, TypeInv, TypeOK
    <3> QED BY <1>0, <2>1, <3>1, LifeSame DEF Banned
  <2> QED BY <2>2, <2>3
<1>4. CASE DropChallenge \/ DropSessions \/ \E t \in ban.todo : LockSession(t)
  <2>1. /\ ban.pc \in {"dropChallenge", "dropSessions", "lockSessions"}
        /\ ban'.pc \in {"dropSessions", "lockSessions", "commit"}
        /\ ban'.target = ban.target /\ ban'.seen = ban.seen /\ UNCHANGED <<status, sessions>>
    <3>1. CASE DropChallenge BY <3>1 DEF DropChallenge, Dropping, TypeInv, TypeOK
    <3>2. CASE DropSessions BY <3>2 DEF DropSessions, Dropping, TypeInv, TypeOK
    <3>3. ASSUME NEW t \in ban.todo, LockSession(t)
          PROVE  /\ ban.pc \in {"dropChallenge", "dropSessions", "lockSessions"}
                 /\ ban'.pc \in {"dropSessions", "lockSessions", "commit"}
                 /\ ban'.target = ban.target /\ ban'.seen = ban.seen
                 /\ UNCHANGED <<status, sessions>>
      BY <3>3 DEF LockSession, Dropping, TypeInv, TypeOK
    <3> QED BY <1>4, <3>1, <3>2, <3>3
  <2>2. UnderWay /\ UnderWay' BY <2>1 DEF UnderWay
  <2> QED BY <1>0, <2>1, <2>2, LifeSame DEF Banned
<1>5. CASE CommitStatus
  <2>1. /\ UnderWay /\ ~UnderWay' /\ ban.pc = "commit"
        /\ sessions' = sessions \ ban.drop
        /\ ban.target \in Keys /\ ban.to \in {"active", "banned"}
    BY <1>5 DEF CommitStatus, UnderWay, NoBan, TypeInv, TypeOK
  <2>2. \A k \in Keys : status'[k] = IF k = ban.target THEN ban.to ELSE status[k]
    BY <1>5 DEF CommitStatus, TypeInv, TypeOK
  <2>u. PICK u \in Keys : u = ban.target BY <2>1
  <2>3. CASE ban.to = "banned"
    <3>0. PICK ts : ts = ban.drop \intersect sessions OBVIOUS
    <3>1. ts \in SUBSET Life!TokensOf(u)
      BY <2>u, <3>0 DEF Life!TokensOf, SessionInv, BanInv, TypeInv, TypeOK
    <3>2. ban.seen \cap sessions \subseteq ts BY <2>1, <2>3, <3>0 DEF SessionInv, BanInv
    <3>3. sessions' = sessions \ ts BY <2>1, <3>0
    <3>4. Banned' = Banned \cup {u} BY <2>u, <2>2, <2>3 DEF Banned
    <3>5. Life!Ban(u, ts)
      BY <1>0, <2>1, <2>u, <3>2, <3>3, <3>4 DEF Life!Ban, Fresh, Banned
    <3> QED BY <2>1, <2>u, <3>1, <3>5 DEF Life!Next
  <2>4. CASE ban.to = "active"
    <3>1. sessions' = sessions BY <2>1, <2>4 DEF SessionInv, BanInv
    <3>2. Banned' = Banned \ {u} BY <2>u, <2>2, <2>4 DEF Banned
    <3>3. Life!Unban(u) BY <1>0, <2>1, <2>u, <3>1, <3>2 DEF Life!Unban, Fresh, Banned
    <3> QED BY <2>1, <2>u, <3>3 DEF Life!Next
  <2> QED BY <2>1, <2>3, <2>4
<1>6. CASE (AnnounceBan \/ BanFails) /\ ban.pc = "announce"
  <2>1. ~UnderWay /\ ~UnderWay' /\ UNCHANGED <<status, sessions>>
    BY <1>6 DEF AnnounceBan, BanFails, UnderWay, NoBan
  <2> QED BY <1>0, <2>1, LifeSame DEF Banned
<1>7. CASE BanFails /\ ban.pc # "announce" BY <1>2, <1>7 DEF BanFails, UnderWay
<1>8. AnnounceBan => ban.pc = "announce" BY DEF AnnounceBan
<1> QED BY <1>1, <1>3, <1>4, <1>5, <1>6, <1>7, <1>8 DEF SetUserStatus

LEMMA LifeOther ==
    ASSUME TypeInv,
           \/ UNCHANGED vars \/ Start \/ ServerStops \/ Shutdown \/ Drained
           \/ \E k \in Keys : ChallengeExpires(k)
           \/ \E t \in sessions : SessionExpires(t)
           \/ CleanupExpired
    PROVE [Life!Next]_(Life!lifeVars)
<1> USE DEF startVars, callVars, banVars, histVars, rowVars
<1>1. CASE SeedAdmin
  <2>1. UNCHANGED <<sessions, at, tries, ban>> /\ Fresh' = Fresh
    BY <1>1, FreshKept DEF SeedAdmin
  <2>2. Banned' = Banned \ {Admin} BY <1>1, AccountsAssumption DEF SeedAdmin, Banned, TypeInv, TypeOK
  <2>3. Life!Reseed BY <2>1, <2>2 DEF Life!Reseed, Fresh, Banned, UnderWay
  <2> QED BY <2>3 DEF Life!Next
<1>2. CASE Halt
  <2> DEFINE ts == {t \in Fresh : ~Unborn(t)'}
  <2>1. \A d \in Devices : at'[d] \in InCall => at[d] \in InCall
    BY <1>2 DEF Halt, InCall, InRequest, InLogin, TypeInv, TypeOK
  <2>2. UNCHANGED <<tries, sessions, status>> /\ ban' = NoBan BY <1>2 DEF Halt
  <2>3. \A t \in Ids : Unborn(t)' => Unborn(t) BY <2>1, <2>2 DEF Unborn, Own, Ids
  <2>4. Fresh' = Fresh \ ts BY <2>3 DEF Fresh
  <2>5. Life!Stop(ts) BY <2>2, <2>4 DEF Life!Stop, Fresh, UnderWay, NoBan
  <2>6. ts \in SUBSET Fresh OBVIOUS
  <2> QED BY <2>5, <2>6 DEF Life!Next, Fresh
<1>3. ASSUME NEW t \in sessions, SessionExpires(t) PROVE Life!Next
  <2>1. sessions' = sessions \ {t} /\ UNCHANGED <<status, at, tries, ban>> /\ Fresh' = Fresh
    BY <1>3, FreshKept DEF SessionExpires
  <2>2. Life!Expire(t) BY <2>1 DEF Life!Expire, Fresh, UnderWay
  <2> QED BY <2>2 DEF Life!Next
<1>4. CASE UNCHANGED <<status, sessions, at, tries, ban>>
  BY <1>4, FreshKept, LifeSame DEF UnderWay, Banned
<1>5. CASE \/ UNCHANGED vars \/ Start \/ Shutdown
           \/ \E k \in Keys : ChallengeExpires(k)
           \/ CleanupExpired
  BY <1>1, <1>4, <1>5, CleanupChanges DEF vars, Start, StartServer, MigrationCheck,
     MigrationScript, MigrationCommit, Shutdown, ChallengeExpires
<1> QED BY <1>2, <1>3, <1>5 DEF ServerStops, Drained

(***************************************************************************)
(* The server keeps its promise about tokens and bans: every statement is  *)
(* a step of TokenLife or of no account to it, for every number of         *)
(* devices, logins, bans and starts.                                       *)
(***************************************************************************)
THEOREM TokenLifeRefinement == Spec => TokenLifeSpec
<1>1. TypeInv /\ SessionInv /\ RowInv /\ [Next]_vars => [Life!Next]_(Life!lifeVars)
  BY LifeCall, LifeBan, LifeOther DEF Next
<1> QED
  BY <1>1, LifeInit, TypeInvariance, SessionInvariance, RowInvariance, PTL
  DEF Spec, TokenLifeSpec, Life!Spec
=============================================================================
