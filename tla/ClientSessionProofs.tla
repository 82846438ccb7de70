------------------------ MODULE ClientSessionProofs ------------------------
(***************************************************************************)
(* What ClientSession keeps for every number of identities, logins,        *)
(* watchers and events: its types, the watcher of an online session, the   *)
(* flags of the user interface, the one session all parts tell of, and the *)
(* number of PINs that can be tried.                                       *)
(***************************************************************************)
EXTENDS ClientSession, FiniteSetTheorems, TLAPS

(* A login that left LoadIdentity has a key.                               *)
Loaded == \A l \in Logins : login[l].pc \in {"rpc", "owner", "session", "done"} => login[l].key \in Keys
TypeInv == TypeOK /\ Loaded

USE KeysAssumption, BoundsAssumption

-----------------------------------------------------------------------------
(* What the operators of the user interface return.                        *)
LEMMA AskType ==
    ASSUME NEW u \in Ui, NEW task \in Tasks PROVE Ask(u, task) \in Ui
BY DEF Ask, Ui

LEMMA RefreshFriendsType == ASSUME NEW u \in Ui PROVE RefreshFriends(u) \in Ui
<1>1. [u EXCEPT !.refreshing = TRUE, !.dropped = (u.key = None)] \in Ui
  BY DEF Ui
<1> QED BY <1>1, AskType DEF RefreshFriends, Tasks

LEMMA SyncUnreadType == ASSUME NEW u \in Ui PROVE SyncUnread(u) \in Ui
<1>1. [u EXCEPT !.syncingUnread = TRUE] \in Ui
  BY DEF Ui
<1> QED BY <1>1, AskType DEF SyncUnread, Tasks

LEMMA RefreshAdminType ==
    ASSUME NEW u \in Ui, RefreshAdmin(u).polls <= MaxPolls PROVE RefreshAdmin(u) \in Ui
<1>1. CASE ~ u.adminList \/ u.refreshingAdmin BY <1>1 DEF RefreshAdmin
<1>2. CASE ~ (~ u.adminList \/ u.refreshingAdmin)
  <2>1. RefreshAdmin(u) = [u EXCEPT !.refreshingAdmin = TRUE, !.polls = @ + 1]
    BY <1>2 DEF RefreshAdmin
  <2>2. u.polls + 1 \in 0 .. MaxPolls
    BY <2>1 DEF Ui
  <2> QED BY <2>1, <2>2 DEF Ui
<1> QED BY <1>1, <1>2

LEMMA ShellType ==
    ASSUME NEW u \in Ui, NEW key \in Keys, NEW offline \in BOOLEAN, NEW admin \in BOOLEAN
    PROVE  [u EXCEPT !.key = key, !.offline = offline, !.poller = TRUE,
                     !.loginInFlight = FALSE, !.syncingUnread = FALSE,
                     !.adminList = @ \/ admin, !.tasks = {},
                     !.dropped = u.refreshing] \in Ui
BY DEF Ui

LEMMA OpenedType ==
    ASSUME NEW u \in Ui, NEW key \in Keys, NEW offline \in BOOLEAN, NEW admin \in BOOLEAN,
           Opened(u, key, offline, admin).polls <= MaxPolls
    PROVE  Opened(u, key, offline, admin) \in Ui
<1> DEFINE shell == [u EXCEPT !.key = key, !.offline = offline, !.poller = TRUE,
                           !.loginInFlight = FALSE, !.syncingUnread = FALSE,
                           !.adminList = @ \/ admin, !.tasks = {},
                           !.dropped = u.refreshing]
<1>1. shell \in Ui BY ShellType
<1>2. RefreshFriends(shell) \in Ui BY <1>1, RefreshFriendsType
<1>3. CASE admin /\ ~ offline
  <2>1. Opened(u, key, offline, admin) = RefreshAdmin(RefreshFriends(shell))
    BY <1>3 DEF Opened
  <2> QED BY <1>2, <2>1, RefreshAdminType
<1>4. CASE ~ (admin /\ ~ offline)
  <2>1. Opened(u, key, offline, admin) = RefreshFriends(shell)
    BY <1>4 DEF Opened
  <2> QED BY <1>2, <2>1
<1> QED BY <1>3, <1>4

LEMMA CancelledType == ASSUME NEW w \in Watch PROVE Cancelled(w) \in Watch
BY DEF Cancelled, Watch, NoWatch, Events

LEMMA CancelLoginsType ==
    ASSUME login \in [Logins -> Login] PROVE CancelLogins(login) \in [Logins -> Login]
<1>1. ASSUME NEW l \in Logins PROVE [login[l] EXCEPT !.ctx = "cancelled"] \in Login
  BY DEF Login
<1> QED BY <1>1 DEF CancelLogins

LEMMA NoLoginType == NoLogin \in Login
BY DEF NoLogin, Login

LEMMA NoWatchType == NoWatch \in Watch /\ Len(NoWatch.queue) = 0
BY DEF NoWatch, Watch

LEMMA NoLockType == NoLock \in [left : 0 .. Attempts, until : {"none", "running", "over"}]
BY DEF NoLock

LEMMA NoSessionType == NoSession \in Ui /\ NoCore \in Core
BY DEF NoSession, NoCore, Ui, Core, Tasks

-----------------------------------------------------------------------------
LEMMA TypeInit == Init => TypeInv
<1> SUFFICES ASSUME Init PROVE TypeInv
  OBVIOUS
<1>1. ui \in Ui /\ core \in Core BY NoSessionType DEF Init
<1>2. lock \in [left : 0 .. Attempts, until : {"none", "running", "over"}]
  BY NoLockType DEF Init
<1>3. login \in [Logins -> Login] /\ Loaded
  BY NoLoginType DEF Init, Loaded, NoLogin
<1>4. watch \in [Watchers -> Watch] /\ \A w \in Watchers : Len(watch[w].queue) <= Buffer
  BY NoWatchType DEF Init
<1> QED BY <1>1, <1>2, <1>3, <1>4 DEF Init, TypeInv, TypeOK

Queues == \A w \in Watchers : Len(watch[w].queue) <= Buffer

LEMMA CancelWatchersType ==
    ASSUME watch \in [Watchers -> Watch], Queues
    PROVE  CancelWatchers \in [Watchers -> Watch] /\
           \A w \in Watchers : Len(CancelWatchers[w].queue) <= Buffer
<1>1. ASSUME NEW w \in Watchers
      PROVE Cancelled(watch[w]) \in Watch /\ Len(Cancelled(watch[w]).queue) <= Buffer
  <2>1. Cancelled(watch[w]) \in Watch BY CancelledType
  <2>2. Cancelled(watch[w]).queue = watch[w].queue BY DEF Cancelled, NoWatch
  <2> QED BY <2>1, <2>2 DEF Queues
<1> QED BY <1>1 DEF CancelWatchers

LEMMA LogoutType ==
    ASSUME TypeInv, NEW watching \in [Watchers -> Watch],
           \A w \in Watchers : Len(watching[w].queue) <= Buffer,
           Logout(watching)
    PROVE  TypeInv'
<1>1. ui' \in Ui BY NoSessionType DEF Logout, TypeInv, TypeOK, Ui, NoSession
<1>2. core' \in Core BY NoSessionType DEF Logout
<1>3. CancelLogins(login) \in [Logins -> Login] BY CancelLoginsType DEF TypeInv, TypeOK
<1>4. ASSUME NEW l \in Logins
      PROVE [CancelLogins(login)[l] EXCEPT !.alone = ~ InFlight(l)] \in Login
  BY <1>3 DEF Login
<1>5. login' \in [Logins -> Login] BY <1>4 DEF Logout
<1>6. ASSUME NEW l \in Logins
      PROVE login'[l].pc = login[l].pc /\ login'[l].key = login[l].key
  <2>1. login'[l] = [CancelLogins(login)[l] EXCEPT !.alone = ~ InFlight(l)] BY DEF Logout
  <2>2. CancelLogins(login)[l].pc = login[l].pc /\ CancelLogins(login)[l].key = login[l].key
    BY DEF CancelLogins, TypeInv, TypeOK, Login
  <2> QED BY <1>3, <2>1, <2>2 DEF Login
<1> QED BY <1>1, <1>2, <1>5, <1>6 DEF Logout, TypeInv, TypeOK, Loaded

LEMMA TypeLock == TypeInv /\ Lock => TypeInv'
<1> SUFFICES ASSUME TypeInv, Lock PROVE TypeInv' OBVIOUS
<1>1. /\ CancelWatchers \in [Watchers -> Watch]
      /\ \A w \in Watchers : Len(CancelWatchers[w].queue) <= Buffer
  BY CancelWatchersType DEF TypeInv, TypeOK, Queues
<1> QED BY <1>1, LogoutType DEF Lock

(* A login moves on, or fails.                                             *)
LEMMA GotoType ==
    ASSUME TypeInv, NEW l \in Logins, NEW new \in Login,
           new.pc \in {"rpc", "owner", "session", "done"} => new.key \in Keys,
           login' = [login EXCEPT ![l] = new]
    PROVE  login' \in [Logins -> Login] /\ Loaded'
BY DEF TypeInv, TypeOK, Loaded

LEMMA FailType ==
    ASSUME TypeInv, NEW l \in Logins, Fail(l)
    PROVE  login' \in [Logins -> Login] /\ Loaded'
<1> DEFINE new == [NoLogin EXCEPT !.pc = "failed", !.alone = login[l].alone]
<1>1. new \in Login /\ new.pc = "failed" BY DEF TypeInv, TypeOK, NoLogin, Login
<1>2. login' = [login EXCEPT ![l] = new] BY DEF Fail
<1> HIDE DEF new
<1> QED BY <1>1, <1>2, GotoType

LEMMA TypeLoginStep ==
    ASSUME TypeInv, NEW l \in Logins, LoginStep(l) PROVE TypeInv'
<1> USE DEF TypeInv, TypeOK
<1> DEFINE Others == /\ lock \in [left : 0 .. Attempts, until : {"none", "running", "over"}]
                     /\ tries \in Nat
<1>1. ASSUME Restored \/ UNCHANGED <<lock, tries>> PROVE Others'
  BY <1>1, NoLockType DEF Restored
<1>2. CASE BeginLogin(l)
  <2> DEFINE others == \E k \in Logins : InFlight(k)
             new(k) == IF k = l THEN [NoLogin EXCEPT !.pc = "check", !.alone = ~ others,
                                !.ctx = IF ui.key = None THEN "background" ELSE "session"]
                       ELSE [login[k] EXCEPT !.alone = ~ InFlight(k)]
  <2>1. ASSUME NEW k \in Logins
        PROVE new(k) \in Login /\ (k # l => new(k).pc = login[k].pc /\ new(k).key = login[k].key)
              /\ new(l).pc = "check"
    BY DEF NoLogin, Login, InFlight
  <2>2. login' = [k \in Logins |-> new(k)] BY <1>2 DEF BeginLogin
  <2> HIDE DEF new
  <2>3. login' \in [Logins -> Login] /\ Loaded'
    BY <2>1, <2>2 DEF Loaded
  <2>4. ui' \in Ui BY <1>2 DEF BeginLogin, Ui
  <2> QED BY <1>2, <2>3, <2>4 DEF BeginLogin
<1>3. CASE CheckLock(l)
  <2>1. Others' BY <1>1, <1>3 DEF CheckLock
  <2>2. CASE Fail(l) BY <1>3, <2>1, <2>2, FailType DEF CheckLock
  <2>3. CASE Goto(l, "load") BY <1>3, <2>1, <2>3 DEF CheckLock, Goto, Login, Loaded
  <2> QED BY <1>3, <2>2, <2>3 DEF CheckLock
<1>4. CASE LoadIdentity(l)
  <2>1. PICK key \in Keys : login' = [login EXCEPT ![l].pc = "rpc", ![l].key = key]
    BY <1>4 DEF LoadIdentity
  <2> DEFINE new == [login[l] EXCEPT !.pc = "rpc", !.key = key]
  <2>2. new \in Login /\ new.key = key BY DEF Login
  <2>3. login' = [login EXCEPT ![l] = new] BY <2>1
  <2> HIDE DEF new
  <2>4. login' \in [Logins -> Login] /\ Loaded' BY <2>2, <2>3, GotoType
  <2> QED BY <1>4, <2>4 DEF LoadIdentity
<1>5. CASE BadPIN(l)
  <2>1. lock' \in [left : 0 .. Attempts, until : {"none", "running", "over"}]
    <3>1. CASE lock.left <= 1 BY <1>5, <3>1 DEF BadPIN
    <3>2. CASE ~ (lock.left <= 1)
      <4>1. lock.left - 1 \in 0 .. Attempts BY <3>2
      <4>2. lock' = [lock EXCEPT !.left = @ - 1] BY <1>5, <3>2 DEF BadPIN
      <4> QED BY <4>1, <4>2
    <3> QED BY <3>1, <3>2
  <2> QED BY <1>5, <2>1, FailType DEF BadPIN
<1>6. CASE RpcLogin(l)
  <2> DEFINE new == [login[l] EXCEPT !.pc = "owner", !.ctx = "background"]
  <2>0. new \in Login /\ new.key = login[l].key /\ login[l].key \in Keys
    BY <1>6 DEF RpcLogin, Login, Loaded
  <2>4. login' = [login EXCEPT ![l] = new] BY <1>6 DEF RpcLogin
  <2> HIDE DEF new
  <2>1. login' \in [Logins -> Login] /\ Loaded' BY <2>0, <2>4, GotoType
  <2>2. core' \in Core BY <1>6, <2>0 DEF RpcLogin, Core
  <2> QED BY <1>6, <2>1, <2>2 DEF RpcLogin
<1>7. CASE Unreachable(l)
  <2> DEFINE new == [login[l] EXCEPT !.pc = "owner", !.ctx = "background", !.offline = TRUE]
  <2>1. new \in Login /\ new.key \in Keys BY <1>7 DEF Unreachable, Login, Loaded
  <2>2. login' = [login EXCEPT ![l] = new] BY <1>7 DEF Unreachable
  <2> HIDE DEF new
  <2>3. login' \in [Logins -> Login] /\ Loaded' BY <2>1, <2>2, GotoType
  <2> QED BY <1>7, <2>3 DEF Unreachable
<1>8. CASE RpcFails(l) BY <1>8, FailType DEF RpcFails
<1>9. CASE SetCacheOwner(l)
  <2> DEFINE new == [login[l] EXCEPT !.pc = "session"]
  <2>0. new \in Login /\ new.key = login[l].key /\ login[l].key \in Keys
    BY <1>9 DEF SetCacheOwner, Login, Loaded
  <2>4. login' = [login EXCEPT ![l] = new] BY <1>9 DEF SetCacheOwner, Goto
  <2> HIDE DEF new
  <2>1. login' \in [Logins -> Login] /\ Loaded' BY <2>0, <2>4, GotoType
  <2>2. core' \in Core BY <1>9 DEF SetCacheOwner, Core, Loaded
  <2> QED BY <1>9, <2>1, <2>2 DEF SetCacheOwner
<1>10. CASE SetSession(l)
  <2> DEFINE new == [login[l] EXCEPT !.pc = "done"]
  <2>0. new \in Login /\ new.key = login[l].key /\ login[l].key \in Keys
    BY <1>10 DEF SetSession, Login, Loaded
  <2>4. login' = [login EXCEPT ![l] = new] BY <1>10 DEF SetSession, Goto
  <2> HIDE DEF new
  <2>1. login' \in [Logins -> Login] /\ Loaded' BY <2>0, <2>4, GotoType
  <2>2. core' \in Core
    <3>1. login[l].key \in Keys /\ login[l].offline \in BOOLEAN BY <1>10 DEF SetSession, Loaded, Login
    <3>2. core' = [core EXCEPT !.key = login[l].key, !.offline = login[l].offline]
      BY <1>10 DEF SetSession
    <3> QED BY <3>1, <3>2 DEF Core
  <2>3. Others' BY <1>1, <1>10 DEF SetSession
  <2> QED BY <1>10, <2>1, <2>2, <2>3 DEF SetSession
<1>11. CASE LoginFailed(l)
  <2>1. login' \in [Logins -> Login] /\ Loaded'
    BY <1>11, GotoType, NoLoginType DEF LoginFailed, NoLogin
  <2>2. ui' \in Ui BY <1>11 DEF LoginFailed, Ui
  <2>3. Others' BY <1>1, <1>11 DEF LoginFailed
  <2> QED BY <1>11, <2>1, <2>2, <2>3 DEF LoginFailed
<1>12. CASE LoginSucceeds(l)
  <2>1. login[l].key \in Keys /\ login[l].offline \in BOOLEAN
    BY <1>12 DEF LoginSucceeds, Loaded, Login
  <2>2. PICK admin \in BOOLEAN :
          ui' = Opened(ui, login[l].key, login[l].offline, admin) /\ ui'.polls <= MaxPolls
    BY <1>12 DEF LoginSucceeds
  <2>3. ui' \in Ui BY <2>1, <2>2, OpenedType
  <2>4. core' \in Core
    <3>1. core' = [core EXCEPT !.worker = ~ login[l].offline /\ ~ core.offline]
      BY <1>12 DEF LoginSucceeds
    <3>2. (~ login[l].offline /\ ~ core.offline) \in BOOLEAN OBVIOUS
    <3> QED BY <3>1, <3>2 DEF Core
  <2>5. /\ CancelWatchers \in [Watchers -> Watch]
        /\ \A w \in Watchers : Len(CancelWatchers[w].queue) <= Buffer
    BY CancelWatchersType DEF Queues
  <2>6. watch' \in [Watchers -> Watch] /\ \A w \in Watchers : Len(watch'[w].queue) <= Buffer
    <3>1. CASE login[l].offline BY <1>12, <2>5, <3>1 DEF LoginSucceeds
    <3>2. ASSUME NEW w \in Watchers, watch' = WatchEvents(w)
          PROVE watch' \in [Watchers -> Watch] /\ \A v \in Watchers : Len(watch'[v].queue) <= Buffer
      <4> DEFINE new == [NoWatch EXCEPT !.st = "connect", !.live = TRUE]
      <4>1. new \in Watch /\ new.queue = NoWatch.queue BY NoWatchType DEF Watch
      <4>2. watch' = [CancelWatchers EXCEPT ![w] = new] BY <3>2 DEF WatchEvents
      <4> HIDE DEF new
      <4> QED BY <2>5, <4>1, <4>2, NoWatchType
    <3> QED BY <1>12, <3>1, <3>2 DEF LoginSucceeds
  <2>7. login' \in [Logins -> Login] /\ Loaded'
    <3>1. CancelLogins(login) \in [Logins -> Login] BY CancelLoginsType
    <3>2. ASSUME NEW k \in Logins
          PROVE CancelLogins(login)[k].pc = login[k].pc /\ CancelLogins(login)[k].key = login[k].key
      BY DEF CancelLogins, Login
    <3>3. login' = [CancelLogins(login) EXCEPT ![l] = NoLogin] BY <1>12 DEF LoginSucceeds
    <3> QED BY <3>1, <3>2, <3>3, NoLoginType DEF Loaded, NoLogin
  <2>8. entangled' \in BOOLEAN /\ UNCHANGED <<lock, tries>> BY <1>12 DEF LoginSucceeds
  <2> QED BY <2>3, <2>4, <2>6, <2>7, <2>8
<1> QED BY <1>2, <1>3, <1>4, <1>5, <1>6, <1>7, <1>8, <1>9, <1>10, <1>11, <1>12 DEF LoginStep

LEMMA TypeUiStep == ASSUME TypeInv, UiStep PROVE TypeInv'
<1> USE DEF TypeInv, TypeOK, Loaded, Unchanged
<1>1. ui \in Ui OBVIOUS
<1>2. ASSUME NEW task PROVE Answered(task) \in Ui BY DEF Answered, Ui
<1>3. ui' \in Ui
  <2>1. CASE RefreshButton BY <1>1, <2>1, RefreshFriendsType DEF RefreshButton
  <2>3. CASE FriendsAnswer
    <3> DEFINE u == [Answered("friends") EXCEPT !.refreshing = FALSE]
    <3>1. u \in Ui BY <1>2 DEF Ui
    <3>2. ui' \in {u, SyncUnread(u)} BY <2>3 DEF FriendsAnswer
    <3> HIDE DEF u
    <3> QED BY <3>1, <3>2, SyncUnreadType
  <2>4. CASE SweepAnswers BY <1>2, <2>4 DEF SweepAnswers, Ui
  <2>5. CASE ActAnswers
    <3>1. ui' \in {RefreshFriends(ui), RefreshAdmin(ui)} /\ ui'.polls <= MaxPolls
      BY <2>5 DEF ActAnswers, FriendAdded, StatusSet
    <3> QED BY <1>1, <3>1, RefreshFriendsType, RefreshAdminType
  <2>6. CASE PollAnswers
    <3>1. ui.polls - 1 \in 0 .. MaxPolls BY <2>6 DEF PollAnswers, Ui
    <3>2. ui' = [ui EXCEPT !.polls = @ - 1, !.refreshingAdmin = FALSE] BY <2>6 DEF PollAnswers
    <3> QED BY <3>1, <3>2 DEF Ui
  <2>7. CASE ExportPrivateKey BY <2>7 DEF ExportPrivateKey, vars
  <2> QED BY <2>1, <2>3, <2>4, <2>5, <2>6, <2>7 DEF UiStep
<1>4. UNCHANGED <<core, lock, login, watch, entangled, tries>>
  BY DEF UiStep, RefreshButton, ExportPrivateKey, vars, FriendsAnswer,
        SweepAnswers, ActAnswers, PollAnswers, FriendAdded,
        StatusSet
<1> QED BY <1>3, <1>4

(* A watcher moves on.                                                     *)
LEMMA SetWatchType ==
    ASSUME TypeInv, NEW w \in Watchers, NEW new \in Watch, Len(new.queue) <= Buffer,
           SetWatch(w, new)
    PROVE  TypeInv'
BY DEF SetWatch, TypeInv, TypeOK, Loaded

LEMMA TypeWatchStep == ASSUME TypeInv, NEW w \in Watchers, WatchStep(w) PROVE TypeInv'
<1> DEFINE old == watch[w]
<1>0. old \in Watch /\ Len(old.queue) <= Buffer /\ Len(NoWatch.queue) <= Buffer
  BY NoWatchType DEF TypeInv, TypeOK
<1>1. CASE Subscribe(w)
  <2>1. ASSUME NEW st \in {"stream", "wait"} PROVE
          LET new == [old EXCEPT !.st = st] IN new \in Watch /\ Len(new.queue) <= Buffer
    BY <1>0 DEF Watch
  <2> QED BY <1>1, <2>1, SetWatchType DEF Subscribe
<1>2. CASE Receive(w)
  <2>1. PICK e \in Events : SetWatch(w, [old EXCEPT !.queue = Append(@, e)])
    BY <1>2 DEF Receive
  <2>2. /\ Append(old.queue, e) \in Seq(Events)
        /\ Len(Append(old.queue, e)) <= Buffer
    BY <1>0, <1>2 DEF Receive, Watch
  <2> DEFINE new == [old EXCEPT !.queue = Append(@, e)]
  <2>3. new \in Watch /\ new.queue = Append(old.queue, e) BY <1>0, <2>2 DEF Watch
  <2> HIDE DEF new
  <2> QED BY <2>1, <2>2, <2>3, SetWatchType DEF new
<1>3. CASE Break(w)
  <2> DEFINE new == [old EXCEPT !.broken = TRUE]
  <2>1. new \in Watch /\ new.queue = old.queue BY <1>0 DEF Watch
  <2> QED BY <1>0, <1>3, <2>1, SetWatchType DEF Break
<1>4. CASE StreamEnds(w)
  <2> DEFINE new == [NoWatch EXCEPT !.st = "wait", !.live = TRUE]
  <2>1. new \in Watch /\ new.queue = NoWatch.queue BY NoWatchType DEF Watch
  <2> QED BY <1>0, <1>4, <2>1, SetWatchType DEF StreamEnds
<1>5. CASE Backoff(w)
  <2> DEFINE new == [old EXCEPT !.st = "connect"]
  <2>1. new \in Watch /\ new.queue = old.queue BY <1>0 DEF Watch
  <2> QED BY <1>0, <1>5, <2>1, SetWatchType DEF Backoff
<1>6. CASE WatcherEnds(w) BY <1>0, <1>6, NoWatchType, SetWatchType DEF WatcherEnds
<1>7. CASE HandleEvent(w)
  <2> DEFINE rest == [old EXCEPT !.queue = Tail(@)]
             handled == IF rest.live THEN rest ELSE Cancelled(rest)
  <2>0. Tail(old.queue) \in Seq(Events) BY <1>0, <1>7 DEF HandleEvent, Watch
  <2>1. rest \in Watch /\ rest.queue = Tail(old.queue) BY <1>0, <2>0 DEF Watch
  <2>2. Len(Tail(old.queue)) <= Buffer BY <1>0, <1>7 DEF HandleEvent, Watch
  <2>3. Len(rest.queue) <= Buffer BY <2>1, <2>2
  <2> HIDE DEF rest
  <2>4. Cancelled(rest) \in Watch /\ Len(Cancelled(rest).queue) <= Buffer
    <3>1. Cancelled(rest).queue = rest.queue BY DEF Cancelled, NoWatch
    <3> QED BY <2>1, <2>3, <3>1, CancelledType
  <2>5. handled \in Watch /\ Len(handled.queue) <= Buffer BY <2>1, <2>3, <2>4
  <2>6. \/ /\ ui' = RefreshFriends(ui)
           /\ watch' = [watch EXCEPT ![w] = handled]
           /\ UNCHANGED <<core, lock, login, entangled, tries>>
        \/ /\ ui' = RefreshAdmin(RefreshFriends(ui)) /\ ui'.polls <= MaxPolls
           /\ watch' = [watch EXCEPT ![w] = handled]
           /\ UNCHANGED <<core, lock, login, entangled, tries>>
        \/ Logout([CancelWatchers EXCEPT ![w] = Cancelled(rest)])
    BY <1>7 DEF HandleEvent, rest
  <2> HIDE DEF handled
  <2>7. ASSUME ui' \in Ui, watch' = [watch EXCEPT ![w] = handled],
               UNCHANGED <<core, lock, login, entangled, tries>>
        PROVE  TypeInv'
    BY <2>5, <2>7 DEF TypeInv, TypeOK, Loaded
  <2>8. ui \in Ui /\ RefreshFriends(ui) \in Ui BY RefreshFriendsType DEF TypeInv, TypeOK
  <2>10. CASE Logout([CancelWatchers EXCEPT ![w] = Cancelled(rest)])
    <3>1. /\ CancelWatchers \in [Watchers -> Watch]
          /\ \A v \in Watchers : Len(CancelWatchers[v].queue) <= Buffer
      BY CancelWatchersType DEF TypeInv, TypeOK, Queues
    <3> DEFINE watching == [CancelWatchers EXCEPT ![w] = Cancelled(rest)]
    <3>2. watching \in [Watchers -> Watch] /\ \A v \in Watchers : Len(watching[v].queue) <= Buffer
      BY <2>4, <3>1
    <3>3. Logout(watching) BY <2>10
    <3> HIDE DEF watching
    <3> QED BY <3>2, <3>3, LogoutType
  <2> QED BY <2>6, <2>7, <2>8, <2>10, RefreshAdminType
<1> QED BY <1>1, <1>2, <1>3, <1>4, <1>5, <1>6, <1>7 DEF WatchStep

LEMMA TypeStep == TypeInv /\ [Next]_vars => TypeInv'
<1> SUFFICES ASSUME TypeInv, [Next]_vars PROVE TypeInv'
  OBVIOUS
<1>1. CASE UNCHANGED vars BY <1>1 DEF vars, TypeInv, TypeOK, Loaded
<1>2. CASE LockoutEnds BY <1>2 DEF LockoutEnds, TypeInv, TypeOK, Loaded
<1> QED BY <1>1, <1>2, TypeLock, TypeLoginStep, TypeUiStep, TypeWatchStep DEF Next

(* Every value stays of its type: the attempts left among them, which two  *)
(* logins that fail at a time do not take below zero.                      *)
THEOREM TypeCorrect == Spec => []TypeOK
<1>1. TypeInv => TypeOK BY DEF TypeInv
<1> QED BY <1>1, TypeInit, TypeStep, PTL DEF Spec

LEMMA TypeInvariance == Spec => []TypeInv
BY TypeInit, TypeStep, PTL DEF Spec

-----------------------------------------------------------------------------
(***************************************************************************)
(* Of a watcher's steps only HandleEvent reaches beyond the watcher.  The  *)
(* flags of the user interface: SyncUnread needs a session to ask in, so   *)
(* that there being no task without one is part of the invariant.          *)
(***************************************************************************)
LEMMA OwnStep ==
    ASSUME NEW w \in Watchers, WatchStep(w)
    PROVE  HandleEvent(w) \/ UNCHANGED <<ui, core, lock, login, entangled, tries>>
<1>1. CASE Subscribe(w) BY <1>1 DEF Subscribe, SetWatch
<1>2. CASE Receive(w) BY <1>2 DEF Receive, SetWatch
<1>3. CASE Break(w) BY <1>3 DEF Break, SetWatch
<1>4. CASE StreamEnds(w) BY <1>4 DEF StreamEnds, SetWatch
<1>5. CASE Backoff(w) BY <1>5 DEF Backoff, SetWatch
<1>6. CASE WatcherEnds(w) BY <1>6 DEF WatcherEnds, SetWatch
<1> QED BY <1>1, <1>2, <1>3, <1>4, <1>5, <1>6 DEF WatchStep

Flags(u) ==
    /\ u.key = None => u.tasks = {}
    /\ u.syncingUnread => "sweep" \in u.tasks
    /\ u.refreshingAdmin => u.polls > 0
    /\ u.refreshing => "friends" \in u.tasks \/ u.dropped

LEMMA AskFlags == ASSUME NEW u \in Ui, NEW task \in Tasks, Flags(u) PROVE Flags(Ask(u, task))
BY DEF Flags, Ask, Ui

LEMMA RefreshFriendsFlags == ASSUME NEW u \in Ui, Flags(u) PROVE Flags(RefreshFriends(u))
<1>1. CASE u.refreshing BY <1>1 DEF RefreshFriends
<1>2. CASE ~ u.refreshing /\ u.key = None
  <2>1. RefreshFriends(u) = [u EXCEPT !.refreshing = TRUE, !.dropped = TRUE]
    BY <1>2 DEF RefreshFriends, Ask, Ui
  <2> QED BY <2>1 DEF Flags, Ui
<1>3. CASE ~ u.refreshing /\ u.key # None
  <2>1. RefreshFriends(u) = [u EXCEPT !.refreshing = TRUE, !.dropped = FALSE,
                                      !.tasks = @ \cup {"friends"}]
    BY <1>3 DEF RefreshFriends, Ask, Ui
  <2> QED BY <1>3, <2>1 DEF Flags, Ui
<1> QED BY <1>1, <1>2, <1>3 DEF Ui

LEMMA RefreshAdminFlags ==
    ASSUME NEW u \in Ui, Flags(u) PROVE Flags(RefreshAdmin(u))
BY DEF Flags, RefreshAdmin, Ui

LEMMA SyncUnreadFlags ==
    ASSUME NEW u \in Ui, Flags(u), u.key # None PROVE Flags(SyncUnread(u))
<1>1. CASE u.offline \/ u.syncingUnread BY <1>1 DEF SyncUnread
<1>2. CASE ~ (u.offline \/ u.syncingUnread)
  <2>1. SyncUnread(u) = [u EXCEPT !.syncingUnread = TRUE, !.tasks = @ \cup {"sweep"}]
    BY <1>2 DEF SyncUnread, Ask, Ui
  <2> QED BY <2>1 DEF Flags, Ui
<1> QED BY <1>1, <1>2

LEMMA OpenedFlags ==
    ASSUME NEW u \in Ui, NEW key \in Keys, NEW offline \in BOOLEAN, NEW admin \in BOOLEAN, Flags(u)
    PROVE  Flags(Opened(u, key, offline, admin))
<1> DEFINE shell == [u EXCEPT !.key = key, !.offline = offline, !.poller = TRUE,
                           !.loginInFlight = FALSE, !.syncingUnread = FALSE,
                           !.adminList = @ \/ admin, !.tasks = {},
                           !.dropped = u.refreshing]
           friends == RefreshFriends(shell)
<1>1. shell \in Ui BY ShellType
<1>2. Flags(shell)
  <2>1. /\ shell.key = key /\ shell.syncingUnread = FALSE /\ shell.dropped = u.refreshing
        /\ shell.refreshing = u.refreshing /\ shell.polls = u.polls
        /\ shell.refreshingAdmin = u.refreshingAdmin
    BY DEF Ui
  <2> HIDE DEF shell
  <2> QED BY <2>1 DEF Flags
<1>3. Opened(u, key, offline, admin) = IF admin /\ ~ offline THEN RefreshAdmin(friends) ELSE friends
  BY DEF Opened
<1> HIDE DEF shell
<1>4. friends \in Ui /\ Flags(friends) BY <1>1, <1>2, RefreshFriendsFlags, RefreshFriendsType
<1> HIDE DEF friends
<1> QED BY <1>3, <1>4, RefreshAdminFlags

(* A session that is over has no flag set.                                 *)
LEMMA NoSessionFlags == ASSUME TypeInv PROVE Flags([NoSession EXCEPT !.adminList = ui.adminList, !.polls = ui.polls])
BY DEF Flags, NoSession

LEMMA FlagsInit == Init => Flags(ui)
BY DEF Init, Flags, NoSession

LEMMA FlagsStep == TypeInv /\ Flags(ui) /\ [Next]_vars => Flags(ui')
<1> SUFFICES ASSUME TypeInv, Flags(ui), [Next]_vars PROVE Flags(ui')
  OBVIOUS
<1>0. ui \in Ui BY DEF TypeInv, TypeOK
<1>1. CASE UNCHANGED ui BY <1>1
<1>2. ASSUME NEW watching, Logout(watching) PROVE Flags(ui')
  BY <1>2, NoSessionFlags DEF Logout
<1>3. CASE Lock BY <1>2, <1>3 DEF Lock
<1>4. CASE UiStep
  <2>1. CASE RefreshButton BY <1>0, <2>1, RefreshFriendsFlags DEF RefreshButton
  <2>3. CASE FriendsAnswer
    <3> DEFINE u == [Answered("friends") EXCEPT !.refreshing = FALSE]
    <3>1. u \in Ui /\ u.key # None BY <1>0, <2>3 DEF FriendsAnswer, Answered, Ui, Flags
    <3>2. Flags(u)
      <4>1. /\ u.refreshing = FALSE /\ u.tasks = ui.tasks \ {"friends"}
            /\ u.syncingUnread = ui.syncingUnread /\ u.refreshingAdmin = ui.refreshingAdmin
            /\ u.polls = ui.polls
        BY <1>0 DEF Answered, Ui
      <4> HIDE DEF u
      <4> QED BY <3>1, <4>1 DEF Flags
    <3>3. ui' \in {u, SyncUnread(u)} BY <2>3 DEF FriendsAnswer
    <3> HIDE DEF u
    <3> QED BY <3>1, <3>2, <3>3, SyncUnreadFlags
  <2>4. CASE SweepAnswers
    <3>1. /\ ui'.syncingUnread = FALSE /\ ui'.tasks = ui.tasks \ {"sweep"} /\ ui'.key = ui.key
          /\ ui'.refreshing = ui.refreshing /\ ui'.refreshingAdmin = ui.refreshingAdmin
          /\ ui'.polls = ui.polls /\ ui'.dropped = ui.dropped
      BY <1>0, <2>4 DEF SweepAnswers, Answered, Ui
    <3> QED BY <3>1 DEF Flags
  <2>5. CASE ActAnswers
    <3>1. ui' \in {RefreshFriends(ui), RefreshAdmin(ui)} BY <2>5 DEF ActAnswers, FriendAdded, StatusSet
    <3> QED BY <1>0, <3>1, RefreshFriendsFlags, RefreshAdminFlags
  <2>6. CASE PollAnswers BY <1>0, <2>6 DEF PollAnswers, Ui, Flags
  <2>7. CASE ExportPrivateKey BY <2>7 DEF ExportPrivateKey, vars
  <2> QED BY <1>4, <2>1, <2>3, <2>4, <2>5, <2>6, <2>7 DEF UiStep
<1>5. ASSUME NEW l \in Logins, LoginStep(l) PROVE Flags(ui')
  <2>1. CASE BeginLogin(l) BY <1>0, <2>1 DEF BeginLogin, Flags, Ui
  <2>2. CASE LoginFailed(l) BY <1>0, <2>2 DEF LoginFailed, Flags, Ui
  <2>3. CASE LoginSucceeds(l)
    <3>1. login[l].key \in Keys /\ login[l].offline \in BOOLEAN
      BY <2>3 DEF LoginSucceeds, TypeInv, TypeOK, Loaded, Login
    <3>2. PICK admin \in BOOLEAN : ui' = Opened(ui, login[l].key, login[l].offline, admin)
      BY <2>3 DEF LoginSucceeds
    <3> QED BY <1>0, <3>1, <3>2, OpenedFlags
  <2> QED BY <1>1, <1>5, <2>1, <2>2, <2>3 DEF LoginStep, CheckLock, LoadIdentity, BadPIN,
        RpcLogin, Unreachable, RpcFails, SetCacheOwner, SetSession
<1>6. ASSUME NEW w \in Watchers, WatchStep(w) PROVE Flags(ui')
  <2>1. CASE HandleEvent(w)
    <3>1. RefreshFriends(ui) \in Ui /\ Flags(RefreshFriends(ui))
      BY <1>0, RefreshFriendsType, RefreshFriendsFlags
    <3>3. Flags(RefreshAdmin(RefreshFriends(ui))) BY <3>1, RefreshAdminFlags
    <3> QED BY <1>2, <2>1, <3>1, <3>3 DEF HandleEvent
  <2> QED BY <1>1, <1>6, <2>1, OwnStep
<1> QED BY <1>1, <1>3, <1>4, <1>5, <1>6 DEF Next, vars, LockoutEnds

(* A flag that is set is answered, whatever sessions come and go.          *)
THEOREM FlagsCorrect == Spec => []FlagsAnswered
<1> DEFINE FlagsInv == Flags(ui)
<1>1. FlagsInv => FlagsAnswered BY DEF Flags, FlagsAnswered
<1>2. Init => FlagsInv BY FlagsInit
<1>3. TypeInv /\ FlagsInv /\ [Next]_vars => FlagsInv' BY FlagsStep
<1> HIDE DEF FlagsInv
<1> QED BY <1>1, <1>2, <1>3, TypeInvariance, PTL DEF Spec

-----------------------------------------------------------------------------
(***************************************************************************)
(* The watcher of an online session.                                       *)
(***************************************************************************)
SameShell(u, v) == v.key = u.key /\ v.offline = u.offline /\ v.poller = u.poller

SameFace(u, v) == SameShell(u, v) /\ v.loginInFlight = u.loginInFlight

LEMMA RefreshFace ==
    ASSUME NEW u \in Ui
    PROVE  /\ SameFace(u, RefreshFriends(u)) /\ SameFace(u, RefreshAdmin(u))
           /\ SameFace(u, SyncUnread(u))
           /\ \A task \in Tasks : SameFace(u, Ask(u, task))
<1>1. ASSUME NEW v \in Ui, NEW task \in Tasks PROVE SameFace(v, Ask(v, task))
  BY DEF SameFace, SameShell, Ask, Ui
<1>2. SameFace(u, RefreshFriends(u))
  <2> DEFINE v == [u EXCEPT !.refreshing = TRUE, !.dropped = (u.key = None)]
  <2>1. v \in Ui /\ SameFace(u, v) BY DEF SameFace, SameShell, Ui
  <2>2. RefreshFriends(u) \in {u, Ask(v, "friends")} BY DEF RefreshFriends
  <2> HIDE DEF v
  <2> QED BY <1>1, <2>1, <2>2 DEF SameFace, SameShell, Tasks
<1>3. SameFace(u, RefreshAdmin(u)) BY DEF SameFace, SameShell, RefreshAdmin, Ui
<1>4. SameFace(u, SyncUnread(u))
  <2> DEFINE v == [u EXCEPT !.syncingUnread = TRUE]
  <2>1. v \in Ui /\ SameFace(u, v) BY DEF SameFace, SameShell, Ui
  <2>2. SyncUnread(u) \in {u, Ask(v, "sweep")} BY DEF SyncUnread
  <2> HIDE DEF v
  <2> QED BY <1>1, <2>1, <2>2 DEF SameFace, SameShell, Tasks
<1> QED BY <1>1, <1>2, <1>3, <1>4

LEMMA OpenedFace ==
    ASSUME TypeInv, NEW l \in Logins, LoginSucceeds(l)
    PROVE  /\ login[l].key \in Keys /\ login[l].offline \in BOOLEAN
           /\ ui'.key = login[l].key /\ ui'.offline = login[l].offline /\ ui'.poller = TRUE
<1>0. ui \in Ui /\ login[l].key \in Keys /\ login[l].offline \in BOOLEAN
  BY DEF LoginSucceeds, TypeInv, TypeOK, Loaded, Login
<1>1. PICK admin \in BOOLEAN : ui' = Opened(ui, login[l].key, login[l].offline, admin)
  BY DEF LoginSucceeds
<1> DEFINE shell == [ui EXCEPT !.key = login[l].key, !.offline = login[l].offline, !.poller = TRUE,
                           !.loginInFlight = FALSE, !.syncingUnread = FALSE,
                           !.adminList = @ \/ admin, !.tasks = {},
                           !.dropped = ui.refreshing]
           friends == RefreshFriends(shell)
<1>2. /\ shell \in Ui /\ shell.key = login[l].key /\ shell.offline = login[l].offline
      /\ shell.poller = TRUE
  <2> DEFINE key == login[l].key
             offline == login[l].offline
  <2>1. ui \in Ui /\ key \in Keys /\ offline \in BOOLEAN BY <1>0
  <2>2. shell = [ui EXCEPT !.key = key, !.offline = offline, !.poller = TRUE,
                           !.loginInFlight = FALSE, !.syncingUnread = FALSE,
                           !.adminList = @ \/ admin, !.tasks = {}, !.dropped = ui.refreshing]
    OBVIOUS
  <2> HIDE DEF key, offline, shell
  <2>3. shell \in Ui BY <2>1, <2>2, ShellType
  <2>4. shell.key = key /\ shell.offline = offline /\ shell.poller = TRUE
    BY <2>1, <2>2 DEF Ui
  <2> QED BY <2>3, <2>4 DEF key, offline
<1>3. ui' \in {RefreshAdmin(friends), friends}
  BY <1>1 DEF Opened
<1> HIDE DEF shell
<1>4. friends \in Ui /\ SameFace(shell, friends) BY <1>2, RefreshFace, RefreshFriendsType
<1> HIDE DEF friends
<1> QED BY <1>0, <1>2, <1>3, <1>4, RefreshFace DEF SameFace, SameShell

LEMMA UiFace == ASSUME TypeInv, UiStep PROVE SameFace(ui, ui')
<1>0. ui \in Ui BY DEF TypeInv, TypeOK
<1>1. CASE RefreshButton BY <1>0, <1>1, RefreshFace DEF RefreshButton
<1>3. CASE FriendsAnswer
  <2> DEFINE u == [Answered("friends") EXCEPT !.refreshing = FALSE]
  <2>1. u \in Ui /\ SameFace(ui, u) BY <1>0 DEF Answered, Ui, SameFace, SameShell
  <2>2. ui' \in {u, SyncUnread(u)} BY <1>3 DEF FriendsAnswer
  <2> HIDE DEF u
  <2> QED BY <2>1, <2>2, RefreshFace DEF SameFace, SameShell
<1>4. CASE SweepAnswers BY <1>0, <1>4 DEF SweepAnswers, Answered, Ui, SameFace, SameShell
<1>5. CASE ActAnswers
  <2>1. ui' \in {RefreshFriends(ui), RefreshAdmin(ui)} BY <1>5 DEF ActAnswers, FriendAdded, StatusSet
  <2> QED BY <1>0, <2>1, RefreshFace
<1>6. CASE PollAnswers BY <1>0, <1>6 DEF PollAnswers, Ui, SameFace, SameShell
<1>7. CASE ExportPrivateKey BY <1>7 DEF ExportPrivateKey, vars, SameFace, SameShell
<1> QED BY <1>1, <1>3, <1>4, <1>5, <1>6, <1>7 DEF UiStep

LEMMA CancelledDead ==
    ASSUME watch \in [Watchers -> Watch]
    PROVE  /\ \A w \in Watchers : ~ CancelWatchers[w].live
           /\ DOMAIN CancelWatchers = Watchers
BY DEF CancelWatchers, Cancelled, NoWatch

LEMMA ServedInit == Init => SessionServed
BY DEF Init, SessionServed, Online, NoSession, NoWatch

(* Lock, or a ForceOffline: no watcher stays.                              *)
LEMMA ServedLogout ==
    ASSUME NEW watching, \A w \in Watchers : ~ watching[w].live, Logout(watching)
    PROVE  SessionServed'
BY DEF Logout, SessionServed, Online, NoSession

LEMMA ServedSame ==
    ASSUME SessionServed, SameShell(ui, ui'), UNCHANGED watch PROVE SessionServed'
BY DEF SameFace, SameShell, SessionServed, Online

(* A watcher goes on, live or not as it was.                               *)
LEMMA ServedWatch ==
    ASSUME TypeInv, SessionServed, SameShell(ui, ui'), NEW w \in Watchers, NEW new,
           watch' = [watch EXCEPT ![w] = new],
           new.live = watch[w].live, new.live => new.st # "off"
    PROVE  SessionServed'
BY DEF TypeInv, TypeOK, SameFace, SameShell, SessionServed, Online

LEMMA ServedStep == TypeInv /\ SessionServed /\ [Next]_vars => SessionServed'
<1> SUFFICES ASSUME TypeInv, SessionServed, [Next]_vars PROVE SessionServed'
  OBVIOUS
<1>0. ui \in Ui /\ watch \in [Watchers -> Watch] BY DEF TypeInv, TypeOK
<1>1. CASE UNCHANGED <<ui, watch>> BY <1>1, ServedSame DEF SameFace, SameShell
<1>2. CASE Lock BY <1>0, <1>2, ServedLogout, CancelledDead DEF Lock
<1>3. CASE UiStep
  <2>1. UNCHANGED watch
    BY <1>3 DEF UiStep, RefreshButton, ExportPrivateKey, vars, FriendsAnswer,
        SweepAnswers, ActAnswers, PollAnswers, FriendAdded,
        StatusSet, Unchanged
  <2> QED BY <1>3, <2>1, UiFace, ServedSame DEF SameFace
<1>4. ASSUME NEW l \in Logins, LoginStep(l) PROVE SessionServed'
  <2>1. CASE BeginLogin(l) \/ LoginFailed(l)
    <3>1. SameShell(ui, ui') /\ UNCHANGED watch
      BY <1>0, <2>1 DEF BeginLogin, LoginFailed, SameFace, SameShell, Ui
    <3> QED BY <3>1, ServedSame
  <2>2. CASE LoginSucceeds(l)
    <3>1. login[l].key \in Keys /\ login[l].offline \in BOOLEAN
      BY <2>2 DEF LoginSucceeds, TypeInv, TypeOK, Loaded, Login
    <3>2. ui'.key = login[l].key /\ ui'.offline = login[l].offline /\ ui'.poller = TRUE
      BY <2>2, OpenedFace
    <3>3. CASE login[l].offline
      BY <1>0, <2>2, <3>1, <3>2, <3>3, CancelledDead DEF LoginSucceeds, SessionServed, Online
    <3>4. CASE ~ login[l].offline
      <4>1. PICK w \in Watchers : watch' = WatchEvents(w)
        BY <2>2, <3>4 DEF LoginSucceeds
      <4>2. watch'[w].live /\ watch'[w].st # "off"
        BY <4>1, CancelledDead, <1>0 DEF WatchEvents, NoWatch
      <4>3. \A v \in Watchers \ {w} : ~ watch'[v].live
        BY <4>1, CancelledDead, <1>0 DEF WatchEvents
      <4> QED BY <3>1, <3>2, <3>4, <4>2, <4>3 DEF SessionServed, Online
    <3> QED BY <3>1, <3>3, <3>4
  <2> QED BY <1>1, <1>4, <2>1, <2>2 DEF LoginStep, CheckLock, LoadIdentity, BadPIN,
        RpcLogin, Unreachable, RpcFails, SetCacheOwner, SetSession
<1>5. ASSUME NEW w \in Watchers, WatchStep(w) PROVE SessionServed'
  <2> DEFINE old == watch[w]
  <2>0. old \in Watch BY <1>0
  <2>1. ASSUME NEW new, SetWatch(w, new), new.live = old.live, new.live => new.st # "off"
        PROVE SessionServed'
    BY <2>1, ServedWatch DEF SetWatch, SameFace, SameShell
  <2>2. CASE Subscribe(w)
    <3>1. ASSUME NEW st \in {"stream", "wait"} PROVE
            LET new == [old EXCEPT !.st = st] IN new.live = old.live /\ new.st # "off"
      BY <2>0 DEF Watch
    <3> QED BY <2>1, <2>2, <3>1 DEF Subscribe
  <2>3. CASE Receive(w)
    <3>1. PICK e \in Events : SetWatch(w, [old EXCEPT !.queue = Append(@, e)])
      BY <2>3 DEF Receive
    <3>2. LET new == [old EXCEPT !.queue = Append(@, e)] IN new.live = old.live /\ new.st = "stream"
      BY <2>0, <2>3 DEF Receive, Streaming, Watch
    <3> QED BY <2>1, <3>1, <3>2
  <2>4. CASE Break(w)
    <3>1. LET new == [old EXCEPT !.broken = TRUE] IN new.live = old.live /\ new.st = "stream"
      BY <2>0, <2>4 DEF Break, Streaming, Watch
    <3> QED BY <2>1, <2>4, <3>1 DEF Break
  <2>5. CASE StreamEnds(w)
    <3>1. LET new == [NoWatch EXCEPT !.st = "wait", !.live = TRUE] IN new.live = TRUE /\ new.st = "wait"
      BY DEF NoWatch
    <3>2. old.live = TRUE BY <2>0, <2>5 DEF StreamEnds, Watch
    <3> QED BY <2>1, <2>5, <3>1, <3>2 DEF StreamEnds
  <2>6. CASE Backoff(w)
    <3>1. LET new == [old EXCEPT !.st = "connect"] IN new.live = old.live /\ new.st = "connect"
      BY <2>0 DEF Watch
    <3> QED BY <2>1, <2>6, <3>1 DEF Backoff
  <2>7. CASE WatcherEnds(w)
    <3>1. old.live = FALSE /\ NoWatch.live = FALSE BY <2>0, <2>7 DEF WatcherEnds, NoWatch, Watch
    <3> QED BY <2>1, <2>7, <3>1 DEF WatcherEnds
  <2>8. CASE HandleEvent(w)
    <3> DEFINE rest == [old EXCEPT !.queue = Tail(@)]
               handled == IF rest.live THEN rest ELSE Cancelled(rest)
    <3>1. rest.live = old.live /\ rest.st = old.st BY <2>0 DEF Watch
    <3>2. \/ /\ ui' = RefreshFriends(ui)
             /\ watch' = [watch EXCEPT ![w] = handled]
          \/ /\ ui' = RefreshAdmin(RefreshFriends(ui))
             /\ watch' = [watch EXCEPT ![w] = handled]
          \/ Logout([CancelWatchers EXCEPT ![w] = Cancelled(rest)])
      BY <2>8 DEF HandleEvent
    <3> HIDE DEF rest
    <3>3. Cancelled(rest).live = FALSE BY DEF Cancelled, NoWatch
    <3>4. handled.live = old.live /\ (handled.live => handled.st # "off")
      BY <2>0, <3>1, <3>3 DEF SessionServed, Watch
    <3> HIDE DEF handled
    <3>5. ui \in Ui /\ RefreshFriends(ui) \in Ui BY <1>0, RefreshFriendsType
    <3>6. SameFace(ui, RefreshFriends(ui)) BY <3>5, RefreshFace
    <3>7. SameFace(ui, RefreshAdmin(RefreshFriends(ui))) BY <3>5, RefreshFace DEF SameFace, SameShell
    <3>8. CASE Logout([CancelWatchers EXCEPT ![w] = Cancelled(rest)])
      <4> DEFINE watching == [CancelWatchers EXCEPT ![w] = Cancelled(rest)]
      <4>1. \A v \in Watchers : ~ watching[v].live BY <1>0, <3>3, CancelledDead
      <4>2. Logout(watching) BY <3>8
      <4> HIDE DEF watching
      <4> QED BY <4>1, <4>2, ServedLogout
    <3> QED BY <3>2, <3>4, <3>6, <3>7, <3>8, ServedWatch DEF SameFace
  <2> QED BY <1>5, <2>2, <2>3, <2>4, <2>5, <2>6, <2>7, <2>8 DEF WatchStep
<1> QED BY <1>1, <1>2, <1>3, <1>4, <1>5 DEF Next, vars, LockoutEnds

(* One watcher for an online session, none for any other: through every    *)
(* order of logins, reconnects, Lock, ForceOffline and broken streams.     *)
THEOREM ServedCorrect == Spec => []SessionServed
BY ServedInit, ServedStep, TypeInvariance, PTL DEF Spec

-----------------------------------------------------------------------------
(***************************************************************************)
(* One session.  A login that began with no other in flight, and saw no    *)
(* Lock since, is alone: what it has written so far is what it will open.  *)
(***************************************************************************)
OneSession ==
    /\ core.key = ui.key /\ core.owner = ui.key
    /\ core.offline = ui.offline
    /\ Online => core.token = ui.key
    /\ core.worker <=> Online

Before == {"idle", "check", "load", "rpc", "failed"}

AloneIsAlone == \A l \in Logins : InFlight(l) /\ login[l].alone =>
    ui.loginInFlight /\ \A k \in Logins : k # l => ~ InFlight(k)

NoneEntangled == \A l \in Logins : ~ entangled /\ InFlight(l) => login[l].alone

UntilWritten == ~ entangled /\ (\A l \in Logins : login[l].pc \in Before) => OneSession

Written(l) ==
    /\ login[l].pc \in {"owner", "session", "done"} /\ ~ login[l].offline => core.token = login[l].key
    /\ login[l].pc \in {"session", "done"} => core.owner = login[l].key
    /\ login[l].pc = "done" => core.key = login[l].key /\ core.offline = login[l].offline

AloneWrites == \A l \in Logins : login[l].alone => Written(l)

AgreeInv == AloneIsAlone /\ NoneEntangled /\ UntilWritten /\ AloneWrites

LEMMA AgreeInit == Init => AgreeInv
<1> SUFFICES ASSUME Init PROVE AgreeInv
  OBVIOUS
<1>1. \A l \in Logins : login[l].pc = "idle" BY DEF Init, NoLogin
<1>2. OneSession BY DEF Init, OneSession, Online, NoSession, NoCore
<1> QED BY <1>1, <1>2 DEF AgreeInv, AloneIsAlone, NoneEntangled, UntilWritten, AloneWrites,
      Written, InFlight

LEMMA AgreeLogout ==
    ASSUME TypeInv, NEW watching, Logout(watching) PROVE AgreeInv'
<1>1. CancelLogins(login) \in [Logins -> Login] BY CancelLoginsType DEF TypeInv, TypeOK
<1>2. ASSUME NEW l \in Logins
      PROVE login'[l].pc = login[l].pc /\ login'[l].alone = ~ InFlight(l)
  <2>1. login'[l] = [CancelLogins(login)[l] EXCEPT !.alone = ~ InFlight(l)] BY DEF Logout
  <2>2. CancelLogins(login)[l].pc = login[l].pc BY DEF CancelLogins, TypeInv, TypeOK, Login
  <2> QED BY <1>1, <2>1, <2>2 DEF Login
<1>3. ASSUME NEW l \in Logins PROVE InFlight(l)' <=> InFlight(l) BY <1>2 DEF InFlight
<1>4. AloneIsAlone' /\ NoneEntangled' BY <1>2, <1>3 DEF AloneIsAlone, NoneEntangled, Logout
<1>5. UntilWritten'
  BY DEF UntilWritten, Logout, OneSession, Online, NoSession, NoCore
<1>6. AloneWrites' BY <1>2 DEF AloneWrites, Written, InFlight
<1> QED BY <1>4, <1>5, <1>6 DEF AgreeInv

(* What touches neither the parts nor the logins.                          *)
LEMMA AgreeSame ==
    ASSUME AgreeInv, SameFace(ui, ui'), UNCHANGED <<core, login, entangled>> PROVE AgreeInv'
BY DEF AgreeInv, AloneIsAlone, NoneEntangled, UntilWritten, AloneWrites, Written, OneSession,
   Online, InFlight, SameFace, SameShell

(* A login moves on, and writes what is its to write.                      *)
LEMMA AgreeMoves ==
    ASSUME TypeInv, AgreeInv, NEW l \in Logins, InFlight(l), NEW new,
           login' = [login EXCEPT ![l] = new],
           UNCHANGED <<ui, entangled>>,
           new.pc # "idle", new.alone = login[l].alone,
           new.pc \in Before => UNCHANGED core /\ login[l].pc \in Before,
           new.alone => Written(l)'
    PROVE  AgreeInv'
<1>1. login'[l] = new /\ \A k \in Logins \ {l} : login'[k] = login[k]
  BY DEF TypeInv, TypeOK
<1>2. \A k \in Logins : InFlight(k)' <=> InFlight(k) BY <1>1 DEF InFlight
<1>3. AloneIsAlone' BY <1>1, <1>2 DEF AgreeInv, AloneIsAlone
<1>4. NoneEntangled' BY <1>1, <1>2 DEF AgreeInv, NoneEntangled
<1>5. UntilWritten'
  <2> SUFFICES ASSUME ~ entangled', \A k \in Logins : login'[k].pc \in Before PROVE OneSession'
    BY DEF UntilWritten
  <2>1. new.pc \in Before BY <1>1
  <2>2. \A k \in Logins : login[k].pc \in Before BY <1>1, <2>1
  <2> QED BY <2>1, <2>2 DEF AgreeInv, UntilWritten, OneSession, Online
<1>6. AloneWrites'
  <2> SUFFICES ASSUME NEW k \in Logins, login'[k].alone PROVE Written(k)'
    BY DEF AloneWrites
  <2>1. CASE k = l BY <1>1, <2>1
  <2>2. CASE k # l
    <3>1. login'[k] = login[k] /\ ~ InFlight(k)
      BY <1>1, <2>2 DEF AgreeInv, AloneIsAlone
    <3> QED BY <3>1 DEF Written, InFlight
  <2> QED BY <2>1, <2>2
<1> QED BY <1>3, <1>4, <1>5, <1>6 DEF AgreeInv

LEMMA AgreeLoginStep ==
    ASSUME TypeInv, AgreeInv, NEW l \in Logins, LoginStep(l) PROVE AgreeInv'
<1> USE DEF InFlight
<1>0. login \in [Logins -> Login] /\ login[l] \in Login /\ ui \in Ui /\ core \in Core
  BY DEF TypeInv, TypeOK
<1>f. ASSUME Fail(l), login[l].pc \in Before, InFlight(l), UNCHANGED <<ui, core, entangled>>
      PROVE AgreeInv'
  <2> DEFINE new == [NoLogin EXCEPT !.pc = "failed", !.alone = login[l].alone]
  <2>1. new.pc = "failed" /\ new.alone = login[l].alone BY <1>0 DEF NoLogin
  <2>2. login' = [login EXCEPT ![l] = new] BY <1>f DEF Fail
  <2> HIDE DEF new
  <2>3. Written(l)' BY <1>0, <2>1, <2>2 DEF Written
  <2> QED BY <1>f, <2>1, <2>2, <2>3, AgreeMoves DEF Before
<1>g. ASSUME NEW pc \in {"load", "rpc"}, NEW key, login[l].pc \in Before, InFlight(l),
             UNCHANGED <<ui, core, entangled>>,
             login' = [login EXCEPT ![l].pc = pc, ![l].key = key] \/ Goto(l, pc)
      PROVE AgreeInv'
  <2>1. PICK new : /\ login' = [login EXCEPT ![l] = new]
                   /\ new.pc = pc /\ new.alone = login[l].alone
    BY <1>0, <1>g DEF Goto, Login
  <2>2. Written(l)' BY <1>0, <2>1 DEF Written
  <2> QED BY <1>g, <2>1, <2>2, AgreeMoves DEF Before
<1>1. CASE BeginLogin(l)
  <2> DEFINE others == \E k \in Logins : InFlight(k)
             new(k) == IF k = l THEN [NoLogin EXCEPT !.pc = "check", !.alone = ~ others,
                                !.ctx = IF ui.key = None THEN "background" ELSE "session"]
                       ELSE [login[k] EXCEPT !.alone = ~ InFlight(k)]
  <2>1. login' = [k \in Logins |-> new(k)] BY <1>1 DEF BeginLogin
  <2>2. new(l).pc = "check" /\ new(l).alone = ~ others BY DEF NoLogin
  <2>3. ASSUME NEW k \in Logins, k # l
        PROVE new(k).pc = login[k].pc /\ new(k).alone = ~ InFlight(k)
    BY <1>0, <2>3 DEF Login
  <2> HIDE DEF new
  <2>4. login'[l].pc = "check" /\ login'[l].alone = ~ others BY <2>1, <2>2
  <2>5. \A k \in Logins \ {l} : login'[k].pc = login[k].pc /\ login'[k].alone = ~ InFlight(k)
    BY <2>1, <2>3
  <2>6. /\ UNCHANGED <<core, entangled>> /\ ui'.loginInFlight = TRUE
        /\ ui'.key = ui.key /\ ui'.offline = ui.offline
        /\ ~ ui.loginInFlight /\ ~ InFlight(l)
    BY <1>0, <1>1 DEF BeginLogin, Ui
  <2>7. others => entangled BY <2>6 DEF AgreeInv, AloneIsAlone, NoneEntangled
  <2>8. AloneIsAlone' BY <2>4, <2>5, <2>6 DEF AloneIsAlone
  <2>9. NoneEntangled' BY <2>4, <2>5, <2>6, <2>7 DEF NoneEntangled
  <2>10. UntilWritten'
    <3> SUFFICES ASSUME ~ entangled PROVE OneSession'
      BY <2>6 DEF UntilWritten
    <3>1. OneSession BY <2>7 DEF AgreeInv, UntilWritten, Before
    <3> QED BY <2>6, <3>1 DEF OneSession, Online
  <2>11. AloneWrites' BY <2>4, <2>5 DEF AloneWrites, Written
  <2> QED BY <2>8, <2>9, <2>10, <2>11 DEF AgreeInv
<1>2. CASE CheckLock(l) BY <1>2, <1>f, <1>g DEF CheckLock, Before
<1>3. CASE LoadIdentity(l)
  <2>1. PICK key \in Keys : login' = [login EXCEPT ![l].pc = "rpc", ![l].key = key]
    BY <1>3 DEF LoadIdentity
  <2>2. login[l].pc \in Before /\ InFlight(l) /\ UNCHANGED <<ui, core, entangled>>
    BY <1>3 DEF LoadIdentity, Before
  <2> HIDE DEF InFlight
  <2> QED BY <1>g, <2>1, <2>2
<1>4. CASE BadPIN(l) BY <1>4, <1>f DEF BadPIN, Before
<1>5. CASE RpcLogin(l)
  <2> DEFINE new == [login[l] EXCEPT !.pc = "owner", !.ctx = "background"]
  <2>1. new.pc = "owner" /\ new.alone = login[l].alone /\ new.key = login[l].key BY <1>0 DEF Login
  <2>2. login' = [login EXCEPT ![l] = new] BY <1>0, <1>5 DEF RpcLogin
  <2> HIDE DEF new
  <2>3. core'.token = login[l].key BY <1>0, <1>5 DEF RpcLogin, Core
  <2>4. Written(l)' BY <1>0, <2>1, <2>2, <2>3 DEF Written
  <2> QED BY <1>5, <2>1, <2>2, <2>4, AgreeMoves DEF RpcLogin, Before
<1>6. CASE Unreachable(l)
  <2> DEFINE new == [login[l] EXCEPT !.pc = "owner", !.ctx = "background", !.offline = TRUE]
  <2>1. new.pc = "owner" /\ new.alone = login[l].alone /\ new.offline = TRUE BY <1>0 DEF Login
  <2>2. login' = [login EXCEPT ![l] = new] BY <1>0, <1>6 DEF Unreachable
  <2> HIDE DEF new
  <2>3. Written(l)' BY <1>0, <2>1, <2>2 DEF Written
  <2> QED BY <1>6, <2>1, <2>2, <2>3, AgreeMoves DEF Unreachable, Before
<1>7. CASE RpcFails(l) BY <1>7, <1>f DEF RpcFails, Before
<1>8. CASE SetCacheOwner(l)
  <2> DEFINE new == [login[l] EXCEPT !.pc = "session"]
  <2>1. /\ new.pc = "session" /\ new.alone = login[l].alone /\ new.key = login[l].key
        /\ new.offline = login[l].offline
    BY <1>0 DEF Login
  <2>2. login' = [login EXCEPT ![l] = new] BY <1>0, <1>8 DEF SetCacheOwner, Goto
  <2> HIDE DEF new
  <2>3. core'.owner = login[l].key /\ core'.token = core.token BY <1>0, <1>8 DEF SetCacheOwner, Core
  <2>4. login[l].alone => Written(l)'
    BY <1>0, <1>8, <2>1, <2>2, <2>3 DEF SetCacheOwner, Written, AgreeInv, AloneWrites
  <2> QED BY <1>8, <2>1, <2>2, <2>4, AgreeMoves DEF SetCacheOwner, Before
<1>9. CASE SetSession(l)
  <2> DEFINE new == [login[l] EXCEPT !.pc = "done"]
  <2>1. /\ new.pc = "done" /\ new.alone = login[l].alone /\ new.key = login[l].key
        /\ new.offline = login[l].offline
    BY <1>0 DEF Login
  <2>2. login' = [login EXCEPT ![l] = new] BY <1>0, <1>9 DEF SetSession, Goto
  <2> HIDE DEF new
  <2>3. /\ core'.key = login[l].key /\ core'.offline = login[l].offline
        /\ core'.owner = core.owner /\ core'.token = core.token
    BY <1>0, <1>9 DEF SetSession, Core
  <2>4. login[l].alone => Written(l)'
    BY <1>0, <1>9, <2>1, <2>2, <2>3 DEF SetSession, Written, AgreeInv, AloneWrites
  <2> QED BY <1>9, <2>1, <2>2, <2>4, AgreeMoves DEF SetSession, Before
<1>10. CASE LoginFailed(l)
  <2>1. login'[l] = NoLogin /\ \A k \in Logins \ {l} : login'[k] = login[k]
    BY <1>0, <1>10 DEF LoginFailed
  <2>2. /\ ui'.key = ui.key /\ ui'.offline = ui.offline /\ UNCHANGED <<core, entangled>>
        /\ InFlight(l) /\ login[l].pc \in Before
    BY <1>0, <1>10 DEF LoginFailed, Ui, Before
  <2>3. AloneIsAlone' BY <2>1, <2>2 DEF AgreeInv, AloneIsAlone, NoLogin
  <2>4. NoneEntangled' BY <2>1, <2>2 DEF AgreeInv, NoneEntangled, NoLogin
  <2>5. UntilWritten' BY <2>1, <2>2 DEF AgreeInv, UntilWritten, OneSession, Online
  <2>6. AloneWrites' BY <2>1, <2>2 DEF AgreeInv, AloneWrites, Written, NoLogin
  <2> QED BY <2>3, <2>4, <2>5, <2>6 DEF AgreeInv
<1>11. CASE LoginSucceeds(l)
  <2>1. login[l].key \in Keys /\ login[l].offline \in BOOLEAN /\ InFlight(l)
    BY <1>0, <1>11 DEF LoginSucceeds, TypeInv, Loaded, Login
  <2>3. ui'.key = login[l].key /\ ui'.offline = login[l].offline
    BY <1>11, OpenedFace
  <2>4. /\ CancelLogins(login) \in [Logins -> Login]
        /\ \A k \in Logins : /\ CancelLogins(login)[k].pc = login[k].pc
                            /\ CancelLogins(login)[k].alone = login[k].alone
    BY <1>0, CancelLoginsType DEF CancelLogins, Login
  <2>5. /\ login'[l] = NoLogin
        /\ \A k \in Logins \ {l} : login'[k].pc = login[k].pc /\ login'[k].alone = login[k].alone
    BY <1>11, <2>4 DEF LoginSucceeds
  <2>6. \A k \in Logins \ {l} : login[k].alone => ~ InFlight(k)
    BY <2>1 DEF AgreeInv, AloneIsAlone
  <2>7. AloneIsAlone' /\ AloneWrites'
    BY <2>5, <2>6 DEF AloneIsAlone, AloneWrites, Written, NoLogin
  <2>8. entangled' = ~ login[l].alone BY <1>11 DEF LoginSucceeds
  <2>9. NoneEntangled'
    <3>1. CASE login[l].alone
      <4>1. \A k \in Logins \ {l} : ~ InFlight(k) BY <2>1, <3>1 DEF AgreeInv, AloneIsAlone
      <4> QED BY <2>5, <4>1 DEF NoneEntangled, NoLogin
    <3>2. CASE ~ login[l].alone BY <2>8, <3>2 DEF NoneEntangled
    <3> QED BY <3>1, <3>2
  <2>10. UntilWritten'
    <3> SUFFICES ASSUME login[l].alone PROVE OneSession'
      BY <2>8 DEF UntilWritten
    <3>1. Written(l) BY DEF AgreeInv, AloneWrites
    <3>2. /\ core'.key = core.key /\ core'.owner = core.owner /\ core'.token = core.token
          /\ core'.offline = core.offline
          /\ core'.worker = (~ login[l].offline /\ ~ core.offline)
      BY <1>0, <1>11 DEF LoginSucceeds, Core
    <3>3. login[l].pc = "done" BY <1>11 DEF LoginSucceeds
    <3> QED BY <2>1, <2>3, <3>1, <3>2, <3>3 DEF OneSession, Online, Written
  <2> QED BY <2>7, <2>9, <2>10 DEF AgreeInv
<1> QED BY <1>1, <1>2, <1>3, <1>4, <1>5, <1>6, <1>7, <1>8, <1>9, <1>10, <1>11 DEF LoginStep

LEMMA AgreeStep == TypeInv /\ AgreeInv /\ [Next]_vars => AgreeInv'
<1> SUFFICES ASSUME TypeInv, AgreeInv, [Next]_vars PROVE AgreeInv'
  OBVIOUS
<1>1. CASE UNCHANGED <<ui, core, login, entangled>> BY <1>1, AgreeSame DEF SameFace, SameShell
<1>2. CASE Lock BY <1>2, AgreeLogout DEF Lock
<1>3. CASE UiStep
  <2>1. UNCHANGED <<core, login, entangled>>
    BY <1>3 DEF UiStep, RefreshButton, ExportPrivateKey, vars, FriendsAnswer,
        SweepAnswers, ActAnswers, PollAnswers, FriendAdded,
        StatusSet, Unchanged
  <2> QED BY <1>3, <2>1, UiFace, AgreeSame
<1>4. ASSUME NEW w \in Watchers, WatchStep(w) PROVE AgreeInv'
  <2>1. CASE HandleEvent(w)
    <3>1. ui \in Ui /\ RefreshFriends(ui) \in Ui BY RefreshFriendsType DEF TypeInv, TypeOK
    <3>2. SameFace(ui, RefreshFriends(ui)) BY <3>1, RefreshFace
    <3>3. SameFace(ui, RefreshAdmin(RefreshFriends(ui))) BY <3>1, RefreshFace DEF SameFace, SameShell
    <3>4. \/ ui' = RefreshFriends(ui) /\ UNCHANGED <<core, login, entangled>>
          \/ ui' = RefreshAdmin(RefreshFriends(ui)) /\ UNCHANGED <<core, login, entangled>>
          \/ \E watching : Logout(watching)
      BY <2>1 DEF HandleEvent
    <3> QED BY <3>2, <3>3, <3>4, AgreeSame, AgreeLogout
  <2> QED BY <1>1, <1>4, <2>1, OwnStep
<1> QED BY <1>1, <1>2, <1>3, <1>4, AgreeLoginStep DEF Next, vars, LockoutEnds

(* Between logins all parts tell of one session, unless the last login or  *)
(* Lock met a login in flight.                                             *)
THEOREM AgreeCorrect == Spec => []Agree
<1>1. AgreeInv => Agree
  <2> SUFFICES ASSUME AgreeInv, Quiet, ~ entangled PROVE OneSession
    BY DEF Agree, OneSession
  <2> QED BY DEF AgreeInv, UntilWritten, Quiet, InFlight, Before
<1> QED BY <1>1, AgreeInit, AgreeStep, TypeInvariance, PTL DEF Spec

-----------------------------------------------------------------------------
(***************************************************************************)
(* The PINs tried.  While there is no lockout every PIN tried has cost an  *)
(* attempt; from the lockout on, a login that has passed the check can     *)
(* still try its PIN, and then it is among those no longer.                *)
(***************************************************************************)
Loading == {l \in Logins : login[l].pc = "load"}

PinInv ==
    /\ lock.until = "none" => lock.left > 0 /\ tries + lock.left = Attempts
    /\ lock.until # "none" => lock.left = 0 /\ tries >= Attempts
    /\ lock.until # "none" => tries + Cardinality(Loading) < Attempts + Cardinality(Logins)

LEMMA LoadingFinite ==
    ASSUME IsFiniteSet(Logins)
    PROVE  IsFiniteSet(Loading) /\ Cardinality(Loading) \in Nat /\ Cardinality(Logins) \in Nat
BY FS_Subset, FS_CardinalityType DEF Loading

LEMMA PinInit == Init => PinInv
BY DEF Init, PinInv, NoLock

(* Restored attempts, whoever is loading.                                  *)
LEMMA PinRestored == Restored => PinInv'
BY DEF Restored, PinInv, NoLock

(* No PIN is tried, and no login comes to load that was not there.         *)
LEMMA PinSame ==
    ASSUME IsFiniteSet(Logins), TypeInv, PinInv, UNCHANGED tries, Loading' \subseteq Loading,
           UNCHANGED lock \/ (lock.until = "running" /\ lock' = [lock EXCEPT !.until = "over"])
    PROVE  PinInv'
<1>1. Cardinality(Loading') <= Cardinality(Loading) /\ Cardinality(Loading') \in Nat
  BY LoadingFinite, FS_Subset, FS_CardinalityType
<1>2. tries \in Nat /\ Cardinality(Logins) \in Nat /\ Cardinality(Loading) \in Nat
  BY LoadingFinite DEF TypeInv, TypeOK
<1> QED BY <1>1, <1>2 DEF PinInv, TypeInv, TypeOK

LEMMA LoadingShrinks ==
    ASSUME TypeInv, NEW l \in Logins, NEW new, login' = [login EXCEPT ![l] = new], new.pc # "load"
    PROVE  Loading' = Loading \ {l}
BY DEF Loading, TypeInv, TypeOK

LEMMA FailShrinks ==
    ASSUME TypeInv, NEW l \in Logins, Fail(l) PROVE Loading' = Loading \ {l}
<1> DEFINE new == [NoLogin EXCEPT !.pc = "failed", !.alone = login[l].alone]
<1>1. new.pc = "failed" BY DEF NoLogin
<1>2. login' = [login EXCEPT ![l] = new] BY DEF Fail
<1> HIDE DEF new
<1> QED BY <1>1, <1>2, LoadingShrinks

LEMMA PinBad ==
    ASSUME IsFiniteSet(Logins), TypeInv, PinInv, NEW l \in Logins, BadPIN(l) PROVE PinInv'
<1>1. l \in Loading /\ Loading' = Loading \ {l}
  BY FailShrinks DEF BadPIN, Loading
<1>2. /\ Cardinality(Loading') = Cardinality(Loading) - 1
      /\ Cardinality(Loading) \in Nat /\ Cardinality(Logins) \in Nat
  BY <1>1, LoadingFinite, FS_RemoveElement
<1>3. Cardinality(Loading) <= Cardinality(Logins)
  BY FS_Subset DEF Loading
<1>4. lock.left \in Nat /\ tries \in Nat /\ tries' = tries + 1
  BY DEF TypeInv, TypeOK, BadPIN
<1>5. CASE lock.left <= 1
  <2>1. lock'.left = 0 /\ lock'.until = "running" BY <1>5 DEF BadPIN
  <2>2. tries + Cardinality(Loading) < Attempts + Cardinality(Logins)
    BY <1>2, <1>3, <1>4, <1>5 DEF PinInv
  <2>3. tries' >= Attempts
    BY <1>4, <1>5, BoundsAssumption DEF PinInv, TypeInv, TypeOK
  <2> QED BY <1>2, <1>4, <2>1, <2>2, <2>3 DEF PinInv
<1>6. CASE ~ (lock.left <= 1)
  <2>1. lock'.left = lock.left - 1 /\ lock'.until = lock.until
    BY <1>6 DEF BadPIN, TypeInv, TypeOK
  <2> QED BY <1>4, <1>6, <2>1 DEF PinInv
<1> QED BY <1>5, <1>6

LEMMA PinStep == IsFiniteSet(Logins) /\ TypeInv /\ PinInv /\ [Next]_vars => PinInv'
<1> SUFFICES ASSUME IsFiniteSet(Logins), TypeInv, PinInv, [Next]_vars PROVE PinInv'
  OBVIOUS
<1>0. login \in [Logins -> Login] BY DEF TypeInv, TypeOK
<1>1. CASE UNCHANGED <<login, lock, tries>> BY <1>1, PinSame DEF Loading
<1>2. CASE LockoutEnds BY <1>2, PinSame DEF LockoutEnds, Loading
<1>3. ASSUME NEW watching, Logout(watching) PROVE PinInv'
  <2>1. ASSUME NEW l \in Logins PROVE login'[l].pc = login[l].pc
    <3>1. login'[l] = [CancelLogins(login)[l] EXCEPT !.alone = ~ InFlight(l)] BY <1>3 DEF Logout
    <3>2. CancelLogins(login)[l].pc = login[l].pc /\ CancelLogins(login)[l] \in Login
      BY <1>0, CancelLoginsType DEF CancelLogins, Login
    <3> QED BY <3>1, <3>2 DEF Login
  <2>2. Loading' = Loading BY <2>1 DEF Loading
  <2> QED BY <1>3, <2>2, PinSame DEF Logout
<1>4. CASE UiStep
  BY <1>1, <1>4 DEF UiStep, RefreshButton, ExportPrivateKey, vars, FriendsAnswer,
     SweepAnswers, ActAnswers, FriendAdded, StatusSet,
     PollAnswers, Unchanged
<1>5. ASSUME NEW l \in Logins, LoginStep(l) PROVE PinInv'
  <2>1. CASE BeginLogin(l)
    <3> DEFINE others == \E k \in Logins : InFlight(k)
               new(k) == IF k = l THEN [NoLogin EXCEPT !.pc = "check", !.alone = ~ others,
                                !.ctx = IF ui.key = None THEN "background" ELSE "session"]
                         ELSE [login[k] EXCEPT !.alone = ~ InFlight(k)]
    <3>1. login' = [k \in Logins |-> new(k)] BY <2>1 DEF BeginLogin
    <3>2. new(l).pc = "check" BY DEF NoLogin
    <3>3. ASSUME NEW k \in Logins, k # l PROVE new(k).pc = login[k].pc
      BY <1>0, <3>3 DEF Login
    <3> HIDE DEF new
    <3>4. Loading' \subseteq Loading BY <3>1, <3>2, <3>3 DEF Loading
    <3> QED BY <2>1, <3>4, PinSame DEF BeginLogin
  <2>2. CASE CheckLock(l)
    <3>1. CASE lock.until = "running"
      BY <2>2, <3>1, PinSame, FailShrinks DEF CheckLock
    <3>2. CASE lock.until = "over" BY <2>2, <3>2, PinRestored DEF CheckLock
    <3>3. CASE lock.until = "none" BY <2>2, <3>3 DEF CheckLock, PinInv
    <3> QED BY <3>1, <3>2, <3>3 DEF TypeInv, TypeOK
  <2>3. CASE LoadIdentity(l)
    <3>1. PICK key \in Keys : login' = [login EXCEPT ![l].pc = "rpc", ![l].key = key]
      BY <2>3 DEF LoadIdentity
    <3>2. Loading' \subseteq Loading BY <1>0, <3>1 DEF Loading, Login
    <3> QED BY <2>3, <3>2, PinSame DEF LoadIdentity
  <2>4. CASE BadPIN(l) BY <2>4, PinBad
  <2>5. CASE RpcLogin(l)
    <3>1. Loading' \subseteq Loading BY <1>0, <2>5 DEF RpcLogin, Loading, Login
    <3> QED BY <2>5, <3>1, PinSame DEF RpcLogin
  <2>6. CASE Unreachable(l)
    <3> DEFINE new == [login[l] EXCEPT !.pc = "owner", !.ctx = "background", !.offline = TRUE]
    <3>1. new.pc = "owner" BY <1>0 DEF Login
    <3>2. login' = [login EXCEPT ![l] = new] BY <1>0, <2>6 DEF Unreachable
    <3> HIDE DEF new
    <3>3. Loading' \subseteq Loading BY <3>1, <3>2, LoadingShrinks
    <3> QED BY <2>6, <3>3, PinSame DEF Unreachable
  <2>7. CASE RpcFails(l) BY <2>7, PinSame, FailShrinks DEF RpcFails
  <2>8. CASE SetCacheOwner(l)
    <3>1. Loading' \subseteq Loading BY <1>0, <2>8 DEF SetCacheOwner, Goto, Loading, Login
    <3> QED BY <2>8, <3>1, PinSame DEF SetCacheOwner
  <2>9. CASE SetSession(l) BY <2>9, PinRestored DEF SetSession
  <2>10. CASE LoginFailed(l)
    <3>1. Loading' \subseteq Loading BY <1>0, <2>10 DEF LoginFailed, Loading, NoLogin
    <3>2. CASE lock.until = "over" BY <2>10, <3>2, PinRestored DEF LoginFailed
    <3>3. CASE lock.until # "over" BY <2>10, <3>1, <3>3, PinSame DEF LoginFailed
    <3> QED BY <3>2, <3>3
  <2>11. CASE LoginSucceeds(l)
    <3>1. \A k \in Logins : CancelLogins(login)[k].pc = login[k].pc
      BY <1>0 DEF CancelLogins, Login
    <3>2. CancelLogins(login) \in [Logins -> Login] BY <1>0, CancelLoginsType
    <3>3. login' = [CancelLogins(login) EXCEPT ![l] = NoLogin] BY <2>11 DEF LoginSucceeds
    <3>4. Loading' \subseteq Loading BY <3>1, <3>2, <3>3 DEF Loading, NoLogin
    <3> QED BY <2>11, <3>4, PinSame DEF LoginSucceeds
  <2> QED BY <1>5, <2>1, <2>2, <2>3, <2>4, <2>5, <2>6, <2>7, <2>8, <2>9, <2>10, <2>11 DEF LoginStep
<1>6. ASSUME NEW w \in Watchers, WatchStep(w) PROVE PinInv'
  <2>1. CASE HandleEvent(w) BY <1>1, <1>3, <2>1 DEF HandleEvent
  <2> QED BY <1>1, <1>6, <2>1, OwnStep
<1> QED BY <1>1, <1>2, <1>3, <1>4, <1>5, <1>6 DEF Next, vars, Lock

(* However many logins are in flight, they try no more bad PINs before a   *)
(* lockout has passed than the attempts, and one for each other login; and *)
(* no fewer lead to one.                                                   *)
THEOREM PinsCorrect == ASSUME IsFiniteSet(Logins) PROVE Spec => []PinsBounded
<1>1. TypeInv /\ PinInv => PinsBounded
  <2> SUFFICES ASSUME TypeInv, PinInv PROVE tries < Attempts + Cardinality(Logins)
    BY DEF PinsBounded, PinInv
  <2>1. /\ tries \in Nat /\ Cardinality(Loading) \in Nat /\ Cardinality(Logins) \in Nat
        /\ lock.left \in Nat
    BY LoadingFinite DEF TypeInv, TypeOK
  <2> QED BY <2>1 DEF PinInv
<1>2. TypeInv /\ PinInv /\ [Next]_vars => PinInv' BY PinStep
<1> QED BY <1>1, <1>2, PinInit, TypeInvariance, PTL DEF Spec
=============================================================================
