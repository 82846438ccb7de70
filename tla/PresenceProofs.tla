--------------------------- MODULE PresenceProofs ---------------------------
(***************************************************************************)
(* Proofs about Presence, for any number of users, tokens, client ids,     *)
(* streams and calls of SetUserStatus.                                     *)
(***************************************************************************)
EXTENDS Presence, TLAPS

(***************************************************************************)
(* Types.                                                                  *)
(***************************************************************************)
LEMMA OneMore ==
    ASSUME NEW c \in Channels, c.queued < Capacity
    PROVE  [c EXCEPT !.queued = @ + 1] \in Channels
BY CapacityAssumption DEF Channels

LEMMA OneLess ==
    ASSUME NEW c \in Channels, c.queued > 0
    PROVE  [c EXCEPT !.queued = @ - 1] \in Channels
BY CapacityAssumption DEF Channels

LEMMA PushType ==
    ASSUME NEW users, Push(users), chan \in [Handlers -> Channels]
    PROVE  chan' \in [Handlers -> Channels]
<1>1. ASSUME NEW h \in Handlers PROVE chan'[h] \in Channels
  <2>1. chan[h] \in Channels OBVIOUS
  <2> QED BY <2>1, OneMore DEF Push
<1> QED BY <1>1 DEF Push

LEMMA MarkType ==
    ASSUME session \in [Tokens -> SessionRows], NEW t \in Tokens, NEW online \in BOOLEAN,
           MarkSessionClient(t, online)
    PROVE  session' \in [Tokens -> SessionRows]
BY DEF SessionRows, MarkSessionClient

LEMMA GotoType ==
    ASSUME handler \in [Handlers -> Goroutines], NEW h \in Handlers, ~ At(h, "idle"),
           NEW pc \in Busy, Goto(h, pc)
    PROVE  handler' \in [Handlers -> Goroutines]
<1>1. handler[h] \in [pc : Busy, token : Tokens, id : ClientIds, online : BOOLEAN]
  BY DEF At, Goroutines
<1>2. [handler[h] EXCEPT !.pc = pc] \in [pc : Busy, token : Tokens, id : ClientIds, online : BOOLEAN]
  BY <1>1
<1> QED BY <1>2 DEF Goto, Goroutines

LEMMA BusyHandler ==
    ASSUME TypeOK, NEW h \in Handlers, ~ At(h, "idle")
    PROVE  /\ handler[h].token \in Tokens /\ handler[h].id \in ClientIds
           /\ User(h) \in Users
           /\ handler[h].pc \in Busy
<1>1. handler[h] \in [pc : Busy, token : Tokens, id : ClientIds, online : BOOLEAN]
  BY DEF TypeOK, At, Goroutines
<1> QED BY <1>1, TokenOwnerAssumption DEF User

LEMMA TypeLogin ==
    ASSUME TypeOK,
           \/ \E t \in Tokens : LoginCheck(t) \/ LoginCommit(t) \/ Expire(t)
           \/ \E old \in SUBSET Tokens : CleanupExpired(old)
    PROVE  TypeOK'
<1>1. CASE \E old \in SUBSET Tokens : CleanupExpired(old)
  <2>1. PICK old \in SUBSET Tokens : CleanupExpired(old) BY <1>1
  <2>2. \A t \in Tokens : session'[t] \in SessionRows BY <2>1 DEF CleanupExpired, SessionRows, TypeOK
  <2>3. session' \in [Tokens -> SessionRows] BY <2>1, <2>2 DEF CleanupExpired
  <2> QED BY <2>1, <2>3 DEF CleanupExpired, TypeOK
<1>2. ASSUME NEW t \in Tokens, LoginCheck(t) \/ LoginCommit(t) \/ Expire(t) PROVE TypeOK'
  <2>1. PICK state \in {"none", "login", "valid", "expired", "deleted"} :
            session' = [session EXCEPT ![t].state = state]
    BY <1>2 DEF LoginCheck, LoginCommit, Expire
  <2>2. session' \in [Tokens -> SessionRows] BY <2>1 DEF SessionRows, TypeOK
  <2> QED BY <1>2, <2>2 DEF LoginCheck, LoginCommit, Expire, TypeOK
<1> QED BY <1>1, <1>2

LEMMA TypeAuthenticate ==
    ASSUME TypeOK, NEW h \in Handlers, NEW t \in Tokens, NEW id \in ClientIds,
           Authenticate(h, t, id)
    PROVE  TypeOK'
<1>1. handler' \in [Handlers -> Goroutines]
  <2>1. [Idle EXCEPT !.pc = "register", !.token = t, !.id = id]
            \in [pc : Busy, token : Tokens, id : ClientIds, online : BOOLEAN]
    BY DEF Idle, Busy
  <2> QED BY <2>1 DEF Authenticate, TypeOK, Goroutines
<1>2. chan' \in [Handlers -> Channels]
  BY CapacityAssumption DEF Authenticate, Empty, Channels, TypeOK
<1>3. late' \subseteq Handlers
  BY DEF Authenticate, TypeOK
<1> QED BY <1>1, <1>2, <1>3 DEF Authenticate, TypeOK

LEMMA TypeStep ==
    ASSUME TypeOK, NEW h \in Handlers, Step(h) \/ StreamEnds(h)
    PROVE  TypeOK'
<1> USE DEF At
<1>a. ~ At(h, "idle")
  BY DEF Step, Register, ReadWasOnline, MarkOnline, AnnounceOnline, Deliver, ChannelClosed,
     Unregister, MarkOffline, ReadIsOnline, AnnounceOffline, StreamEnds
<1>b. handler[h].token \in Tokens /\ User(h) \in Users /\ handler[h].id \in ClientIds
  BY <1>a, BusyHandler
<1>c. \A pc \in Busy : Goto(h, pc) => handler' \in [Handlers -> Goroutines]
  BY <1>a, GotoType DEF TypeOK
<1>d. {"wasOnline", "mark", "announce", "loop", "unregister", "unmark", "isOnline",
       "announceOff"} \subseteq Busy
  BY DEF Busy, Serving
<1>e. [handler EXCEPT ![h] = Idle] \in [Handlers -> Goroutines]
  BY DEF Idle, Goroutines, TypeOK
<1>2. CASE Register(h) BY <1>2, <1>b, <1>c, <1>d DEF Register, TypeOK
<1>3. CASE ReadWasOnline(h)
  <2>1. PICK read \in Outcomes :
            handler' = [handler EXCEPT ![h].pc = "mark", ![h].online = read /\ Online(User(h))]
    BY <1>3 DEF ReadWasOnline
  <2>2. (read /\ Online(User(h))) \in BOOLEAN OBVIOUS
  <2>3. handler[h] \in [pc : Busy, token : Tokens, id : ClientIds, online : BOOLEAN]
    BY <1>a DEF TypeOK, Goroutines
  <2>4. [handler[h] EXCEPT !.pc = "mark", !.online = read /\ Online(User(h))]
            \in [pc : Busy, token : Tokens, id : ClientIds, online : BOOLEAN]
    BY <1>d, <2>2, <2>3
  <2>5. handler' \in [Handlers -> Goroutines] BY <2>1, <2>4 DEF Goroutines, TypeOK
  <2> QED BY <1>3, <2>5 DEF ReadWasOnline, TypeOK
<1>4. CASE MarkOnline(h) BY <1>4, <1>b, <1>c, <1>d, MarkType DEF MarkOnline, TypeOK
<1>5. CASE AnnounceOnline(h)
  <2>1. chan' \in [Handlers -> Channels] /\ announced' \in [Users -> BOOLEAN]
    BY <1>5, PushType DEF AnnounceOnline, Announce, Outcomes, TypeOK
  <2> QED BY <1>5, <1>c, <1>d, <2>1 DEF AnnounceOnline, TypeOK
<1>6. CASE Deliver(h)
  <2>1. chan[h] \in Channels BY DEF TypeOK
  <2>2. chan' \in [Handlers -> Channels] BY <1>6, <2>1, OneLess DEF Deliver, TypeOK
  <2> QED BY <1>6, <2>2 DEF Deliver, TypeOK
<1>7. CASE ChannelClosed(h) BY <1>7, <1>c, <1>d DEF ChannelClosed, TypeOK
<1>8. CASE Unregister(h) BY <1>8, <1>b, <1>c, <1>d DEF Unregister, TypeOK
<1>9. CASE MarkOffline(h) BY <1>9, <1>b, <1>c, <1>d, MarkType DEF MarkOffline, TypeOK
<1>10. CASE ReadIsOnline(h) BY <1>10, <1>c, <1>d, <1>e DEF ReadIsOnline, TypeOK
<1>11. CASE AnnounceOffline(h)
  <2>1. chan' \in [Handlers -> Channels] /\ announced' \in [Users -> BOOLEAN]
    BY <1>11, PushType DEF AnnounceOffline, Announce, Outcomes, TypeOK
  <2> QED BY <1>11, <1>e, <2>1 DEF AnnounceOffline, TypeOK
<1>12. CASE StreamEnds(h) BY <1>12, <1>c, <1>d DEF StreamEnds, TypeOK
<1> QED BY <1>2, <1>3, <1>4, <1>5, <1>6, <1>7, <1>8, <1>9, <1>10, <1>11, <1>12 DEF Step

LEMMA ClientsAreHandlers == ASSUME TypeOK, NEW u \in Users PROVE Clients(u) \subseteq Handlers
BY DEF TypeOK, Clients

Working == [pc : {"push", "kick", "close", "notify"}, user : Users, kicked : SUBSET Handlers]

LEMMA BusyAdmin ==
    ASSUME TypeOK, NEW x \in Admins, admin[x].pc # "idle"
    PROVE  admin[x] \in Working
BY DEF TypeOK, Calls, Working

LEMMA WorkType ==
    ASSUME TypeOK, NEW x \in Admins, NEW a \in Working, admin' = [admin EXCEPT ![x] = a]
    PROVE  admin' \in [Admins -> Calls]
BY DEF TypeOK, Working, Calls

LEMMA TypeAdmin ==
    ASSUME TypeOK, NEW x \in Admins,
           SetUserStatusStep(x) \/
           \E u \in Users : Ban(x, u) \/ BanUnacknowledged(x, u) \/ Unban(x, u)
    PROVE  TypeOK'
<1> DEFINE Typed == admin' \in [Admins -> Calls]
<1>1. ASSUME NEW u \in Users, SetBanned(u)
      PROVE  session' \in [Tokens -> SessionRows] /\ banned' \subseteq Users
  <2>1. \A t \in Tokens : session'[t] \in SessionRows BY <1>1 DEF SetBanned, SessionRows, TypeOK
  <2> QED BY <1>1, <2>1 DEF SetBanned, TypeOK
<1>2. ASSUME NEW u \in Users, Ban(x, u) PROVE TypeOK'
  <2>1. Typed BY <1>2, WorkType DEF Ban, NoAdmin, Working
  <2> QED BY <1>1, <1>2, <2>1 DEF Ban, TypeOK
<1>8. ASSUME NEW u \in Users, BanUnacknowledged(x, u) PROVE TypeOK'
  BY <1>1, <1>8 DEF BanUnacknowledged, TypeOK
<1>9. ASSUME NEW u \in Users, Unban(x, u) PROVE TypeOK'
  <2>1. Typed BY <1>9, WorkType DEF Unban, NoAdmin, Working, TypeOK
  <2> QED BY <1>9, <2>1 DEF Unban, TypeOK
<1> DEFINE a == admin[x]
<1>3. CASE PushForceOffline(x)
  <2>1. a \in Working BY <1>3, BusyAdmin DEF PushForceOffline
  <2>2. [a EXCEPT !.pc = "kick"] \in Working BY <2>1 DEF Working
  <2>3. Typed BY <1>3, <2>2, WorkType DEF PushForceOffline, TypeOK
  <2> QED BY <1>3, <2>3, PushType DEF PushForceOffline, TypeOK
<1>4. CASE KickUser(x)
  <2>1. a \in Working BY <1>4, BusyAdmin DEF KickUser
  <2>2. Clients(a.user) \subseteq Handlers BY <2>1, ClientsAreHandlers DEF Working
  <2>3. [a EXCEPT !.pc = "close", !.kicked = Clients(a.user)] \in Working
    BY <2>1, <2>2 DEF Working
  <2>4. Typed BY <1>4, <2>3, WorkType DEF KickUser, TypeOK
  <2>5. streams' \in [Users \X ClientIds -> Handlers \cup {None}]
    BY <1>4 DEF KickUser, TypeOK
  <2> QED BY <1>4, <2>4, <2>5 DEF KickUser, TypeOK
<1>5. CASE CloseChannel(x)
  <2>1. a \in Working BY <1>5, BusyAdmin DEF CloseChannel
  <2>2. PICK h \in a.kicked : /\ chan' = [chan EXCEPT ![h].closed = TRUE]
                              /\ admin' = [admin EXCEPT ![x].kicked = @ \ {h}]
    BY <1>5 DEF CloseChannel
  <2>3. [a EXCEPT !.kicked = @ \ {h}] \in Working BY <2>1 DEF Working
  <2>4. Typed BY <2>2, <2>3, WorkType DEF TypeOK
  <2>5. a.kicked \subseteq Handlers BY <2>1 DEF Working
  <2>6. h \in Handlers BY <2>2, <2>5
  <2>7. [chan[h] EXCEPT !.closed = TRUE] \in Channels BY <2>6 DEF Channels, TypeOK
  <2>8. chan' \in [Handlers -> Channels] BY <2>2, <2>6, <2>7 DEF TypeOK
  <2> QED BY <1>5, <2>4, <2>8 DEF CloseChannel, TypeOK
<1>6. CASE Kicked(x)
  <2>1. a \in Working BY <1>6, BusyAdmin DEF Kicked
  <2>2. [a EXCEPT !.pc = "notify"] \in Working BY <2>1 DEF Working
  <2>3. Typed BY <1>6, <2>2, WorkType DEF Kicked, TypeOK
  <2> QED BY <1>6, <2>3 DEF Kicked, TypeOK
<1>7. CASE NotifyAdmins(x)
  <2>1. Typed BY <1>7 DEF NotifyAdmins, NoAdmin, Calls, TypeOK
  <2> QED BY <1>7, <2>1, PushType DEF NotifyAdmins, TypeOK
<1> QED BY <1>2, <1>3, <1>4, <1>5, <1>6, <1>7, <1>8, <1>9 DEF SetUserStatusStep

LEMMA TypeHeal ==
    ASSUME TypeOK,
           \/ \E u \in Users : OtherEvent(u) \/ HealUpdate(u)
           \/ HealSnapshot \/ HealSelect \/ HealEnds \/ HealFails
           \/ \E cleaned \in BOOLEAN : Restart(cleaned)
    PROVE  TypeOK'
<1>1. ASSUME NEW u \in Users, OtherEvent(u) PROVE TypeOK'
  BY <1>1, PushType DEF OtherEvent, TypeOK
<1>2. ASSUME NEW u \in Users, HealUpdate(u) PROVE TypeOK'
  <2>1. session' \in [Tokens -> SessionRows] BY <1>2 DEF HealUpdate, SessionRows, TypeOK
  <2>2. healer' \in Passes BY <1>2 DEF HealUpdate, Passes, TypeOK
  <2> QED BY <1>2, <2>1, <2>2 DEF HealUpdate, TypeOK
<1>3. CASE HealSnapshot
  <2>1. healer' \in Passes BY <1>3 DEF HealSnapshot, Passes, NoPass
  <2> QED BY <1>3, <2>1 DEF HealSnapshot, TypeOK
<1>4. CASE HealSelect
  <2>1. {TokenOwner[t] : t \in {s \in Tokens : session[s].online}} \subseteq Users
    BY TokenOwnerAssumption
  <2>2. [healer EXCEPT !.pc = "update",
            !.rows = {TokenOwner[t] : t \in {s \in Tokens : session[s].online}}] \in Passes
    BY <2>1 DEF Passes, TypeOK
  <2> QED BY <1>4, <2>2 DEF HealSelect, TypeOK
<1>5. CASE HealEnds \/ HealFails BY <1>5 DEF HealEnds, HealFails, NoPass, Passes, TypeOK
<1>6. ASSUME NEW cleaned \in BOOLEAN, Restart(cleaned) PROVE TypeOK'
  <2>1. session' \in [Tokens -> SessionRows] BY <1>6 DEF Restart, SessionRows, TypeOK
  <2>2. chan' \in [Handlers -> Channels]
    BY <1>6, CapacityAssumption DEF Restart, Empty, Channels
  <2>3. handler' \in [Handlers -> Goroutines] BY <1>6 DEF Restart, Idle, Goroutines
  <2>4. admin' \in [Admins -> Calls] BY <1>6 DEF Restart, NoAdmin, Calls
  <2>5. healer' \in Passes BY <1>6 DEF Restart, NoPass, Passes
  <2> QED BY <1>6, <2>1, <2>2, <2>3, <2>4, <2>5 DEF Restart, TypeOK
<1> QED BY <1>1, <1>2, <1>3, <1>4, <1>5, <1>6

(* Every value stays of its type; a handler that runs has a token.         *)
THEOREM TypeCorrect == Spec => []TypeOK
<1>1. Init => TypeOK
  BY CapacityAssumption DEF Init, TypeOK, SessionRows, Channels, Goroutines, Calls, Passes,
     Idle, Empty, NoAdmin, NoPass
<1>2. TypeOK /\ [Next]_vars => TypeOK'
  <2>1. TypeOK /\ UNCHANGED vars => TypeOK' BY DEF TypeOK, vars
  <2> QED BY <2>1, TypeLogin, TypeAuthenticate, TypeStep, TypeAdmin, TypeHeal DEF Next
<1> QED BY <1>1, <1>2, PTL DEF Spec

-----------------------------------------------------------------------------
(***************************************************************************)
(* The hub.  A stream in the map is at its own place there, and open; the  *)
(* streams a kick still has to close are open and in no map, and belong to *)
(* that kick alone.                                                        *)
(***************************************************************************)
Place(h) == <<User(h), handler[h].id>>
Live(h) == handler[h].pc # "idle"
HubInv ==
    /\ \A k \in Users \X ClientIds, h \in Handlers : streams[k] = h =>
        /\ handler[h].pc \in Serving \cup {"unregister"}
        /\ k = Place(h) /\ ~ chan[h].closed
    /\ \A x \in Admins : \A h \in admin[x].kicked :
        /\ admin[x].pc = "close" /\ ~ chan[h].closed /\ handler[h].pc # "register"
        /\ Live(h) => admin[x].user = User(h)
        /\ \A k \in Users \X ClientIds : streams[k] # h
    /\ \A x, y \in Admins : x # y => admin[x].kicked \cap admin[y].kicked = {}
    /\ \A h \in Handlers : handler[h].pc = "register" => ~ chan[h].closed

(***************************************************************************)
(* Bans.  A stream that is served and not excused is where a kick finds    *)
(* it, is being kicked, or closed; and if its user is banned by a call     *)
(* that was acknowledged, a call that has not kicked yet is under way,     *)
(* also while it is being set up.                                          *)
(***************************************************************************)
InMap(h) == streams[Place(h)] = h
BeingKicked(h) == \E x \in Admins : h \in admin[x].kicked
KickComes(h) == \E x \in Admins : admin[x].pc \in {"push", "kick"} /\ admin[x].user = User(h)
BanInv ==
    /\ \A g, h \in Handlers : g # h /\ Live(g) /\ Live(h) /\ Place(g) = Place(h) =>
        g \in late /\ h \in late
    /\ \A h \in Handlers \ late : handler[h].pc \in Serving =>
        InMap(h) \/ BeingKicked(h) \/ chan[h].closed
    /\ \A h \in Handlers \ late :
        /\ handler[h].pc \in Serving \cup {"register"}
        /\ User(h) \in banned \ unkicked
        => KickComes(h) \/ BeingKicked(h) \/ chan[h].closed

StreamInv == HubInv /\ BanInv

LEMMA StreamInit == Init => StreamInv
BY NoneAssumption DEF Init, StreamInv, HubInv, BanInv, Live, Idle, NoAdmin, Empty, Serving

(* What most steps do: a handler goes on within Serving, or towards its    *)
(* end, and channels change what they hold only.                           *)
LEMMA StreamQuiet ==
    ASSUME TypeOK, StreamInv, UNCHANGED <<banned, streams, admin, late, unkicked>>,
           \A h \in Handlers :
              /\ handler'[h].token = handler[h].token /\ handler'[h].id = handler[h].id
              /\ chan'[h].closed = chan[h].closed
              /\ \/ handler'[h].pc = handler[h].pc
                 \/ /\ handler[h].pc \in Serving
                    /\ handler'[h].pc \in Serving \cup {"unregister"}
                 \/ /\ handler[h].pc \in {"unmark", "isOnline"}
                    /\ handler'[h].pc \in {"isOnline", "announceOff"}
    PROVE  StreamInv'
<1>1. \A h \in Handlers : User(h)' = User(h) /\ Place(h)' = Place(h) /\ (Live(h)' <=> Live(h))
  BY DEF User, Place, Live, Serving
<1>2. \A x \in Admins : admin[x].kicked \subseteq Handlers
  BY DEF TypeOK, Calls
<1>3. HubInv'
  BY <1>1, <1>2 DEF StreamInv, HubInv, Serving
<1>4. \A h \in Handlers : InMap(h)' = InMap(h) /\ (BeingKicked(h)' <=> BeingKicked(h))
                           /\ (KickComes(h)' <=> KickComes(h))
  BY <1>1 DEF InMap, BeingKicked, KickComes
<1>5. BanInv'
  BY <1>1, <1>4 DEF StreamInv, BanInv, Serving
<1> QED BY <1>3, <1>5 DEF StreamInv

(* A push changes what channels hold only.                                 *)
LEMMA PushCloses ==
    ASSUME TypeOK, NEW users, Push(users), NEW h \in Handlers
    PROVE  chan'[h].closed = chan[h].closed
<1>1. chan[h] \in Channels BY DEF TypeOK
<1> QED BY <1>1 DEF Push, Channels

LEMMA Moved ==
    ASSUME TypeOK, NEW h \in Handlers, NEW pc, Goto(h, pc), NEW g \in Handlers
    PROVE  /\ handler'[g].token = handler[g].token /\ handler'[g].id = handler[g].id
           /\ handler'[g].pc = IF g = h THEN pc ELSE handler[g].pc
<1>1. handler[h] = [pc |-> handler[h].pc, token |-> handler[h].token, id |-> handler[h].id,
                    online |-> handler[h].online]
  BY DEF TypeOK, Goroutines
<1> QED BY <1>1 DEF Goto, TypeOK

LEMMA StreamQuietSteps ==
    ASSUME TypeOK, StreamInv, NEW h \in Handlers,
           \/ ReadWasOnline(h) \/ MarkOnline(h) \/ AnnounceOnline(h) \/ Deliver(h)
           \/ ChannelClosed(h) \/ StreamEnds(h) \/ MarkOffline(h)
    PROVE  StreamInv'
<1> USE DEF At, Serving
<1>1. CASE ReadWasOnline(h)
  <2>1. PICK read \in Outcomes :
            handler' = [handler EXCEPT ![h].pc = "mark", ![h].online = read /\ Online(User(h))]
    BY <1>1 DEF ReadWasOnline
  <2>2. handler[h] = [pc |-> handler[h].pc, token |-> handler[h].token, id |-> handler[h].id,
                      online |-> handler[h].online]
    BY DEF TypeOK, Goroutines
  <2>3. \A g \in Handlers : /\ handler'[g].token = handler[g].token
                             /\ handler'[g].id = handler[g].id
                             /\ handler'[g].pc = IF g = h THEN "mark" ELSE handler[g].pc
    BY <2>1, <2>2 DEF TypeOK
  <2> QED BY <1>1, <2>3, StreamQuiet DEF ReadWasOnline
<1>2. CASE MarkOnline(h)
  <2>1. PICK pc \in {"loop", "announce"} : Goto(h, pc) BY <1>2 DEF MarkOnline
  <2> QED BY <1>2, <2>1, Moved, StreamQuiet DEF MarkOnline
<1>3. CASE AnnounceOnline(h)
  <2>1. \A g \in Handlers : chan'[g].closed = chan[g].closed
    BY <1>3, PushCloses DEF AnnounceOnline, Announce
  <2> QED BY <1>3, <2>1, Moved, StreamQuiet DEF AnnounceOnline
<1>4. CASE Deliver(h)
  <2>1. \A g \in Handlers : chan[g] \in Channels BY DEF TypeOK
  <2>2. \A g \in Handlers : chan'[g].closed = chan[g].closed
    BY <1>4, <2>1 DEF Deliver, Channels, TypeOK
  <2> QED BY <1>4, <2>2, StreamQuiet DEF Deliver
<1>5. CASE ChannelClosed(h) BY <1>5, Moved, StreamQuiet DEF ChannelClosed
<1>6. CASE StreamEnds(h) BY <1>6, Moved, StreamQuiet DEF StreamEnds
<1>7. CASE MarkOffline(h) BY <1>7, Moved, StreamQuiet DEF MarkOffline
<1> QED BY <1>1, <1>2, <1>3, <1>4, <1>5, <1>6, <1>7

LEMMA StreamRegister ==
    ASSUME TypeOK, StreamInv, NEW h \in Handlers, Register(h)
    PROVE  StreamInv'
<1>1. handler[h].pc = "register" /\ Place(h) \in Users \X ClientIds /\ Live(h)
  BY BusyHandler DEF Register, At, Place, Live
<1>2. streams' = [streams EXCEPT ![Place(h)] = h] /\ UNCHANGED <<banned, chan, admin, late, unkicked>>
  BY DEF Register, Place
<1>3. \A g \in Handlers : /\ handler'[g].token = handler[g].token
                           /\ handler'[g].id = handler[g].id
                           /\ handler'[g].pc = IF g = h THEN "wasOnline" ELSE handler[g].pc
  BY Moved DEF Register
<1>4. \A g \in Handlers : User(g)' = User(g) /\ Place(g)' = Place(g) /\ (Live(g)' <=> Live(g))
  BY <1>1, <1>3 DEF User, Place, Live
<1>5. \A k \in Users \X ClientIds : streams'[k] = IF k = Place(h) THEN h ELSE streams[k]
  BY <1>1, <1>2 DEF TypeOK
<1>6. \A x \in Admins : admin[x].kicked \subseteq Handlers
  BY DEF TypeOK, Calls
<1>7. HubInv'
  BY <1>1, <1>2, <1>3, <1>4, <1>5, <1>6 DEF StreamInv, HubInv, Serving
<1>8. \A g \in Handlers : (BeingKicked(g)' <=> BeingKicked(g)) /\ (KickComes(g)' <=> KickComes(g))
  BY <1>2, <1>4 DEF BeingKicked, KickComes
<1>9. \A g \in Handlers \ late : Live(g) /\ InMap(g) => InMap(g)'
  <2> SUFFICES ASSUME NEW g \in Handlers \ late, Live(g), InMap(g), g # h PROVE InMap(g)'
    BY <1>1, <1>2, <1>4, <1>5 DEF InMap
  <2>1. Place(g) # Place(h) BY <1>1 DEF StreamInv, BanInv
  <2>2. Place(g) \in Users \X ClientIds BY BusyHandler DEF Live, Place, At
  <2> QED BY <1>4, <1>5, <2>1, <2>2 DEF InMap
<1>10. InMap(h)'
  BY <1>1, <1>4, <1>5 DEF InMap
<1>11. BanInv'
  <2>1. \A f, g \in Handlers : f # g /\ Live(f)' /\ Live(g)' /\ Place(f)' = Place(g)' =>
            f \in late' /\ g \in late'
    BY <1>2, <1>4 DEF StreamInv, BanInv
  <2>2. ASSUME NEW g \in Handlers \ late, handler'[g].pc \in Serving
        PROVE  InMap(g)' \/ BeingKicked(g)' \/ chan'[g].closed
    BY <1>2, <1>3, <1>8, <1>9, <1>10, <2>2 DEF StreamInv, BanInv, Serving, Live
  <2>3. ASSUME NEW g \in Handlers \ late, handler'[g].pc \in Serving \cup {"register"},
               User(g)' \in banned' \ unkicked'
        PROVE  KickComes(g)' \/ BeingKicked(g)' \/ chan'[g].closed
    BY <1>1, <1>2, <1>3, <1>4, <1>8, <2>3 DEF StreamInv, BanInv, Serving
  <2> QED BY <1>2, <2>1, <2>2, <2>3 DEF BanInv
<1> QED BY <1>7, <1>11 DEF StreamInv

LEMMA StreamUnregister ==
    ASSUME TypeOK, StreamInv, NEW h \in Handlers, Unregister(h)
    PROVE  StreamInv'
<1>1. handler[h].pc = "unregister" /\ Place(h) \in Users \X ClientIds /\ Live(h)
  BY BusyHandler DEF Unregister, At, Place, Live
<1>2. streams' = [streams EXCEPT ![Place(h)] = None] /\ UNCHANGED <<banned, chan, admin, late, unkicked>>
  BY DEF Unregister, Place
<1>3. \A g \in Handlers : /\ handler'[g].token = handler[g].token
                           /\ handler'[g].id = handler[g].id
                           /\ handler'[g].pc = IF g = h THEN "unmark" ELSE handler[g].pc
  BY Moved DEF Unregister
<1>4. \A g \in Handlers : User(g)' = User(g) /\ Place(g)' = Place(g) /\ (Live(g)' <=> Live(g))
  BY <1>1, <1>3 DEF User, Place, Live
<1>5. \A k \in Users \X ClientIds : streams'[k] = IF k = Place(h) THEN None ELSE streams[k]
  BY <1>1, <1>2 DEF TypeOK
<1>6. \A x \in Admins : admin[x].kicked \subseteq Handlers
  BY DEF TypeOK, Calls
<1>7. HubInv'
  <2>1. \A k \in Users \X ClientIds : streams'[k] # h
    BY <1>1, <1>5, NoneAssumption DEF StreamInv, HubInv
  <2> QED BY <1>1, <1>2, <1>3, <1>4, <1>5, <1>6, <2>1, NoneAssumption
          DEF StreamInv, HubInv, Serving
<1>8. \A g \in Handlers : (BeingKicked(g)' <=> BeingKicked(g)) /\ (KickComes(g)' <=> KickComes(g))
  BY <1>2, <1>4 DEF BeingKicked, KickComes
<1>9. \A g \in Handlers \ late : g # h /\ Live(g) /\ InMap(g) => InMap(g)'
  <2> SUFFICES ASSUME NEW g \in Handlers \ late, Live(g), InMap(g), g # h PROVE InMap(g)'
    OBVIOUS
  <2>1. Place(g) # Place(h) BY <1>1 DEF StreamInv, BanInv
  <2>2. Place(g) \in Users \X ClientIds BY BusyHandler DEF Live, Place, At
  <2> QED BY <1>4, <1>5, <2>1, <2>2 DEF InMap
<1>10. BanInv'
  BY <1>2, <1>3, <1>4, <1>8, <1>9 DEF StreamInv, BanInv, Serving, Live
<1> QED BY <1>7, <1>10 DEF StreamInv

(* A handler that ends is in no map any more.                              *)
LEMMA StreamOver ==
    ASSUME TypeOK, StreamInv, NEW h \in Handlers, handler[h].pc \in {"isOnline", "announceOff"},
           handler' = [handler EXCEPT ![h] = Idle], UNCHANGED <<banned, streams, admin, late, unkicked>>,
           \A g \in Handlers : chan'[g].closed = chan[g].closed
    PROVE  StreamInv'
<1>1. \A g \in Handlers \ {h} : handler'[g] = handler[g]
  BY DEF TypeOK
<1>2. handler'[h].pc = "idle"
  BY DEF TypeOK, Idle
<1>3. \A g \in Handlers \ {h} : User(g)' = User(g) /\ Place(g)' = Place(g) /\ (Live(g)' <=> Live(g))
  BY <1>1 DEF User, Place, Live
<1>4. ~ Live(h)' BY <1>2 DEF Live
<1>5. \A x \in Admins : admin[x].kicked \subseteq Handlers
  BY DEF TypeOK, Calls
<1>6. HubInv'
  BY <1>1, <1>2, <1>3, <1>4, <1>5 DEF StreamInv, HubInv, Serving
<1>7. \A g \in Handlers \ {h} : /\ InMap(g)' = InMap(g) /\ (BeingKicked(g)' <=> BeingKicked(g))
                                 /\ (KickComes(g)' <=> KickComes(g))
  BY <1>3 DEF InMap, BeingKicked, KickComes
<1>8. BanInv'
  BY <1>1, <1>2, <1>3, <1>4, <1>7 DEF StreamInv, BanInv, Serving
<1> QED BY <1>6, <1>8 DEF StreamInv

LEMMA StreamAuthenticate ==
    ASSUME TypeOK, StreamInv, NEW h \in Handlers, NEW t \in Tokens, NEW id \in ClientIds,
           Authenticate(h, t, id)
    PROVE  StreamInv'
<1> DEFINE same == {g \in Handlers \ {h} : handler[g].id = id /\ User(g) = TokenOwner[t]}
<1>1. /\ handler[h].pc = "idle" /\ TokenOwner[t] \notin banned
      /\ \A x \in Admins : h \notin admin[x].kicked
      /\ UNCHANGED <<banned, streams, admin, unkicked>>
      /\ late' = IF same = {} THEN late \ {h} ELSE late \cup same \cup {h}
  BY DEF Authenticate, At
<1>2. handler'[h] = [pc |-> "register", token |-> t, id |-> id, online |-> FALSE]
  BY DEF Authenticate, Idle, TypeOK
<1>3. \A g \in Handlers \ {h} : handler'[g] = handler[g] /\ chan'[g] = chan[g]
  BY DEF Authenticate, TypeOK
<1>4. chan'[h].closed = FALSE
  BY DEF Authenticate, Empty, TypeOK
<1>5. \A g \in Handlers \ {h} : User(g)' = User(g) /\ Place(g)' = Place(g) /\ (Live(g)' <=> Live(g))
  BY <1>3 DEF User, Place, Live
<1>6. User(h)' = TokenOwner[t] /\ Place(h)' = <<TokenOwner[t], id>>
  BY <1>2 DEF User, Place
<1>7. \A x \in Admins : admin[x].kicked \subseteq Handlers
  BY DEF TypeOK, Calls
<1>8. HubInv'
  BY <1>1, <1>2, <1>3, <1>4, <1>5, <1>7 DEF StreamInv, HubInv, Serving
<1>9. \A g \in Handlers \ {h} : /\ InMap(g)' = InMap(g) /\ (BeingKicked(g)' <=> BeingKicked(g))
                                 /\ (KickComes(g)' <=> KickComes(g))
  BY <1>1, <1>5 DEF InMap, BeingKicked, KickComes
<1>10. \A g \in Handlers \ {h} : Place(g)' = Place(h)' => g \in same
  BY <1>5, <1>6 DEF Place
<1>11. late \ {h} \subseteq late'
  BY <1>1
<1>12. \A f, g \in Handlers : f # g /\ Live(f)' /\ Live(g)' /\ Place(f)' = Place(g)' =>
        f \in late' /\ g \in late'
  <2>1. ASSUME NEW g \in Handlers \ {h}, Place(g)' = Place(h)' PROVE g \in late' /\ h \in late'
    BY <1>1, <1>10, <2>1
  <2>2. \A f, g \in Handlers \ {h} : f # g /\ Live(f)' /\ Live(g)' /\ Place(f)' = Place(g)' =>
            f \in late /\ g \in late
    BY <1>5 DEF StreamInv, BanInv
  <2> QED BY <1>11, <2>1, <2>2
<1>13. BanInv'
  <2>1. \A g \in Handlers \ late' : g # h => g \in Handlers \ late BY <1>11
  <2>2. User(h)' \notin banned' BY <1>1, <1>6
  <2> QED BY <1>1, <1>2, <1>3, <1>5, <1>9, <1>12, <2>1, <2>2 DEF StreamInv, BanInv, Serving
<1> QED BY <1>8, <1>13 DEF StreamInv

(***************************************************************************)
(* SetUserStatus.                                                          *)
(***************************************************************************)
LEMMA StreamBan ==
    ASSUME TypeOK, StreamInv, NEW x \in Admins, NEW u \in Users,
           Ban(x, u) \/ BanUnacknowledged(x, u) \/ Unban(x, u)
    PROVE  StreamInv'
<1>1. /\ admin[x].pc = "idle" /\ UNCHANGED <<streams, chan, handler, late>>
      /\ \/ UNCHANGED admin
         \/ \E pc \in {"push", "notify"} : admin'[x] = [pc |-> pc, user |-> u, kicked |-> {}]
      /\ \A y \in Admins \ {x} : admin'[y] = admin[y]
  BY DEF Ban, BanUnacknowledged, Unban, NoAdmin, TypeOK
<1>2. admin[x].kicked = {}
  BY <1>1 DEF StreamInv, HubInv
<1>3. \A h \in Handlers : User(h)' = User(h) /\ Place(h)' = Place(h) /\ (Live(h)' <=> Live(h))
  BY <1>1 DEF User, Place, Live
<1>4. \A y \in Admins : admin[y].kicked \subseteq Handlers
  BY DEF TypeOK, Calls
<1>5. HubInv'
  BY <1>1, <1>2, <1>3, <1>4 DEF StreamInv, HubInv
<1>6. \A h \in Handlers : /\ InMap(h)' = InMap(h) /\ (BeingKicked(h)' <=> BeingKicked(h))
                          /\ (KickComes(h) => KickComes(h)')
  BY <1>1, <1>2, <1>3 DEF InMap, BeingKicked, KickComes
<1>7. \A h \in Handlers : User(h)' \in banned' \ unkicked' =>
            User(h) \in banned \ unkicked \/ KickComes(h)'
  <2>1. CASE Ban(x, u)
    <3>1. /\ banned' = banned \cup {u} /\ unkicked' = unkicked \ {u}
          /\ admin'[x].pc = "push" /\ admin'[x].user = u
      BY <2>1 DEF Ban, SetBanned, NoAdmin, TypeOK
    <3> QED BY <1>3, <3>1 DEF KickComes
  <2>2. CASE BanUnacknowledged(x, u)
    BY <1>3, <2>2 DEF BanUnacknowledged, SetBanned
  <2>3. CASE Unban(x, u) BY <1>3, <2>3 DEF Unban
  <2> QED BY <2>1, <2>2, <2>3
<1>8. BanInv'
  BY <1>1, <1>3, <1>6, <1>7 DEF StreamInv, BanInv
<1> QED BY <1>5, <1>8 DEF StreamInv

LEMMA StreamKick ==
    ASSUME TypeOK, StreamInv, NEW x \in Admins, KickUser(x)
    PROVE  StreamInv'
<1> DEFINE u == admin[x].user
<1>1. /\ admin[x].pc = "kick" /\ UNCHANGED <<banned, chan, handler, unkicked>>
      /\ streams' = [k \in DOMAIN streams |-> IF k[1] = u THEN None ELSE streams[k]]
      /\ late' = late \cup {h \in Handlers : At(h, "register") /\ User(h) = u}
  BY DEF KickUser
<1>2. u \in Users
  BY <1>1, BusyAdmin DEF Working
<1>3. /\ admin'[x].pc = "close" /\ admin'[x].user = u /\ admin'[x].kicked = Clients(u)
      /\ \A y \in Admins \ {x} : admin'[y] = admin[y]
  <2>1. admin[x] \in Working BY <1>1, BusyAdmin
  <2> QED BY <2>1 DEF KickUser, TypeOK, Working
<1>4. admin[x].kicked = {}
  BY <1>1 DEF StreamInv, HubInv
<1>5. Clients(u) \subseteq Handlers
  BY <1>2, ClientsAreHandlers
<1>6. \A h \in Clients(u) : \E k \in Users \X ClientIds : k[1] = u /\ streams[k] = h
  <2> SUFFICES ASSUME NEW id \in ClientIds PROVE <<u, id>> \in Users \X ClientIds
    BY DEF Clients
  <2> QED BY <1>2
<1>7. \A h \in Handlers : User(h)' = User(h) /\ Place(h)' = Place(h) /\ (Live(h)' <=> Live(h))
  BY <1>1 DEF User, Place, Live
<1>8. \A k \in Users \X ClientIds : streams'[k] = IF k[1] = u THEN None ELSE streams[k]
  BY <1>1 DEF TypeOK
<1>9. \A h \in Clients(u) : /\ handler[h].pc \in Serving \cup {"unregister"} /\ User(h) = u
                            /\ ~ chan[h].closed /\ ~ BeingKicked(h)
                            /\ \A k \in Users \X ClientIds : streams'[k] # h
  <2> SUFFICES ASSUME NEW h \in Clients(u)
               PROVE  /\ handler[h].pc \in Serving \cup {"unregister"} /\ User(h) = u
                      /\ ~ chan[h].closed /\ ~ BeingKicked(h)
                      /\ \A k \in Users \X ClientIds : streams'[k] # h
    OBVIOUS
  <2>1. PICK k \in Users \X ClientIds : k[1] = u /\ streams[k] = h BY <1>6
  <2>2. /\ handler[h].pc \in Serving \cup {"unregister"} /\ k = Place(h) /\ ~ chan[h].closed
    BY <1>5, <2>1 DEF StreamInv, HubInv
  <2>3. User(h) = u BY <2>1, <2>2 DEF Place
  <2>4. ~ BeingKicked(h) BY <2>1 DEF StreamInv, HubInv, BeingKicked
  <2>5. ASSUME NEW l \in Users \X ClientIds, streams'[l] = h PROVE FALSE
    <3>1. h # None BY DEF Clients
    <3>2. l[1] # u /\ streams[l] = h BY <1>8, <2>5, <3>1
    <3>3. l = Place(h) BY <1>5, <3>2 DEF StreamInv, HubInv
    <3> QED BY <2>3, <3>2, <3>3 DEF Place
  <2> QED BY <2>2, <2>3, <2>4, <2>5
<1>10. \A y \in Admins : admin[y].kicked \subseteq Handlers
  BY DEF TypeOK, Calls
<1>11. HubInv'
  <2>1. \A k \in Users \X ClientIds, h \in Handlers : streams'[k] = h =>
        /\ handler'[h].pc \in Serving \cup {"unregister"}
        /\ k = Place(h)' /\ ~ chan'[h].closed
    BY <1>1, <1>7, <1>8, NoneAssumption DEF StreamInv, HubInv
  <2>2. \A y \in Admins : \A h \in admin'[y].kicked :
        /\ admin'[y].pc = "close" /\ ~ chan'[h].closed /\ handler'[h].pc # "register"
        /\ Live(h)' => admin'[y].user = User(h)'
        /\ \A k \in Users \X ClientIds : streams'[k] # h
    <3>1. ASSUME NEW h \in Clients(u)
          PROVE  /\ ~ chan'[h].closed /\ handler'[h].pc # "register" /\ User(h)' = u
                 /\ \A k \in Users \X ClientIds : streams'[k] # h
      BY <1>1, <1>5, <1>7, <1>9 DEF Serving
    <3>2. ASSUME NEW y \in Admins \ {x}, NEW h \in admin[y].kicked
          PROVE  /\ admin[y].pc = "close" /\ ~ chan'[h].closed /\ handler'[h].pc # "register"
                 /\ Live(h)' => admin[y].user = User(h)'
                 /\ \A k \in Users \X ClientIds : streams'[k] # h
      BY <1>1, <1>7, <1>8, <1>10, NoneAssumption DEF StreamInv, HubInv
    <3> QED BY <1>3, <3>1, <3>2
  <2>3. \A y, z \in Admins : y # z => admin'[y].kicked \cap admin'[z].kicked = {}
    BY <1>3, <1>9 DEF StreamInv, HubInv, BeingKicked
  <2> QED BY <1>1, <2>1, <2>2, <2>3 DEF StreamInv, HubInv
<1>12. ASSUME NEW h \in Handlers, Live(h), InMap(h) PROVE InMap(h)' \/ BeingKicked(h)'
  <2>1. Place(h) \in Users \X ClientIds BY <1>12, BusyHandler DEF Live, Place, At
  <2>2. CASE User(h) = u
    <3>1. h \in Clients(u)
      BY <1>12, <2>1, <2>2, NoneAssumption DEF Clients, InMap, Place
    <3> QED BY <1>3, <3>1 DEF BeingKicked
  <2>3. CASE User(h) # u BY <1>7, <1>8, <1>12, <2>1, <2>3 DEF InMap, Place
  <2> QED BY <2>2, <2>3
<1>13. \A h \in Handlers : BeingKicked(h) => BeingKicked(h)'
  BY <1>3, <1>4 DEF BeingKicked
<1>14. \A h \in Handlers : KickComes(h) => KickComes(h)' \/ User(h) = u
  BY <1>3, <1>7 DEF KickComes
<1>15. BanInv'
  <2>1. \A f, g \in Handlers : f # g /\ Live(f)' /\ Live(g)' /\ Place(f)' = Place(g)' =>
            f \in late' /\ g \in late'
    BY <1>1, <1>7 DEF StreamInv, BanInv
  <2>2. \A h \in Handlers \ late' : h \in Handlers \ late
    BY <1>1
  <2>3. ASSUME NEW h \in Handlers \ late', handler'[h].pc \in Serving
        PROVE  InMap(h)' \/ BeingKicked(h)' \/ chan'[h].closed
    BY <1>1, <1>12, <1>13, <2>2, <2>3 DEF StreamInv, BanInv, Serving, Live
  <2>4. ASSUME NEW h \in Handlers \ late', handler'[h].pc \in Serving \cup {"register"},
               User(h)' \in banned' \ unkicked'
        PROVE  KickComes(h)' \/ BeingKicked(h)' \/ chan'[h].closed
    <3>1. KickComes(h) \/ BeingKicked(h) \/ chan[h].closed
      BY <1>1, <1>7, <2>2, <2>4 DEF StreamInv, BanInv
    <3>2. CASE KickComes(h) /\ User(h) = u
      <4>1. handler[h].pc # "register" BY <1>1, <3>2 DEF At
      <4>2. InMap(h) \/ BeingKicked(h) \/ chan[h].closed
        BY <1>1, <2>2, <2>4, <4>1 DEF StreamInv, BanInv
      <4>3. InMap(h) => BeingKicked(h)'
        <5>1. Live(h) /\ Place(h) \in Users \X ClientIds
          BY <1>1, <2>4, BusyHandler DEF Live, Place, At, Serving
        <5>2. InMap(h) => h \in Clients(u)
          BY <3>2, <5>1, NoneAssumption DEF Clients, InMap, Place
        <5> QED BY <1>3, <5>2 DEF BeingKicked
      <4> QED BY <1>1, <1>13, <4>2, <4>3
    <3> QED BY <1>1, <1>13, <1>14, <3>1, <3>2
  <2> QED BY <2>1, <2>3, <2>4 DEF BanInv
<1> QED BY <1>11, <1>15 DEF StreamInv

LEMMA StreamClose ==
    ASSUME TypeOK, StreamInv, NEW x \in Admins, CloseChannel(x)
    PROVE  StreamInv'
<1>1. PICK h \in admin[x].kicked : /\ chan' = [chan EXCEPT ![h].closed = TRUE]
                                   /\ admin' = [admin EXCEPT ![x].kicked = @ \ {h}]
  BY DEF CloseChannel
<1>2. admin[x].pc = "close" /\ UNCHANGED <<banned, streams, handler, late, unkicked>>
  BY DEF CloseChannel
<1>3. \A y \in Admins : admin[y].kicked \subseteq Handlers
  BY DEF TypeOK, Calls
<1>4. admin[x] \in Working
  BY <1>2, BusyAdmin
<1>5. /\ admin'[x].pc = "close" /\ admin'[x].user = admin[x].user
      /\ admin'[x].kicked = admin[x].kicked \ {h}
      /\ \A y \in Admins \ {x} : admin'[y] = admin[y]
  BY <1>1, <1>2, <1>4 DEF TypeOK, Working
<1>6. chan'[h].closed = TRUE /\ \A g \in Handlers \ {h} : chan'[g] = chan[g]
  <2>1. h \in Handlers /\ chan[h] \in Channels BY <1>1, <1>3 DEF TypeOK
  <2> QED BY <1>1, <2>1 DEF TypeOK, Channels
<1>7. \A g \in Handlers : User(g)' = User(g) /\ Place(g)' = Place(g) /\ (Live(g)' <=> Live(g))
  BY <1>2 DEF User, Place, Live
<1>8. HubInv'
  <2>1. \A k \in Users \X ClientIds, g \in Handlers : streams'[k] = g =>
        /\ handler'[g].pc \in Serving \cup {"unregister"}
        /\ k = Place(g)' /\ ~ chan'[g].closed
    BY <1>1, <1>2, <1>6, <1>7 DEF StreamInv, HubInv
  <2>2. \A y \in Admins : \A g \in admin'[y].kicked :
        g \in admin[y].kicked /\ g # h /\ admin'[y].pc = admin[y].pc /\ admin'[y].user = admin[y].user
    BY <1>1, <1>2, <1>5 DEF StreamInv, HubInv
  <2>3. \A y \in Admins : \A g \in admin'[y].kicked :
        /\ admin'[y].pc = "close" /\ ~ chan'[g].closed /\ handler'[g].pc # "register"
        /\ Live(g)' => admin'[y].user = User(g)'
        /\ \A k \in Users \X ClientIds : streams'[k] # g
    BY <1>2, <1>3, <1>6, <1>7, <2>2 DEF StreamInv, HubInv
  <2>4. \A g \in Handlers : handler'[g].pc = "register" => ~ chan'[g].closed
    BY <1>1, <1>2, <1>6 DEF StreamInv, HubInv
  <2>5. \A y, z \in Admins : y # z => admin'[y].kicked \cap admin'[z].kicked = {}
    BY <2>2 DEF StreamInv, HubInv
  <2> QED BY <2>1, <2>3, <2>4, <2>5 DEF HubInv
<1>9. \A g \in Handlers : /\ InMap(g)' = InMap(g) /\ (KickComes(g) => KickComes(g)')
                          /\ BeingKicked(g) => BeingKicked(g)' \/ g = h
  BY <1>2, <1>5, <1>7 DEF InMap, BeingKicked, KickComes
<1>10. \A g \in Handlers : chan[g].closed => chan'[g].closed
  BY <1>6
<1>11. BanInv'
  BY <1>2, <1>6, <1>7, <1>9, <1>10 DEF StreamInv, BanInv
<1> QED BY <1>8, <1>11 DEF StreamInv

(* The other steps of a call: to the push, past an empty list, to its end. *)
LEMMA StreamCall ==
    ASSUME TypeOK, StreamInv, NEW x \in Admins,
           PushForceOffline(x) \/ Kicked(x) \/ NotifyAdmins(x)
    PROVE  StreamInv'
<1>1. UNCHANGED <<banned, streams, handler, late, unkicked>>
  BY DEF PushForceOffline, Kicked, NotifyAdmins
<1>2. \A g \in Handlers : chan'[g].closed = chan[g].closed
  BY PushCloses DEF PushForceOffline, Kicked, NotifyAdmins
<1>3. admin[x] \in Working
  BY BusyAdmin DEF PushForceOffline, Kicked, NotifyAdmins
<1>4. /\ admin[x].kicked = {} /\ admin'[x].kicked = {}
      /\ admin[x].pc \in {"push", "kick"} =>
            admin'[x].pc \in {"push", "kick"} /\ admin'[x].user = admin[x].user
      /\ \A y \in Admins \ {x} : admin'[y] = admin[y]
  <2>1. CASE PushForceOffline(x)
    <3>1. admin[x].pc = "push" /\ admin' = [admin EXCEPT ![x] = [@ EXCEPT !.pc = "kick"]]
      BY <2>1 DEF PushForceOffline, TypeOK
    <3>2. admin[x].kicked = {} BY <3>1 DEF StreamInv, HubInv
    <3> QED BY <1>3, <3>1, <3>2 DEF TypeOK, Working
  <2>2. CASE Kicked(x)
    <3>1. /\ admin[x].pc = "close" /\ admin[x].kicked = {}
          /\ admin' = [admin EXCEPT ![x] = [@ EXCEPT !.pc = "notify"]]
      BY <2>2 DEF Kicked, TypeOK
    <3> QED BY <1>3, <3>1 DEF TypeOK, Working
  <2>3. CASE NotifyAdmins(x)
    <3>1. admin[x].pc = "notify" /\ admin' = [admin EXCEPT ![x] = NoAdmin]
      BY <2>3 DEF NotifyAdmins
    <3>2. admin[x].kicked = {} BY <3>1 DEF StreamInv, HubInv
    <3> QED BY <3>1, <3>2 DEF TypeOK, NoAdmin
  <2> QED BY <2>1, <2>2, <2>3
<1>5. \A g \in Handlers : User(g)' = User(g) /\ Place(g)' = Place(g) /\ (Live(g)' <=> Live(g))
  BY <1>1 DEF User, Place, Live
<1>6. \A y \in Admins : admin[y].kicked \subseteq Handlers
  BY DEF TypeOK, Calls
<1>7. HubInv'
  BY <1>1, <1>2, <1>4, <1>5, <1>6 DEF StreamInv, HubInv
<1>8. \A g \in Handlers : /\ InMap(g)' = InMap(g) /\ (BeingKicked(g)' <=> BeingKicked(g))
                          /\ (KickComes(g) => KickComes(g)')
  BY <1>1, <1>4, <1>5 DEF InMap, BeingKicked, KickComes
<1>9. BanInv'
  BY <1>1, <1>2, <1>5, <1>8 DEF StreamInv, BanInv
<1> QED BY <1>7, <1>9 DEF StreamInv

LEMMA StreamRestart ==
    ASSUME TypeOK, NEW cleaned \in BOOLEAN, Restart(cleaned)
    PROVE  StreamInv'
BY NoneAssumption DEF Restart, StreamInv, HubInv, BanInv, Live, Idle, NoAdmin, Empty, Serving,
   TypeOK

LEMMA StreamNext == TypeOK /\ StreamInv /\ [Next]_vars => StreamInv'
<1> SUFFICES ASSUME TypeOK, StreamInv, [Next]_vars PROVE StreamInv'
  OBVIOUS
<1>1. CASE UNCHANGED <<banned, streams, chan, handler, admin, late, unkicked>>
  BY <1>1, StreamQuiet
<1>2. ASSUME NEW h \in Handlers, Step(h) \/ StreamEnds(h) PROVE StreamInv'
  <2>1. CASE ReadIsOnline(h)
    <3>1. CASE Goto(h, "announceOff")
      BY <2>1, <3>1, Moved, StreamQuiet DEF ReadIsOnline, At
    <3>2. CASE handler' = [handler EXCEPT ![h] = Idle]
      BY <2>1, <3>2, StreamOver DEF ReadIsOnline, At
    <3> QED BY <2>1, <3>1, <3>2 DEF ReadIsOnline
  <2>2. CASE AnnounceOffline(h)
    <3>1. \A g \in Handlers : chan'[g].closed = chan[g].closed
      BY <2>2, PushCloses DEF AnnounceOffline, Announce
    <3> QED BY <2>2, <3>1, StreamOver DEF AnnounceOffline, At
  <2> QED BY <1>2, <2>1, <2>2, StreamRegister, StreamUnregister, StreamQuietSteps DEF Step
<1>3. ASSUME NEW x \in Admins, SetUserStatusStep(x) PROVE StreamInv'
  BY <1>3, StreamKick, StreamClose, StreamCall DEF SetUserStatusStep
<1>4. ASSUME \E u \in Users : OtherEvent(u) PROVE StreamInv'
  <2>1. \A g \in Handlers : chan'[g].closed = chan[g].closed
    BY <1>4, PushCloses DEF OtherEvent
  <2> QED BY <1>4, <2>1, StreamQuiet DEF OtherEvent
<1>5. CASE \/ \E t \in Tokens : LoginCheck(t) \/ LoginCommit(t) \/ Expire(t)
           \/ \E old \in SUBSET Tokens : CleanupExpired(old)
           \/ \E u \in Users : HealUpdate(u)
           \/ HealSnapshot \/ HealSelect \/ HealEnds \/ HealFails
  BY <1>1, <1>5 DEF LoginCheck, LoginCommit, Expire, CleanupExpired, HealUpdate, HealSnapshot,
     HealSelect, HealEnds, HealFails
<1>6. CASE UNCHANGED vars BY <1>1, <1>6 DEF vars
<1> QED BY <1>2, <1>3, <1>4, <1>5, <1>6, StreamAuthenticate, StreamBan, StreamRestart DEF Next

LEMMA StreamInvariance == Spec => []StreamInv
BY StreamInit, StreamNext, TypeCorrect, PTL DEF Spec

(***************************************************************************)
(* No push sends on a closed channel, and no channel is closed twice, for  *)
(* any number of streams and of kicks that overlap.                        *)
(***************************************************************************)
THEOREM ChannelsSoundCorrect == Spec => []ChannelsSound
<1>1. TypeOK /\ StreamInv => ChannelsSound
  <2> SUFFICES ASSUME TypeOK, StreamInv PROVE ChannelsSound
    OBVIOUS
  <2>1. DOMAIN streams = Users \X ClientIds BY DEF TypeOK
  <2>2. \A x \in Admins : \A h \in admin[x].kicked : ~ chan[h].closed
    BY DEF StreamInv, HubInv
  <2>3. \A h \in Handlers : Registered(h) =>
            ~ chan[h].closed /\ handler[h].pc \in Serving \cup {"unregister"}
    BY <2>1 DEF StreamInv, HubInv, Registered
  <2> QED BY <2>2, <2>3 DEF StreamInv, HubInv, ChannelsSound
<1> QED BY <1>1, StreamInvariance, TypeCorrect, PTL

(***************************************************************************)
(* A ban that has been carried out leaves no stream served but those that  *)
(* were being set up when the kick came, or that shared an id.             *)
(***************************************************************************)
THEOREM BanEndsStreamsCorrect == Spec => []BanEndsStreams
<1>1. StreamInv => BanEndsStreams
  <2> SUFFICES ASSUME StreamInv, NEW h \in Handlers \ late,
                      handler[h].pc \in Serving, ~ chan[h].closed, User(h) \in banned \ unkicked,
                      \A x \in Admins : admin[x].user = User(h) => admin[x].pc = "notify"
               PROVE  FALSE
    BY DEF BanEndsStreams
  <2>1. KickComes(h) \/ BeingKicked(h) BY DEF StreamInv, BanInv
  <2>2. CASE KickComes(h) BY <2>2 DEF KickComes
  <2>3. CASE BeingKicked(h) BY <2>3 DEF BeingKicked, StreamInv, HubInv, Live, Serving
  <2> QED BY <2>1, <2>2, <2>3
<1> QED BY <1>1, StreamInvariance, PTL

-----------------------------------------------------------------------------
(***************************************************************************)
(* What friends are told, as long as no statement fails.  A session that   *)
(* is marked online has a stream that will unmark it, and a user announced *)
(* online has a handler that will take it back, or finds another one's     *)
(* mark.                                                                   *)
(***************************************************************************)
Marked == {"announce", "loop", "unregister", "unmark"}
Keeper(t) == \E h \in Handlers : handler[h].token = t /\ handler[h].pc \in Marked
TellInv ==
    /\ \A t \in Tokens : session[t].online =>
        /\ session[t].state \notin {"none", "login"}
        /\ session[t].state = "valid" => Keeper(t)
    /\ \A u \in Users : announced[u] => \E h \in Handlers : Live(h) /\ User(h) = u

LEMMA TellInit == Init => TellInv
BY DEF Init, TellInv

(* Sessions only lose marks, and handlers go on without ending.            *)
LEMMA TellQuiet ==
    ASSUME TypeOK, TellInv, announced' = announced,
           \A t \in Tokens : /\ session'[t].online => session[t].online
                             /\ session'[t].online =>
                                  /\ session'[t].state \notin {"none", "login"}
                                  /\ session'[t].state = "valid" => session[t].state = "valid",
           \A h \in Handlers : /\ Live(h) => Live(h)' /\ handler'[h].token = handler[h].token
                               /\ handler[h].pc \in Marked => handler'[h].pc \in Marked
    PROVE  TellInv'
<1>1. \A h \in Handlers : Live(h) => User(h)' = User(h) BY DEF User
<1>2. ASSUME NEW t \in Tokens, Keeper(t) PROVE Keeper(t)'
  <2>1. PICK h \in Handlers : handler[h].token = t /\ handler[h].pc \in Marked BY <1>2 DEF Keeper
  <2>2. handler'[h].token = t /\ handler'[h].pc \in Marked BY <2>1 DEF Live, Marked
  <2> QED BY <2>2 DEF Keeper, Marked
<1> QED BY <1>1, <1>2 DEF TellInv

LEMMA TellHandler ==
    ASSUME TypeOK, TellInv, ~ StoreMayFail, NEW h \in Handlers, Step(h) \/ StreamEnds(h)
    PROVE  TellInv'
<1> USE DEF At, Live, Marked
<1>1. ~ At(h, "idle")
  BY DEF Step, Register, ReadWasOnline, MarkOnline, AnnounceOnline, Deliver, ChannelClosed,
     Unregister, MarkOffline, ReadIsOnline, AnnounceOffline, StreamEnds
<1>2. handler[h].token \in Tokens /\ User(h) \in Users
  BY <1>1, BusyHandler
<1>3. Outcomes = {TRUE} BY DEF Outcomes
<1>4. CASE Register(h) \/ ChannelClosed(h) \/ StreamEnds(h) \/ Unregister(h)
  <2>1. PICK pc \in {"wasOnline", "unregister", "unmark"} :
            Goto(h, pc) /\ (pc = "wasOnline" => handler[h].pc = "register")
    BY <1>4 DEF Register, ChannelClosed, StreamEnds, Unregister
  <2>2. UNCHANGED <<session, announced>>
    BY <1>4 DEF Register, ChannelClosed, StreamEnds, Unregister
  <2>3. \A t \in Tokens : session[t].online => session[t].state \notin {"none", "login"}
    BY DEF TellInv
  <2>4. \A g \in Handlers : /\ Live(g) => Live(g)' /\ handler'[g].token = handler[g].token
                            /\ handler[g].pc \in Marked => handler'[g].pc \in Marked
    BY <1>1, <2>1, Moved
  <2> QED BY <2>2, <2>3, <2>4, TellQuiet
<1>5. CASE ReadWasOnline(h)
  <2>1. handler[h] = [pc |-> handler[h].pc, token |-> handler[h].token, id |-> handler[h].id,
                      online |-> handler[h].online]
    BY DEF TypeOK, Goroutines
  <2>2. \A g \in Handlers : /\ handler'[g].token = handler[g].token
                            /\ handler'[g].pc = IF g = h THEN "mark" ELSE handler[g].pc
    BY <1>5, <2>1 DEF ReadWasOnline, TypeOK
  <2>3. UNCHANGED <<session, announced>> BY <1>5 DEF ReadWasOnline
  <2>4. \A t \in Tokens : session[t].online => session[t].state \notin {"none", "login"}
    BY DEF TellInv
  <2> QED BY <1>5, <2>2, <2>3, <2>4, TellQuiet DEF ReadWasOnline
<1>6. CASE MarkOnline(h)
  <2>1. PICK pc \in {"loop", "announce"} : Goto(h, pc) BY <1>6 DEF MarkOnline
  <2>2. session' = IF session[handler[h].token].state = "valid"
                   THEN [session EXCEPT ![handler[h].token].online = TRUE] ELSE session
    BY <1>3, <1>6 DEF MarkOnline, MarkSessionClient
  <2>3. \A g \in Handlers : /\ handler'[g].token = handler[g].token
                            /\ handler'[g].pc = IF g = h THEN pc ELSE handler[g].pc
    BY <2>1, Moved
  <2>4. \A t \in Tokens : /\ session'[t].state = session[t].state
                          /\ t # handler[h].token => session'[t] = session[t]
                          /\ session[t].state # "valid" => session'[t] = session[t]
    <3>1. \A t \in Tokens : session[t] \in SessionRows BY DEF TypeOK
    <3> QED BY <1>2, <2>2, <3>1 DEF TypeOK, SessionRows
  <2>5. \A t \in Tokens : Keeper(t) => Keeper(t)' BY <2>3 DEF Keeper
  <2>6. \A t \in Tokens : t = handler[h].token => Keeper(t)' BY <2>3 DEF Keeper
  <2>7. announced' = announced /\ \A g \in Handlers : Live(g) => Live(g)' /\ User(g)' = User(g)
    BY <1>6, <2>3 DEF MarkOnline, User
  <2> QED BY <2>4, <2>5, <2>6, <2>7 DEF TellInv
<1>7. CASE AnnounceOnline(h)
  <2>1. announced' = [announced EXCEPT ![User(h)] = TRUE] /\ session' = session /\ Goto(h, "loop")
    BY <1>3, <1>7 DEF AnnounceOnline, Announce
  <2>2. \A g \in Handlers : /\ handler'[g].token = handler[g].token
                            /\ handler'[g].pc = IF g = h THEN "loop" ELSE handler[g].pc
    BY <2>1, Moved
  <2>3. \A g \in Handlers : Live(g) => Live(g)' /\ User(g)' = User(g) BY <2>2 DEF User
  <2>4. \A t \in Tokens : Keeper(t) => Keeper(t)' BY <2>2 DEF Keeper
  <2> QED BY <1>1, <2>1, <2>3, <2>4 DEF TellInv, TypeOK
<1>8. CASE Deliver(h)
  BY <1>8, TellQuiet DEF Deliver, TellInv
<1>9. CASE MarkOffline(h)
  <2>1. session' = IF session[handler[h].token].state = "valid"
                   THEN [session EXCEPT ![handler[h].token].online = FALSE] ELSE session
    BY <1>3, <1>9 DEF MarkOffline, MarkSessionClient
  <2>2. \A g \in Handlers : /\ handler'[g].token = handler[g].token
                            /\ handler'[g].pc = IF g = h THEN "isOnline" ELSE handler[g].pc
    BY <1>9, Moved DEF MarkOffline
  <2>3. \A t \in Tokens : /\ session'[t].state = session[t].state
                          /\ t # handler[h].token => session'[t] = session[t]
                          /\ session[t].state # "valid" => session'[t] = session[t]
                          /\ t = handler[h].token /\ session[t].state = "valid" => ~ session'[t].online
    <3>1. \A t \in Tokens : session[t] \in SessionRows BY DEF TypeOK
    <3> QED BY <1>2, <2>1, <3>1 DEF TypeOK, SessionRows
  <2>4. \A t \in Tokens : t # handler[h].token /\ Keeper(t) => Keeper(t)' BY <2>2 DEF Keeper
  <2>5. announced' = announced /\ \A g \in Handlers : Live(g) => Live(g)' /\ User(g)' = User(g)
    BY <1>9, <2>2 DEF MarkOffline, User
  <2> QED BY <2>3, <2>4, <2>5 DEF TellInv
<1>10. ASSUME handler[h].pc \in {"isOnline", "announceOff"}, session' = session,
              handler' = [handler EXCEPT ![h] = Idle],
              \A u \in Users : announced'[u] => announced[u] /\ \E g \in Handlers \ {h} : Live(g) /\ User(g) = u
       PROVE  TellInv'
  <2>1. \A g \in Handlers \ {h} : handler'[g] = handler[g] BY <1>10 DEF TypeOK
  <2>2. \A g \in Handlers \ {h} : User(g)' = User(g) BY <2>1 DEF User
  <2>3. \A t \in Tokens : Keeper(t) => Keeper(t)' BY <1>10, <2>1 DEF Keeper
  <2> QED BY <1>10, <2>1, <2>2, <2>3 DEF TellInv
<1>11. CASE ReadIsOnline(h)
  <2>1. CASE Goto(h, "announceOff")
    <3>1. \A g \in Handlers : /\ handler'[g].token = handler[g].token
                              /\ handler'[g].pc = IF g = h THEN "announceOff" ELSE handler[g].pc
      BY <2>1, Moved
    <3> QED BY <1>11, <3>1, TellQuiet DEF ReadIsOnline, TellInv
  <2>2. CASE Online(User(h)) /\ handler' = [handler EXCEPT ![h] = Idle]
    <3>1. PICK t \in Tokens : TokenOwner[t] = User(h) /\ session[t].state = "valid" /\ session[t].online
      BY <2>2 DEF Online
    <3>2. PICK g \in Handlers : handler[g].token = t /\ handler[g].pc \in Marked
      BY <3>1 DEF TellInv, Keeper
    <3>3. g # h /\ User(g) = User(h) BY <1>11, <3>1, <3>2 DEF ReadIsOnline, User
    <3>4. \A u \in Users : announced[u] => \E f \in Handlers \ {h} : Live(f) /\ User(f) = u
      BY <3>2, <3>3 DEF TellInv
    <3> QED BY <1>10, <1>11, <2>2, <3>4 DEF ReadIsOnline
  <2> QED BY <1>11, <2>1, <2>2 DEF ReadIsOnline
<1>12. CASE AnnounceOffline(h)
  <2>1. announced' = [announced EXCEPT ![User(h)] = FALSE]
    BY <1>3, <1>12 DEF AnnounceOffline, Announce
  <2>2. \A u \in Users : announced'[u] => announced[u] /\ u # User(h)
    BY <1>2, <2>1 DEF TypeOK
  <2>3. \A u \in Users : announced'[u] => announced[u] /\ \E g \in Handlers \ {h} : Live(g) /\ User(g) = u
    BY <2>2 DEF TellInv
  <2> QED BY <1>10, <1>12, <2>3 DEF AnnounceOffline
<1> QED BY <1>4, <1>5, <1>6, <1>7, <1>8, <1>9, <1>11, <1>12 DEF Step

LEMMA TellOther ==
    ASSUME TypeOK, TellInv, ~ StoreMayFail,
           \/ UNCHANGED vars
           \/ \E t \in Tokens : LoginCheck(t) \/ LoginCommit(t) \/ Expire(t)
           \/ \E old \in SUBSET Tokens : CleanupExpired(old)
           \/ \E x \in Admins, u \in Users : Ban(x, u) \/ BanUnacknowledged(x, u) \/ Unban(x, u)
           \/ \E x \in Admins : SetUserStatusStep(x)
           \/ \E u \in Users : OtherEvent(u) \/ HealUpdate(u)
           \/ HealSnapshot \/ HealSelect \/ HealEnds \/ HealFails
    PROVE  TellInv'
<1>1. UNCHANGED <<handler, announced>>
  BY DEF vars, LoginCheck, LoginCommit, Expire, CleanupExpired, Ban, BanUnacknowledged, Unban,
     SetUserStatusStep, PushForceOffline, KickUser, CloseChannel, Kicked, NotifyAdmins, OtherEvent, HealUpdate,
     HealSnapshot, HealSelect, HealEnds, HealFails
<1>2. \A t \in Tokens : session[t] \in SessionRows BY DEF TypeOK
<1>3. \A t \in Tokens : session[t].online => session[t].state \notin {"none", "login"}
  BY DEF TellInv
<1> DEFINE Less(t) == /\ session'[t].online => session[t].online
                      /\ session'[t].online =>
                            /\ session'[t].state \notin {"none", "login"}
                            /\ session'[t].state = "valid" => session[t].state = "valid"
<1>4. CASE session' = session BY <1>1, <1>3, <1>4, TellQuiet DEF Live
<1>5. ASSUME \A t \in Tokens : Less(t) PROVE TellInv' BY <1>1, <1>5, TellQuiet DEF Live
<1>6. ASSUME NEW t \in Tokens, LoginCheck(t) \/ LoginCommit(t) \/ Expire(t) PROVE TellInv'
  <2>1. PICK state : /\ session' = [session EXCEPT ![t].state = state]
                     /\ session[t].state \in {"none", "login"} \/ state = "expired"
    BY <1>6 DEF LoginCheck, LoginCommit, Expire
  <2>2. \A s \in Tokens : /\ session'[s].online = session[s].online
                          /\ session'[s].state = IF s = t THEN state ELSE session[s].state
    BY <1>2, <2>1 DEF TypeOK, SessionRows
  <2>3. \A s \in Tokens : Less(s) BY <1>3, <2>1, <2>2
  <2> QED BY <1>5, <2>3
<1>7. ASSUME NEW old \in SUBSET Tokens, CleanupExpired(old) PROVE TellInv'
  <2>1. \A t \in Tokens : Less(t) BY <1>3, <1>7 DEF CleanupExpired
  <2> QED BY <1>5, <2>1
<1>8. ASSUME NEW u \in Users, SetBanned(u) PROVE TellInv'
  <2>1. \A t \in Tokens : Less(t) BY <1>3, <1>8 DEF SetBanned
  <2> QED BY <1>5, <2>1
<1>9. ASSUME NEW u \in Users, HealUpdate(u) PROVE TellInv'
  <2>1. \A t \in Tokens : session'[t] = session[t] \/ session'[t] = [session[t] EXCEPT !.online = FALSE]
    BY <1>9 DEF HealUpdate
  <2>2. \A t \in Tokens : Less(t) BY <1>2, <1>3, <2>1 DEF SessionRows
  <2> QED BY <1>5, <2>2
<1> QED BY <1>4, <1>6, <1>7, <1>8, <1>9
        DEF vars, Ban, BanUnacknowledged, Unban, SetUserStatusStep, PushForceOffline, KickUser, CloseChannel, Kicked,
            NotifyAdmins, OtherEvent, HealSnapshot, HealSelect, HealEnds, HealFails

LEMMA TellAuthenticate ==
    ASSUME TypeOK, TellInv, NEW h \in Handlers, NEW t \in Tokens, NEW id \in ClientIds,
           Authenticate(h, t, id)
    PROVE  TellInv'
<1>1. \A g \in Handlers \ {h} : handler'[g] = handler[g]
  BY DEF Authenticate, TypeOK
<1>2. handler[h].pc = "idle" /\ UNCHANGED <<session, announced>>
  BY DEF Authenticate, At
<1>3. \A g \in Handlers \ {h} : User(g)' = User(g) BY <1>1 DEF User
<1>4. \A s \in Tokens : Keeper(s) => Keeper(s)' BY <1>1, <1>2 DEF Keeper, Marked
<1>5. \A u \in Users : announced[u] => \E g \in Handlers \ {h} : Live(g) /\ User(g) = u
  BY <1>2 DEF TellInv, Live
<1>6. \A u \in Users : announced[u] => \E g \in Handlers : Live(g)' /\ User(g)' = u
  BY <1>1, <1>3, <1>5 DEF Live
<1> QED BY <1>2, <1>4, <1>6 DEF TellInv

LEMMA TellRestart ==
    ASSUME TypeOK, TellInv, ~ StoreMayFail, NEW cleaned \in BOOLEAN, Restart(cleaned)
    PROVE  TellInv'
<1>1. cleaned = TRUE BY DEF Restart, Outcomes
<1> QED BY <1>1 DEF Restart, TellInv

(***************************************************************************)
(* If no statement fails, the friends of a user whose last stream is gone  *)
(* were last told that he is offline, for any number of streams, sessions  *)
(* and bans.                                                               *)
(***************************************************************************)
THEOREM LastOneOutTellsCorrect ==
    ASSUME ~ StoreMayFail
    PROVE  Spec => []LastOneOutTells
<1>1. TypeOK /\ TellInv => LastOneOutTells
  <2> SUFFICES ASSUME TypeOK, TellInv, NEW u \in Users, Away(u), announced[u] PROVE FALSE
    BY DEF LastOneOutTells
  <2>1. PICK h \in Handlers : Live(h) /\ User(h) = u BY DEF TellInv
  <2>2. handler[h].token \in Tokens BY <2>1, BusyHandler DEF Live, At
  <2> QED BY <2>1, <2>2, NoneAssumption DEF Away
<1>2. TypeOK /\ TellInv /\ [Next]_vars => TellInv'
  BY TellHandler, TellOther, TellAuthenticate, TellRestart DEF Next
<1>3. Spec => []TellInv BY <1>2, TellInit, TypeCorrect, PTL DEF Spec
<1> QED BY <1>1, <1>3, TypeCorrect, PTL
=============================================================================
