------------------------- MODULE ConversationProofs -------------------------
(***************************************************************************)
(* Proofs about Conversation, for any number of goroutines and messages.   *)
(***************************************************************************)
EXTENDS Conversation, WellFoundedInduction, TLAPS

-----------------------------------------------------------------------------
(***************************************************************************)
(* The read mark.  Every number on its way into the table was at most the  *)
(* newest message's when it was read, and that one only grows.             *)
(***************************************************************************)
MarkInv ==
    /\ top \in Nat
    /\ lastRead \in 0 .. top
    /\ clamped \subseteq 0 .. top

\* Only three steps touch the mark, and one the messages.
LEMMA MarkSteps ==
    ASSUME [Next]_vars
    PROVE  \/ UNCHANGED <<top, clamped, lastRead>>
           \/ Arrive
           \/ \E n \in Seqs \cup {0} : MarkReads(n) \/ MarkStores(n) \/ MarkLost(n)
BY DEF Next, vars, readVars, SelectOther, Deselect, Send, Reconnect, EndSession, OtherCallback, SendCallback,
       Select, LoadOlder, EventSync, UnreadSync, Callback, Drop, LoadFailed, PageLoaded,
       Loaded, OlderLoaded, Synced, Return

LEMMA ClampBound ==
    ASSUME top \in Nat, NEW n \in Seqs \cup {0}
    PROVE  Clamp(n) \in 0 .. top
BY BoundsAssumption DEF Clamp, Seqs

LEMMA NextMark == MarkInv /\ [Next]_vars => MarkInv' /\ lastRead' >= lastRead
<1> SUFFICES ASSUME MarkInv, [Next]_vars PROVE MarkInv' /\ lastRead' >= lastRead
  OBVIOUS
<1>1. CASE UNCHANGED <<top, clamped, lastRead>>
  BY <1>1 DEF MarkInv
<1>2. CASE Arrive
  BY <1>2 DEF MarkInv, Arrive, readVars
<1>3. ASSUME NEW n \in Seqs \cup {0}, MarkReads(n) PROVE MarkInv' /\ lastRead' >= lastRead
  <2>1. UNCHANGED <<top, lastRead>> /\ clamped' = clamped \cup {Clamp(n)}
    BY <1>3 DEF MarkReads
  <2>2. Clamp(n) \in 0 .. top
    BY ClampBound DEF MarkInv
  <2>3. clamped' \subseteq 0 .. top'
    BY <2>1, <2>2 DEF MarkInv
  <2>4. QED
    BY <2>1, <2>3 DEF MarkInv
<1>4. ASSUME NEW n \in Seqs \cup {0}, MarkStores(n) PROVE MarkInv' /\ lastRead' >= lastRead
  <2>1. n \in 0 .. top /\ lastRead' = Larger(lastRead, n) /\ top' = top
    BY <1>4 DEF MarkInv, MarkStores
  <2>2. clamped' \subseteq clamped
    BY <1>4 DEF MarkStores, OneLess
  <2>3. QED
    BY <2>1, <2>2 DEF MarkInv, Larger
<1>5. ASSUME NEW n \in Seqs \cup {0}, MarkLost(n) PROVE MarkInv' /\ lastRead' >= lastRead
  <2>1. UNCHANGED <<top, lastRead>> /\ clamped' \subseteq clamped
    BY <1>5 DEF MarkLost
  <2>2. QED
    BY <2>1 DEF MarkInv
<1>6. QED
  BY <1>1, <1>2, <1>3, <1>4, <1>5, MarkSteps

LEMMA MarkInvariance == Spec => []MarkInv
<1>1. Init => MarkInv
  BY DEF Init, MarkInv
<1>2. MarkInv /\ [Next]_vars => MarkInv'
  BY NextMark
<1>3. QED
  BY <1>1, <1>2, PTL DEF Spec

(***************************************************************************)
(* No call of MarkConversationRead, whatever number it carries and         *)
(* whenever it is carried out, marks a message read that does not exist.   *)
(***************************************************************************)
THEOREM NoFutureReadCorrect == Spec => []NoFutureRead
<1>1. MarkInv => NoFutureRead
  BY DEF MarkInv, NoFutureRead
<1>2. QED
  BY <1>1, MarkInvariance, PTL

(***************************************************************************)
(* The read mark of chat_reads.go never goes back.                         *)
(***************************************************************************)
THEOREM ReadNeverRecedesCorrect == Spec => ReadNeverRecedes
<1>1. MarkInv /\ [Next]_vars => [lastRead' >= lastRead]_vars
  BY NextMark
<1>2. QED
  BY <1>1, MarkInvariance, PTL DEF Spec, ReadNeverRecedes

-----------------------------------------------------------------------------
(***************************************************************************)
(* historyLoading.  The invariant is inductive as it stands, with the      *)
(* domain of the goroutines' table.                                        *)
(***************************************************************************)
LoadInv == DOMAIN task = Tasks /\ LoadingHasAnswer

\* A goroutine whose load is awaited.
Awaited(t) == t \in Tasks /\ task[t].kind \in {"load", "older"} /\ Wanted(t)

\* A step of t that leaves the selection, and does not end an awaited load.
LEMMA OtherAwaited ==
    ASSUME LoadInv, NEW t \in Tasks, ~ Awaited(t), NEW s,
           task' = [task EXCEPT ![t] = s],
           UNCHANGED <<loading, cut, selected, request>>
    PROVE  LoadInv'
<1>1. DOMAIN task' = Tasks /\ \A u \in Tasks \ {t} : task'[u] = task[u]
  BY DEF LoadInv
<1>2. QED
  BY <1>1 DEF LoadInv, LoadingHasAnswer, Awaited, Wanted

LEMMA NextLoad == LoadInv /\ [Next]_vars => LoadInv'
<1> SUFFICES ASSUME LoadInv, [Next]_vars PROVE LoadInv'
  OBVIOUS
<1>1. CASE UNCHANGED <<task, loading, cut, selected, request>>
  BY <1>1 DEF LoadInv, LoadingHasAnswer, Wanted
<1>2. CASE SelectOther \/ Deselect \/ OtherCallback \/ Reconnect \/ EndSession
  BY <1>2 DEF SelectOther, Deselect, OtherCallback, Reconnect, EndSession, Outdated, LoadInv,
              LoadingHasAnswer
<1>3. ASSUME NEW t \in Tasks, Select(t) \/ LoadOlder(t) PROVE LoadInv'
  <2>1. /\ DOMAIN task' = Tasks
        /\ task'[t].kind \in {"load", "older"} /\ task'[t].request = request'
        /\ selected' = "this"
    BY <1>3 DEF Select, LoadOlder, Start, LoadInv
  <2>2. QED
    BY <2>1 DEF LoadInv, LoadingHasAnswer, Wanted
<1>4. ASSUME NEW t \in Tasks, EventSync(t) \/ UnreadSync(t) PROVE LoadInv'
  <2>1. ~ Awaited(t)
    BY <1>4 DEF EventSync, UnreadSync, Start, Awaited
  <2>2. QED
    BY <1>4, <2>1, OtherAwaited DEF EventSync, UnreadSync, Start, listVars
<1>5. ASSUME NEW t \in Tasks, Drop(t) \/ Synced(t) PROVE LoadInv'
  <2>1. ~ Awaited(t)
    BY <1>5 DEF Drop, Synced, Awaited
  <2>2. QED
    BY <1>5, <2>1, OtherAwaited DEF Drop, Synced, Return, listVars
<1>6. ASSUME NEW t \in Tasks, LoadFailed(t) \/ PageLoaded(t) PROVE LoadInv'
  <2>1. loading' = FALSE /\ task' = [task EXCEPT ![t] = Idle]
    BY <1>6 DEF LoadFailed, PageLoaded, Loaded, OlderLoaded, Return
  <2>2. QED
    BY <2>1 DEF LoadInv, LoadingHasAnswer
<1>7. CASE Arrive \/ Send \/ SendCallback
           \/ \E n \in Seqs \cup {0} : MarkReads(n) \/ MarkStores(n) \/ MarkLost(n)
  BY <1>1, <1>7 DEF Arrive, Send, SendCallback, MarkReads, MarkStores, MarkLost, listVars
<1>8. CASE UNCHANGED vars
  BY <1>1, <1>8 DEF vars, listVars
<1>9. QED
  BY <1>2, <1>3, <1>4, <1>5, <1>6, <1>7, <1>8 DEF Next, Callback

(***************************************************************************)
(* Whatever loads, synchronisations, selections and sessions overlap,      *)
(* historyLoading is set only while a goroutine is under way whose         *)
(* callback clears it, or since a reconnect cut off the load it is set     *)
(* for.                                                                    *)
(***************************************************************************)
THEOREM LoadingHasAnswerCorrect == Spec => []LoadingHasAnswer
<1>1. Init => LoadInv
  BY DEF Init, LoadInv, LoadingHasAnswer
<1>2. LoadInv /\ [Next]_vars => LoadInv'
  BY NextLoad
<1>3. LoadInv => LoadingHasAnswer
  BY DEF LoadInv
<1>4. QED
  BY <1>1, <1>2, <1>3, PTL DEF Spec

-----------------------------------------------------------------------------
(***************************************************************************)
(* The types.  A list holds messages that exist, so its largest number and *)
(* the cursor of a page are numbers of messages.                           *)
(***************************************************************************)
LEMMA LeastNumber ==
    ASSUME NEW S, S \subseteq Nat, S # {}
    PROVE  \E s \in S : \A r \in S : s <= r
<1> DEFINE R == OpToRel(<, Nat)
<1>1. IsWellFoundedOn(R, Nat)
  BY NatLessThanWellFounded
<1>2. \A r, s \in Nat : r < s => <<r, s>> \in R
  BY DEF OpToRel
<1> HIDE DEF R
<1>3. PICK s \in S : \A r \in S : <<r, s>> \notin R
  BY <1>1, WFMin
<1>4. ASSUME NEW r \in S PROVE s <= r
  <2>1. r \in Nat /\ s \in Nat
    OBVIOUS
  <2>2. ~ r < s
    BY <1>2, <1>3, <2>1
  <2>3. QED
    BY <2>1, <2>2
<1>5. QED
  BY <1>4

LEMMA MaxFacts ==
    ASSUME NEW n \in Nat, NEW S \in SUBSET (1 .. n)
    PROVE  /\ MaxOf(S) \in 0 .. n
           /\ S # {} => MaxOf(S) \in S
           /\ \A r \in S : r <= MaxOf(S)
<1>1. CASE S = {}
  BY <1>1 DEF MaxOf
<1>2. CASE S # {}
  <2> DEFINE D == {n - s : s \in S}
  <2>1. \A s \in S : n - s \in Nat
    OBVIOUS
  <2>2. D \subseteq Nat /\ D # {}
    BY <1>2, <2>1
  <2> HIDE DEF D
  <2>3. PICK d \in D : \A e \in D : d <= e
    BY <2>2, LeastNumber
  <2>4. PICK s \in S : d = n - s
    BY DEF D
  <2>5. \A r \in S : r <= s
    <3> TAKE r \in S
    <3>1. n - r \in D
      BY DEF D
    <3>2. QED
      BY <2>3, <2>4, <3>1
  <2>6. MaxOf(S) \in S /\ \A r \in S : r <= MaxOf(S)
    BY <1>2, <2>5 DEF MaxOf
  <2>7. MaxOf(S) \in 1 .. n
    BY <2>6
  <2>8. QED
    BY <2>6, <2>7
<1>3. QED
  BY <1>1, <1>2

LEMMA MinFacts ==
    ASSUME NEW S, S \subseteq Nat, S # {}
    PROVE  MinOf(S) \in S
BY LeastNumber DEF MinOf

View(n) == [mine : SUBSET (1 .. n), other : Seqs \cup {0}, pending : BOOLEAN]

TaskState == [kind : {"idle", "load", "older", "event", "sweep", "replaced"},
              request : 0 .. MaxRequest, cursor : Seqs \cup {0}]

CursorTyped == cursor \in Seqs \cup {0} /\ hasMore \in BOOLEAN /\ (hasMore <=> cursor # 0)

ViewTyped == view \in View(top) /\ seen \in 0 .. top

TaskTyped == task \in [Tasks -> TaskState]

MarksTyped == marks \subseteq Seqs \cup {0} /\ clamped \subseteq Seqs \cup {0}

ControlTyped ==
    /\ top \in 0 .. MaxSeq
    /\ selected \in {"none", "this", "other"}
    /\ sendTo \in {"none", "this", "other", "dropped"}
    /\ request \in 0 .. MaxRequest
    /\ loading \in BOOLEAN /\ cut \in BOOLEAN

LEMMA Parts ==
    /\ TypeOK <=> ControlTyped /\ CursorTyped /\ ViewTyped /\ TaskTyped /\ MarksTyped
    /\ TypeOK' <=> ControlTyped' /\ CursorTyped' /\ ViewTyped' /\ TaskTyped' /\ MarksTyped'
<1>1. /\ hasMore = (cursor # 0) <=> hasMore \in BOOLEAN /\ (hasMore <=> cursor # 0)
      /\ hasMore' = (cursor' # 0) <=> hasMore' \in BOOLEAN /\ (hasMore' <=> cursor' # 0)
  BY Zenon
<1>2. QED
  BY <1>1
  DEF TypeOK, ControlTyped, CursorTyped, ViewTyped, TaskTyped, MarksTyped, View, TaskState

LEMMA ShowTyped ==
    ASSUME ControlTyped, ViewTyped, NEW v \in View(top), Show(v), top' = top
    PROVE  ViewTyped'
<1>1. top \in Nat /\ v.mine \in SUBSET (1 .. top)
  BY BoundsAssumption DEF ControlTyped, View
<1>2. MaxOf(v.mine) \in 0 .. top
  BY <1>1, MaxFacts
<1>3. seen' \in 0 .. top
  BY <1>1, <1>2 DEF Show, Larger, ViewTyped
<1>4. QED
  BY <1>3 DEF Show, ViewTyped, View

LEMMA KeepTyped ==
    ASSUME ControlTyped, NEW page \in SUBSET (1 .. top), NEW more \in BOOLEAN,
           more => page # {}, KeepCursor(page, more)
    PROVE  CursorTyped'
<1>1. CASE more
  <2>0. page \subseteq Seqs /\ page \subseteq Nat /\ page # {} /\ 0 \notin page
    BY <1>1, BoundsAssumption DEF ControlTyped, Seqs
  <2>1. MinOf(page) \in page
    BY <2>0, MinFacts
  <2>2. MinOf(page) \in Seqs /\ MinOf(page) # 0
    BY <2>0, <2>1
  <2>3. cursor' = MinOf(page)
    BY <1>1 DEF KeepCursor
  <2>4. hasMore' \in BOOLEAN /\ hasMore'
    BY <1>1, Zenon DEF KeepCursor
  <2>5. QED
    BY <2>2, <2>3, <2>4 DEF CursorTyped
<1>2. CASE ~ more
  BY <1>2 DEF KeepCursor, CursorTyped
<1>3. QED
  BY <1>1, <1>2

LEMMA NumbersBelow == ControlTyped => top \in Nat /\ 1 .. top \subseteq Seqs
BY BoundsAssumption DEF ControlTyped, Seqs

LEMMA LastTyped ==
    ASSUME ControlTyped, NEW v \in View(top)
    PROVE  LastSeqs(v) \subseteq Seqs \cup {0}
<1>1. MaxOf(v.mine) \in Seqs \cup {0}
  BY MaxFacts, NumbersBelow DEF View, Seqs
<1>2. v.other \in Seqs \cup {0}
  BY DEF View
<1>3. QED
  BY <1>1, <1>2 DEF LastSeqs, Larger

LEMMA NoViewTyped == \A n \in Nat : NoView \in View(n)
BY DEF NoView, View

LEMMA IdleTyped == Idle \in TaskState
BY BoundsAssumption DEF Idle, TaskState

LEMMA StartTyped ==
    ASSUME TaskTyped, NEW t \in Tasks, NEW kind \in {"load", "older", "event", "sweep"},
           NEW r \in 0 .. MaxRequest, NEW c \in Seqs \cup {0}, Start(t, kind, r, c)
    PROVE  TaskTyped'
BY DEF Start, TaskTyped, TaskState

LEMMA ReturnTyped ==
    ASSUME ControlTyped, TaskTyped, NEW t \in Tasks, Return(t), loading' \in BOOLEAN, cut' = cut
    PROVE  ControlTyped' /\ TaskTyped' /\ top' = top
BY IdleTyped DEF Return, ControlTyped, TaskTyped

LEMMA OutdatedTyped ==
    ASSUME TaskTyped, Outdated
    PROVE  TaskTyped'
<1>1. [Idle EXCEPT !.kind = "replaced"] \in TaskState
  BY IdleTyped DEF Idle, TaskState
<1>2. QED
  BY <1>1, IdleTyped DEF Outdated, TaskTyped

LEMMA BeginTyped ==
    ASSUME TypeOK, NEW t \in Tasks, Select(t) \/ LoadOlder(t) \/ EventSync(t) \/ UnreadSync(t)
    PROVE  TypeOK'
<1>p. ControlTyped /\ CursorTyped /\ ViewTyped /\ TaskTyped /\ MarksTyped
  BY Parts
<1>0. 0 \in 0 .. MaxRequest
  BY BoundsAssumption
<1>1. CASE Select(t)
  <2>1. request + 1 \in 0 .. MaxRequest
    BY <1>1, <1>p, BoundsAssumption DEF Select, ControlTyped
  <2>2. TaskTyped' /\ ControlTyped'
    BY <1>1, <1>p, <2>1, StartTyped DEF Select, ControlTyped
  <2>3. QED
    BY <1>1, <1>p, <2>2, Parts DEF Select, readVars, CursorTyped, ViewTyped, MarksTyped
<1>2. CASE LoadOlder(t)
  <2>1. TaskTyped' /\ ControlTyped'
    BY <1>2, <1>p, StartTyped DEF LoadOlder, ControlTyped, CursorTyped
  <2>2. QED
    BY <1>2, <1>p, <2>1, Parts DEF LoadOlder, readVars, CursorTyped, ViewTyped, MarksTyped
<1>3. CASE EventSync(t)
  <2>1. TaskTyped' /\ ControlTyped'
    BY <1>3, <1>p, StartTyped DEF EventSync, listVars, ControlTyped
  <2>2. QED
    BY <1>3, <1>p, <2>1, Parts
    DEF EventSync, listVars, readVars, CursorTyped, ViewTyped, MarksTyped
<1>4. CASE UnreadSync(t)
  <2>1. TaskTyped' /\ ControlTyped'
    BY <1>0, <1>4, <1>p, StartTyped DEF UnreadSync, listVars, ControlTyped
  <2>2. QED
    BY <1>4, <1>p, <2>1, Parts
    DEF UnreadSync, listVars, readVars, CursorTyped, ViewTyped, MarksTyped
<1>5. QED
  BY <1>1, <1>2, <1>3, <1>4

LEMMA CallbackTyped ==
    ASSUME TypeOK, NEW t \in Tasks, Callback(t)
    PROVE  TypeOK'
<1>p. ControlTyped /\ CursorTyped /\ ViewTyped /\ TaskTyped /\ MarksTyped
  BY Parts
<1>1. CASE Drop(t)
  <2>1. ControlTyped' /\ TaskTyped' /\ top' = top
    BY <1>1, <1>p, ReturnTyped DEF Drop, listVars, ControlTyped
  <2>2. QED
    BY <1>1, <1>p, <2>1, Parts DEF Drop, listVars, readVars, CursorTyped, ViewTyped, MarksTyped
<1>2. CASE LoadFailed(t)
  <2>1. ControlTyped' /\ TaskTyped' /\ top' = top
    BY <1>2, <1>p, ReturnTyped DEF LoadFailed
  <2>2. QED
    BY <1>2, <1>p, <2>1, Parts DEF LoadFailed, readVars, CursorTyped, ViewTyped, MarksTyped
<1>3. ASSUME NEW page \in SUBSET (1 .. top), NEW more \in BOOLEAN, more => page # {},
             Loaded(t, page, more)
      PROVE  TypeOK'
  <2>1. ControlTyped' /\ TaskTyped' /\ top' = top
    BY <1>3, <1>p, ReturnTyped DEF Loaded
  <2>2. [NoView EXCEPT !.mine = page] \in View(top)
    BY <1>p DEF NoView, View
  <2>3. ViewTyped'
    BY <1>3, <1>p, <2>1, <2>2, ShowTyped DEF Loaded
  <2>4. CursorTyped'
    BY <1>3, <1>p, KeepTyped DEF Loaded
  <2>5. MaxOf(page) \in Seqs \cup {0}
    BY <1>p, MaxFacts, NumbersBelow DEF Seqs
  <2>6. MarksTyped'
    BY <1>3, <1>p, <2>5 DEF Loaded, MarksTyped
  <2>7. QED
    BY <2>1, <2>3, <2>4, <2>6, Parts
<1>4. ASSUME NEW page \in SUBSET (1 .. top), NEW more \in BOOLEAN, more => page # {},
             OlderLoaded(t, page, more)
      PROVE  TypeOK'
  <2>1. ControlTyped' /\ TaskTyped' /\ top' = top
    BY <1>4, <1>p, ReturnTyped DEF OlderLoaded
  <2>2. [view EXCEPT !.mine = @ \cup page] \in View(top)
    BY <1>p DEF ViewTyped, View
  <2>3. ViewTyped'
    BY <1>4, <1>p, <2>1, <2>2, ShowTyped DEF OlderLoaded
  <2>4. CursorTyped'
    BY <1>4, <1>p, KeepTyped DEF OlderLoaded
  <2>5. QED
    BY <1>4, <1>p, <2>1, <2>3, <2>4, Parts DEF OlderLoaded, readVars, MarksTyped
<1>5. CASE Synced(t)
  <2>1. PICK new \in SUBSET (1 .. top) \ {{}} :
          LET merged == [view EXCEPT !.mine = @ \cup new]
          IN  /\ Show(merged)
              /\ \E last \in LastSeqs(merged) : marks' = marks \cup {last}
    BY <1>5 DEF Synced
  <2> DEFINE merged == [view EXCEPT !.mine = @ \cup new]
  <2>2. merged \in View(top)
    BY <1>p DEF ViewTyped, View
  <2>3. ControlTyped' /\ TaskTyped' /\ top' = top
    BY <1>5, <1>p, ReturnTyped DEF Synced, ControlTyped
  <2>4. ViewTyped'
    BY <1>p, <2>1, <2>2, <2>3, ShowTyped
  <2>5. LastSeqs(merged) \subseteq Seqs \cup {0}
    BY <1>p, <2>2, LastTyped
  <2>6. MarksTyped'
    BY <1>5, <1>p, <2>1, <2>5 DEF Synced, MarksTyped
  <2>7. QED
    BY <1>5, <1>p, <2>3, <2>4, <2>6, Parts DEF Synced, CursorTyped
<1>6. QED
  BY <1>1, <1>2, <1>3, <1>4, <1>5 DEF Callback, PageLoaded

LEMMA OtherTyped ==
    ASSUME TypeOK, OtherCallback \/ SendCallback
    PROVE  TypeOK'
<1>p. ControlTyped /\ CursorTyped /\ ViewTyped /\ TaskTyped /\ MarksTyped
  BY Parts
<1>0. NoView \in View(top)
  BY <1>p, NoViewTyped, NumbersBelow
<1>1. CASE OtherCallback
  <2>1. ControlTyped' /\ TaskTyped' /\ MarksTyped' /\ top' = top
    BY <1>1, <1>p DEF OtherCallback, readVars, ControlTyped, TaskTyped, MarksTyped
  <2>2. ASSUME NEW n \in Seqs, Show([NoView EXCEPT !.other = n]) PROVE ViewTyped'
    <3>1. [NoView EXCEPT !.other = n] \in View(top)
      BY <1>0 DEF View
    <3>2. QED
      BY <1>p, <2>1, <2>2, <3>1, ShowTyped
  <2>3. ASSUME NEW n \in Seqs, hasMore' = TRUE, cursor' \in 2 .. n PROVE CursorTyped'
    BY <2>3, BoundsAssumption DEF CursorTyped, Seqs
  <2>4. hasMore' = FALSE /\ cursor' = 0 => CursorTyped'
    BY DEF CursorTyped
  <2>5. Show(NoView) => ViewTyped'
    BY <1>0, <1>p, <2>1, ShowTyped
  <2>6. UNCHANGED <<view, seen, hasMore, cursor>> => ViewTyped' /\ CursorTyped'
    BY <1>p, <2>1 DEF ViewTyped, CursorTyped
  <2>7. ViewTyped' /\ CursorTyped'
    BY <1>1, <2>2, <2>3, <2>4, <2>5, <2>6 DEF OtherCallback
  <2>8. QED
    BY <2>1, <2>7, Parts
<1>2. CASE SendCallback
  <2>1. /\ ControlTyped' /\ TaskTyped' /\ MarksTyped' /\ CursorTyped' /\ top' = top
    BY <1>2, <1>p DEF SendCallback, readVars, ControlTyped, TaskTyped, MarksTyped, CursorTyped
  <2>2. ASSUME NEW s \in 1 .. top, Show([view EXCEPT !.mine = @ \cup {s}]) PROVE ViewTyped'
    <3>1. [view EXCEPT !.mine = @ \cup {s}] \in View(top)
      BY <1>p DEF ViewTyped, View
    <3>2. QED
      BY <1>p, <2>1, <2>2, <3>1, ShowTyped
  <2>3. ASSUME NEW n \in Seqs, Show([view EXCEPT !.other = Larger(@, n)]) PROVE ViewTyped'
    <3>1. [view EXCEPT !.other = Larger(@, n)] \in View(top)
      BY <1>p DEF ViewTyped, View, Larger
    <3>2. QED
      BY <1>p, <2>1, <2>3, <3>1, ShowTyped
  <2>4. Show([view EXCEPT !.pending = TRUE]) => ViewTyped'
    <3>1. [view EXCEPT !.pending = TRUE] \in View(top)
      BY <1>p DEF ViewTyped, View
    <3>2. QED
      BY <1>p, <2>1, <3>1, ShowTyped
  <2>5. UNCHANGED <<view, seen>> => ViewTyped'
    BY <1>p, <2>1 DEF ViewTyped
  <2>6. ViewTyped'
    BY <1>2, <2>2, <2>3, <2>4, <2>5 DEF SendCallback
  <2>7. QED
    BY <2>1, <2>6, Parts
<1>3. QED
  BY <1>1, <1>2

LEMMA MarkTyped ==
    ASSUME TypeOK, NEW n \in Seqs \cup {0}, MarkReads(n) \/ MarkStores(n) \/ MarkLost(n)
    PROVE  TypeOK'
<1>p. ControlTyped /\ CursorTyped /\ ViewTyped /\ TaskTyped /\ MarksTyped
  BY Parts
<1>1. ControlTyped' /\ CursorTyped' /\ ViewTyped' /\ TaskTyped'
  BY <1>p DEF MarkReads, MarkStores, MarkLost, listVars, ControlTyped, CursorTyped,
              ViewTyped, TaskTyped
<1>2. Clamp(n) \in Seqs \cup {0}
  BY <1>p, ClampBound, NumbersBelow DEF Seqs
<1>3. MarksTyped'
  BY <1>p, <1>2 DEF MarkReads, MarkStores, MarkLost, OneLess, MarksTyped
<1>4. QED
  BY <1>1, <1>3, Parts

LEMMA NextTyped == TypeOK /\ [Next]_vars => TypeOK'
<1> SUFFICES ASSUME TypeOK, [Next]_vars PROVE TypeOK'
  OBVIOUS
<1>p. ControlTyped /\ CursorTyped /\ ViewTyped /\ TaskTyped /\ MarksTyped
  BY Parts
<1>1. CASE UNCHANGED vars
  BY <1>1, <1>p, Parts DEF vars, listVars, readVars, ControlTyped, CursorTyped, ViewTyped,
                          TaskTyped, MarksTyped
<1>2. CASE Arrive
  <2>1. ControlTyped' /\ top' = top + 1 /\ top \in Nat
    BY <1>2, <1>p, BoundsAssumption DEF Arrive, ControlTyped, listVars
  <2>2. View(top) \subseteq View(top')
    BY <2>1 DEF View
  <2>3. ViewTyped'
    BY <1>2, <1>p, <2>1, <2>2 DEF Arrive, listVars, ViewTyped
  <2>4. QED
    BY <1>2, <1>p, <2>1, <2>3, Parts DEF Arrive, listVars, readVars, CursorTyped, TaskTyped,
                                       MarksTyped
<1>3. CASE SelectOther \/ Send
  <2>1. request' \in 0 .. MaxRequest
    BY <1>3, <1>p, BoundsAssumption DEF SelectOther, Send, ControlTyped
  <2>2. QED
    BY <1>3, <1>p, <2>1, Parts DEF SelectOther, Send, listVars, readVars, ControlTyped,
                                   CursorTyped, ViewTyped, TaskTyped, MarksTyped
<1>4. CASE Deselect
  <2>1. ViewTyped'
    BY <1>4, <1>p, NoViewTyped, NumbersBelow, ShowTyped DEF Deselect
  <2>2. QED
    BY <1>4, <1>p, <2>1, Parts DEF Deselect, readVars, ControlTyped, CursorTyped, TaskTyped,
                                   MarksTyped
<1>5. CASE Reconnect
  BY <1>5, <1>p, OutdatedTyped, Parts
  DEF Reconnect, readVars, ControlTyped, CursorTyped, ViewTyped, MarksTyped
<1>6. CASE EndSession
  <2>1. ViewTyped'
    BY <1>6, <1>p, NoViewTyped, NumbersBelow, ShowTyped DEF EndSession
  <2>2. QED
    BY <1>6, <1>p, <2>1, OutdatedTyped, Parts DEF EndSession, readVars, ControlTyped, CursorTyped,
                                                  MarksTyped
<1>7. QED
  BY <1>1, <1>2, <1>3, <1>4, <1>5, <1>6, BeginTyped, CallbackTyped, OtherTyped, MarkTyped DEF Next

(***************************************************************************)
(* The list holds messages that exist, and there is a cursor for Load      *)
(* Older exactly while historyHasMore is set.                              *)
(***************************************************************************)
THEOREM TypeCorrect == Spec => []TypeOK
<1>1. Init => TypeOK
  <2> SUFFICES ASSUME Init PROVE TypeOK
    OBVIOUS
  <2>1. TaskTyped
    BY IdleTyped DEF Init, TaskTyped
  <2>2. ViewTyped
    BY DEF Init, ViewTyped, NoView, View
  <2>3. ControlTyped /\ MarksTyped
    <3>1. 0 \in 0 .. MaxSeq /\ 0 \in 0 .. MaxRequest
      BY BoundsAssumption
    <3>2. top \in 0 .. MaxSeq /\ request \in 0 .. MaxRequest
      BY <3>1 DEF Init
    <3>3. loading \in BOOLEAN /\ cut \in BOOLEAN
      BY Zenon DEF Init
    <3>4. selected = "none" /\ sendTo = "none"
      BY DEF Init
    <3>5. marks = {} /\ clamped = {}
      BY DEF Init
    <3>6. QED
      BY <3>2, <3>3, <3>4, <3>5 DEF ControlTyped, MarksTyped
  <2>4. hasMore \in BOOLEAN /\ ~ hasMore
    BY Zenon DEF Init
  <2>5. CursorTyped
    BY <2>4 DEF Init, CursorTyped
  <2>6. QED
    BY <2>1, <2>2, <2>3, <2>5, Parts
<1>2. QED
  BY <1>1, NextTyped, PTL DEF Spec
=============================================================================
