-------------------------- MODULE HistorySyncProofs --------------------------
(***************************************************************************)
(* Proofs about HistorySync, for any number of goroutines and messages and *)
(* any sizes of pages.                                                     *)
(***************************************************************************)
EXTENDS HistorySync, FiniteSetTheorems, WellFoundedInduction, TLAPS

-----------------------------------------------------------------------------
(***************************************************************************)
(* What a goroutine in state k is sure of, while the cache holds C and the *)
(* server the messages 1 .. n.                                             *)
(***************************************************************************)
Filling(k) == k.stage = "gaps" /\ k.pc \in {"gap", "fetch", "save"}

Between(h, C) == \E r, s \in C : r < h /\ h < s

\* Its stage, and the pages it has got.
StageInv(k, n) ==
    /\ k.pc \in {"gap", "max"} => k.stage = "gaps"
    /\ k.pc = "idle" \/ k.stage = "page" => k.holes = {} /\ k.fresh = {}
    /\ k.page \subseteq 1 .. n /\ k.fresh \subseteq 1 .. n

(***************************************************************************)
(* A hole to be filled is still one between cached messages, until gap     *)
(* filling is over.  A message below a hole is not tried again, for the    *)
(* page that was fetched for it has the message right above.               *)
(***************************************************************************)
HolesInv(k, C, n) ==
    /\ \A h \in k.holes : h \in C \/ (Filling(k) /\ Between(h, C))
    /\ Filling(k) /\ k.holes # {} =>
        \A p \in k.tried : p + 1 \in C \/ (k.pc # "gap" /\ p = k.cursor)
    /\ Filling(k) /\ k.pc # "gap" =>
        /\ k.cursor \in C /\ k.missing = k.cursor + 1 /\ k.missing \in 1 .. n
        /\ k.pc = "save" => k.missing \in k.page

(***************************************************************************)
(* A message newer than the cache of the start is cached and returned, or  *)
(* above all that is cached, or, later, above the cursor.  A page that was *)
(* fetched has it, or ends below it.                                       *)
(***************************************************************************)
FreshInv(k, C) ==
    LET had == k.fresh \cap C \cap k.synced
    IN  /\ k.fresh # {} => C # {}
        /\ Filling(k) \/ k.pc = "max" => \A f \in k.fresh \ had : \A c \in C : c < f
        /\ k.stage = "latest" => k.fresh = {}
        /\ k.stage = "newer" /\ k.pc \in {"fetch", "save"} => \A f \in k.fresh \ had : k.cursor < f
        /\ k.stage \in {"gaps", "newer"} /\ k.pc = "save" =>
            \A f \in k.fresh : k.cursor < f => f \in k.page \/ \A p \in k.page : p < f
        /\ k.stage = "newer" /\ k.pc = "save" =>
            /\ \A p \in k.page : k.cursor < p
            /\ k.page = {} \/ ~ k.more => \A f \in k.fresh : k.cursor < f => f \in k.page
        /\ k.pc = "done" => k.fresh \subseteq had

TaskInv(k, C, n) == StageInv(k, n) /\ HolesInv(k, C, n) /\ FreshInv(k, C)

IndInv == TypeOK /\ \A t \in Tasks : TaskInv(task[t], cache, top)

-----------------------------------------------------------------------------
(***************************************************************************)
(* The smallest and the largest of a set of messages, and pages.           *)
(***************************************************************************)
LEMMA LeastNumber ==
    ASSUME NEW S, S \subseteq Nat, S # {}
    PROVE  \E s \in S : \A r \in S : s <= r
<1> DEFINE R == OpToRel(<, Nat)
<1>1. IsWellFoundedOn(R, Nat)
  BY NatLessThanWellFounded
<1>2. \A r, s \in Nat : r < s => <<r, s>> \in R
  BY DEF OpToRel
<1> HIDE DEF R
<1>3. PICK s \in S : \A r \in S : <<r, s>> \notin R
  BY <1>1, WFMin
<1>4. ASSUME NEW r \in S PROVE s <= r
  <2>1. r \in Nat /\ s \in Nat
    OBVIOUS
  <2>2. ~ r < s
    BY <1>2, <1>3, <2>1
  <2>3. QED
    BY <2>1, <2>2
<1>5. QED
  BY <1>4

LEMMA MaxFacts ==
    ASSUME NEW n \in Nat, NEW S \in SUBSET (1 .. n)
    PROVE  /\ MaxOf(S) \in 0 .. n
           /\ S # {} => MaxOf(S) \in S
           /\ \A r \in S : r <= MaxOf(S)
<1>1. CASE S = {}
  BY <1>1 DEF MaxOf
<1>2. CASE S # {}
  <2> DEFINE D == {n - s : s \in S}
  <2>1. \A s \in S : n - s \in Nat
    OBVIOUS
  <2>2. D \subseteq Nat /\ D # {}
    BY <1>2, <2>1
  <2> HIDE DEF D
  <2>3. PICK d \in D : \A e \in D : d <= e
    BY <2>2, LeastNumber
  <2>4. PICK s \in S : d = n - s
    BY DEF D
  <2>5. \A r \in S : r <= s
    <3> TAKE r \in S
    <3>1. n - r \in D
      BY DEF D
    <3>2. QED
      BY <2>3, <2>4, <3>1
  <2>6. MaxOf(S) \in S /\ \A r \in S : r <= MaxOf(S)
    BY <1>2, <2>5 DEF MaxOf
  <2>7. MaxOf(S) \in 1 .. n
    BY <2>6
  <2>8. QED
    BY <2>6, <2>7
<1>3. QED
  BY <1>1, <1>2

LEMMA MinFacts ==
    ASSUME NEW S, S \subseteq Nat, S # {}
    PROVE  LET m == CHOOSE s \in S : \A r \in S : s <= r
           IN  m \in S /\ \A r \in S : m <= r
BY LeastNumber

(***************************************************************************)
(* A page of newer messages starts right above the cursor, leaves nothing  *)
(* out before its end, and has all of them if there are no more.           *)
(***************************************************************************)
LEMMA NewerFacts ==
    ASSUME NEW n \in Nat, NEW cursor \in Nat, NEW limit \in Nat \ {0}
    PROVE  LET page == Newer(1 .. n, cursor, limit)
           IN  /\ \A s \in page.msgs : s \in 1 .. n /\ cursor < s
               /\ \A s \in 1 .. n : cursor < s => s \in page.msgs \/ \A p \in page.msgs : p < s
               /\ cursor + 1 \in 1 .. n => cursor + 1 \in page.msgs
               /\ ~ page.more => \A s \in 1 .. n : cursor < s => s \in page.msgs
<1> DEFINE newer == {s \in 1 .. n : s > cursor}
           Below(s) == {r \in newer : r < s}
<1>1. IsFiniteSet(newer)
  <2>1. IsFiniteSet(1 .. n) /\ newer \in SUBSET (1 .. n)
    BY FS_Interval
  <2>2. QED
    BY <2>1, FS_Subset
<1>2. \A s : IsFiniteSet(Below(s)) /\ Cardinality(Below(s)) \in Nat
  BY <1>1, FS_Subset, FS_CardinalityType
<1>3. \A s, p \in newer : s < p => Cardinality(Below(s)) <= Cardinality(Below(p))
  <2> SUFFICES ASSUME NEW s \in newer, NEW p \in newer, s < p
               PROVE  Cardinality(Below(s)) <= Cardinality(Below(p))
    OBVIOUS
  <2>1. Below(s) \in SUBSET Below(p)
    OBVIOUS
  <2>2. QED
    BY <1>2, <2>1, FS_Subset
<1>4. \A s \in newer : Cardinality(Below(s)) < Cardinality(newer)
  <2> TAKE s \in newer
  <2>1. Below(s) \in SUBSET newer /\ Below(s) # newer
    OBVIOUS
  <2>2. Cardinality(newer) \in Nat
    BY <1>1, FS_CardinalityType
  <2>3. /\ Cardinality(Below(s)) <= Cardinality(newer)
        /\ Cardinality(newer) # Cardinality(Below(s))
    BY <1>1, <2>1, FS_Subset
  <2>4. QED
    BY <1>2, <2>2, <2>3
<1>5. cursor + 1 \in 1 .. n => Cardinality(Below(cursor + 1)) = 0
  <2>1. Below(cursor + 1) = {}
    OBVIOUS
  <2>2. QED
    BY <2>1, FS_EmptySet
<1>6. Cardinality(newer) \in Nat
  BY <1>1, FS_CardinalityType
<1> DEFINE page == Newer(1 .. n, cursor, limit)
<1>7. /\ page.msgs = {s \in newer : Cardinality(Below(s)) < limit}
      /\ page.more <=> Cardinality(newer) > limit
  BY DEF Newer
<1> HIDE DEF page, newer, Below
<1>8. \A s : s \in newer <=> s \in 1 .. n /\ cursor < s
  BY DEF newer
<1>9. \A s \in newer : s \in page.msgs \/ \A p \in page.msgs : p < s
  <2> SUFFICES ASSUME NEW s \in newer, NEW p \in page.msgs, ~ p < s PROVE s \in page.msgs
    OBVIOUS
  <2>1. p \in newer /\ Cardinality(Below(p)) < limit
    BY <1>7
  <2>2. s = p \/ s < p
    BY <1>8, <2>1
  <2>3. CASE s < p
    BY <1>2, <1>3, <1>7, <2>1, <2>3
  <2>4. QED
    BY <2>2, <2>3
<1>10. ~ page.more => newer \subseteq page.msgs
  <2> SUFFICES ASSUME ~ page.more, NEW s \in newer PROVE s \in page.msgs
    OBVIOUS
  <2>1. Cardinality(newer) <= limit
    BY <1>6, <1>7
  <2>2. Cardinality(Below(s)) < limit
    BY <1>2, <1>4, <1>6, <2>1
  <2>3. QED
    BY <1>7, <2>2
<1>11. cursor + 1 \in 1 .. n => cursor + 1 \in page.msgs
  BY <1>5, <1>7, <1>8
<1>12. QED
  BY <1>7, <1>8, <1>9, <1>10, <1>11 DEF page

-----------------------------------------------------------------------------
(***************************************************************************)
(* A step of goroutine t that leaves the server and the cache alone        *)
(* concerns only what t is sure of.                                        *)
(***************************************************************************)
LEMMA LocalStep ==
    ASSUME IndInv, NEW t \in Tasks, NEW k, task' = [task EXCEPT ![t] = k],
           UNCHANGED <<top, cache>>,
           k \in TaskState, TaskInv(k, cache, top)
    PROVE  IndInv'
<1> HIDE DEF TaskState, TaskInv
<1>1. task' \in [Tasks -> TaskState] /\ task'[t] = k
  BY DEF IndInv, TypeOK
<1>2. \A u \in Tasks \ {t} : task'[u] = task[u]
  BY DEF IndInv, TypeOK
<1>3. \A u \in Tasks : TaskInv(task'[u], cache, top)
  BY <1>1, <1>2 DEF IndInv
<1>4. \A u \in Tasks : TaskInv(task'[u], cache', top')
  BY <1>3
<1>5. QED
  BY <1>1, <1>4 DEF IndInv, TypeOK

LEMMA IdleInv == Idle \in TaskState /\ \A C, n : TaskInv(Idle, C, n)
BY SizesAssumption DEF Idle, TaskState, TaskInv, StageInv, HolesInv, FreshInv, Filling, Seqs

\* A goroutine that gives up, with whatever cursor.
LEMMA FailedInv ==
    ASSUME IndInv, NEW t \in Tasks, task' = Failed(t), UNCHANGED <<top, cache>>
    PROVE  IndInv'
<1> DEFINE k == [Idle EXCEPT !.pc = "done", !.ok = FALSE, !.stage = task[t].stage,
                             !.cursor = task[t].cursor]
<1>1. task[t].stage \in {"page", "gaps", "latest", "newer"} /\ task[t].cursor \in Seqs \cup {0}
  BY DEF IndInv, TypeOK, TaskState
<1>2. k \in TaskState
  BY <1>1, IdleInv DEF Idle, TaskState
<1>3. TaskInv(k, cache, top)
  BY DEF Idle, TaskInv, StageInv, HolesInv, FreshInv, Filling
<1>4. QED
  BY <1>2, <1>3, LocalStep DEF Failed

\* What is known of a goroutine's state.
LEMMA TaskFacts ==
    ASSUME IndInv, NEW t \in Tasks
    PROVE  /\ task[t] \in TaskState /\ TaskInv(task[t], cache, top)
           /\ top \in Nat /\ cache \subseteq 1 .. top /\ 1 .. top \subseteq Seqs
           /\ MaxOf(cache) \in Seqs \cup {0}
           /\ \A c \in cache : c <= MaxOf(cache)
           /\ cache # {} => MaxOf(cache) \in cache
<1>1. top \in 0 .. MaxSeq /\ MaxSeq \in Nat
  BY SizesAssumption DEF IndInv, TypeOK
<1>2. 1 .. top \subseteq Seqs /\ 0 .. top \subseteq Seqs \cup {0}
  BY <1>1 DEF Seqs
<1>3. QED
  BY <1>1, <1>2, MaxFacts DEF IndInv, TypeOK

-----------------------------------------------------------------------------
(***************************************************************************)
(* The steps that read.                                                    *)
(***************************************************************************)
LEMMA StartPageInv ==
    ASSUME IndInv, NEW t \in Tasks, NEW cursor \in Seqs \cup {0}, StartPage(t, cursor)
    PROVE  IndInv'
<1> DEFINE k == [Idle EXCEPT !.pc = "fetch", !.cursor = cursor]
<1>1. k \in TaskState
  BY IdleInv DEF Idle, TaskState
<1>2. TaskInv(k, cache, top)
  BY DEF Idle, TaskInv, StageInv, HolesInv, FreshInv, Filling
<1>3. QED
  BY <1>1, <1>2, LocalStep DEF StartPage

LEMMA StartSyncInv ==
    ASSUME IndInv, NEW t \in Tasks, StartSync(t)
    PROVE  IndInv'
<1> DEFINE k == [Idle EXCEPT !.pc = "gap", !.stage = "gaps", !.holes = Holes, !.fresh = Fresh]
<1>1. Holes \subseteq 1 .. top /\ Fresh \subseteq 1 .. top
  BY DEF Holes, Fresh
<1>2. k \in TaskState
  BY <1>1, IdleInv, TaskFacts DEF Idle, TaskState
<1>3. StageInv(k, top)
  BY <1>1 DEF Idle, StageInv
<1>4. HolesInv(k, cache, top)
  BY DEF Idle, HolesInv, Filling, Between, Holes
<1>5. FreshInv(k, cache)
  <2>1. \A c \in cache : c \in Nat /\ c <= MaxOf(cache)
    BY TaskFacts
  <2>2. MaxOf(cache) \in Nat
    BY TaskFacts, SizesAssumption DEF Seqs
  <2>3. \A f \in Fresh : f \in Nat /\ MaxOf(cache) < f /\ cache # {}
    BY <2>2 DEF Fresh
  <2>4. \A f \in Fresh, c \in cache : c < f
    BY <2>1, <2>2, <2>3
  <2>5. QED
    BY <2>3, <2>4 DEF Idle, FreshInv, Filling
<1>6. TaskInv(k, cache, top)
  BY <1>3, <1>4, <1>5 DEF TaskInv
<1>7. QED
  BY <1>2, <1>6, LocalStep DEF StartSync

\* Holes between cached messages are gone when no cached message is below one.
LEMMA NoGapsNoHoles ==
    ASSUME IndInv, BelowGaps(cache) = {}, NEW h, Between(h, cache), h \in Nat
    PROVE  h \in cache
<1> SUFFICES ASSUME h \notin cache PROVE FALSE
  OBVIOUS
<1> DEFINE Low == {s \in cache : s < h}
<1>1. top \in Nat /\ cache \subseteq 1 .. top
  BY SizesAssumption DEF IndInv, TypeOK
<1>2. Low \in SUBSET (1 .. top) /\ Low # {}
  BY <1>1 DEF Between
<1> DEFINE s == MaxOf(Low)
<1>3. s \in Low /\ \A r \in Low : r <= s
  BY <1>1, <1>2, MaxFacts
<1> HIDE DEF s
<1>4. PICK r \in cache : h < r
  BY DEF Between
<1>5. s \in Nat /\ r \in Nat /\ s < h /\ s \in cache
  BY <1>1, <1>3
<1>6. s + 1 \notin cache
  BY <1>3, <1>5
<1>7. s \in BelowGaps(cache)
  BY <1>4, <1>5, <1>6 DEF BelowGaps
<1>8. QED
  BY <1>7

LEMMA LowNat == IndInv => BelowGaps(cache) \subseteq Nat
<1> SUFFICES ASSUME IndInv PROVE BelowGaps(cache) \subseteq Nat
  OBVIOUS
<1>1. top \in Nat /\ cache \subseteq 1 .. top
  BY SizesAssumption DEF IndInv, TypeOK
<1>2. cache \subseteq Nat
  BY <1>1
<1>3. BelowGaps(cache) \subseteq cache
  BY DEF BelowGaps
<1>4. QED
  BY <1>2, <1>3

LEMMA RoundNumbers == 0 \in 0 .. Rounds /\ 1 \in 0 .. Rounds
BY SizesAssumption

LEMMA ReadGapInv ==
    ASSUME IndInv, NEW t \in Tasks, ReadGap(t)
    PROVE  IndInv'
<1> DEFINE low == BelowGaps(cache)
           previous == CHOOSE s \in low : \A r \in low : s <= r
           k == task[t]
<1>1. /\ k \in TaskState /\ TaskInv(k, cache, top)
      /\ top \in Nat /\ cache \subseteq 1 .. top /\ 1 .. top \subseteq Seqs
  BY TaskFacts
<1>2. k.pc = "gap" /\ k.stage = "gaps"
  BY <1>1 DEF ReadGap, At, TaskInv, StageInv
<1>3. CASE RoundLeft(k) /\ low # {} /\ previous \notin k.tried
  <2> DEFINE new == [k EXCEPT !.pc = "fetch", !.cursor = previous, !.missing = previous + 1,
                              !.tried = @ \cup {previous}, !.rounds = @ + 1]
  <2>1. previous \in low
    <3>1. low \subseteq Nat
      BY LowNat
    <3>2. QED
      BY <1>3, <3>1, MinFacts
  <2>2. previous \in cache /\ previous + 1 \notin cache /\ \E r \in cache : previous < r
    BY <2>1 DEF BelowGaps
  <2>3. task' = [task EXCEPT ![t] = new] /\ UNCHANGED <<top, cache>>
    BY <1>3 DEF ReadGap
  <2> HIDE DEF previous, low
  <2>4. previous \in 1 .. top /\ previous + 1 \in 1 .. top
    <3>1. PICK r \in cache : previous < r
      BY <2>2
    <3>2. previous \in 1 .. top /\ r \in 1 .. top
      BY <1>1, <2>2, <3>1
    <3>3. QED
      BY <1>1, <3>1, <3>2
  <2>5. k.rounds + 1 \in 0 .. Rounds
    BY <1>1, <1>3, SizesAssumption DEF TaskState, RoundLeft
  <2>6. new \in TaskState
    BY <1>1, <2>4, <2>5 DEF TaskState
  <2>7. StageInv(new, top)
    BY <1>1, <1>2 DEF TaskInv, StageInv, TaskState
  <2>8. HolesInv(new, cache, top)
    BY <1>1, <1>2, <2>2, <2>4 DEF TaskInv, HolesInv, Filling, TaskState
  <2>9. FreshInv(new, cache)
    BY <1>1, <1>2 DEF TaskInv, FreshInv, Filling, TaskState
  <2>10. QED
    BY <2>3, <2>6, <2>7, <2>8, <2>9, LocalStep DEF TaskInv
<1>4. CASE ~ (RoundLeft(k) /\ low # {} /\ previous \notin k.tried)
  <2> DEFINE new == [Leave(k) EXCEPT !.holes = IF RoundLeft(k) THEN k.holes ELSE k.holes \cap cache]
  <2>1. task' = [task EXCEPT ![t] = new] /\ UNCHANGED <<top, cache>>
    BY <1>4 DEF ReadGap
  <2>2. new \in TaskState
    BY <1>1, RoundNumbers DEF TaskState, Leave
  <2>3. new.holes \subseteq cache
    <3>1. CASE ~ RoundLeft(k)
      BY <1>1, <3>1 DEF Leave, TaskState
    <3>2. CASE RoundLeft(k) /\ low = {}
      BY <1>1, <3>2, NoGapsNoHoles DEF Leave, TaskState, TaskInv, HolesInv, Seqs
    <3>3. CASE RoundLeft(k) /\ low # {} /\ previous \in k.tried
      <4>1. previous \in low
        <5>1. low \subseteq Nat
          BY LowNat
        <5>2. QED
          BY <3>3, <5>1, MinFacts
      <4>2. previous + 1 \notin cache
        BY <4>1 DEF BelowGaps
      <4>3. k.holes = {}
        BY <1>1, <1>2, <3>3, <4>2 DEF TaskInv, HolesInv, Filling
      <4>4. QED
        BY <1>1, <4>3, <3>3 DEF Leave, TaskState
    <3>4. QED
      BY <1>4, <3>1, <3>2, <3>3
  <2>4. /\ new.pc = "max" /\ new.stage = "gaps" /\ new.fresh = k.fresh /\ new.synced = k.synced
        /\ new.page = k.page
    BY <1>1, <1>2 DEF Leave, TaskState
  <2> HIDE DEF new
  <2>5. TaskInv(new, cache, top)
    BY <1>1, <1>2, <2>3, <2>4 DEF TaskInv, StageInv, HolesInv, FreshInv, Filling
  <2>6. QED
    BY <2>1, <2>2, <2>5, LocalStep
<1>5. QED
  BY <1>3, <1>4

LEMMA ReadMaxInv ==
    ASSUME IndInv, NEW t \in Tasks, ReadMax(t)
    PROVE  IndInv'
<1> DEFINE k == task[t]
           new == [k EXCEPT !.pc = "fetch", !.cursor = MaxOf(cache), !.rounds = 1,
                            !.stage = IF cache = {} THEN "latest" ELSE "newer"]
<1>1. /\ k \in TaskState /\ TaskInv(k, cache, top)
      /\ MaxOf(cache) \in Seqs \cup {0} /\ (cache # {} => MaxOf(cache) \in cache)
  BY TaskFacts
<1>2. k.pc = "max" /\ k.stage = "gaps"
  BY <1>1 DEF ReadMax, At, TaskInv, StageInv
<1>3. task' = [task EXCEPT ![t] = new] /\ UNCHANGED <<top, cache>>
  BY DEF ReadMax
<1>4. new \in TaskState
  BY <1>1, RoundNumbers DEF TaskState
<1>5. TaskInv(new, cache, top)
  <2>1. /\ new.pc = "fetch" /\ new.cursor = MaxOf(cache) /\ new.fresh = k.fresh
        /\ new.synced = k.synced /\ new.page = k.page /\ new.holes = k.holes
        /\ new.stage = IF cache = {} THEN "latest" ELSE "newer"
    BY <1>1 DEF TaskState
  <2> HIDE DEF new
  <2>2. QED
    BY <1>1, <1>2, <2>1 DEF TaskInv, StageInv, HolesInv, FreshInv, Filling
<1>6. QED
  BY <1>3, <1>4, <1>5, LocalStep

(***************************************************************************)
(* The server's page.  Gap filling finds the missing message in it.        *)
(***************************************************************************)
LEMMA PageType ==
    ASSUME NEW t, NEW S
    PROVE  PageOf(t, S).msgs \subseteq S /\ PageOf(t, S).more \in BOOLEAN
<1>1. ASSUME NEW cursor, NEW limit
      PROVE  Newer(S, cursor, limit).msgs \subseteq S /\ Newer(S, cursor, limit).more \in BOOLEAN
  BY DEF Newer
<1>2. ASSUME NEW cursor, NEW limit
      PROVE  Older(S, cursor, limit).msgs \subseteq S /\ Older(S, cursor, limit).more \in BOOLEAN
  BY DEF Older
<1>3. QED
  BY <1>1, <1>2 DEF PageOf

LEMMA FetchInv ==
    ASSUME IndInv, NEW t \in Tasks, Fetch(t)
    PROVE  IndInv'
<1> DEFINE k == task[t]
           page == PageOf(t, 1 .. top)
           new == [k EXCEPT !.pc = "save", !.page = page.msgs, !.more = page.more]
<1>1. /\ k \in TaskState /\ TaskInv(k, cache, top)
      /\ top \in Nat /\ cache \subseteq 1 .. top /\ 1 .. top \subseteq Seqs
  BY TaskFacts
<1>2. page.msgs \subseteq 1 .. top /\ page.more \in BOOLEAN
  BY <1>1, PageType
<1>3. k.pc = "fetch" /\ task' = [task EXCEPT ![t] = new] /\ UNCHANGED <<top, cache>>
  BY DEF Fetch, At
<1>4. k.stage \in {"gaps", "newer"} =>
        /\ \A s \in page.msgs : k.cursor < s
        /\ \A s \in 1 .. top : k.cursor < s => s \in page.msgs \/ \A p \in page.msgs : p < s
        /\ k.cursor + 1 \in 1 .. top => k.cursor + 1 \in page.msgs
        /\ ~ page.more => \A s \in 1 .. top : k.cursor < s => s \in page.msgs
  <2> SUFFICES ASSUME k.stage \in {"gaps", "newer"}
               PROVE  /\ \A s \in page.msgs : k.cursor < s
                      /\ \A s \in 1 .. top : k.cursor < s => s \in page.msgs \/ \A p \in page.msgs : p < s
                      /\ k.cursor + 1 \in 1 .. top => k.cursor + 1 \in page.msgs
                      /\ ~ page.more => \A s \in 1 .. top : k.cursor < s => s \in page.msgs
    OBVIOUS
  <2>1. k.cursor \in Nat /\ SyncSize \in Nat \ {0}
    BY <1>1, SizesAssumption DEF TaskState, Seqs
  <2>2. page = Newer(1 .. top, k.cursor, SyncSize)
    BY DEF PageOf
  <2> HIDE DEF page
  <2>3. QED
    BY <1>1, <2>1, <2>2, NewerFacts
<1> HIDE DEF page
<1>5. new \in TaskState
  BY <1>1, <1>2 DEF TaskState
<1>6. /\ new.pc = "save" /\ new.page = page.msgs /\ new.more = page.more
      /\ new.stage = k.stage /\ new.cursor = k.cursor /\ new.missing = k.missing
      /\ new.tried = k.tried /\ new.fresh = k.fresh /\ new.synced = k.synced
      /\ new.holes = k.holes
  BY <1>1 DEF TaskState
<1> HIDE DEF new
<1>7. StageInv(new, top)
  BY <1>1, <1>2, <1>3, <1>6 DEF TaskInv, StageInv
<1>8. HolesInv(new, cache, top)
  BY <1>1, <1>3, <1>4, <1>6 DEF TaskInv, HolesInv, Filling
<1>9. FreshInv(new, cache)
  <2>1. /\ k.stage \in {"gaps", "newer"} =>
            \A f \in k.fresh : k.cursor < f => f \in new.page \/ \A p \in new.page : p < f
        /\ k.stage = "newer" => \A p \in new.page : k.cursor < p
        /\ k.stage = "newer" /\ ~ new.more => \A f \in k.fresh : k.cursor < f => f \in new.page
    BY <1>1, <1>4, <1>6 DEF TaskInv, StageInv
  <2>2. k.stage = "newer" /\ new.page = {} => \A f \in k.fresh : ~ k.cursor < f
    <3> SUFFICES ASSUME k.stage = "newer", new.page = {}, NEW f \in k.fresh, k.cursor < f
                 PROVE  FALSE
      OBVIOUS
    <3>1. k.cursor \in Nat /\ f \in 1 .. top
      BY <1>1, SizesAssumption DEF TaskInv, StageInv, TaskState, Seqs
    <3>2. k.cursor + 1 \in 1 .. top
      BY <1>1, <3>1
    <3>3. QED
      BY <1>4, <1>6, <3>2
  <2>3. QED
    BY <1>1, <1>3, <1>6, <2>1, <2>2 DEF TaskInv, FreshInv, Filling
<1>10. QED
  BY <1>3, <1>5, <1>7, <1>8, <1>9, LocalStep DEF TaskInv

-----------------------------------------------------------------------------
(***************************************************************************)
(* What a goroutine does with a page.  Continue gives a state of the       *)
(* goroutine, whatever the page.                                           *)
(***************************************************************************)
LEMMA ContinueType ==
    ASSUME NEW k \in TaskState, NEW page \in SUBSET Seqs, NEW more \in BOOLEAN
    PROVE  Continue(k, page, more) \in TaskState
<1> DEFINE next == [k EXCEPT !.page = {}, !.synced = @ \cup page]
<1>1. next \in TaskState /\ next.rounds = k.rounds
  BY DEF TaskState
<1>2. MaxOf(page) \in Seqs \cup {0}
  BY MaxFacts, SizesAssumption DEF Seqs
<1>3. ASSUME NEW j \in TaskState PROVE Done(j) \in TaskState /\ Leave(j) \in TaskState
  BY RoundNumbers DEF TaskState, Done, Leave
<1>4. [next EXCEPT !.more = more] \in TaskState /\ [next EXCEPT !.fresh = {}] \in TaskState
  BY <1>1 DEF TaskState
<1>5. [next EXCEPT !.pc = "gap"] \in TaskState
  BY <1>1 DEF TaskState
<1>6. RoundLeft(k) =>
        [next EXCEPT !.pc = "fetch", !.cursor = MaxOf(page), !.rounds = @ + 1] \in TaskState
  <2> SUFFICES ASSUME RoundLeft(k)
               PROVE  [next EXCEPT !.pc = "fetch", !.cursor = MaxOf(page), !.rounds = @ + 1]
                        \in TaskState
    OBVIOUS
  <2>1. next.rounds + 1 \in 0 .. Rounds
    BY <1>1, SizesAssumption DEF RoundLeft, TaskState
  <2> HIDE DEF next
  <2>2. QED
    BY <1>1, <1>2, <2>1 DEF TaskState
<1>7. k.stage \in {"page", "gaps", "latest", "newer"}
  BY DEF TaskState
<1> HIDE DEF next
<1>8. CASE k.stage \in {"page", "latest"}
  BY <1>3, <1>4, <1>8 DEF Continue, next
<1>9. CASE k.stage = "gaps"
  BY <1>1, <1>3, <1>5, <1>9 DEF Continue, next
<1>10. CASE k.stage = "newer"
  BY <1>1, <1>3, <1>4, <1>6, <1>10 DEF Continue, next
<1>11. QED
  BY <1>7, <1>8, <1>9, <1>10

\* The page is used, the goroutine is sure of nothing.
LEMMA ContinueUnsure ==
    ASSUME NEW n \in Nat, NEW C \in SUBSET (1 .. n), NEW k \in TaskState,
           k.holes = {}, k.fresh = {}, k.pc \in {"fetch", "save"},
           NEW page, NEW more
    PROVE  TaskInv(Continue(k, page, more), C, n)
<1> DEFINE next == Continue(k, page, more)
<1> SUFFICES TaskInv(next, C, n)
  OBVIOUS
<1>1. /\ next.holes = {} /\ next.fresh = {} /\ next.page = {}
      /\ next.pc \in {"done", "gap", "max", "fetch"}
      /\ next.pc \in {"gap", "max"} => next.stage = "gaps"
      /\ next.pc = "fetch" => next.stage = "newer"
  BY DEF Continue, Done, Leave, TaskState
<1> HIDE DEF next
<1>2. QED
  BY <1>1 DEF TaskInv, StageInv, HolesInv, FreshInv, Filling

\* The page of the server is saved and used.
LEMMA ContinueSure ==
    ASSUME IndInv, NEW t \in Tasks, At(t, "save"),
           NEW C, C = cache \cup task[t].page
    PROVE  TaskInv(Continue(task[t], task[t].page, task[t].more), C, top)
<1> DEFINE k == task[t]
           page == k.page
           next == Continue(k, page, k.more)
<1> SUFFICES TaskInv(next, C, top)
  OBVIOUS
<1>1. /\ k \in TaskState /\ TaskInv(k, cache, top) /\ k.pc = "save"
      /\ top \in Nat /\ cache \subseteq 1 .. top
  BY TaskFacts DEF At
<1>2. page \subseteq 1 .. top /\ k.fresh \subseteq 1 .. top
  BY <1>1 DEF TaskInv, StageInv
<1>3. k.stage \in {"page", "gaps", "latest", "newer"}
  BY <1>1 DEF TaskState
<1>4. CASE k.stage \in {"page", "latest"}
  <2>1. /\ next.pc = "done" /\ next.stage = k.stage /\ next.page = {}
        /\ next.holes = k.holes /\ next.fresh = k.fresh
    BY <1>1, <1>4 DEF Continue, Done, TaskState
  <2>2. k.fresh = {} /\ k.holes \subseteq cache /\ (k.stage = "page" => k.holes = {})
    BY <1>1, <1>4 DEF TaskInv, StageInv, HolesInv, FreshInv, Filling
  <2> HIDE DEF next
  <2>3. QED
    BY <2>1, <2>2 DEF TaskInv, StageInv, HolesInv, FreshInv, Filling
<1>5. CASE k.stage = "gaps"
  <2>1. /\ k.missing \in page /\ k.cursor \in cache /\ k.missing = k.cursor + 1
        /\ \A h \in k.holes : h \in cache \/ Between(h, cache)
        /\ k.holes # {} => \A p \in k.tried : p + 1 \in cache \/ p = k.cursor
    BY <1>1, <1>5 DEF TaskInv, HolesInv, Filling
  <2>2. /\ next.pc = "gap" /\ next.stage = "gaps" /\ next.page = {}
        /\ next.holes = k.holes /\ next.fresh = k.fresh /\ next.tried = k.tried
        /\ next.synced = k.synced \cup page
    BY <1>1, <1>5, <2>1 DEF Continue, TaskState
  <2> HIDE DEF next
  <2>3. StageInv(next, top)
    BY <1>2, <2>2 DEF StageInv
  <2>4. HolesInv(next, C, top)
    <3>1. \A h \in k.holes : h \in C \/ Between(h, C)
      BY <2>1 DEF Between
    <3>2. k.holes # {} => \A p \in k.tried : p + 1 \in C
      BY <2>1
    <3>3. QED
      BY <2>2, <3>1, <3>2 DEF HolesInv, Filling
  <2>5. FreshInv(next, C)
    <3>1. ASSUME NEW f \in k.fresh, ~ (f \in C /\ f \in next.synced), NEW c \in C
          PROVE  c < f
      <4>1. ~ (f \in cache /\ f \in k.synced) /\ f \notin page
        BY <2>2, <3>1
      <4>2. \A d \in cache : d < f
        BY <1>1, <1>5, <4>1 DEF TaskInv, FreshInv, Filling
      <4>3. \A p \in page : p < f
        BY <1>1, <1>5, <2>1, <4>1, <4>2 DEF TaskInv, FreshInv, Filling
      <4>4. QED
        BY <4>2, <4>3
    <3>2. k.fresh # {} => C # {}
      BY <1>1 DEF TaskInv, FreshInv
    <3>3. QED
      BY <2>2, <3>1, <3>2 DEF FreshInv, Filling
  <2>6. QED
    BY <2>3, <2>4, <2>5 DEF TaskInv
<1>6. CASE k.stage = "newer"
  <2>1. /\ k.holes \subseteq cache
        /\ \A f \in k.fresh : (f \in cache /\ f \in k.synced) \/ k.cursor < f
        /\ \A f \in k.fresh : k.cursor < f => f \in page \/ \A p \in page : p < f
        /\ \A p \in page : k.cursor < p
        /\ page = {} \/ ~ k.more => \A f \in k.fresh : k.cursor < f => f \in page
    BY <1>1, <1>6 DEF TaskInv, HolesInv, FreshInv, Filling
  <2>2. k.cursor \in Nat
    BY <1>1, SizesAssumption DEF TaskState, Seqs
  <2>3. MaxOf(page) \in Nat /\ (page # {} => MaxOf(page) \in page)
    BY <1>1, <1>2, MaxFacts
  <2>4. CASE LastPage(k, page, k.more)
    <3>1. /\ next.pc = "done" /\ next.stage = "newer" /\ next.page = {}
          /\ next.holes = k.holes /\ next.fresh = k.fresh /\ next.synced = k.synced \cup page
      BY <1>1, <1>6, <2>4 DEF Continue, Done, TaskState
    <3>2. page = {} \/ ~ k.more
      BY <2>1, <2>2, <2>3, <2>4 DEF LastPage
    <3>3. \A f \in k.fresh : f \in C /\ f \in next.synced
      BY <2>1, <3>1, <3>2
    <3> HIDE DEF next
    <3>4. QED
      BY <1>2, <2>1, <3>1, <3>3 DEF TaskInv, StageInv, HolesInv, FreshInv, Filling
  <2>5. CASE ~ LastPage(k, page, k.more) /\ RoundLeft(k)
    <3>1. /\ next.pc = "fetch" /\ next.stage = "newer" /\ next.page = {}
          /\ next.cursor = MaxOf(page)
          /\ next.holes = k.holes /\ next.fresh = k.fresh /\ next.synced = k.synced \cup page
      BY <1>1, <1>6, <2>5 DEF Continue, TaskState
    <3>2. MaxOf(page) \in page
      BY <2>3, <2>5 DEF LastPage
    <3>3. \A f \in k.fresh : (f \in C /\ f \in next.synced) \/ MaxOf(page) < f
      BY <2>1, <3>1, <3>2
    <3> HIDE DEF next
    <3>4. QED
      BY <1>2, <2>1, <3>1, <3>2, <3>3 DEF TaskInv, StageInv, HolesInv, FreshInv, Filling
  <2>6. CASE ~ LastPage(k, page, k.more) /\ ~ RoundLeft(k)
    <3>1. /\ next.pc = "done" /\ next.stage = "newer" /\ next.page = {}
          /\ next.holes = k.holes /\ next.fresh = {}
      BY <1>1, <1>6, <2>6 DEF Continue, Done, TaskState
    <3> HIDE DEF next
    <3>2. QED
      BY <2>1, <3>1 DEF TaskInv, StageInv, HolesInv, FreshInv, Filling
  <2>7. QED
    BY <2>4, <2>5, <2>6
<1>7. QED
  BY <1>3, <1>4, <1>5, <1>6

\* A goroutine while another one, or a sent message, adds to the cache.
LEMMA Overtaken ==
    ASSUME NEW k \in TaskState, NEW C, NEW D, NEW n, TaskInv(k, C, n), C \subseteq D
    PROVE  TaskInv([k EXCEPT !.fresh = {}], D, n)
<1> DEFINE new == [k EXCEPT !.fresh = {}]
<1>1. /\ new.fresh = {} /\ new.pc = k.pc /\ new.stage = k.stage /\ new.holes = k.holes
      /\ new.page = k.page /\ new.tried = k.tried /\ new.cursor = k.cursor
      /\ new.missing = k.missing
  BY DEF TaskState
<1> HIDE DEF new
<1>2. StageInv(new, n) /\ HolesInv(new, D, n)
  BY <1>1 DEF TaskInv, StageInv, HolesInv, Filling, Between
<1>3. FreshInv(new, D)
  <2>1. k.stage = "newer" /\ k.pc = "save" => \A p \in k.page : k.cursor < p
    BY DEF TaskInv, FreshInv
  <2>2. QED
    BY <1>1, <2>1 DEF FreshInv
<1>4. QED
  BY <1>2, <1>3 DEF TaskInv, new

LEMMA SaveInv ==
    ASSUME IndInv, NEW t \in Tasks, Save(t)
    PROVE  IndInv'
<1> DEFINE k == task[t]
           new == Continue(k, k.page, k.more)
<1>1. /\ k \in TaskState /\ k.page \subseteq 1 .. top /\ 1 .. top \subseteq Seqs
      /\ cache \subseteq 1 .. top /\ k.more \in BOOLEAN
  BY TaskFacts DEF TaskInv, StageInv, TaskState
<1>2. /\ At(t, "save") /\ cache' = cache \cup k.page /\ top' = top
      /\ task' = [Disturbed(t, k.page) EXCEPT ![t] = new]
  BY <1>1 DEF Save, Disturbed
<1>3. new \in TaskState
  BY <1>1, ContinueType
<1>4. TaskInv(new, cache', top')
  BY <1>2, ContinueSure
<1> HIDE DEF new
<1>5. \A u \in Tasks : Disturbed(t, k.page)[u] \in TaskState
  BY DEF Disturbed, IndInv, TypeOK, TaskState
<1>6. task' \in [Tasks -> TaskState] /\ task'[t] = new
  BY <1>2, <1>3, <1>5 DEF Disturbed
<1>7. ASSUME NEW u \in Tasks \ {t} PROVE TaskInv(task'[u], cache', top')
  <2>1. TaskInv(task[u], cache, top) /\ task[u] \in TaskState
    BY TaskFacts
  <2>2. CASE k.page \subseteq cache
    <3>1. cache' = cache /\ task'[u] = task[u]
      BY <1>2, <2>2 DEF Disturbed
    <3>2. QED
      BY <1>2, <2>1, <3>1
  <2>3. CASE ~ k.page \subseteq cache
    <3> DEFINE other == [task[u] EXCEPT !.fresh = {}]
    <3>1. task'[u] = other
      BY <1>2, <2>3 DEF Disturbed
    <3>2. TaskInv(other, cache', top')
      BY <1>2, <2>1, Overtaken
    <3>3. QED
      BY <3>1, <3>2
  <2>4. QED
    BY <2>2, <2>3
<1>8. QED
  BY <1>1, <1>2, <1>4, <1>6, <1>7 DEF IndInv, TypeOK

LEMMA SaveFailsInv ==
    ASSUME IndInv, NEW t \in Tasks, SaveFails(t)
    PROVE  IndInv'
<1> DEFINE k == task[t]
           unsure == [k EXCEPT !.holes = {}, !.fresh = {}]
           new == Continue(unsure, k.page, k.more)
<1>1. /\ k \in TaskState /\ top \in Nat /\ cache \subseteq 1 .. top
  BY TaskFacts
<1>2. /\ unsure \in TaskState /\ k.page \in SUBSET Seqs /\ k.more \in BOOLEAN
      /\ unsure.holes = {} /\ unsure.fresh = {} /\ unsure.pc = k.pc
  BY <1>1 DEF TaskState
<1>3. k.pc = "save" /\ task' = [task EXCEPT ![t] = new] /\ UNCHANGED <<top, cache>>
  BY DEF SaveFails, At
<1> HIDE DEF unsure
<1>4. new \in TaskState
  BY <1>2, ContinueType
<1>5. TaskInv(new, cache, top)
  BY <1>1, <1>2, <1>3, ContinueUnsure
<1> HIDE DEF new
<1>6. QED
  BY <1>3, <1>4, <1>5, LocalStep

LEMMA FetchFailsInv ==
    ASSUME IndInv, NEW t \in Tasks, FetchFails(t)
    PROVE  IndInv'
<1> DEFINE k == task[t]
           page == PageOf(t, cache)
           unsure == [k EXCEPT !.holes = {}, !.fresh = {}]
           new == Continue(unsure, page.msgs, page.more)
<1>1. /\ k \in TaskState /\ top \in Nat /\ cache \subseteq 1 .. top
      /\ 1 .. top \subseteq Seqs
  BY TaskFacts
<1>2. page.msgs \subseteq cache /\ page.more \in BOOLEAN
  BY PageType
<1>3. /\ unsure \in TaskState /\ unsure.holes = {} /\ unsure.fresh = {} /\ unsure.pc = k.pc
  BY <1>1 DEF TaskState
<1>4. /\ k.pc = "fetch" /\ UNCHANGED <<top, cache>>
      /\ task' = [task EXCEPT ![t] = new] \/ task' = Failed(t)
  BY DEF FetchFails, At
<1> HIDE DEF unsure, page
<1>5. new \in TaskState
  BY <1>1, <1>2, <1>3, ContinueType
<1>6. TaskInv(new, cache, top)
  BY <1>1, <1>3, <1>4, ContinueUnsure
<1> HIDE DEF new
<1>7. QED
  BY <1>4, <1>5, <1>6, LocalStep, FailedInv

-----------------------------------------------------------------------------
(***************************************************************************)
(* The others: messages arrive, and own ones enter the cache.              *)
(***************************************************************************)
LEMMA ArriveInv == IndInv /\ Arrive => IndInv'
<1> SUFFICES ASSUME IndInv, Arrive PROVE IndInv'
  OBVIOUS
<1>1. /\ top \in 0 .. MaxSeq /\ MaxSeq \in Nat /\ top' = top + 1 /\ top < MaxSeq
      /\ cache' = cache /\ task' = task
  BY SizesAssumption DEF IndInv, TypeOK, Arrive
<1>2. 1 .. top \subseteq 1 .. top' /\ top' \in 0 .. MaxSeq
  BY <1>1
<1>3. ASSUME NEW t \in Tasks PROVE TaskInv(task'[t], cache', top')
  <2>1. TaskInv(task[t], cache, top)
    BY TaskFacts
  <2>2. QED
    BY <1>1, <1>2, <2>1 DEF TaskInv, StageInv, HolesInv
<1>4. QED
  BY <1>1, <1>2, <1>3 DEF IndInv, TypeOK

LEMMA OwnSentInv ==
    ASSUME IndInv, NEW s \in Seqs, OwnSent(s)
    PROVE  IndInv'
<1>1. /\ s \in 1 .. top /\ cache' = cache \cup {s} /\ top' = top
      /\ task' = [t \in Tasks |-> [task[t] EXCEPT !.fresh = {}]]
  BY DEF OwnSent
<1>2. \A t \in Tasks : [task[t] EXCEPT !.fresh = {}] \in TaskState
  BY DEF IndInv, TypeOK, TaskState
<1>3. ASSUME NEW t \in Tasks PROVE TaskInv(task'[t], cache', top')
  <2>1. TaskInv(task[t], cache, top) /\ task[t] \in TaskState
    BY TaskFacts
  <2>2. TaskInv([task[t] EXCEPT !.fresh = {}], cache', top')
    BY <1>1, <2>1, Overtaken
  <2>3. QED
    BY <1>1, <2>2
<1>4. QED
  BY <1>1, <1>2, <1>3 DEF IndInv, TypeOK

-----------------------------------------------------------------------------
LEMMA NextInv == IndInv /\ [Next]_vars => IndInv'
<1> SUFFICES ASSUME IndInv, [Next]_vars PROVE IndInv'
  OBVIOUS
<1>1. ASSUME NEW t \in Tasks, ReadFails(t) PROVE IndInv'
  BY <1>1, FailedInv DEF ReadFails
<1>2. ASSUME NEW t \in Tasks, Return(t) PROVE IndInv'
  BY <1>2, IdleInv, LocalStep DEF Return
<1>3. CASE UNCHANGED vars
  BY <1>3 DEF vars, IndInv, TypeOK
<1>4. QED
  BY <1>1, <1>2, <1>3, ArriveInv, OwnSentInv, StartPageInv, StartSyncInv, ReadGapInv,
     ReadMaxInv, FetchInv, FetchFailsInv, SaveInv, SaveFailsInv DEF Next, Work

LEMMA InitInv == Init => IndInv
BY IdleInv, SizesAssumption DEF Init, IndInv, TypeOK

(***************************************************************************)
(* The cache holds messages of the server only.                            *)
(***************************************************************************)
THEOREM TypeCorrect == Spec => []TypeOK
<1>1. IndInv => TypeOK
  BY DEF IndInv
<1>2. QED
  BY <1>1, InitInv, NextInv, PTL DEF Spec

(***************************************************************************)
(* fillHistoryGaps leaves no hole there was between cached messages when   *)
(* it started, however many goroutines fill the cache and however the      *)
(* pages are cut; but for failures, and for holes beyond the last round.   *)
(***************************************************************************)
THEOREM SyncFillsHolesCorrect == Spec => []SyncFillsHoles
<1>1. IndInv => SyncFillsHoles
  BY DEF IndInv, TaskInv, HolesInv, Filling, SyncFillsHoles, At
<1>2. QED
  BY <1>1, InitInv, NextInv, PTL DEF Spec

(***************************************************************************)
(* syncNewerHistory caches and returns all that was newer than the cache   *)
(* when the synchronisation started, unless another goroutine wrote to the *)
(* cache meanwhile.                                                        *)
(***************************************************************************)
THEOREM SyncReachesTopCorrect == Spec => []SyncReachesTop
<1>1. IndInv => SyncReachesTop
  BY DEF IndInv, TaskInv, FreshInv, SyncReachesTop, At
<1>2. QED
  BY <1>1, InitInv, NextInv, PTL DEF Spec

-----------------------------------------------------------------------------
(***************************************************************************)
(* Every goroutine comes to its end: WorkLeft falls with each of its steps *)
(* and depends on nothing that others change.                              *)
(***************************************************************************)
Less(k, new) == WorkLeft(new) \in 0 .. WorkLeft(k) - 1

LEMMA WorkLeftValue ==
    ASSUME NEW k \in TaskState
    PROVE  /\ k.rounds \in 0 .. Rounds /\ Rounds \in Nat \ {0}
           /\ k.pc = "done" => WorkLeft(k) = 0
           /\ k.pc = "max" => WorkLeft(k) = 3 * Rounds
           /\ k.pc \in {"gap", "fetch", "save"} =>
                WorkLeft(k) = 3 * (Rounds - k.rounds)
                            + (IF k.stage = "gaps" THEN 3 * Rounds + 1 ELSE 0)
                            + (IF k.pc = "fetch" THEN 2 ELSE IF k.pc = "save" THEN 1 ELSE 0)
BY SizesAssumption DEF WorkLeft, TaskState

LEMMA WorkLeftPositive ==
    ASSUME NEW k \in TaskState, k.pc \in {"gap", "max", "fetch", "save"},
           k.pc = "gap" => k.stage = "gaps"
    PROVE  WorkLeft(k) \in Nat \ {0}
BY WorkLeftValue

\* A result is less than any work; and a step of a loop is less than the turn before.
LEMMA DoneLess ==
    ASSUME NEW k \in TaskState, k.pc \in {"gap", "max", "fetch", "save"},
           k.pc = "gap" => k.stage = "gaps",
           NEW new \in TaskState, new.pc = "done"
    PROVE  Less(k, new)
<1>1. WorkLeft(new) = 0 /\ WorkLeft(k) \in Nat \ {0}
  BY WorkLeftValue, WorkLeftPositive
<1>2. QED
  BY <1>1 DEF Less

LEMMA MaxLess ==
    ASSUME NEW k \in TaskState, k.pc \in {"gap", "fetch", "save"}, k.stage = "gaps",
           NEW new \in TaskState, new.pc = "max"
    PROVE  Less(k, new)
<1>1. WorkLeft(new) = 3 * Rounds /\ Rounds \in Nat /\ k.rounds \in 0 .. Rounds
  BY WorkLeftValue
<1>2. WorkLeft(k) = 3 * (Rounds - k.rounds) + (3 * Rounds + 1)
                  + (IF k.pc = "fetch" THEN 2 ELSE IF k.pc = "save" THEN 1 ELSE 0)
  BY WorkLeftValue
<1>3. QED
  BY <1>1, <1>2 DEF Less

LEMMA TurnLess ==
    ASSUME NEW k \in TaskState, NEW new \in TaskState, new.stage = k.stage,
           k.pc = "gap" => k.stage = "gaps",
           \/ k.pc \in {"gap", "save"} /\ new.pc = "fetch" /\ new.rounds = k.rounds + 1
           \/ k.pc = "save" /\ new.pc = "gap" /\ new.rounds = k.rounds
           \/ k.pc = "fetch" /\ new.pc = "save" /\ new.rounds = k.rounds
           \/ k.pc = "fetch" /\ new.pc = "fetch" /\ new.rounds = k.rounds + 1
           \/ k.pc = "fetch" /\ new.pc = "gap" /\ new.rounds = k.rounds
    PROVE  Less(k, new)
<1> DEFINE base == IF k.stage = "gaps" THEN 3 * Rounds + 1 ELSE 0
           pos(j) == IF j.pc = "fetch" THEN 2 ELSE IF j.pc = "save" THEN 1 ELSE 0
<1>1. Rounds \in Nat /\ k.rounds \in 0 .. Rounds /\ new.rounds \in 0 .. Rounds /\ base \in Nat
  BY WorkLeftValue
<1>2. WorkLeft(k) = 3 * (Rounds - k.rounds) + base + pos(k)
  BY WorkLeftValue
<1>3. WorkLeft(new) = 3 * (Rounds - new.rounds) + base + pos(new)
  BY WorkLeftValue
<1> HIDE DEF base
<1>4. QED
  BY <1>1, <1>2, <1>3 DEF Less

LEMMA ContinueLess ==
    ASSUME NEW k \in TaskState, k.pc \in {"fetch", "save"},
           NEW page \in SUBSET Seqs, NEW more \in BOOLEAN
    PROVE  Less(k, Continue(k, page, more))
<1> DEFINE new == Continue(k, page, more)
<1> SUFFICES Less(k, new)
  OBVIOUS
<1>1. new \in TaskState
  BY ContinueType
<1>2. k.stage \in {"page", "gaps", "latest", "newer"} /\ k.rounds \in 0 .. Rounds
  BY DEF TaskState
<1>3. \/ new.pc = "done"
      \/ k.stage = "gaps" /\ new.pc = "gap" /\ new.stage = "gaps" /\ new.rounds = k.rounds
      \/ k.stage = "gaps" /\ new.pc = "max"
      \/ k.stage = "newer" /\ new.pc = "fetch" /\ new.stage = "newer"
            /\ new.rounds = k.rounds + 1
  BY <1>2 DEF Continue, Done, Leave, TaskState
<1> HIDE DEF new
<1>4. CASE new.pc = "done"
  BY <1>1, <1>4, DoneLess
<1>5. CASE k.stage = "gaps" /\ new.pc = "max"
  BY <1>1, <1>5, MaxLess
<1>6. CASE /\ new.stage = k.stage
           /\ \/ new.pc = "gap" /\ new.rounds = k.rounds
              \/ new.pc = "fetch" /\ new.rounds = k.rounds + 1
  BY <1>1, <1>6, TurnLess
<1>7. QED
  BY <1>3, <1>4, <1>5, <1>6

LEMMA WorkLess == ASSUME IndInv, NEW t \in Tasks, Work(t) PROVE Less(task[t], task'[t])
<1> DEFINE k == task[t]
<1>1. k \in TaskState /\ cache \subseteq Seqs /\ MaxOf(cache) \in Seqs \cup {0}
  BY TaskFacts
<1>2. k.pc \in {"gap", "max"} => k.stage = "gaps"
  BY TaskFacts DEF TaskInv, StageInv
<1>3. task' \in [Tasks -> TaskState]
  BY NextInv DEF Next, IndInv, TypeOK
<1>4. CASE ReadGap(t)
  <2>1. k.pc = "gap"
    BY <1>4 DEF ReadGap, At
  <2>2. \/ /\ task'[t].pc = "fetch"
           /\ task'[t].stage = k.stage /\ task'[t].rounds = k.rounds + 1
        \/ task'[t].pc = "max"
    <3> DEFINE low == BelowGaps(cache)
               previous == CHOOSE s \in low : \A r \in low : s <= r
    <3>1. CASE task' = [task EXCEPT ![t].pc = "fetch", ![t].cursor = previous,
                                    ![t].missing = previous + 1,
                                    ![t].tried = @ \cup {previous}, ![t].rounds = @ + 1]
      <4> HIDE DEF previous
      <4>1. QED
        BY <1>1, <3>1 DEF IndInv, TypeOK, TaskState
    <3>2. ASSUME NEW h, task' = [task EXCEPT ![t] = [Leave(task[t]) EXCEPT !.holes = h]]
          PROVE  task'[t].pc = "max"
      BY <3>2 DEF Leave, IndInv, TypeOK, TaskState
    <3>3. QED
      BY <1>4, <3>1, <3>2 DEF ReadGap
  <2>3. QED
    BY <1>1, <1>2, <1>3, <2>1, <2>2, MaxLess, TurnLess
<1>5. CASE ReadMax(t)
  <2>1. /\ k.pc = "max" /\ task'[t].pc = "fetch" /\ task'[t].rounds = 1
        /\ task'[t].stage \in {"latest", "newer"}
    BY <1>1, <1>5 DEF ReadMax, At, IndInv, TypeOK, TaskState
  <2>2. QED
    BY <1>1, <1>3, <2>1, WorkLeftValue DEF Less
<1>6. CASE Fetch(t)
  <2>1. /\ k.pc = "fetch" /\ task'[t].pc = "save"
        /\ task'[t].stage = k.stage /\ task'[t].rounds = k.rounds
    BY <1>1, <1>6 DEF Fetch, At, IndInv, TypeOK, TaskState
  <2>2. QED
    BY <1>1, <1>3, <2>1, TurnLess
<1>7. ASSUME task' = Failed(t), k.pc \in {"gap", "max", "fetch"} PROVE Less(k, task'[t])
  <2>1. task'[t].pc = "done"
    BY <1>7 DEF Failed, IndInv, TypeOK, Idle
  <2>2. QED
    BY <1>1, <1>2, <1>3, <1>7, <2>1, DoneLess
<1> DEFINE unsure == [k EXCEPT !.holes = {}, !.fresh = {}]
<1>8. unsure \in TaskState /\ unsure.pc = k.pc /\ WorkLeft(unsure) = WorkLeft(k)
  BY <1>1 DEF TaskState, WorkLeft
<1>9. CASE Save(t)
  <2>1. k.pc = "save" /\ k.page \in SUBSET Seqs /\ k.more \in BOOLEAN
    BY <1>1, <1>9 DEF Save, At, TaskState
  <2>2. task'[t] = Continue(k, k.page, k.more)
    BY <1>9 DEF Save, Disturbed
  <2>3. QED
    BY <1>1, <2>1, <2>2, ContinueLess
<1>10. CASE SaveFails(t)
  <2>1. k.pc = "save" /\ k.page \in SUBSET Seqs /\ k.more \in BOOLEAN
    BY <1>1, <1>10 DEF SaveFails, At, TaskState
  <2>2. task'[t] = Continue(unsure, k.page, k.more)
    BY <1>10 DEF SaveFails, IndInv, TypeOK
  <2> HIDE DEF unsure
  <2>3. Less(unsure, task'[t])
    BY <1>8, <2>1, <2>2, ContinueLess
  <2>4. QED
    BY <1>8, <2>3 DEF Less
<1>11. CASE FetchFails(t)
  <2> DEFINE page == PageOf(t, cache)
  <2>1. page.msgs \in SUBSET Seqs /\ page.more \in BOOLEAN /\ k.pc = "fetch"
    BY <1>1, <1>11, PageType DEF FetchFails, At
  <2>2. task'[t] = Continue(unsure, page.msgs, page.more) \/ task' = Failed(t)
    BY <1>11 DEF FetchFails, IndInv, TypeOK
  <2> HIDE DEF unsure, page
  <2>3. task' = Failed(t) \/ Less(unsure, task'[t])
    BY <1>8, <2>1, <2>2, ContinueLess
  <2>4. QED
    BY <1>7, <1>8, <2>1, <2>3 DEF Less
<1>12. QED
  BY <1>4, <1>5, <1>6, <1>7, <1>9, <1>10, <1>11 DEF Work, ReadFails

LEMMA OthersObserve ==
    ASSUME IndInv, NEW t \in Tasks, NEW u \in Tasks \ {t},
           Work(t) \/ StartSync(t) \/ Return(t) \/ \E c \in Seqs \cup {0} : StartPage(t, c)
    PROVE  Observed(task'[u]) = Observed(task[u])
<1>1. task[u] \in TaskState
  BY TaskFacts
<1>2. task'[u] = task[u] \/ task'[u] = [task[u] EXCEPT !.fresh = {}]
  BY DEF Work, ReadGap, ReadMax, ReadFails, Failed, Fetch, FetchFails, Save, SaveFails,
         Disturbed, StartSync, StartPage, Return, IndInv, TypeOK
<1>3. QED
  BY <1>1, <1>2 DEF Observed, TaskState

(***************************************************************************)
(* GetHistory and SyncConversation end, whatever messages arrive and       *)
(* whatever the other goroutines do to the cache: the rounds bound the     *)
(* pages of each loop, and no step of others gives a goroutine more to do. *)
(***************************************************************************)
THEOREM WorkEndsCorrect == Spec => WorkEnds
<1> DEFINE Fine(t) == task[t].pc \notin {"idle", "done"} =>
                        Observed(task'[t]) = Observed(task[t]) \/ Less(task[t], task'[t])
<1>1. ASSUME IndInv, [Next]_vars, NEW t \in Tasks PROVE Fine(t)
  <2>1. CASE Work(t)
    BY <1>1, <2>1, WorkLess
  <2>2. ASSUME NEW u \in Tasks \ {t},
               Work(u) \/ StartSync(u) \/ Return(u) \/ \E c \in Seqs \cup {0} : StartPage(u, c)
        PROVE  Fine(t)
    BY <1>1, <2>2, OthersObserve
  <2>3. CASE StartSync(t) \/ Return(t) \/ \E c \in Seqs \cup {0} : StartPage(t, c)
    BY <2>3 DEF StartSync, Return, StartPage, At
  <2>4. CASE Arrive \/ UNCHANGED vars
    BY <2>4 DEF Arrive, vars
  <2>5. ASSUME NEW s \in Seqs, OwnSent(s) PROVE Fine(t)
    BY <1>1, <2>5, TaskFacts DEF OwnSent, Observed, TaskState
  <2> HIDE DEF Fine
  <2>6. QED
    BY <1>1, <2>1, <2>2, <2>3, <2>4, <2>5 DEF Next
<1>2. IndInv /\ [Next]_vars =>
        [\A t \in Tasks : task[t].pc \notin {"idle", "done"} =>
            \/ Observed(task'[t]) = Observed(task[t])
            \/ WorkLeft(task'[t]) \in 0 .. WorkLeft(task[t]) - 1]_vars
  BY <1>1 DEF Less
<1>3. QED
  BY <1>2, InitInv, NextInv, PTL DEF Spec, WorkEnds
=============================================================================
