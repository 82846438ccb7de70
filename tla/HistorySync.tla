----------------------------- MODULE HistorySync -----------------------------
(***************************************************************************)
(* The client's cache of one conversation and the goroutines that fill it: *)
(* GetHistory, which fetches a page from the server and saves it, and      *)
(* SyncConversation, which fills the holes of the cache and then fetches   *)
(* what is newer.  They run at the same time, each from what it read last, *)
(* while messages arrive, calls fail and are answered from the cache, and  *)
(* pages cannot be saved.                                                  *)
(*                                                                         *)
(* A message is its server_seq.  The server's log is 1 .. top, which has   *)
(* no holes (Gapless in ChatSend).  Rows of the cache without a server_seq *)
(* are left out, and so is the offline mode, in which nothing is fetched.  *)
(***************************************************************************)
EXTENDS Integers, FiniteSets

CONSTANTS
    Tasks,         \* goroutines that fetch the conversation's history
    PageSize,      \* messages of a page that is shown: 50
    SyncSize,      \* messages of a page of a synchronisation: 30 to 100
    Rounds,        \* pages a loop of a synchronisation fetches at most: 100
    MaxSeq,        \* bound of the model: the messages of the conversation
    StoreMayFail   \* whether SQLite may answer SQLITE_BUSY or an I/O error

ASSUME SizesAssumption ==
    /\ PageSize \in Nat \ {0} /\ SyncSize \in Nat \ {0} /\ Rounds \in Nat \ {0}
    /\ MaxSeq \in Nat
    /\ StoreMayFail \in BOOLEAN

VARIABLES
    top,     \* the server has messages 1 .. top
    cache,   \* messages in the client's table messages
    task     \* the goroutines' local state

vars == <<top, cache, task>>

Seqs == 1 .. MaxSeq

-----------------------------------------------------------------------------
(***************************************************************************)
(* Pages.  The server and the cache answer alike: the `limit` messages     *)
(* next to the cursor in the direction asked for, and whether there are    *)
(* more.  Without a cursor (0) "older" means the latest messages.          *)
(***************************************************************************)
MaxOf(S) == IF S = {} THEN 0 ELSE CHOOSE s \in S : \A r \in S : r <= s

Newer(S, cursor, limit) ==
    LET newer == {s \in S : s > cursor} IN
    [msgs |-> {s \in newer : Cardinality({r \in newer : r < s}) < limit},
     more |-> Cardinality(newer) > limit]

Older(S, cursor, limit) ==
    LET older == {s \in S : cursor = 0 \/ s < cursor} IN
    [msgs |-> {s \in older : Cardinality({r \in older : r > s}) < limit},
     more |-> Cardinality(older) > limit]

\* The page of S that task t has asked for.
PageOf(t, S) ==
    LET limit == IF task[t].stage = "page" THEN PageSize ELSE SyncSize IN
    IF task[t].stage \in {"gaps", "newer"}
    THEN Newer(S, task[t].cursor, limit) ELSE Older(S, task[t].cursor, limit)

\* Mutant: a hole of one message is not seen.
WideGaps(S) == {s \in S : s + 1 \notin S /\ s + 2 \notin S /\ \E r \in S : r > s}

\* FirstServerSeqGap: the cached messages that have a hole right above them.
BelowGaps(S) == {s \in S : s + 1 \notin S /\ \E r \in S : r > s}

(***************************************************************************)
(* What a synchronisation that starts now is to fetch, in and above the    *)
(* cache.  An empty cache gets the latest page there is by then.           *)
(***************************************************************************)
Holes == {s \in 1 .. top : s \notin cache /\ (\E r \in cache : r < s) /\ \E r \in cache : r > s}

Fresh == IF cache = {} THEN {} ELSE {s \in 1 .. top : s > MaxOf(cache)}

-----------------------------------------------------------------------------
(***************************************************************************)
(* The state of a goroutine.  `holes` and `fresh` are history: what it is  *)
(* to have cached when it succeeds, unless a failure or another goroutine  *)
(* excuses it.                                                             *)
(***************************************************************************)
Idle == [pc |-> "idle", stage |-> "page", cursor |-> 0, missing |-> 0, rounds |-> 0,
         tried |-> {}, page |-> {}, more |-> FALSE, synced |-> {}, ok |-> TRUE,
         holes |-> {}, fresh |-> {}]

At(t, pc) == task[t].pc = pc

Init ==
    /\ top = 0
    /\ cache = {}
    /\ task = [t \in Tasks |-> Idle]

\* A message of the conversation is committed by the server.
Arrive ==
    /\ top < MaxSeq
    /\ top' = top + 1
    /\ UNCHANGED <<cache, task>>

\* The other goroutines see a cache they did not write.
Disturbed(t, S) ==
    [u \in Tasks |-> IF u # t /\ ~ S \subseteq cache
                     THEN [task[u] EXCEPT !.fresh = {}] ELSE task[u]]

\* MarkOutboxSent: the server's row of an own message enters the cache.
OwnSent(s) ==
    /\ s \in 1 .. top /\ s \notin cache
    /\ cache' = cache \cup {s}
    /\ task' = [t \in Tasks |-> [task[t] EXCEPT !.fresh = {}]]
    /\ UNCHANGED top

\* GetHistory for a page to be shown; the cursor, 0 for none, may be left over
\* from another conversation.
StartPage(t, cursor) ==
    /\ At(t, "idle")
    /\ task' = [task EXCEPT ![t] = [Idle EXCEPT !.pc = "fetch", !.cursor = cursor]]
    /\ UNCHANGED <<top, cache>>

StartSync(t) ==
    /\ At(t, "idle")
    /\ task' = [task EXCEPT ![t] = [Idle EXCEPT !.pc = "gap", !.stage = "gaps",
                                                !.holes = Holes, !.fresh = Fresh]]
    /\ UNCHANGED <<top, cache>>

\* Gap filling is over.
Leave(k) == [k EXCEPT !.pc = "max", !.cursor = 0, !.missing = 0, !.rounds = 0, !.tried = {}]

\* Mutant: nothing but the pages themselves ends a loop.
RoundsUncounted(k) == TRUE

\* A loop of the synchronisation in state k may fetch another page.
RoundLeft(k) == k.rounds < Rounds

(***************************************************************************)
(* A turn of fillHistoryGaps: the first hole of the cache as it is now, if *)
(* it was not tried before and the rounds are not used up.                 *)
(***************************************************************************)
ReadGap(t) ==
    LET low == BelowGaps(cache)
        previous == CHOOSE s \in low : \A r \in low : s <= r
    IN  /\ At(t, "gap")
        /\ IF RoundLeft(task[t]) /\ low # {} /\ previous \notin task[t].tried
           THEN task' = [task EXCEPT ![t].pc = "fetch", ![t].cursor = previous,
                                     ![t].missing = previous + 1,
                                     ![t].tried = @ \cup {previous}, ![t].rounds = @ + 1]
           ELSE task' = [task EXCEPT ![t] = [Leave(task[t]) EXCEPT
                            !.holes = IF RoundLeft(task[t]) THEN task[t].holes
                                      ELSE task[t].holes \cap cache]]
        /\ UNCHANGED <<top, cache>>

\* syncNewerHistory starts above the highest cached message, or has none.
ReadMax(t) ==
    /\ At(t, "max")
    /\ task' = [task EXCEPT ![t].pc = "fetch", ![t].cursor = MaxOf(cache),
                            ![t].stage = IF cache = {} THEN "latest" ELSE "newer",
                            ![t].rounds = 1]
    /\ UNCHANGED <<top, cache>>

Failed(t) ==
    [task EXCEPT ![t] = [Idle EXCEPT !.pc = "done", !.ok = FALSE, !.stage = task[t].stage,
                                     !.cursor = task[t].cursor]]

\* The cache cannot be read, which ends the goroutine (after a failed call, too).
ReadFails(t) ==
    /\ StoreMayFail
    /\ task[t].pc \in {"gap", "max", "fetch"}
    /\ task' = Failed(t)
    /\ UNCHANGED <<top, cache>>

\* The server reads the page.
Fetch(t) ==
    LET page == PageOf(t, 1 .. top) IN
    /\ At(t, "fetch")
    /\ task' = [task EXCEPT ![t].pc = "save", ![t].page = page.msgs, ![t].more = page.more]
    /\ UNCHANGED <<top, cache>>

-----------------------------------------------------------------------------
Done(k) == [k EXCEPT !.pc = "done", !.rounds = 0]

\* Mutant: one page of newer messages is enough.
AnyPage(k, page, more) == TRUE

\* Newer messages end with a page that is empty, does not advance, or is the last.
LastPage(k, page, more) == page = {} \/ MaxOf(page) <= k.cursor \/ ~ more

(***************************************************************************)
(* What the goroutine in state k does with a page it has got: a page to be *)
(* shown is returned.  Gap filling goes on while the page has the missing  *)
(* message, and the newer pages until the last one or that of the last     *)
(* round.                                                                  *)
(***************************************************************************)
Continue(k, page, more) ==
    LET next == [k EXCEPT !.page = {}, !.synced = @ \cup page] IN
    CASE k.stage \in {"page", "latest"} -> Done([next EXCEPT !.more = more])
      [] k.stage = "gaps" ->
            IF k.missing \in page THEN [next EXCEPT !.pc = "gap"] ELSE Leave(next)
      [] k.stage = "newer" ->
            IF LastPage(k, page, more) THEN Done(next)
            ELSE IF RoundLeft(k)
            THEN [next EXCEPT !.pc = "fetch", !.cursor = MaxOf(page), !.rounds = @ + 1]
            ELSE Done([next EXCEPT !.fresh = {}])

\* cacheHistoryPage saves the page in one transaction.
Save(t) ==
    LET page == task[t].page IN
    /\ At(t, "save")
    /\ cache' = cache \cup page
    /\ task' = [Disturbed(t, page) EXCEPT ![t] = Continue(@, page, task[t].more)]
    /\ UNCHANGED top

\* The error of SaveMessages is ignored, and the page used all the same.
SaveFails(t) ==
    /\ StoreMayFail
    /\ At(t, "save")
    /\ task' = [task EXCEPT ![t] =
            Continue([@ EXCEPT !.holes = {}, !.fresh = {}], @.page, @.more)]
    /\ UNCHANGED <<top, cache>>

\* The call fails: the page comes from the cache, or the error is returned.
FetchFails(t) ==
    LET page == PageOf(t, cache) IN
    /\ At(t, "fetch")
    /\ IF page.msgs # {}
       THEN task' = [task EXCEPT ![t] =
                Continue([@ EXCEPT !.holes = {}, !.fresh = {}], page.msgs, page.more)]
       ELSE task' = Failed(t)
    /\ UNCHANGED <<top, cache>>

\* The result is handed to the callback.
Return(t) ==
    /\ At(t, "done")
    /\ task' = [task EXCEPT ![t] = Idle]
    /\ UNCHANGED <<top, cache>>

\* What a goroutine does between its start and its result.
Work(t) ==
    ReadGap(t) \/ ReadMax(t) \/ ReadFails(t) \/ Fetch(t) \/ FetchFails(t) \/ Save(t)
        \/ SaveFails(t)

Next ==
    \/ Arrive
    \/ \E s \in Seqs : OwnSent(s)
    \/ \E t \in Tasks : StartSync(t) \/ Work(t) \/ Return(t)
    \/ \E t \in Tasks, cursor \in Seqs \cup {0} : StartPage(t, cursor)

Spec == Init /\ [][Next]_vars

-----------------------------------------------------------------------------
TaskState ==
    [pc : {"idle", "gap", "max", "fetch", "save", "done"},
     stage : {"page", "gaps", "latest", "newer"},
     cursor : Seqs \cup {0}, missing : Seqs \cup {0}, rounds : 0 .. Rounds,
     tried : SUBSET Seqs, page : SUBSET Seqs, more : BOOLEAN, synced : SUBSET Seqs,
     ok : BOOLEAN, holes : SUBSET Seqs, fresh : SUBSET Seqs]

TypeOK ==
    /\ top \in 0 .. MaxSeq
    /\ cache \subseteq 1 .. top
    /\ task \in [Tasks -> TaskState]

(***************************************************************************)
(* A synchronisation that succeeds, with its pages from the server and     *)
(* saved, and that has not used up its rounds, has filled every hole there *)
(* was between cached messages when it started, whatever other goroutines  *)
(* cached in between.                                                      *)
(***************************************************************************)
SyncFillsHoles ==
    \A t \in Tasks : At(t, "done") /\ task[t].ok => task[t].holes \subseteq cache

(***************************************************************************)
(* It has also cached, and returns to the list, everything newer that the  *)
(* server had at its start, if no other goroutine wrote to the cache: one  *)
(* that caches a newer message in between moves the cursor past what is    *)
(* missing, which only the next synchronisation finds.                     *)
(***************************************************************************)
SyncReachesTop ==
    \A t \in Tasks : At(t, "done") /\ task[t].ok => task[t].fresh \subseteq cache \cap task[t].synced

(***************************************************************************)
(* However the pages it gets, the messages that arrive meanwhile and the   *)
(* other goroutines keep making and filling holes, a synchronisation comes *)
(* to its end: every step of a goroutine between its start and its result  *)
(* lowers a measure of the work it may still have to do, and nothing that  *)
(* others do raises it.  The rounds of gap filling come before the turn to *)
(* the newer pages and theirs.                                             *)
(***************************************************************************)
WorkLeft(k) ==
    LET turns == 3 * (Rounds - k.rounds)
              + (IF k.pc = "fetch" THEN 2 ELSE IF k.pc = "save" THEN 1 ELSE 0)
    IN  IF k.pc \in {"idle", "done"} THEN 0
        ELSE IF k.pc = "max" THEN 3 * Rounds
        ELSE IF k.stage = "gaps" THEN turns + 3 * Rounds + 1
        ELSE turns

\* What steps of others change in the state of a goroutine.
Observed(k) == [k EXCEPT !.fresh = {}]

WorkEnds ==
    [][\A t \in Tasks : task[t].pc \notin {"idle", "done"} =>
            \/ Observed(task'[t]) = Observed(task[t])
            \/ WorkLeft(task'[t]) \in 0 .. WorkLeft(task[t]) - 1]_vars
=============================================================================
