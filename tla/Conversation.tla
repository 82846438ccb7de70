---------------------------- MODULE Conversation ----------------------------
(***************************************************************************)
(* The chat window: selecting a conversation loads its latest page, "load  *)
(* older" adds pages before it, synchronisations merge what they fetched,  *)
(* and the conversation is marked read through the last message of the     *)
(* list.  Results come back as callbacks, perhaps after other              *)
(* conversations were selected, which all use one list, one cursor and one *)
(* request number; those of a session that a reconnect or a logout has     *)
(* replaced are dropped.                                                   *)
(*                                                                         *)
(* One conversation is followed; a message of it is its server_seq.  Of    *)
(* the others' messages the list keeps the highest server_seq, and their   *)
(* goroutines are seen only by the answer to a load.  What a goroutine     *)
(* returns is any page of messages that exist: how the core gets it is the *)
(* subject of HistorySync.                                                 *)
(***************************************************************************)
EXTENDS Integers, FiniteSets

CONSTANTS
    Tasks,        \* bound of the model: goroutines that fetch the conversation
    PageSize,     \* messages of a page: 50
    MaxSeq,       \* bound of the model: the messages of a conversation
    MaxRequest    \* bound of the model: loads of a history

ASSUME BoundsAssumption ==
    PageSize \in Nat \ {0} /\ MaxSeq \in Nat /\ MaxRequest \in Nat

VARIABLES
    top,        \* the server has messages 1 .. top of the conversation
    selected,   \* selectedFriend: "none", "this" conversation or an "other" one
    request,    \* historyRequest
    loading,    \* historyLoading
    cut,        \* history: the load it is set for was of a session replaced since
    hasMore,    \* historyHasMore
    cursor,     \* historyCursor, 0 for ""
    view,       \* a.messages
    task,       \* the goroutines: what they fetch, and the request they started under, or
                \* that their session was replaced
    sendTo,     \* the conversation of the message being sent, while sending is set
    marks,      \* MarkConversationRead calls under way, by last_read_server_seq
    clamped,    \* those whose handler has read the newest message's number
    lastRead,   \* conversation_reads.last_read_seq
    seen        \* history: the highest message of the conversation ever in the list

listVars == <<loading, cut, hasMore, cursor, view, seen>>
readVars == <<marks, clamped, lastRead>>
vars == <<top, selected, request, task, sendTo, listVars, readVars>>

Seqs == 1 .. MaxSeq

(***************************************************************************)
(* The list: messages of this conversation, the highest of the others' (0  *)
(* for none), and whether it holds a message with no server_seq.           *)
(***************************************************************************)
NoView == [mine |-> {}, other |-> 0, pending |-> FALSE]

Idle == [kind |-> "idle", request |-> 0, cursor |-> 0]

Init ==
    /\ top = 0
    /\ selected = "none" /\ request = 0
    /\ loading = FALSE /\ cut = FALSE
    /\ hasMore = FALSE /\ cursor = 0 /\ view = NoView /\ seen = 0
    /\ task = [t \in Tasks |-> Idle]
    /\ sendTo = "none"
    /\ marks = {} /\ clamped = {} /\ lastRead = 0

Larger(m, n) == IF m < n THEN n ELSE m

MaxOf(S) == IF S = {} THEN 0 ELSE CHOOSE s \in S : \A r \in S : r <= s

MinOf(S) == CHOOSE s \in S : \A r \in S : s <= r

\* The list becomes v.
Show(v) ==
    /\ view' = v
    /\ seen' = Larger(seen, MaxOf(v.mine))

\* nextCursor and hasMore of a page.
KeepCursor(page, more) ==
    /\ hasMore' = more
    /\ cursor' = IF more THEN MinOf(page) ELSE 0

(***************************************************************************)
(* server_seq of the last message once the list is sorted: by server_seq,  *)
(* but a message without one is placed by its timestamp, which is that of  *)
(* another clock.                                                          *)
(***************************************************************************)
LastSeqs(v) ==
    IF v.pending THEN {0, MaxOf(v.mine), v.other} ELSE {Larger(MaxOf(v.mine), v.other)}

-----------------------------------------------------------------------------
(***************************************************************************)
(* What the user, the server and the other parts of the client do.         *)
(***************************************************************************)
Arrive ==
    /\ top < MaxSeq
    /\ top' = top + 1
    /\ UNCHANGED <<selected, request, task, sendTo, listVars, readVars>>

Start(t, kind, r, c) ==
    /\ task[t].kind = "idle"
    /\ task' = [task EXCEPT ![t] = [kind |-> kind, request |-> r, cursor |-> c]]

\* loadHistory: a selection, the Refresh button, or news of the outbox.
Select(t) ==
    /\ request < MaxRequest
    /\ Start(t, "load", request + 1, 0)
    /\ request' = request + 1
    /\ selected' = "this" /\ loading' = TRUE /\ cut' = FALSE
    /\ UNCHANGED <<top, sendTo, hasMore, cursor, view, seen, readVars>>

SelectOther ==
    /\ request < MaxRequest
    /\ request' = request + 1
    /\ selected' = "other" /\ loading' = TRUE /\ cut' = FALSE
    /\ UNCHANGED <<top, task, sendTo, hasMore, cursor, view, seen, readVars>>

LoadOlder(t) ==
    /\ selected = "this" /\ ~ loading /\ hasMore
    /\ Start(t, "older", request, cursor)
    /\ loading' = TRUE
    /\ UNCHANGED <<top, selected, request, sendTo, cut, hasMore, cursor, view, seen, readVars>>

\* Mutant: historyLoading is left set.
DeselectLoading ==
    /\ selected # "none"
    /\ selected' = "none"
    /\ hasMore' = FALSE /\ cursor' = 0
    /\ Show(NoView)
    /\ UNCHANGED <<top, request, task, sendTo, loading, cut, readVars>>

\* reselectFriend: the friends as read now lack the selected one.
Deselect ==
    /\ selected # "none"
    /\ selected' = "none" /\ loading' = FALSE /\ cut' = FALSE
    /\ hasMore' = FALSE /\ cursor' = 0
    /\ Show(NoView)
    /\ UNCHANGED <<top, request, task, sendTo, readVars>>

\* A new_message event synchronises its conversation, selected or not.
EventSync(t) ==
    /\ top > 0
    /\ Start(t, "event", request, 0)
    /\ UNCHANGED <<top, selected, request, sendTo, listVars, readVars>>

\* syncUnreadConversations: one sweep over the unread friends at a time; a login
\* clears syncingUnread.
UnreadSync(t) ==
    /\ top > 0
    /\ \A u \in Tasks : task[u].kind # "sweep"
    /\ Start(t, "sweep", 0, 0)
    /\ UNCHANGED <<top, selected, request, sendTo, listVars, readVars>>

Send ==
    /\ sendTo = "none" /\ selected # "none"
    /\ sendTo' = selected
    /\ UNCHANGED <<top, selected, request, task, listVars, readVars>>

\* The snapshots of the goroutines under way are of another session.
Outdated == task' = [t \in Tasks |->
    IF task[t].kind = "idle" THEN Idle ELSE [Idle EXCEPT !.kind = "replaced"]]

(***************************************************************************)
(* A login from the shell (Reconnect): startSessionContext cancels the     *)
(* goroutines' context, and prepareShellState changes the version that     *)
(* their callbacks are checked against.  The selection, historyLoading and *)
(* sending stay as they are.                                               *)
(***************************************************************************)
Reconnect ==
    /\ Outdated
    /\ cut' = loading
    /\ sendTo' = IF sendTo = "none" THEN "none" ELSE "dropped"
    /\ UNCHANGED <<top, selected, request, loading, hasMore, cursor, view, seen, readVars>>

\* resetSessionState, for a lock or ForceOffline, and the login that follows.
EndSession ==
    /\ Outdated
    /\ selected' = "none" /\ sendTo' = "none"
    /\ loading' = FALSE /\ cut' = FALSE /\ hasMore' = FALSE /\ cursor' = 0
    /\ Show(NoView)
    /\ UNCHANGED <<top, request, readVars>>

-----------------------------------------------------------------------------
(***************************************************************************)
(* The callbacks.                                                          *)
(***************************************************************************)
Return(t) ==
    /\ task' = [task EXCEPT ![t] = Idle]
    /\ UNCHANGED <<top, selected, request, sendTo>>

\* A failed synchronisation changes nothing, and neither does an answer that
\* comes too late; doInSession drops that of another session.
Wanted(t) ==
    /\ task[t].kind # "replaced"
    /\ selected = "this"
    /\ task[t].kind = "sweep" \/ task[t].request = request

Drop(t) ==
    /\ task[t].kind # "idle"
    /\ ~ Wanted(t) \/ task[t].kind \in {"event", "sweep"}
    /\ Return(t)
    /\ UNCHANGED <<listVars, readVars>>

LoadFailed(t) ==
    /\ task[t].kind \in {"load", "older"} /\ Wanted(t)
    /\ Return(t)
    /\ loading' = FALSE
    /\ UNCHANGED <<cut, hasMore, cursor, view, seen, readVars>>

\* replaceHistory: the page is the list, and is marked read.
Loaded(t, page, more) ==
    /\ task[t].kind = "load" /\ Wanted(t)
    /\ Return(t)
    /\ loading' = FALSE
    /\ Show([NoView EXCEPT !.mine = page])
    /\ KeepCursor(page, more)
    /\ marks' = IF page = {} THEN marks ELSE marks \cup {MaxOf(page)}
    /\ UNCHANGED <<cut, clamped, lastRead>>

\* prependHistory.
OlderLoaded(t, page, more) ==
    /\ task[t].kind = "older" /\ Wanted(t)
    /\ \A s \in page : s < task[t].cursor
    /\ Return(t)
    /\ loading' = FALSE
    /\ Show([view EXCEPT !.mine = @ \cup page])
    /\ KeepCursor(page, more)
    /\ UNCHANGED <<cut, readVars>>

\* A page of GetHistory, from the server or the cache.
PageLoaded(t) ==
    \E page \in SUBSET (1 .. top), more \in BOOLEAN :
        /\ Cardinality(page) <= PageSize /\ (more => page # {})
        /\ Loaded(t, page, more) \/ OlderLoaded(t, page, more)

(***************************************************************************)
(* What a synchronisation brought is merged, if the conversation is still  *)
(* selected and, for an event, no history was loaded since; the sweep      *)
(* wants to have added something instead.                                  *)
(***************************************************************************)
Synced(t) ==
    /\ task[t].kind \in {"event", "sweep"} /\ Wanted(t)
    /\ \E new \in SUBSET (1 .. top) \ {{}} :
        LET merged == [view EXCEPT !.mine = @ \cup new] IN
        /\ task[t].kind = "sweep" => ~ new \subseteq view.mine
        /\ Show(merged)
        /\ \E last \in LastSeqs(merged) : marks' = marks \cup {last}
    /\ Return(t)
    /\ UNCHANGED <<loading, cut, hasMore, cursor, clamped, lastRead>>

\* The other conversation's load: its page replaces the list, or it fails.  Its
\* older pages and synchronisations leave no list that a load could not.
OtherCallback ==
    /\ selected = "other" /\ loading /\ ~ cut
    /\ loading' = FALSE
    /\ \/ \E n \in Seqs : /\ Show([NoView EXCEPT !.other = n])
                          /\ \/ hasMore' = TRUE /\ cursor' \in 2 .. n
                             \/ hasMore' = FALSE /\ cursor' = 0
       \/ Show(NoView) /\ hasMore' = FALSE /\ cursor' = 0
       \/ UNCHANGED <<view, seen, hasMore, cursor>>
    /\ UNCHANGED <<top, selected, request, task, sendTo, cut, readVars>>

\* The message just sent is put into the list, whichever conversation it shows.
SendCallback ==
    /\ sendTo \in {"this", "other"}
    /\ sendTo' = "none"
    /\ \/ sendTo = "this" /\ \E s \in 1 .. top : Show([view EXCEPT !.mine = @ \cup {s}])
       \/ sendTo = "other" /\ \E n \in Seqs : Show([view EXCEPT !.other = Larger(@, n)])
       \/ Show([view EXCEPT !.pending = TRUE])
       \/ UNCHANGED <<view, seen>>
    /\ UNCHANGED <<top, selected, request, task, loading, cut, hasMore, cursor, readVars>>

-----------------------------------------------------------------------------
(***************************************************************************)
(* ChatService.MarkConversationRead: two statements, the calls of several  *)
(* goroutines in any order.  A number that is not positive, or past the    *)
(* newest message, stands for the newest message.                          *)
(***************************************************************************)
\* S without n, or still with it: there may be another call with that number.
OneLess(S, n) == {S, S \ {n}}

\* Mutant: the client's number is taken as it is.
Unclamped(n) == n

Clamp(n) == IF n <= 0 \/ n > top THEN top ELSE n

MarkReads(n) ==
    /\ n \in marks
    /\ marks' \in OneLess(marks, n)
    /\ clamped' = clamped \cup {Clamp(n)}
    /\ UNCHANGED <<top, selected, request, task, sendTo, listVars, lastRead>>

\* Mutant: the last call wins.
MarkOverwrites(n) ==
    /\ n \in clamped
    /\ clamped' \in OneLess(clamped, n)
    /\ lastRead' = n
    /\ UNCHANGED <<top, selected, request, task, sendTo, listVars, marks>>

MarkStores(n) ==
    /\ n \in clamped
    /\ clamped' \in OneLess(clamped, n)
    /\ lastRead' = Larger(lastRead, n)
    /\ UNCHANGED <<top, selected, request, task, sendTo, listVars, marks>>

\* The call, or a statement of it, fails; the client does not repeat it.
MarkLost(n) ==
    /\ n \in marks \cup clamped
    /\ marks' = marks \ {n}
    /\ clamped' = clamped \ {n}
    /\ UNCHANGED <<top, selected, request, task, sendTo, listVars, lastRead>>

-----------------------------------------------------------------------------
\* The result of t comes back.
Callback(t) == Drop(t) \/ LoadFailed(t) \/ PageLoaded(t) \/ Synced(t)

Next ==
    \/ Arrive \/ SelectOther \/ Deselect \/ Send \/ Reconnect \/ EndSession
    \/ OtherCallback \/ SendCallback
    \/ \E t \in Tasks : Select(t) \/ LoadOlder(t) \/ EventSync(t) \/ UnreadSync(t)
    \/ \E t \in Tasks : Callback(t)
    \/ \E n \in Seqs \cup {0} : MarkReads(n) \/ MarkStores(n) \/ MarkLost(n)

Spec == Init /\ [][Next]_vars

-----------------------------------------------------------------------------
TypeOK ==
    /\ top \in 0 .. MaxSeq
    /\ selected \in {"none", "this", "other"}
    /\ sendTo \in {"none", "this", "other", "dropped"}
    /\ request \in 0 .. MaxRequest
    /\ loading \in BOOLEAN /\ cut \in BOOLEAN
    /\ cursor \in Seqs \cup {0} /\ hasMore = (cursor # 0)
    /\ view \in [mine : SUBSET (1 .. top), other : Seqs \cup {0}, pending : BOOLEAN]
    /\ task \in [Tasks -> [kind : {"idle", "load", "older", "event", "sweep", "replaced"},
                           request : 0 .. MaxRequest, cursor : Seqs \cup {0}]]
    /\ marks \subseteq Seqs \cup {0} /\ clamped \subseteq Seqs \cup {0}
    /\ seen \in 0 .. top

(***************************************************************************)
(* No message is counted as read before it exists, although the client may *)
(* send the number of another conversation's message.                      *)
(***************************************************************************)
NoFutureRead == lastRead <= top

(***************************************************************************)
(* The read mark of a conversation never goes back, in whatever order the  *)
(* calls of several goroutines are carried out.                            *)
(***************************************************************************)
ReadNeverRecedes == [][lastRead' >= lastRead]_vars

(***************************************************************************)
(* While historyLoading is set, a goroutine is under way whose callback    *)
(* will not be dropped as outdated, and clears it: Load Older does not     *)
(* stay disabled.  (The load of another conversation is always that.)  The *)
(* one exception: the load was under way when a reconnect replaced the     *)
(* session, which leaves historyLoading set until a history is loaded      *)
(* again or nothing is selected.                                           *)
(***************************************************************************)
LoadingHasAnswer ==
    loading =>
        \/ cut
        \/ selected = "other"
        \/ \E t \in Tasks : task[t].kind \in {"load", "older"} /\ Wanted(t)

(***************************************************************************)
(* chat.proto on last_read_server_seq, "read up to": the read mark is not  *)
(* past every message of the conversation that was ever in the list.       *)
(***************************************************************************)
ReadMarkShown == lastRead <= seen
=============================================================================
