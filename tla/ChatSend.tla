------------------------------ MODULE ChatSend ------------------------------
(***************************************************************************)
(* ChatService.SendMessage: gRPC handlers that store messages of the same  *)
(* conversations concurrently in PostgreSQL, under SERIALIZABLE isolation, *)
(* with idempotency keys, retries on serialization failures, and the       *)
(* receiver told of a new message after the commit.                        *)
(*                                                                         *)
(* A handler is a program counter that names the statement it is about to  *)
(* run, its request, and the transaction it has open.  A row lock is not a *)
(* variable: a handler past the upsert of its conversation holds the lock  *)
(* of that row, a handler past its INSERT holds the entry of the unique    *)
(* index on (sender, client_message_id).                                   *)
(***************************************************************************)
EXTENDS Integers

CONSTANTS
    Users,         \* public keys of the registered users
    Texts,         \* message bodies after strings.TrimSpace
    Keys,          \* client message ids after strings.TrimSpace
    Blank,         \* the empty string: no receiver, no text, no key
    Bannable,      \* the users whose status admins change: a bound of the model
    Handlers,      \* gRPC goroutines
    Requests,      \* the requests clients issue
    None,          \* the request of an idle handler
    MaxAttempts,   \* 3 in the code
    MaxSeq         \* bound of the model: no request starts past this number

Request ==
    [sender : Users, receiver : Users \cup {Blank}, text : Texts \cup {Blank},
     key : Keys \cup {Blank}]

ASSUME RequestsAssumption == Requests \subseteq Request /\ None \notin Requests
ASSUME BannableAssumption == Bannable \subseteq Users
ASSUME AttemptsAssumption == MaxAttempts \in Nat \ {0}

VARIABLES
    messages,      \* table messages: the committed rows
    nextSeq,       \* conversations.next_seq, committed; 1 for a row not there yet
    active,        \* users whose status is 1
    handler,       \* the handlers' local state
    replies,       \* history: the replies that speak of a stored message
    pushes         \* history: the messages whose receiver Hub.Push was called for

vars == <<messages, nextSeq, active, handler, replies, pushes>>

-----------------------------------------------------------------------------
(***************************************************************************)
(* Data.  NormalizeParticipants orders the two participants, so that both  *)
(* directions share a row: here a conversation is the set of the two.      *)
(***************************************************************************)
Convs == {{u, v} : u, v \in Users}

Conv(r) == {r.sender, r.receiver}

Message ==
    [conv : Convs, sender : Users, text : Texts, key : Keys \cup {Blank},
     seq : Nat \ {0}]

\* newSendMessageInput rejects the other requests with InvalidArgument.
Valid(r) == r.receiver \notin {Blank, r.sender} /\ r.text # Blank

\* The row handler h inserts and, after the commit, tells the receiver about.
RowOf(h) ==
    LET r == handler[h].req IN
    [conv |-> Conv(r), sender |-> r.sender, text |-> r.text, key |-> r.key,
     seq |-> handler[h].seq]

\* lookupMessageByClientID: the rows that answer its SELECT.
Stored(r) == {m \in messages : m.sender = r.sender /\ m.key = r.key}

\* Mutant: the text is not compared.
SameReceiver(m, r) == m.conv = Conv(r)

\* Mutant: the other participant is not looked for when the first is the sender.
FirstParticipant(m, r) == m.conv = Conv(r) /\ m.text = r.text /\ r.sender = r.receiver

\* toSendMessageResp: the stored message has the receiver and text asked for.
SameMessage(m, r) == m.conv = Conv(r) /\ m.text = r.text

Idle == [pc |-> "idle", req |-> None, attempt |-> 0, snap |-> 0, seq |-> 0]

\* sendMessageOnce enters for the (n+1)-th time; only a keyed request is looked up.
Enter(r, n) ==
    [pc |-> IF r.key # Blank THEN "lookup" ELSE "receiver", req |-> r, attempt |-> n,
     snap |-> 0, seq |-> 0]

HandlerState ==
    [pc : {"idle", "lookup", "receiver", "begin", "ensure", "insert", "commit",
           "conflict", "notify"},
     req : Requests \cup {None}, attempt : 0 .. MaxAttempts - 1,
     snap : Nat, seq : Nat]

\* pc values of a handler whose transaction has the conversation row locked;
\* the error of a failed INSERT has already released it.
Locking == {"insert", "commit"}

At(h, pc) == handler[h].pc = pc

Goto(h, pc) == handler' = [handler EXCEPT ![h].pc = pc]

Return(h) == handler' = [handler EXCEPT ![h] = Idle]

\* Another transaction holds the row of h's conversation.
RowLocked(h) ==
    \E g \in Handlers \ {h} :
        handler[g].pc \in Locking /\ Conv(handler[g].req) = Conv(handler[h].req)

\* Mutant: an uncommitted key is not waited for.
NoKeyWait(h) == FALSE

\* Mutant: an INSERT under way is waited for as one that is done.
KeyWanted(h) ==
    /\ handler[h].req.key # Blank
    /\ \E g \in Handlers \ {h} :
        /\ handler[g].pc \in {"insert", "commit"}
        /\ handler[g].req.sender = handler[h].req.sender
        /\ handler[g].req.key = handler[h].req.key

\* Another transaction has inserted, and not yet committed, the key of h.
KeyInFlight(h) ==
    /\ handler[h].req.key # Blank
    /\ \E g \in Handlers \ {h} :
        /\ At(g, "commit")
        /\ handler[g].req.sender = handler[h].req.sender
        /\ handler[g].req.key = handler[h].req.key

KeyTaken(h) == handler[h].req.key # Blank /\ Stored(handler[h].req) # {}

Reply(r, outcome, m) ==
    replies' = replies \cup {[req |-> r, outcome |-> outcome, msg |-> m]}

-----------------------------------------------------------------------------
Init ==
    /\ messages = {}
    /\ nextSeq = [c \in Convs |-> 1]
    /\ active = Users
    /\ handler = [h \in Handlers |-> Idle]
    /\ replies = {}
    /\ pushes = {}

(***************************************************************************)
(* A request passes the auth interceptor, which wants an active user, and  *)
(* newSendMessageInput.  An invalid one returns InvalidArgument at once.   *)
(***************************************************************************)
Start(h, r) ==
    /\ At(h, "idle")
    /\ r.sender \in active
    /\ Valid(r)
    /\ nextSeq[Conv(r)] <= MaxSeq
    /\ handler' = [handler EXCEPT ![h] = Enter(r, 0)]
    /\ UNCHANGED <<messages, nextSeq, active, replies, pushes>>

\* A row under the key answers the request: the reply compares the two.
AnswerFrom(h, m) ==
    LET r == handler[h].req IN
    /\ Reply(r, IF SameMessage(m, r) THEN "Deduplicated" ELSE "AlreadyExists", m)
    /\ Return(h)
    /\ UNCHANGED <<messages, nextSeq, active, pushes>>

LookupHit(h) ==
    /\ At(h, "lookup")
    /\ \E m \in Stored(handler[h].req) : AnswerFrom(h, m)

LookupMiss(h) ==
    /\ At(h, "lookup")
    /\ Stored(handler[h].req) = {}
    /\ Goto(h, "receiver")
    /\ UNCHANGED <<messages, nextSeq, active, replies, pushes>>

\* SELECT EXISTS ... status = 1; a receiver who is not active is NotFound.
CheckReceiver(h) ==
    /\ At(h, "receiver")
    /\ IF handler[h].req.receiver \in active THEN Goto(h, "begin") ELSE Return(h)
    /\ UNCHANGED <<messages, nextSeq, active, replies, pushes>>

(***************************************************************************)
(* BEGIN ISOLATION LEVEL SERIALIZABLE.  The snapshot is taken with the     *)
(* first statement, the upsert of EnsureConversation.                      *)
(***************************************************************************)
TxBegin(h) ==
    /\ At(h, "begin")
    /\ handler' = [handler EXCEPT ![h].pc = "ensure",
                                  ![h].snap = nextSeq[Conv(handler[h].req)]]
    /\ UNCHANGED <<messages, nextSeq, active, replies, pushes>>

\* Mutant: next_seq is read without locking the row.
UnlockedRead(h) ==
    LET c == Conv(handler[h].req) IN
    /\ At(h, "ensure")
    /\ handler[h].snap = nextSeq[c]
    /\ handler' = [handler EXCEPT ![h].pc = "insert", ![h].seq = nextSeq[c]]
    /\ UNCHANGED <<messages, nextSeq, active, replies, pushes>>

(***************************************************************************)
(* EnsureConversation's upsert waits for the row's lock and gets it if the *)
(* row is still the one of the snapshot; the UPDATE that follows returns   *)
(* the row's next_seq and increments it, uncommitted.                      *)
(***************************************************************************)
TxLock(h) ==
    LET c == Conv(handler[h].req) IN
    /\ At(h, "ensure")
    /\ ~ RowLocked(h)
    /\ handler[h].snap = nextSeq[c]
    /\ handler' = [handler EXCEPT ![h].pc = "insert", ![h].seq = nextSeq[c]]
    /\ UNCHANGED <<messages, nextSeq, active, replies, pushes>>

\* Mutant: an attempt too many.
OneMoreAttempt(h) ==
    LET r == handler[h].req
        next == handler[h].attempt + 1
    IN  /\ IF next <= MaxAttempts
           THEN handler' = [handler EXCEPT ![h] = Enter(r, next)]
           ELSE Return(h)
        /\ UNCHANGED <<messages, nextSeq, active, replies, pushes>>

\* Mutant: the attempts are not counted.
RetryForever(h) ==
    LET r == handler[h].req IN
    /\ handler' = [handler EXCEPT ![h] = Enter(r, handler[h].attempt)]
    /\ UNCHANGED <<messages, nextSeq, active, replies, pushes>>

(***************************************************************************)
(* SQLSTATE 40001 rolls the transaction back; SendMessage starts over, at  *)
(* most MaxAttempts times in all, and then answers Aborted.                *)
(***************************************************************************)
RetryOrAbort(h) ==
    LET r == handler[h].req
        next == handler[h].attempt + 1
    IN  /\ IF next < MaxAttempts
           THEN handler' = [handler EXCEPT ![h] = Enter(r, next)]
           ELSE Return(h)
        /\ UNCHANGED <<messages, nextSeq, active, replies, pushes>>

\* The row was committed by another transaction after the snapshot of h.
StaleSnapshot(h) ==
    /\ At(h, "ensure")
    /\ ~ RowLocked(h)
    /\ handler[h].snap # nextSeq[Conv(handler[h].req)]
    /\ RetryOrAbort(h)

\* Serializable isolation may fail a statement, or the commit, at any time.
SerializationFailure(h) ==
    /\ handler[h].pc \in {"ensure", "insert", "commit"}
    /\ RetryOrAbort(h)

\* Mutant: the receiver is told before the commit.
PushBeforeCommit(h) ==
    /\ At(h, "insert")
    /\ ~ KeyInFlight(h)
    /\ ~ KeyTaken(h)
    /\ pushes' = pushes \cup {RowOf(h)}
    /\ Goto(h, "commit")
    /\ UNCHANGED <<messages, nextSeq, active, replies>>

\* INSERT INTO messages: waits while the same key is uncommitted elsewhere.
TxInsert(h) ==
    /\ At(h, "insert")
    /\ ~ KeyInFlight(h)
    /\ ~ KeyTaken(h)
    /\ Goto(h, "commit")
    /\ UNCHANGED <<messages, nextSeq, active, replies, pushes>>

\* INSERT fails with 23505, which ends the transaction in the database.
UniqueViolation(h) ==
    /\ At(h, "insert")
    /\ ~ KeyInFlight(h)
    /\ KeyTaken(h)
    /\ Goto(h, "conflict")
    /\ UNCHANGED <<messages, nextSeq, active, replies, pushes>>

\* The second lookup of sendMessageOnce.  It cannot miss: rows are not deleted.
ConflictHit(h) ==
    /\ At(h, "conflict")
    /\ \E m \in Stored(handler[h].req) : AnswerFrom(h, m)

\* Mutant: the message is stored and the number not advanced.
KeepNextSeq(h) ==
    /\ messages' = messages \cup {RowOf(h)}
    /\ UNCHANGED nextSeq

\* The rows of h's transaction become visible to all.
Apply(h) ==
    /\ messages' = messages \cup {RowOf(h)}
    /\ nextSeq' = [nextSeq EXCEPT ![RowOf(h).conv] = handler[h].seq + 1]

TxCommit(h) ==
    /\ At(h, "commit")
    /\ Apply(h)
    /\ Goto(h, "notify")
    /\ UNCHANGED <<active, replies, pushes>>

(***************************************************************************)
(* The commit is applied, its acknowledgement is lost: the handler returns *)
(* Internal for a message that is stored, and pushes nothing.              *)
(***************************************************************************)
CommitAckLost(h) ==
    /\ At(h, "commit")
    /\ Apply(h)
    /\ Return(h)
    /\ UNCHANGED <<active, replies, pushes>>

(***************************************************************************)
(* After the commit: the unread count (1 if it cannot be read), Hub.Push   *)
(* to the receiver, and the reply.                                         *)
(***************************************************************************)
Notify(h) ==
    /\ At(h, "notify")
    /\ pushes' = pushes \cup {RowOf(h)}
    /\ Reply(handler[h].req, "Sent", RowOf(h))
    /\ Return(h)
    /\ UNCHANGED <<messages, nextSeq, active>>

(***************************************************************************)
(* A statement fails, or the client's deadline cancels the context: the    *)
(* transaction is rolled back and the handler returns Internal.  Past the  *)
(* commit an error no longer stops the handler.                            *)
(***************************************************************************)
DatabaseError(h) ==
    /\ handler[h].pc \notin {"idle", "notify"}
    /\ Return(h)
    /\ UNCHANGED <<messages, nextSeq, active, replies, pushes>>

\* AdminService.SetUserStatus, as far as it bears on sending.
SetUserStatus(u) ==
    /\ active' = IF u \in active THEN active \ {u} ELSE active \cup {u}
    /\ UNCHANGED <<messages, nextSeq, handler, replies, pushes>>

\* The process dies: PostgreSQL rolls the open transactions back.
ServerCrash ==
    /\ \E h \in Handlers : ~ At(h, "idle")
    /\ handler' = [h \in Handlers |-> Idle]
    /\ UNCHANGED <<messages, nextSeq, active, replies, pushes>>

-----------------------------------------------------------------------------
(***************************************************************************)
(* What a handler does when nothing fails.  Go schedules it and PostgreSQL *)
(* answers, so it is fairly executed; PostgreSQL grants a row or an index  *)
(* entry to the transactions that wait for it in turn, so a handler that   *)
(* finds its lock free again and again gets it.                            *)
(***************************************************************************)
Advance(h) ==
    \/ LookupHit(h) \/ LookupMiss(h) \/ CheckReceiver(h) \/ TxBegin(h)
    \/ ConflictHit(h) \/ TxCommit(h) \/ Notify(h)

Acquire(h) == TxLock(h) \/ StaleSnapshot(h) \/ TxInsert(h) \/ UniqueViolation(h)

Fail(h) == SerializationFailure(h) \/ CommitAckLost(h) \/ DatabaseError(h)

Next ==
    \/ \E h \in Handlers, r \in Requests : Start(h, r)
    \/ \E h \in Handlers : Advance(h) \/ Acquire(h) \/ Fail(h)
    \/ \E u \in Bannable : SetUserStatus(u)
    \/ ServerCrash

Spec == Init /\ [][Next]_vars

Fairness == \A h \in Handlers : WF_vars(Advance(h)) /\ SF_vars(Acquire(h))

FairSpec == Spec /\ Fairness

-----------------------------------------------------------------------------
(***************************************************************************)
(* Type correctness.  An idle handler has no request; a busy one has one   *)
(* that passed newSendMessageInput.                                        *)
(***************************************************************************)
TypeOK ==
    /\ messages \subseteq Message
    /\ nextSeq \in [Convs -> Nat \ {0}]
    /\ active \subseteq Users
    /\ handler \in [Handlers -> HandlerState]
    /\ \A h \in Handlers :
        ~ At(h, "idle") => handler[h].req \in Requests /\ Valid(handler[h].req)
    /\ replies \subseteq [req : Requests, msg : Message,
                          outcome : {"Sent", "Deduplicated", "AlreadyExists"}]
    /\ pushes \subseteq Message

(***************************************************************************)
(* The committed messages of a conversation are numbered 1, 2, 3, ... with *)
(* no hole and no number used twice, whatever transactions were rolled     *)
(* back, retried or cut off by a crash.  Clients detect missed messages by *)
(* holes in server_seq and page by it, so a hole would be asked for for    *)
(* ever and a duplicate would hide a message.                              *)
(***************************************************************************)
Gapless ==
    /\ \A c \in Convs :
        {m.seq : m \in {n \in messages : n.conv = c}} = 1 .. (nextSeq[c] - 1)
    /\ \A m, n \in messages : m.conv = n.conv /\ m.seq = n.seq => m = n

(***************************************************************************)
(* A sender's key names at most one stored message, whoever raced whom     *)
(* between the lookup and the INSERT.                                      *)
(***************************************************************************)
OnePerKey ==
    \A m, n \in messages :
        m.sender = n.sender /\ m.key = n.key /\ m.key # Blank => m = n

(***************************************************************************)
(* A request is told OK only for a stored message of its own content and   *)
(* key, also by way of the deduplication paths and after a crash.          *)
(***************************************************************************)
RepliesSound ==
    \A a \in replies : a.outcome # "AlreadyExists" =>
        /\ a.msg \in messages
        /\ a.msg.conv = Conv(a.req) /\ a.msg.text = a.req.text
        /\ a.msg.sender = a.req.sender /\ a.msg.key = a.req.key

(***************************************************************************)
(* Two OK replies to one sender and key quote one message, whichever of    *)
(* the three paths to a reply they took, as chat.proto promises of         *)
(* client_message_id.                                                      *)
(***************************************************************************)
ReplayConsistent ==
    \A a, b \in replies :
        /\ a.outcome # "AlreadyExists" /\ b.outcome # "AlreadyExists"
        /\ a.req.sender = b.req.sender /\ a.req.key = b.req.key /\ a.req.key # Blank
        => a.msg = b.msg

(***************************************************************************)
(* AlreadyExists is only said of a key that a different message has taken: *)
(* a faithful retry of one message is never refused.                       *)
(***************************************************************************)
AlreadyExistsSound ==
    \A a \in replies : a.outcome = "AlreadyExists" =>
        /\ a.msg \in messages
        /\ a.msg.sender = a.req.sender /\ a.msg.key = a.req.key
        /\ a.msg.conv # Conv(a.req) \/ a.msg.text # a.req.text

(***************************************************************************)
(* The receiver is told of a message after it is committed, so that the    *)
(* history it then fetches has it, and before the sender is told "sent".   *)
(***************************************************************************)
PushAfterCommit ==
    /\ pushes \subseteq messages
    /\ \A a \in replies : a.outcome = "Sent" => a.msg \in pushes

(***************************************************************************)
(* Every handler answers in the end: no cycle of row and key locks, no     *)
(* endless retry of serialization failures.                                *)
(***************************************************************************)
Terminates == \A h \in Handlers : ~ At(h, "idle") ~> At(h, "idle")

(***************************************************************************)
(* No handlers wait for each other in a circle, though a transaction takes *)
(* two kinds of locks, the row of its conversation and the entry of its    *)
(* key, which another takes under another row; and a handler whose INSERT  *)
(* was refused finds the row that has its key.  So each busy handler has a *)
(* step to take, or waits for one that has, or for one that waits for one. *)
(***************************************************************************)
Runs(h) ==
    \/ handler[h].pc \in {"lookup", "receiver", "begin", "commit", "notify"}
    \/ At(h, "ensure") /\ ~ RowLocked(h)
    \/ At(h, "insert") /\ ~ KeyInFlight(h)
    \/ At(h, "conflict") /\ Stored(handler[h].req) # {}

WaitsFor(h, g) ==
    \/ /\ At(h, "ensure") /\ handler[g].pc \in Locking
       /\ Conv(handler[g].req) = Conv(handler[h].req)
    \/ /\ At(h, "insert") /\ At(g, "commit")
       /\ handler[g].req.sender = handler[h].req.sender
       /\ handler[g].req.key = handler[h].req.key

NeverStuck ==
    \A h \in Handlers : ~ At(h, "idle") =>
        \/ Runs(h)
        \/ \E g \in Handlers : WaitsFor(h, g) /\ Runs(g)
        \/ \E g, f \in Handlers : WaitsFor(h, g) /\ WaitsFor(g, f) /\ Runs(f)

(***************************************************************************)
(* And it has a bounded number of steps to take, whatever fails and is     *)
(* tried again and whatever the others commit in between: each of its      *)
(* steps lowers a measure, whose larger part are the attempts it has left, *)
(* and no step of another one raises it.                                   *)
(***************************************************************************)
Distance ==
    [idle |-> 0, notify |-> 1, commit |-> 2, conflict |-> 2, insert |-> 3, ensure |-> 4,
     begin |-> 5, receiver |-> 6, lookup |-> 7]

StepsLeft(k) ==
    IF k.pc = "idle" THEN 0 ELSE 8 * (MaxAttempts - 1 - k.attempt) + Distance[k.pc]

AttemptsEnd ==
    [][\A h \in Handlers : ~ At(h, "idle") =>
            \/ handler'[h] = handler[h]
            \/ StepsLeft(handler'[h]) \in 0 .. StepsLeft(handler[h]) - 1]_vars

(***************************************************************************)
(* The handlers together implement the abstract log: a commit appends one  *)
(* entry, an OK reply acknowledges one, every other step is invisible.     *)
(***************************************************************************)
Acked == {a.msg : a \in {b \in replies : b.outcome # "AlreadyExists"}}

Log == INSTANCE MessageLog WITH
    log <- messages, size <- [c \in Convs |-> nextSeq[c] - 1], acks <- Acked

LogSpec == Log!Spec
=============================================================================
