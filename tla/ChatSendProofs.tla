--------------------------- MODULE ChatSendProofs ---------------------------
(***************************************************************************)
(* Proofs about ChatSend, for any number of users, handlers, requests and  *)
(* attempts.                                                               *)
(***************************************************************************)
EXTENDS ChatSend, TLAPS

\* A handler that has a number, or has stored one, has a real one.
SeqSet == \A h \in Handlers :
    handler[h].pc \in {"insert", "commit", "notify"} => handler[h].seq # 0

TypeInv == TypeOK /\ SeqSet

\* What TypeInv says of the handlers.
HandlersTyped ==
    /\ handler \in [Handlers -> HandlerState]
    /\ \A h \in Handlers :
        ~ At(h, "idle") => handler[h].req \in Requests /\ Valid(handler[h].req)
    /\ SeqSet

(***************************************************************************)
(* The row lock: a handler that holds its conversation's row is the only   *)
(* one to hold it, and the number it was given is still the next one.      *)
(***************************************************************************)
RowsHeld == \A h \in Handlers : handler[h].pc \in Locking =>
    /\ handler[h].seq = nextSeq[Conv(handler[h].req)]
    /\ \A g \in Handlers :
        handler[g].pc \in Locking /\ Conv(handler[g].req) = Conv(handler[h].req) => g = h

(***************************************************************************)
(* The unique index: a handler that has inserted a key and not committed   *)
(* it is the only one to have inserted it, and no committed row has it.    *)
(***************************************************************************)
KeysHeld == \A h \in Handlers : At(h, "commit") /\ handler[h].req.key # Blank =>
    /\ Stored(handler[h].req) = {}
    /\ \A g \in Handlers :
        /\ At(g, "commit")
        /\ handler[g].req.sender = handler[h].req.sender
        /\ handler[g].req.key = handler[h].req.key
        => g = h

\* A handler on its way to Hub.Push has committed its message.
NotifyStored == \A h \in Handlers : At(h, "notify") => RowOf(h) \in messages

StoreInv == RowsHeld /\ KeysHeld /\ NotifyStored /\ Gapless /\ OnePerKey

ReplyInv == RepliesSound /\ AlreadyExistsSound /\ PushAfterCommit

-----------------------------------------------------------------------------
LEMMA BusyRequest ==
    ASSUME TypeOK, NEW h \in Handlers, ~ At(h, "idle")
    PROVE  /\ handler[h] \in HandlerState
           /\ handler[h].req \in Requests
           /\ handler[h].req.sender \in Users
           /\ handler[h].req.receiver \in Users
           /\ handler[h].req.text \in Texts
           /\ handler[h].req.key \in Keys \cup {Blank}
           /\ Conv(handler[h].req) \in Convs
<1>1. handler[h] \in HandlerState /\ handler[h].req \in Requests /\ Valid(handler[h].req)
  BY DEF TypeOK
<1>2. handler[h].req \in Request
  BY <1>1, RequestsAssumption
<1>3. QED
  BY <1>1, <1>2 DEF Request, Valid, Conv, Convs

LEMMA IdleType == Idle \in HandlerState
BY AttemptsAssumption DEF Idle, HandlerState

LEMMA EnterType ==
    ASSUME NEW r \in Requests, NEW n \in 0 .. MaxAttempts - 1
    PROVE  Enter(r, n) \in HandlerState
BY DEF Enter, HandlerState

LEMMA RowType ==
    ASSUME TypeInv, NEW h \in Handlers, handler[h].pc \in {"commit", "notify"}
    PROVE  RowOf(h) \in Message
<1>1. ~ At(h, "idle") /\ handler[h].seq # 0
  BY DEF At, TypeInv, SeqSet
<1>2. QED
  BY <1>1, BusyRequest DEF TypeInv, HandlerState, RowOf, Message

\* The part of TypeInv about handlers, for a step of handler h to state s.
LEMMA HandlerType ==
    ASSUME TypeInv, NEW h \in Handlers, NEW s \in HandlerState,
           s.pc = "idle" \/ (s.req \in Requests /\ Valid(s.req)),
           s.pc \in {"insert", "commit", "notify"} => s.seq # 0,
           handler' = [handler EXCEPT ![h] = s]
    PROVE  HandlersTyped'
BY DEF TypeInv, TypeOK, SeqSet, At, HandlersTyped

LEMMA ReturnType ==
    ASSUME TypeInv, NEW h \in Handlers, Return(h)
    PROVE  HandlersTyped'
BY IdleType, HandlerType DEF Return, Idle

LEMMA GotoType ==
    ASSUME TypeInv, NEW h \in Handlers, ~ At(h, "idle"),
           NEW pc \in {"receiver", "begin", "conflict", "commit", "notify"}, Goto(h, pc),
           pc \in {"commit", "notify"} => handler[h].seq # 0
    PROVE  HandlersTyped'
<1> DEFINE s == [handler[h] EXCEPT !.pc = pc]
<1>1. s \in HandlerState /\ s.pc = pc /\ s.req = handler[h].req /\ s.seq = handler[h].seq
  BY BusyRequest DEF TypeInv, HandlerState
<1>2. handler' = [handler EXCEPT ![h] = s]
  BY DEF Goto, TypeInv, TypeOK
<1>3. s.req \in Requests /\ Valid(s.req)
  BY <1>1 DEF TypeInv, TypeOK
<1> HIDE DEF s
<1>4. QED
  BY <1>1, <1>2, <1>3, HandlerType

LEMMA RetryType ==
    ASSUME TypeInv, NEW h \in Handlers, ~ At(h, "idle"), RetryOrAbort(h)
    PROVE  TypeInv'
<1>1. handler[h] \in HandlerState /\ handler[h].req \in Requests /\ Valid(handler[h].req)
  BY BusyRequest DEF TypeInv, TypeOK
<1> DEFINE n == handler[h].attempt + 1
           s == Enter(handler[h].req, n)
<1>2. CASE n < MaxAttempts
  <2>1. n \in 0 .. MaxAttempts - 1
    BY <1>1, <1>2, AttemptsAssumption DEF HandlerState
  <2>2. s \in HandlerState
    BY <1>1, <2>1, EnterType
  <2>3. handler' = [handler EXCEPT ![h] = s]
    BY <1>2 DEF RetryOrAbort
  <2>4. s.req = handler[h].req /\ s.pc \in {"lookup", "receiver"}
    BY DEF Enter
  <2> HIDE DEF s
  <2>5. QED
    BY <1>1, <2>2, <2>3, <2>4, HandlerType DEF RetryOrAbort, TypeInv, TypeOK, HandlersTyped
<1>3. CASE ~ (n < MaxAttempts)
  BY <1>3, ReturnType DEF RetryOrAbort, TypeInv, TypeOK, HandlersTyped
<1>4. QED
  BY <1>2, <1>3

\* Every step that is not a commit leaves the tables alone.
LEMMA TablesUnchanged ==
    ASSUME Next
    PROVE  \/ UNCHANGED <<messages, nextSeq>>
           \/ \E h \in Handlers : TxCommit(h) \/ CommitAckLost(h)
BY DEF Next, Start, Advance, Acquire, Fail, LookupHit, LookupMiss, CheckReceiver,
    TxBegin, StaleSnapshot, ConflictHit, Notify, TxLock, TxInsert, UniqueViolation,
    SerializationFailure, DatabaseError, RetryOrAbort, AnswerFrom, SetUserStatus,
    ServerCrash

LEMMA AnswerType ==
    ASSUME TypeInv, NEW h \in Handlers, ~ At(h, "idle"),
           NEW m \in Stored(handler[h].req), AnswerFrom(h, m)
    PROVE  TypeInv'
<1>1. m \in Message /\ handler[h].req \in Requests
  BY BusyRequest DEF TypeInv, TypeOK, Stored
<1>2. HandlersTyped'
  BY ReturnType DEF AnswerFrom
<1>3. QED
  BY <1>1, <1>2 DEF AnswerFrom, Reply, TypeInv, TypeOK, HandlersTyped

LEMMA NextType == TypeInv /\ [Next]_vars => TypeInv'
<1> SUFFICES ASSUME TypeInv, [Next]_vars PROVE TypeInv'
  OBVIOUS
<1>1. ASSUME NEW h \in Handlers, NEW r \in Requests, Start(h, r) PROVE TypeInv'
  <2>1. Enter(r, 0) \in HandlerState /\ Enter(r, 0).req = r /\ Valid(r)
            /\ Enter(r, 0).pc \in {"lookup", "receiver"}
    BY <1>1, EnterType, AttemptsAssumption DEF Start, Enter
  <2>2. HandlersTyped'
    BY <1>1, <2>1, HandlerType DEF Start
  <2>3. QED
    BY <1>1, <2>2 DEF Start, TypeInv, TypeOK, HandlersTyped
<1>2. ASSUME NEW h \in Handlers, LookupHit(h) \/ ConflictHit(h) PROVE TypeInv'
  BY <1>2, AnswerType DEF LookupHit, ConflictHit, At
<1>3. ASSUME NEW h \in Handlers, LookupMiss(h) \/ UniqueViolation(h) PROVE TypeInv'
  <2>1. ~ At(h, "idle")
    BY <1>3 DEF LookupMiss, UniqueViolation, At
  <2>2. HandlersTyped'
    BY <1>3, <2>1, GotoType DEF LookupMiss, UniqueViolation
  <2>3. QED
    BY <1>3, <2>2 DEF LookupMiss, UniqueViolation, TypeInv, TypeOK, HandlersTyped
<1>4. ASSUME NEW h \in Handlers, CheckReceiver(h) PROVE TypeInv'
  <2>1. ~ At(h, "idle")
    BY <1>4 DEF CheckReceiver, At
  <2>2. HandlersTyped'
    BY <1>4, <2>1, GotoType, ReturnType DEF CheckReceiver
  <2>3. QED
    BY <1>4, <2>2 DEF CheckReceiver, TypeInv, TypeOK, HandlersTyped
<1>5. ASSUME NEW h \in Handlers, TxBegin(h) \/ TxLock(h) PROVE TypeInv'
  <2>1. ~ At(h, "idle")
    BY <1>5 DEF TxBegin, TxLock, At
  <2>2. nextSeq[Conv(handler[h].req)] \in Nat \ {0}
    BY <2>1, BusyRequest DEF TypeInv, TypeOK
  <2> DEFINE n == nextSeq[Conv(handler[h].req)]
             s == [handler[h] EXCEPT !.pc = "ensure", !.snap = n]
             t == [handler[h] EXCEPT !.pc = "insert", !.seq = n]
  <2>3. handler[h] \in HandlerState /\ handler[h].req \in Requests /\ Valid(handler[h].req)
    BY <2>1 DEF TypeInv, TypeOK
  <2>4. /\ s \in HandlerState /\ s.req = handler[h].req /\ s.pc = "ensure"
        /\ t \in HandlerState /\ t.req = handler[h].req /\ t.seq = n
    BY <2>2, <2>3 DEF HandlerState
  <2>5. handler' = [handler EXCEPT ![h] = s] \/ handler' = [handler EXCEPT ![h] = t]
    BY <1>5 DEF TxBegin, TxLock, TypeInv, TypeOK
  <2> HIDE DEF s, t
  <2>6. HandlersTyped'
    BY <2>2, <2>3, <2>4, <2>5, HandlerType
  <2>7. QED
    BY <1>5, <2>6 DEF TxBegin, TxLock, TypeInv, TypeOK, HandlersTyped
<1>6. ASSUME NEW h \in Handlers, StaleSnapshot(h) \/ SerializationFailure(h) PROVE TypeInv'
  BY <1>6, RetryType DEF StaleSnapshot, SerializationFailure, At
<1>7. ASSUME NEW h \in Handlers, TxInsert(h) PROVE TypeInv'
  <2>1. ~ At(h, "idle") /\ handler[h].seq # 0
    BY <1>7 DEF TxInsert, At, TypeInv, SeqSet
  <2>2. HandlersTyped'
    BY <1>7, <2>1, GotoType DEF TxInsert
  <2>3. QED
    BY <1>7, <2>2 DEF TxInsert, TypeInv, TypeOK, HandlersTyped
<1>8. ASSUME NEW h \in Handlers, TxCommit(h) \/ CommitAckLost(h) PROVE TypeInv'
  <2>1. ~ At(h, "idle") /\ handler[h].pc = "commit" /\ handler[h].seq # 0
    BY <1>8 DEF TxCommit, CommitAckLost, At, TypeInv, SeqSet
  <2>2. HandlersTyped'
    BY <1>8, <2>1, GotoType, ReturnType DEF TxCommit, CommitAckLost
  <2>3. RowOf(h) \in Message
    BY <2>1, RowType
  <2>4. handler[h].seq + 1 \in Nat \ {0}
    BY <2>1, BusyRequest DEF TypeInv, HandlerState
  <2>5. messages' \subseteq Message /\ nextSeq' \in [Convs -> Nat \ {0}]
    BY <1>8, <2>3, <2>4 DEF TxCommit, CommitAckLost, Apply, TypeInv, TypeOK
  <2>6. QED
    BY <1>8, <2>2, <2>5 DEF TxCommit, CommitAckLost, TypeInv, TypeOK, HandlersTyped
<1>9. ASSUME NEW h \in Handlers, Notify(h) PROVE TypeInv'
  <2>1. ~ At(h, "idle") /\ handler[h].pc = "notify"
    BY <1>9 DEF Notify, At
  <2>2. HandlersTyped'
    BY <1>9, ReturnType DEF Notify
  <2>3. RowOf(h) \in Message /\ handler[h].req \in Requests
    BY <2>1, RowType, BusyRequest DEF TypeInv
  <2>4. QED
    BY <1>9, <2>2, <2>3 DEF Notify, Reply, TypeInv, TypeOK, HandlersTyped
<1>10. ASSUME NEW h \in Handlers, DatabaseError(h) PROVE TypeInv'
  BY <1>10, ReturnType DEF DatabaseError, TypeInv, TypeOK, HandlersTyped
<1>11. ASSUME NEW u \in Bannable, SetUserStatus(u) PROVE TypeInv'
  BY <1>11, BannableAssumption DEF SetUserStatus, TypeInv, TypeOK, SeqSet, At
<1>12. CASE ServerCrash
  BY <1>12, IdleType DEF ServerCrash, TypeInv, TypeOK, SeqSet, At, Idle
<1>13. CASE UNCHANGED vars
  BY <1>13 DEF vars, TypeInv, TypeOK, SeqSet, At
<1>14. QED
  BY <1>1, <1>2, <1>3, <1>4, <1>5, <1>6, <1>7, <1>8, <1>9, <1>10, <1>11, <1>12, <1>13
     DEF Next, Advance, Acquire, Fail

LEMMA InitType == Init => TypeInv
BY IdleType DEF Init, TypeInv, TypeOK, SeqSet, At, Idle, Convs

\* The model's states are well typed: a busy handler has a validated request.
THEOREM TypeCorrect == Spec => []TypeOK
<1>1. TypeInv => TypeOK
  BY DEF TypeInv
<1>2. QED
  BY InitType, NextType, <1>1, PTL DEF Spec

-----------------------------------------------------------------------------
(***************************************************************************)
(* Most steps are quiet: the tables stay, and the handler that moves does  *)
(* not arrive where it holds a lock or has committed.  Such a step keeps   *)
(* StoreInv; TxLock, TxInsert and the two commits are looked at one by one.*)
(***************************************************************************)
Quiet ==
    /\ UNCHANGED <<messages, nextSeq>>
    /\ \A h \in Handlers :
        handler'[h] = handler[h] \/ handler'[h].pc \notin {"insert", "commit", "notify"}

LEMMA QuietStore == TypeInv /\ StoreInv /\ Quiet => StoreInv'
<1> SUFFICES ASSUME TypeInv, StoreInv, Quiet PROVE StoreInv'
  OBVIOUS
<1>1. RowsHeld'
  BY DEF StoreInv, RowsHeld, Quiet, Locking
<1>2. KeysHeld'
  BY DEF StoreInv, KeysHeld, Quiet, At, Stored
<1>3. NotifyStored'
  BY DEF StoreInv, NotifyStored, Quiet, At, RowOf
<1>4. Gapless' /\ OnePerKey'
  BY DEF StoreInv, Gapless, OnePerKey, Quiet
<1>5. QED
  BY <1>1, <1>2, <1>3, <1>4 DEF StoreInv

LEMMA QuietSteps ==
    ASSUME TypeInv, [Next]_vars
    PROVE  Quiet \/ \E h \in Handlers :
                        TxLock(h) \/ TxInsert(h) \/ TxCommit(h) \/ CommitAckLost(h)
<1>1. ASSUME NEW h \in Handlers, Return(h), UNCHANGED <<messages, nextSeq>> PROVE Quiet
  BY <1>1 DEF Return, Idle, Quiet, TypeInv, TypeOK
<1>2. ASSUME NEW h \in Handlers, NEW pc \in {"receiver", "begin", "conflict"}, Goto(h, pc),
             UNCHANGED <<messages, nextSeq>>
      PROVE  Quiet
  BY <1>2 DEF Goto, Quiet, TypeInv, TypeOK, HandlerState
<1>3. ASSUME NEW h \in Handlers, RetryOrAbort(h) PROVE Quiet
  BY <1>1, <1>3 DEF RetryOrAbort, Enter, Quiet, TypeInv, TypeOK
<1>4. ASSUME NEW h \in Handlers, TxBegin(h) PROVE Quiet
  BY <1>4 DEF TxBegin, Quiet, TypeInv, TypeOK, HandlerState
<1>5. ASSUME NEW h \in Handlers, NEW r \in Requests, Start(h, r) PROVE Quiet
  BY <1>5 DEF Start, Enter, Quiet, TypeInv, TypeOK
<1>6. CASE ServerCrash
  BY <1>6 DEF ServerCrash, Quiet, Idle
<1>7. ASSUME NEW u \in Bannable, SetUserStatus(u) PROVE Quiet
  BY <1>7 DEF SetUserStatus, Quiet
<1>8. CASE UNCHANGED vars
  BY <1>8 DEF vars, Quiet
<1>9. ASSUME NEW h \in Handlers, Advance(h), ~ TxCommit(h) PROVE Quiet
  BY <1>1, <1>2, <1>4, <1>9
     DEF Advance, LookupHit, LookupMiss, CheckReceiver, ConflictHit, AnswerFrom, Notify
<1>10. ASSUME NEW h \in Handlers, Fail(h), ~ CommitAckLost(h) PROVE Quiet
  BY <1>1, <1>3, <1>10 DEF Fail, SerializationFailure, DatabaseError
<1>11. ASSUME NEW h \in Handlers, StaleSnapshot(h) \/ UniqueViolation(h) PROVE Quiet
  BY <1>2, <1>3, <1>11 DEF StaleSnapshot, UniqueViolation
<1>12. QED
  BY <1>5, <1>6, <1>7, <1>8, <1>9, <1>10, <1>11 DEF Next, Acquire

LEMMA LockStore ==
    ASSUME TypeInv, StoreInv, NEW h \in Handlers, TxLock(h)
    PROVE  StoreInv'
<1>1. /\ handler'[h].pc = "insert" /\ handler'[h].req = handler[h].req
      /\ handler'[h].seq = nextSeq[Conv(handler[h].req)]
      /\ \A g \in Handlers \ {h} : handler'[g] = handler[g]
      /\ UNCHANGED <<messages, nextSeq>>
  BY DEF TxLock, TypeInv, TypeOK, HandlerState
<1>2. \A g \in Handlers \ {h} :
          handler[g].pc \in Locking => Conv(handler[g].req) # Conv(handler[h].req)
  BY DEF TxLock, RowLocked
<1>3. RowsHeld'
  BY <1>1, <1>2 DEF StoreInv, RowsHeld
<1>4. KeysHeld' /\ NotifyStored'
  BY <1>1 DEF StoreInv, KeysHeld, NotifyStored, At, Stored, RowOf
<1>5. Gapless' /\ OnePerKey'
  BY <1>1 DEF StoreInv, Gapless, OnePerKey
<1>6. QED
  BY <1>3, <1>4, <1>5 DEF StoreInv

LEMMA InsertStore ==
    ASSUME TypeInv, StoreInv, NEW h \in Handlers, TxInsert(h)
    PROVE  StoreInv'
<1>1. /\ handler[h].pc = "insert"
      /\ handler'[h].pc = "commit" /\ handler'[h].req = handler[h].req
      /\ handler'[h].seq = handler[h].seq
      /\ \A g \in Handlers \ {h} : handler'[g] = handler[g]
      /\ UNCHANGED <<messages, nextSeq>>
  BY DEF TxInsert, Goto, At, TypeInv, TypeOK, HandlerState
<1>2. RowsHeld'
  BY <1>1 DEF StoreInv, RowsHeld, Locking
<1>3. KeysHeld'
  BY <1>1 DEF StoreInv, KeysHeld, TxInsert, KeyInFlight, KeyTaken, At, Stored
<1>4. NotifyStored'
  BY <1>1 DEF StoreInv, NotifyStored, At, RowOf
<1>5. Gapless' /\ OnePerKey'
  BY <1>1 DEF StoreInv, Gapless, OnePerKey
<1>6. QED
  BY <1>2, <1>3, <1>4, <1>5 DEF StoreInv

LEMMA CommitStore ==
    ASSUME TypeInv, StoreInv, NEW h \in Handlers, TxCommit(h) \/ CommitAckLost(h)
    PROVE  StoreInv'
<1> DEFINE r == handler[h].req
           c == Conv(r)
           n == nextSeq[c]
<1>1. /\ handler[h].pc = "commit" /\ handler[h] \in HandlerState /\ r \in Requests
      /\ c \in Convs /\ n \in Nat \ {0} /\ handler[h].seq = n
  BY BusyRequest
     DEF TxCommit, CommitAckLost, At, TypeInv, TypeOK, StoreInv, RowsHeld, Locking
<1>2. /\ RowOf(h) = [conv |-> c, sender |-> r.sender, text |-> r.text, key |-> r.key, seq |-> n]
      /\ messages' = messages \cup {RowOf(h)}
      /\ nextSeq' = [nextSeq EXCEPT ![c] = n + 1]
  BY <1>1 DEF TxCommit, CommitAckLost, Apply, RowOf
<1>3. /\ \A g \in Handlers \ {h} : handler'[g] = handler[g]
      /\ \/ /\ handler'[h].pc = "notify" /\ handler'[h].req = r
            /\ handler'[h].seq = handler[h].seq
         \/ handler'[h].pc = "idle"
  BY DEF TxCommit, CommitAckLost, Goto, Return, Idle, TypeInv, TypeOK, HandlerState
<1> HIDE DEF r, c, n
<1>4. \A g \in Handlers \ {h} :
          handler[g].pc \in Locking => Conv(handler[g].req) # c
  BY <1>1 DEF StoreInv, RowsHeld, Locking, c, r
<1>5. RowsHeld'
  <2> SUFFICES ASSUME NEW g \in Handlers, handler'[g].pc \in Locking
               PROVE  /\ handler'[g].seq = nextSeq'[Conv(handler'[g].req)]
                      /\ \A f \in Handlers :
                            /\ handler'[f].pc \in Locking
                            /\ Conv(handler'[f].req) = Conv(handler'[g].req)
                            => f = g
    BY DEF RowsHeld
  <2>1. g # h /\ handler'[g] = handler[g] /\ Conv(handler[g].req) # c
    BY <1>3, <1>4 DEF Locking
  <2>2. ~ At(g, "idle")
    BY <2>1 DEF At, Locking
  <2>3. Conv(handler[g].req) \in Convs
    BY <2>2, BusyRequest DEF TypeInv
  <2>4. handler'[g].seq = nextSeq'[Conv(handler'[g].req)]
    BY <1>2, <2>1, <2>3 DEF StoreInv, RowsHeld, TypeInv, TypeOK
  <2>5. QED
    BY <1>3, <2>1, <2>4 DEF StoreInv, RowsHeld, Locking
<1>6. KeysHeld'
  <2> SUFFICES ASSUME NEW g \in Handlers, handler'[g].pc = "commit", handler'[g].req.key # Blank
               PROVE  /\ Stored(handler[g].req)' = {}
                      /\ \A f \in Handlers :
                            /\ handler'[f].pc = "commit"
                            /\ handler'[f].req.sender = handler'[g].req.sender
                            /\ handler'[f].req.key = handler'[g].req.key
                            => f = g
    BY DEF KeysHeld, At, Stored
  <2>1. g # h /\ handler'[g] = handler[g]
    BY <1>3
  <2>2. ~ (r.sender = handler[g].req.sender /\ r.key = handler[g].req.key)
    BY <1>1, <2>1 DEF StoreInv, KeysHeld, At, r
  <2>3. Stored(handler[g].req)' = {}
    BY <1>2, <2>1, <2>2 DEF StoreInv, KeysHeld, Stored, At
  <2>4. QED
    BY <1>3, <2>1, <2>3 DEF StoreInv, KeysHeld, At
<1>7. NotifyStored'
  <2> SUFFICES ASSUME NEW g \in Handlers, handler'[g].pc = "notify"
               PROVE  RowOf(g)' \in messages'
    BY DEF NotifyStored, At
  <2>1. CASE g = h
    BY <1>2, <1>3, <2>1 DEF RowOf, r
  <2>2. CASE g # h
    BY <1>2, <1>3, <2>2 DEF StoreInv, NotifyStored, RowOf, At
  <2>3. QED
    BY <2>1, <2>2
<1>8. Gapless'
  <2>1. ASSUME NEW d \in Convs
        PROVE  {m.seq : m \in {x \in messages' : x.conv = d}} = 1 .. (nextSeq'[d] - 1)
    <3>1. {m.seq : m \in {x \in messages : x.conv = d}} = 1 .. (nextSeq[d] - 1)
      BY DEF StoreInv, Gapless
    <3>2. CASE d = c
      <4>1. {m.seq : m \in {x \in messages' : x.conv = d}}
            = {m.seq : m \in {x \in messages : x.conv = d}} \cup {n}
        BY <1>2, <3>2
      <4>2. nextSeq'[d] = n + 1 /\ nextSeq[d] = n
        BY <1>1, <1>2, <3>2 DEF TypeInv, TypeOK, n
      <4>3. 1 .. (n + 1 - 1) = (1 .. (n - 1)) \cup {n}
        BY <1>1
      <4>4. QED
        BY <3>1, <4>1, <4>2, <4>3
    <3>3. CASE d # c
      <4>1. {x \in messages' : x.conv = d} = {x \in messages : x.conv = d}
        BY <1>2, <3>3
      <4>2. nextSeq'[d] = nextSeq[d]
        BY <1>1, <1>2, <3>3 DEF TypeInv, TypeOK
      <4>3. QED
        BY <3>1, <4>1, <4>2
    <3>4. QED
      BY <3>2, <3>3
  <2>2. ASSUME NEW m \in messages, m.conv = c
        PROVE  m.seq # n
    <3>1. m.seq \in 1 .. (n - 1)
      BY <1>1, <2>2 DEF StoreInv, Gapless, n
    <3>2. QED
      BY <1>1, <3>1
  <2>3. \A m, x \in messages' : m.conv = x.conv /\ m.seq = x.seq => m = x
    BY <1>2, <2>2 DEF StoreInv, Gapless
  <2>4. QED
    BY <2>1, <2>3 DEF Gapless
<1>9. OnePerKey'
  <2>1. ASSUME NEW m \in messages, m.sender = r.sender, m.key = r.key, r.key # Blank
        PROVE  FALSE
    BY <1>1, <2>1 DEF StoreInv, KeysHeld, Stored, At, r
  <2>2. QED
    BY <1>2, <2>1 DEF StoreInv, OnePerKey
<1>10. QED
  BY <1>5, <1>6, <1>7, <1>8, <1>9 DEF StoreInv

LEMMA NextStore == TypeInv /\ StoreInv /\ [Next]_vars => StoreInv'
BY QuietSteps, QuietStore, LockStore, InsertStore, CommitStore

LEMMA InitStore == Init => StoreInv
<1> SUFFICES ASSUME Init PROVE StoreInv
  OBVIOUS
<1>1. RowsHeld /\ KeysHeld /\ NotifyStored /\ OnePerKey
  BY DEF Init, RowsHeld, KeysHeld, NotifyStored, OnePerKey, Idle, Locking, At
<1>2. Gapless
  BY DEF Init, Gapless
<1>3. QED
  BY <1>1, <1>2 DEF StoreInv

-----------------------------------------------------------------------------
(***************************************************************************)
(* Replies and pushes.  Rows are never deleted, so what was true of a      *)
(* reply stays true; only three steps add to the two histories.            *)
(***************************************************************************)
LEMMA MessagesGrow == Next => messages \subseteq messages'
BY TablesUnchanged DEF TxCommit, CommitAckLost, Apply

LEMMA HistorySteps ==
    ASSUME Next
    PROVE  \/ UNCHANGED <<replies, pushes>>
           \/ \E h \in Handlers : Notify(h)
           \/ \E h \in Handlers : LookupHit(h) \/ ConflictHit(h)
BY DEF Next, Start, Advance, Acquire, Fail, LookupMiss, CheckReceiver, TxBegin,
    StaleSnapshot, TxCommit, TxLock, TxInsert, UniqueViolation, SerializationFailure,
    CommitAckLost, DatabaseError, RetryOrAbort, SetUserStatus, ServerCrash

LEMMA NextReply == TypeInv /\ StoreInv /\ ReplyInv /\ [Next]_vars => ReplyInv'
<1> SUFFICES ASSUME TypeInv, StoreInv, ReplyInv, Next PROVE ReplyInv'
  BY DEF vars, ReplyInv, RepliesSound, AlreadyExistsSound, PushAfterCommit
<1>1. messages \subseteq messages'
  BY MessagesGrow
<1>2. CASE UNCHANGED <<replies, pushes>>
  BY <1>1, <1>2 DEF ReplyInv, RepliesSound, AlreadyExistsSound, PushAfterCommit
<1>3. ASSUME NEW h \in Handlers, Notify(h) PROVE ReplyInv'
  <2> DEFINE r == handler[h].req
             a == [req |-> r, outcome |-> "Sent", msg |-> RowOf(h)]
  <2>1. /\ pushes' = pushes \cup {RowOf(h)} /\ replies' = replies \cup {a}
        /\ RowOf(h) \in messages
    BY <1>3 DEF Notify, Reply, StoreInv, NotifyStored
  <2>2. /\ a.msg = RowOf(h) /\ a.outcome = "Sent" /\ a.req = r
        /\ a.msg.conv = Conv(a.req) /\ a.msg.text = a.req.text
        /\ a.msg.sender = a.req.sender /\ a.msg.key = a.req.key
    BY DEF RowOf
  <2> HIDE DEF a
  <2>3. QED
    BY <1>1, <2>1, <2>2 DEF ReplyInv, RepliesSound, AlreadyExistsSound, PushAfterCommit
<1>4. ASSUME NEW h \in Handlers, LookupHit(h) \/ ConflictHit(h) PROVE ReplyInv'
  <2> DEFINE r == handler[h].req
  <2>1. PICK m \in Stored(r) : AnswerFrom(h, m)
    BY <1>4 DEF LookupHit, ConflictHit
  <2> DEFINE a == [req |-> r, msg |-> m, outcome |->
                    IF SameMessage(m, r) THEN "Deduplicated" ELSE "AlreadyExists"]
  <2>2. replies' = replies \cup {a} /\ pushes' = pushes
    BY <2>1 DEF AnswerFrom, Reply
  <2>3. /\ a.msg \in messages /\ a.msg.sender = a.req.sender /\ a.msg.key = a.req.key
        /\ a.outcome # "Sent"
        /\ a.outcome = "AlreadyExists"
            <=> a.msg.conv # Conv(a.req) \/ a.msg.text # a.req.text
    BY DEF Stored, SameMessage
  <2> HIDE DEF a
  <2>4. QED
    BY <1>1, <2>2, <2>3 DEF ReplyInv, RepliesSound, AlreadyExistsSound, PushAfterCommit
<1>5. QED
  BY <1>2, <1>3, <1>4, HistorySteps

LEMMA InitReply == Init => ReplyInv
BY DEF Init, ReplyInv, RepliesSound, AlreadyExistsSound, PushAfterCommit

-----------------------------------------------------------------------------
\* The inductive invariant, and the theorems that follow from it.
IndInv == TypeInv /\ StoreInv /\ ReplyInv

(***************************************************************************)
(* The inductive invariant holds in every reachable state of SendMessage's *)
(* handlers: what the store holds, what the locks guarantee of numbers and *)
(* keys not yet committed, and what senders and receivers were told.       *)
(***************************************************************************)
THEOREM Invariance == Spec => []IndInv
<1>1. Init => IndInv
  BY InitType, InitStore, InitReply DEF IndInv
<1>2. IndInv /\ [Next]_vars => IndInv'
  BY NextType, NextStore, NextReply DEF IndInv
<1>3. QED
  BY <1>1, <1>2, PTL DEF Spec

(***************************************************************************)
(* Whatever transactions were rolled back, retried or cut off by a crash,  *)
(* the messages of a conversation are numbered 1, 2, 3, ... (server_seq).  *)
(***************************************************************************)
THEOREM GaplessCorrect == Spec => []Gapless
<1>1. IndInv => Gapless
  BY DEF IndInv, StoreInv
<1>2. QED
  BY <1>1, Invariance, PTL

\* A sender's client_message_id names at most one stored message.
THEOREM OnePerKeyCorrect == Spec => []OnePerKey
<1>1. IndInv => OnePerKey
  BY DEF IndInv, StoreInv
<1>2. QED
  BY <1>1, Invariance, PTL

\* An OK reply of SendMessage speaks of a stored message with the content asked for.
THEOREM RepliesSoundCorrect == Spec => []RepliesSound
<1>1. IndInv => RepliesSound
  BY DEF IndInv, ReplyInv
<1>2. QED
  BY <1>1, Invariance, PTL

\* All OK replies of SendMessage to one sender and key quote one message.
THEOREM ReplayConsistentCorrect == Spec => []ReplayConsistent
<1>1. IndInv => ReplayConsistent
  BY DEF IndInv, StoreInv, ReplyInv, RepliesSound, OnePerKey, ReplayConsistent
<1>2. QED
  BY <1>1, Invariance, PTL

\* toSendMessageResp refuses a key only when it belongs to another message.
THEOREM AlreadyExistsSoundCorrect == Spec => []AlreadyExistsSound
<1>1. IndInv => AlreadyExistsSound
  BY DEF IndInv, ReplyInv
<1>2. QED
  BY <1>1, Invariance, PTL

\* Hub.Push is called after the commit and before the reply.
THEOREM PushAfterCommitCorrect == Spec => []PushAfterCommit
<1>1. IndInv => PushAfterCommit
  BY DEF IndInv, ReplyInv
<1>2. QED
  BY <1>1, Invariance, PTL

-----------------------------------------------------------------------------
(***************************************************************************)
(* Refinement.  A commit is the abstract Append of the handler's request,  *)
(* an OK reply an Ack, any other step changes nothing the log can see.     *)
(***************************************************************************)
Size == [c \in Convs |-> nextSeq[c] - 1]

LEMMA AckedGrows ==
    ASSUME NEW a, replies' = replies \cup {a}
    PROVE  /\ a.outcome # "AlreadyExists" => Acked' = Acked \cup {a.msg}
           /\ a.outcome = "AlreadyExists" => Acked' = Acked
BY DEF Acked

LEMMA CommitAppends ==
    ASSUME IndInv, NEW h \in Handlers, TxCommit(h) \/ CommitAckLost(h)
    PROVE  Log!Next
<1> DEFINE r == handler[h].req
           c == Conv(r)
<1>1. /\ handler[h].pc = "commit" /\ r \in Requests /\ c \in Convs
      /\ r.sender \in Users /\ r.receiver \in Users /\ r.text \in Texts
      /\ r.key \in Keys \cup {Blank} /\ Valid(r)
      /\ nextSeq \in [Convs -> Nat \ {0}] /\ handler[h].seq = nextSeq[c]
  BY BusyRequest
     DEF TxCommit, CommitAckLost, At, IndInv, TypeInv, TypeOK, StoreInv, RowsHeld, Locking
<1>2. /\ messages' = messages \cup {RowOf(h)}
      /\ nextSeq' = [nextSeq EXCEPT ![c] = nextSeq[c] + 1]
      /\ replies' = replies
  BY <1>1 DEF TxCommit, CommitAckLost, Apply, RowOf
<1>3. Size[c] + 1 = nextSeq[c]
  BY <1>1 DEF Size
<1>4. RowOf(h) = [conv |-> {r.sender, r.receiver}, sender |-> r.sender, text |-> r.text,
                  key |-> r.key, seq |-> Size[{r.sender, r.receiver}] + 1]
  BY <1>1, <1>3 DEF RowOf, Conv
<1>5. Size' = [Size EXCEPT ![c] = @ + 1]
  <2>1. ASSUME NEW d \in Convs
        PROVE  nextSeq'[d] - 1 = (IF d = c THEN Size[c] + 1 ELSE Size[d])
    BY <1>1, <1>2 DEF Size
  <2>2. QED
    BY <1>1, <2>1 DEF Size
<1>6. ~ Log!Carried(r.sender, r.key)
  BY <1>1 DEF IndInv, StoreInv, KeysHeld, Stored, At, Log!Carried
<1>7. Acked' = Acked
  BY <1>2 DEF Acked
<1>8. r.sender # r.receiver
  BY <1>1 DEF Valid
<1>9. Log!Append(r.sender, r.receiver, r.text, r.key)
  BY <1>2, <1>4, <1>5, <1>6, <1>7, <1>8 DEF Log!Append, Size, Conv
<1>10. r.sender \in Users /\ r.receiver \in Users /\ r.text \in Texts
       /\ r.key \in Keys \cup {Blank}
  BY <1>1
<1> HIDE DEF r, c
<1>11. QED
  BY <1>9, <1>10 DEF Log!Next, Log!Append

LEMMA NextRefines == IndInv /\ [Next]_vars => [Log!Next]_(Log!logVars)
<1> SUFFICES ASSUME IndInv, [Next]_vars PROVE Log!Next \/ UNCHANGED Log!logVars
  OBVIOUS
<1>1. CASE UNCHANGED vars
  BY <1>1 DEF vars, Log!logVars, Acked
<1>2. CASE Next /\ UNCHANGED <<messages, nextSeq>>
  <2>1. CASE UNCHANGED <<replies, pushes>>
    BY <1>2, <2>1 DEF Log!logVars, Acked
  <2>2. ASSUME NEW h \in Handlers, Notify(h) PROVE Log!Next
    <3> DEFINE a == [req |-> handler[h].req, outcome |-> "Sent", msg |-> RowOf(h)]
    <3>1. Acked' = Acked \cup {RowOf(h)}
      <4>1. replies' = replies \cup {a} /\ a.outcome = "Sent" /\ a.msg = RowOf(h)
        BY <2>2 DEF Notify, Reply
      <4> HIDE DEF a
      <4>2. QED
        BY <4>1, AckedGrows
    <3>2. RowOf(h) \in messages
      BY <2>2 DEF Notify, IndInv, StoreInv, NotifyStored
    <3>3. Log!Ack(RowOf(h))
      BY <1>2, <3>1 DEF Log!Ack
    <3>4. QED
      BY <3>2, <3>3 DEF Log!Next
  <2>3. ASSUME NEW h \in Handlers, LookupHit(h) \/ ConflictHit(h)
        PROVE  Log!Next \/ UNCHANGED Log!logVars
    <3> DEFINE r == handler[h].req
    <3>1. PICK m \in Stored(r) : AnswerFrom(h, m)
      BY <2>3 DEF LookupHit, ConflictHit
    <3>2. m \in messages
      BY DEF Stored
    <3> DEFINE a == [req |-> r, msg |-> m, outcome |->
                      IF SameMessage(m, r) THEN "Deduplicated" ELSE "AlreadyExists"]
    <3>2a. replies' = replies \cup {a} /\ a.msg = m
          /\ (a.outcome = "AlreadyExists" <=> ~ SameMessage(m, r))
      BY <3>1 DEF AnswerFrom, Reply
    <3> HIDE DEF a
    <3>3. CASE SameMessage(m, r)
      <4>1. Acked' = Acked \cup {m}
        BY <3>3, <3>2a, AckedGrows
      <4>2. Log!Ack(m)
        BY <1>2, <4>1 DEF Log!Ack
      <4>3. QED
        BY <3>2, <4>2 DEF Log!Next
    <3>4. CASE ~ SameMessage(m, r)
      <4>1. Acked' = Acked
        BY <3>4, <3>2a, AckedGrows
      <4>2. QED
        BY <1>2, <4>1 DEF Log!logVars
    <3>5. QED
      BY <3>3, <3>4
  <2>4. QED
    BY <1>2, <2>1, <2>2, <2>3, HistorySteps
<1>3. CASE \E h \in Handlers : TxCommit(h) \/ CommitAckLost(h)
  BY <1>3, CommitAppends
<1>4. QED
  BY <1>1, <1>2, <1>3, TablesUnchanged

(***************************************************************************)
(* SendMessage, as concurrent transactions that fail and are retried,      *)
(* implements the append-only log with idempotent appends.                 *)
(***************************************************************************)
THEOREM Refinement == Spec => LogSpec
<1>1. Init => Log!Init
  <2> SUFFICES ASSUME Init PROVE Log!Init
    OBVIOUS
  <2>1. Log!Convs = Convs
    BY DEF Log!Convs, Convs
  <2>2. [c \in Convs |-> nextSeq[c] - 1] = [c \in Convs |-> 0]
    BY DEF Init
  <2>3. messages = {} /\ Acked = {}
    BY DEF Init, Acked
  <2>4. QED
    BY <2>1, <2>2, <2>3 DEF Log!Init
<1>2. QED
  BY <1>1, NextRefines, Invariance, PTL DEF Spec, LogSpec, Log!Spec

-----------------------------------------------------------------------------
(***************************************************************************)
(* Locks.  The order in which a transaction takes them, the row and then   *)
(* the key, keeps handlers from waiting for each other, provided that the  *)
(* lookup after a refused INSERT finds the row.                            *)
(***************************************************************************)
ConflictFound == \A h \in Handlers : At(h, "conflict") => Stored(handler[h].req) # {}

\* Only a refused INSERT leads there.
LEMMA ConflictSteps ==
    ASSUME TypeInv, [Next]_vars, NEW h \in Handlers, handler'[h].pc = "conflict"
    PROVE  handler'[h] = handler[h] \/ UniqueViolation(h)
<1>1. ASSUME NEW g \in Handlers, Return(g) PROVE handler'[h] = handler[h]
  BY <1>1 DEF Return, Idle, TypeInv, TypeOK
<1>2. ASSUME NEW g \in Handlers, NEW pc \in {"receiver", "begin", "commit", "notify"}, Goto(g, pc)
      PROVE  handler'[h] = handler[h]
  BY <1>2 DEF Goto, TypeInv, TypeOK, HandlerState
<1>3. ASSUME NEW g \in Handlers, RetryOrAbort(g) PROVE handler'[h] = handler[h]
  BY <1>1, <1>3 DEF RetryOrAbort, Enter, TypeInv, TypeOK
<1>4. ASSUME NEW g \in Handlers, TxBegin(g) \/ TxLock(g) PROVE handler'[h] = handler[h]
  BY <1>4 DEF TxBegin, TxLock, TypeInv, TypeOK, HandlerState
<1>5. ASSUME NEW g \in Handlers, NEW r \in Requests, Start(g, r) PROVE handler'[h] = handler[h]
  BY <1>5 DEF Start, Enter, TypeInv, TypeOK
<1>6. CASE ServerCrash
  BY <1>6 DEF ServerCrash, Idle
<1>7. CASE UNCHANGED vars \/ \E u \in Bannable : SetUserStatus(u)
  BY <1>7 DEF vars, SetUserStatus
<1>8. ASSUME NEW g \in Handlers, UniqueViolation(g), g # h PROVE handler'[h] = handler[h]
  BY <1>8 DEF UniqueViolation, Goto, TypeInv, TypeOK
<1>9. ASSUME NEW g \in Handlers, Advance(g) PROVE handler'[h] = handler[h]
  BY <1>1, <1>2, <1>4, <1>9
     DEF Advance, LookupHit, LookupMiss, CheckReceiver, ConflictHit, AnswerFrom, TxCommit, Notify
<1>10. ASSUME NEW g \in Handlers, Fail(g) PROVE handler'[h] = handler[h]
  BY <1>1, <1>3, <1>10 DEF Fail, SerializationFailure, CommitAckLost, DatabaseError
<1>11. ASSUME NEW g \in Handlers, StaleSnapshot(g) \/ TxInsert(g) PROVE handler'[h] = handler[h]
  BY <1>2, <1>3, <1>11 DEF StaleSnapshot, TxInsert
<1>12. QED
  BY <1>4, <1>5, <1>6, <1>7, <1>8, <1>9, <1>10, <1>11 DEF Next, Acquire

LEMMA NextConflict == TypeInv /\ ConflictFound /\ [Next]_vars => ConflictFound'
<1> SUFFICES ASSUME TypeInv, ConflictFound, [Next]_vars, NEW h \in Handlers,
                    handler'[h].pc = "conflict"
             PROVE  Stored(handler[h].req)' # {}
  BY DEF ConflictFound, At, Stored
<1>1. messages \subseteq messages'
  BY MessagesGrow DEF vars
<1>2. Stored(handler[h].req) # {} /\ handler'[h].req = handler[h].req
  <2>1. CASE handler'[h] = handler[h]
    BY <2>1 DEF ConflictFound, At
  <2>2. CASE UniqueViolation(h)
    BY <2>2 DEF UniqueViolation, KeyTaken, Goto, TypeInv, TypeOK, HandlerState
  <2>3. QED
    BY <2>1, <2>2, ConflictSteps
<1>3. QED
  BY <1>1, <1>2 DEF Stored

(***************************************************************************)
(* The transactions of SendMessage take the row of their conversation and  *)
(* then the entry of their key, and so never deadlock; every busy handler  *)
(* can go on, or waits for one that can, over at most two locks.           *)
(***************************************************************************)
THEOREM NeverStuckCorrect == Spec => []NeverStuck
<1>1. Init => ConflictFound
  BY DEF Init, ConflictFound, At, Idle
<1>2. TypeInv /\ ConflictFound => NeverStuck
  <2> SUFFICES ASSUME TypeInv, ConflictFound, NEW h \in Handlers, ~ At(h, "idle")
               PROVE  \/ Runs(h)
                      \/ \E g \in Handlers : WaitsFor(h, g) /\ Runs(g)
                      \/ \E g, f \in Handlers : WaitsFor(h, g) /\ WaitsFor(g, f) /\ Runs(f)
    BY DEF NeverStuck
  <2>1. \A g \in Handlers : At(g, "commit") => Runs(g)
    BY DEF Runs, At
  <2>2. \A g \in Handlers : At(g, "insert") => Runs(g) \/ \E f \in Handlers : WaitsFor(g, f) /\ Runs(f)
    BY <2>1 DEF Runs, KeyInFlight, WaitsFor
  <2>3. CASE At(h, "ensure") /\ RowLocked(h)
    <3>1. PICK g \in Handlers : /\ handler[g].pc \in Locking
                                /\ Conv(handler[g].req) = Conv(handler[h].req)
      BY <2>3 DEF RowLocked
    <3>2. WaitsFor(h, g)
      BY <2>3, <3>1 DEF WaitsFor
    <3>3. QED
      BY <2>1, <2>2, <3>1, <3>2 DEF Locking, At
  <2>4. CASE ~ (At(h, "ensure") /\ RowLocked(h)) /\ ~ At(h, "insert")
    <3>1. handler[h] \in HandlerState
      BY DEF TypeInv, TypeOK
    <3>2. QED
      BY <2>4, <3>1 DEF Runs, At, HandlerState, ConflictFound
  <2>5. QED
    BY <2>2, <2>3, <2>4
<1>3. QED
  BY <1>1, <1>2, InitType, NextType, NextConflict, PTL DEF Spec

-----------------------------------------------------------------------------
(***************************************************************************)
(* Attempts.  StepsLeft falls with every step of a handler.                *)
(***************************************************************************)
LEMMA StepsLeftValue ==
    ASSUME NEW k \in HandlerState
    PROVE  /\ k.pc = "idle" => StepsLeft(k) = 0
           /\ k.pc # "idle" => StepsLeft(k) = 8 * (MaxAttempts - 1 - k.attempt) + Distance[k.pc]
           /\ k.pc # "idle" => Distance[k.pc] \in 1 .. 7 /\ StepsLeft(k) \in Nat \ {0}
           /\ k.attempt \in 0 .. MaxAttempts - 1
<1>1. k.attempt \in 0 .. MaxAttempts - 1 /\ MaxAttempts \in Nat
  BY AttemptsAssumption DEF HandlerState
<1>2. k.pc # "idle" => Distance[k.pc] \in 1 .. 7
  BY DEF HandlerState, Distance
<1>3. QED
  BY <1>1, <1>2 DEF StepsLeft

Less(k, new) == StepsLeft(new) \in 0 .. StepsLeft(k) - 1

LEMMA ReturnLess ==
    ASSUME NEW k \in HandlerState, k.pc # "idle" PROVE Less(k, Idle)
<1>1. StepsLeft(Idle) = 0 /\ StepsLeft(k) \in Nat \ {0}
  BY StepsLeftValue DEF Idle, StepsLeft
<1>2. QED
  BY <1>1 DEF Less

LEMMA NearerLess ==
    ASSUME NEW k \in HandlerState, NEW new \in HandlerState, k.pc # "idle", new.pc # "idle",
           new.attempt = k.attempt, Distance[new.pc] < Distance[k.pc]
    PROVE  Less(k, new)
<1>1. /\ StepsLeft(k) = 8 * (MaxAttempts - 1 - k.attempt) + Distance[k.pc]
      /\ StepsLeft(new) = 8 * (MaxAttempts - 1 - k.attempt) + Distance[new.pc]
      /\ Distance[k.pc] \in 1 .. 7 /\ Distance[new.pc] \in 1 .. 7
      /\ StepsLeft(new) \in Nat /\ k.attempt \in 0 .. MaxAttempts - 1 /\ MaxAttempts \in Nat
  BY StepsLeftValue, AttemptsAssumption
<1>2. QED
  BY <1>1 DEF Less

LEMMA RetryLess ==
    ASSUME NEW k \in HandlerState, k.pc # "idle", k.attempt + 1 < MaxAttempts, NEW r \in Requests
    PROVE  Less(k, Enter(r, k.attempt + 1))
<1> DEFINE new == Enter(r, k.attempt + 1)
<1>1. k.attempt + 1 \in 0 .. MaxAttempts - 1
  BY StepsLeftValue, AttemptsAssumption
<1>2. new \in HandlerState /\ new.pc # "idle" /\ new.attempt = k.attempt + 1
  BY <1>1, EnterType DEF Enter
<1> SUFFICES Less(k, new)
  OBVIOUS
<1> HIDE DEF new
<1>3. /\ StepsLeft(k) = 8 * (MaxAttempts - 1 - k.attempt) + Distance[k.pc]
      /\ StepsLeft(new) = 8 * (MaxAttempts - 1 - new.attempt) + Distance[new.pc]
      /\ Distance[k.pc] \in 1 .. 7 /\ Distance[new.pc] \in 1 .. 7
      /\ StepsLeft(new) \in Nat /\ k.attempt \in 0 .. MaxAttempts - 1 /\ MaxAttempts \in Nat
  BY <1>2, StepsLeftValue, AttemptsAssumption
<1>4. QED
  BY <1>2, <1>3 DEF Less

LEMMA StepLess ==
    ASSUME TypeInv, NEW h \in Handlers, ~ At(h, "idle"), Advance(h) \/ Acquire(h) \/ Fail(h)
    PROVE  Less(handler[h], handler'[h])
<1> DEFINE k == handler[h]
<1>1. k \in HandlerState /\ k.pc # "idle" /\ k.req \in Requests
  BY BusyRequest DEF TypeInv, At
<1>2. CASE Return(h)
  BY <1>1, <1>2, ReturnLess DEF Return, TypeInv, TypeOK
<1>3. CASE RetryOrAbort(h)
  <2>1. CASE k.attempt + 1 < MaxAttempts
    BY <1>1, <1>3, <2>1, RetryLess DEF RetryOrAbort, TypeInv, TypeOK
  <2>2. CASE ~ (k.attempt + 1 < MaxAttempts)
    BY <1>2, <1>3, <2>2 DEF RetryOrAbort
  <2>3. QED
    BY <2>1, <2>2
<1>4. CASE \/ At(h, "lookup") /\ Goto(h, "receiver")
           \/ At(h, "receiver") /\ Goto(h, "begin")
           \/ At(h, "insert") /\ (Goto(h, "commit") \/ Goto(h, "conflict"))
           \/ At(h, "commit") /\ Goto(h, "notify")
  <2>1. /\ handler'[h].pc # "idle" /\ handler'[h].attempt = k.attempt
        /\ handler'[h] \in HandlerState
        /\ Distance[handler'[h].pc] < Distance[k.pc]
    BY <1>1, <1>4 DEF Goto, At, TypeInv, TypeOK, HandlerState, Distance
  <2>2. QED
    BY <1>1, <2>1, NearerLess
<1>5. CASE TxBegin(h) \/ TxLock(h)
  <2>1. /\ handler'[h].attempt = k.attempt
        /\ \/ k.pc = "begin" /\ handler'[h].pc = "ensure"
           \/ k.pc = "ensure" /\ handler'[h].pc = "insert"
    BY <1>1, <1>5 DEF TxBegin, TxLock, At, TypeInv, TypeOK, HandlerState
  <2>2. handler'[h] \in HandlerState
    BY <1>5, NextType DEF Next, Advance, Acquire, TypeInv, TypeOK
  <2>3. Distance[handler'[h].pc] < Distance[k.pc]
    BY <2>1 DEF Distance
  <2>4. QED
    BY <1>1, <2>1, <2>2, <2>3, NearerLess
<1>6. QED
  BY <1>2, <1>3, <1>4, <1>5
     DEF Advance, Acquire, Fail, LookupHit, LookupMiss, CheckReceiver, ConflictHit, AnswerFrom,
         TxCommit, Notify, StaleSnapshot, TxInsert, UniqueViolation, SerializationFailure,
         CommitAckLost, DatabaseError

\* Of the other handlers nothing changes, and admins change none.
LEMMA OthersStay ==
    ASSUME TypeInv, NEW h \in Handlers, NEW g \in Handlers \ {h},
           Advance(g) \/ Acquire(g) \/ Fail(g) \/ \E r \in Requests : Start(g, r)
    PROVE  handler'[h] = handler[h]
BY DEF Start, Advance, Acquire, Fail, LookupHit, LookupMiss, CheckReceiver, TxBegin,
    ConflictHit, AnswerFrom, TxCommit, Notify, TxLock, StaleSnapshot, TxInsert, UniqueViolation,
    SerializationFailure, CommitAckLost, DatabaseError, RetryOrAbort, Return, Goto, TypeInv, TypeOK

(***************************************************************************)
(* SendMessage takes a bounded number of steps, MaxAttempts attempts at    *)
(* most, whatever serialization failures it meets.                         *)
(***************************************************************************)
THEOREM AttemptsEndCorrect == Spec => AttemptsEnd
<1> DEFINE Fine(h) == ~ At(h, "idle") =>
                        handler'[h] = handler[h] \/ Less(handler[h], handler'[h])
<1>1. ASSUME TypeInv, [Next]_vars, NEW h \in Handlers PROVE Fine(h)
  <2>1. CASE Advance(h) \/ Acquire(h) \/ Fail(h)
    BY <1>1, <2>1, StepLess
  <2>2. ASSUME NEW g \in Handlers \ {h},
               Advance(g) \/ Acquire(g) \/ Fail(g) \/ \E r \in Requests : Start(g, r)
        PROVE  Fine(h)
    BY <1>1, <2>2, OthersStay
  <2>3. CASE \E r \in Requests : Start(h, r)
    BY <2>3 DEF Start
  <2>4. CASE ServerCrash
    BY <1>1, <2>4, ReturnLess DEF ServerCrash, TypeInv, TypeOK, At
  <2>5. CASE UNCHANGED vars \/ \E u \in Bannable : SetUserStatus(u)
    BY <2>5 DEF vars, SetUserStatus
  <2> HIDE DEF Fine
  <2>6. QED
    BY <1>1, <2>1, <2>2, <2>3, <2>4, <2>5 DEF Next
<1>2. TypeInv /\ [Next]_vars =>
        [\A h \in Handlers : ~ At(h, "idle") =>
            \/ handler'[h] = handler[h]
            \/ StepsLeft(handler'[h]) \in 0 .. StepsLeft(handler[h]) - 1]_vars
  BY <1>1 DEF Less
<1>3. QED
  BY <1>2, InitType, NextType, PTL DEF Spec, AttemptsEnd

-----------------------------------------------------------------------------
(***************************************************************************)
(* What the clients' caches build on, in HistorySync and Conversation: a   *)
(* conversation has the messages 1 .. top, one is added at a time, and     *)
(* none ever changes.                                                      *)
(***************************************************************************)
THEOREM Feed ==
    ASSUME NEW c \in Convs
    PROVE  Spec => /\ nextSeq[c] = 1
                   /\ [][nextSeq'[c] = nextSeq[c] + 1 /\ messages \subseteq messages']_(nextSeq[c])
<1>1. Init => nextSeq[c] = 1
  BY DEF Init
<1>2. IndInv /\ [Next]_vars =>
        [nextSeq'[c] = nextSeq[c] + 1 /\ messages \subseteq messages']_(nextSeq[c])
  <2> SUFFICES ASSUME IndInv, [Next]_vars, nextSeq'[c] # nextSeq[c]
               PROVE  nextSeq'[c] = nextSeq[c] + 1 /\ messages \subseteq messages'
    OBVIOUS
  <2>1. PICK h \in Handlers : TxCommit(h) \/ CommitAckLost(h)
    BY TablesUnchanged DEF vars
  <2>2. handler[h].seq = nextSeq[Conv(handler[h].req)] /\ Apply(h)
    BY <2>1 DEF TxCommit, CommitAckLost, At, IndInv, StoreInv, RowsHeld, Locking
  <2>3. nextSeq' = [nextSeq EXCEPT ![Conv(handler[h].req)] = handler[h].seq + 1]
    BY <2>2 DEF Apply, RowOf
  <2>4. QED
    BY <2>2, <2>3 DEF Apply, IndInv, TypeInv, TypeOK
<1>3. QED
  BY <1>1, <1>2, Invariance, PTL DEF Spec
=============================================================================
