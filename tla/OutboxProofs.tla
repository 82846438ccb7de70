---------------------------- MODULE OutboxProofs ----------------------------
(***************************************************************************)
(* Proofs about Outbox, for any number of messages, workers and attempts.  *)
(***************************************************************************)
EXTENDS Outbox, TLAPS

-----------------------------------------------------------------------------
(***************************************************************************)
(* The inductive invariant.  A goroutine in sendOutboxItem has a message,  *)
(* and one that was told OK has one that the server stored.  A row with    *)
(* the server's id is there, or the client's row was renamed to it, only   *)
(* if the server stored the message.                                       *)
(***************************************************************************)
InSend == {"mark", "call", "wait", "ok", "error"}

ItemInv ==
    /\ \A t \in Threads : thread[t].pc \in InSend => thread[t].item \in Items
    /\ \A i \in Items : thread[i].item = i

Shown(r) == r.delivery # "none" \/ r.linked

SentInv ==
    /\ \A t \in Threads : thread[t].pc = "ok" => thread[t].item \in stored
    /\ \A i \in Items : Shown(remote[i]) => i \in stored

IndInv == TypeOK /\ ItemInv /\ SentInv /\ NoSilentLoss

-----------------------------------------------------------------------------
(***************************************************************************)
(* The statements of the store.  None but MarkOutboxSent removes a row, or *)
(* brings in the one with the server's id.                                 *)
(***************************************************************************)
StoreTyped ==
    /\ row \in [Items -> RowState] /\ local \in [Items -> LocalState]
    /\ remote \in [Items -> RemoteState]
    /\ owner \in {Me, NoOwner}
    /\ accepted \subseteq Items /\ cleared \subseteq Items

\* A step that keeps the rows of the outbox, and shows nothing more as sent.
Keeps ==
    /\ \A i \in Items : row[i].status # "none" => row'[i].status # "none"
    /\ \A i \in Items : Shown(remote'[i]) => Shown(remote[i])
    /\ UNCHANGED <<accepted, cleared>>

LEMMA NoRows == NoRow \in RowState /\ NoLocal \in LocalState /\ NoRemote \in RemoteState
BY MaxAttemptsAssumption DEF NoRow, NoLocal, NoRemote, RowState, LocalState, RemoteState

LEMMA DeliveryStep ==
    ASSUME StoreTyped, NEW i \in Items, NEW d \in {"pending", "failed"}, SetDelivery(i, d)
    PROVE  /\ local' \in [Items -> LocalState] /\ remote' \in [Items -> RemoteState]
           /\ \A j \in Items : Shown(remote'[j]) => Shown(remote[j])
<1>1. local' \in [Items -> LocalState]
  BY DEF SetDelivery, StoreTyped, LocalState
<1>2. remote' \in [Items -> RemoteState]
  BY DEF SetDelivery, StoreTyped, RemoteState
<1>3. \A j \in Items : Shown(remote'[j]) => Shown(remote[j])
  BY DEF SetDelivery, StoreTyped, RemoteState, Shown
<1>4. QED
  BY <1>1, <1>2, <1>3

LEMMA SendingStep ==
    ASSUME StoreTyped, NEW i \in Items, MarkOutboxSending(i), owner' = owner
    PROVE  StoreTyped' /\ Keeps
<1>1. row' \in [Items -> RowState]
  BY DEF MarkOutboxSending, StoreTyped, RowState
<1>2. \A j \in Items : row[j].status # "none" => row'[j].status # "none"
  BY DEF MarkOutboxSending, StoreTyped, RowState
<1>3. QED
  BY <1>1, <1>2 DEF MarkOutboxSending, StoreTyped, Keeps

LEMMA RetryStep ==
    ASSUME StoreTyped, NEW i \in Items, NEW n \in 0 .. MaxAttempts, owner' = owner,
           MarkOutboxRetry(i, n) \/ MarkOutboxFailed(i, n)
    PROVE  StoreTyped' /\ Keeps
<1>1. row' \in [Items -> RowState]
  <2> DEFINE queued == [status |-> "queued", owner |-> owner, attempts |-> n, due |-> FALSE]
             failed == [row[i] EXCEPT !.status = "failed", !.attempts = n, !.due = TRUE]
  <2>1. queued \in RowState /\ failed \in RowState
    BY DEF StoreTyped, RowState
  <2>2. row' = row \/ row' = [row EXCEPT ![i] = queued] \/ row' = [row EXCEPT ![i] = failed]
    BY DEF MarkOutboxRetry, MarkOutboxFailed, StoreTyped
  <2> HIDE DEF queued, failed
  <2>3. QED
    BY <2>1, <2>2 DEF StoreTyped
<1>2. \A j \in Items : row[j].status # "none" => row'[j].status # "none"
  BY DEF MarkOutboxRetry, MarkOutboxFailed, StoreTyped, RowState
<1>3. /\ local' \in [Items -> LocalState] /\ remote' \in [Items -> RemoteState]
      /\ \A j \in Items : Shown(remote'[j]) => Shown(remote[j])
  BY DeliveryStep DEF MarkOutboxRetry, MarkOutboxFailed
<1>4. UNCHANGED <<accepted, cleared>>
  BY DEF MarkOutboxRetry, MarkOutboxFailed
<1>5. QED
  BY <1>1, <1>2, <1>3, <1>4 DEF StoreTyped, Keeps

LEMMA RequeueStep ==
    ASSUME StoreTyped, NEW from, Requeue(from), owner' \in {Me, NoOwner},
           UNCHANGED <<local, remote, accepted, cleared>>
    PROVE  StoreTyped' /\ Keeps
<1>1. row' \in [Items -> RowState]
  BY DEF Requeue, StoreTyped, RowState
<1>2. \A j \in Items : row[j].status # "none" => row'[j].status # "none"
  BY DEF Requeue, StoreTyped, RowState
<1>3. QED
  BY <1>1, <1>2 DEF StoreTyped, Keeps

\* The server has the message whose row goes.
LEMMA SentStep ==
    ASSUME StoreTyped, NEW i \in Items, MarkOutboxSent(i), owner' = owner
    PROVE  /\ StoreTyped'
           /\ \A j \in Items \ {i} : row'[j] = row[j]
           /\ \A j \in Items \ {i} : Shown(remote'[j]) => Shown(remote[j])
           /\ UNCHANGED <<accepted, cleared>>
<1>1. CASE ~ Mine(i)
  BY <1>1 DEF MarkOutboxSent, storeVars, StoreTyped
<1>2. CASE Mine(i)
  <2>1. /\ row' = [row EXCEPT ![i] = NoRow]
        /\ local' = IF local[i].owner = owner THEN [local EXCEPT ![i] = NoLocal] ELSE local
        /\ UNCHANGED <<accepted, cleared>>
    BY <1>2 DEF MarkOutboxSent
  <2>2. row' \in [Items -> RowState] /\ local' \in [Items -> LocalState]
    BY <2>1, NoRows DEF StoreTyped
  <2> DEFINE r == [delivery |-> "sent",
                   linked |-> IF remote[i].delivery = "none" THEN TRUE ELSE remote[i].linked]
  <2>3. remote' = IF owner # Me THEN remote ELSE [remote EXCEPT ![i] = r]
    BY <1>2 DEF MarkOutboxSent
  <2>4. r \in RemoteState
    BY DEF StoreTyped, RemoteState
  <2> HIDE DEF r
  <2>5. remote' \in [Items -> RemoteState] /\ \A j \in Items \ {i} : remote'[j] = remote[j]
    BY <2>3, <2>4 DEF StoreTyped
  <2>6. QED
    BY <2>1, <2>2, <2>5 DEF StoreTyped
<1>3. QED
  BY <1>1, <1>2

-----------------------------------------------------------------------------
(***************************************************************************)
(* The goroutines.  Goto changes the program counter of one.               *)
(***************************************************************************)
ThreadTyped == thread \in [Threads -> ThreadState] /\ ItemInv

LEMMA GotoStep ==
    ASSUME ThreadTyped, NEW t \in Threads, NEW pc, Goto(t, pc),
           pc \in {"queued", "call", "wait", "ok", "error", "done", "next", "mark"},
           pc \in InSend => thread[t].item \in Items
    PROVE  /\ ThreadTyped'
           /\ \A u \in Threads \ {t} : thread'[u] = thread[u]
           /\ thread'[t].pc = pc /\ thread'[t].item = thread[t].item
<1> DEFINE new == [thread[t] EXCEPT !.pc = pc]
<1>1. new \in ThreadState /\ new.pc = pc /\ new.item = thread[t].item
  BY DEF ThreadTyped, ThreadState
<1>2. thread' = [thread EXCEPT ![t] = new]
  BY DEF Goto, ThreadTyped
<1> HIDE DEF new
<1>3. /\ thread' \in [Threads -> ThreadState] /\ thread'[t] = new
      /\ \A u \in Threads \ {t} : thread'[u] = thread[u]
  BY <1>1, <1>2 DEF ThreadTyped
<1>4. ItemInv'
  BY <1>1, <1>3 DEF ThreadTyped, ItemInv, Threads
<1>5. QED
  BY <1>1, <1>3, <1>4 DEF ThreadTyped

LEMMA FinishStep ==
    ASSUME ThreadTyped, sending \in BOOLEAN, NEW t \in Threads, Finish(t)
    PROVE  /\ ThreadTyped' /\ sending' \in BOOLEAN
           /\ \A u \in Threads : thread'[u].pc = "ok" => thread[u].pc = "ok"
           /\ \A u \in Threads : thread'[u].item = thread[u].item
<1>1. sending' \in BOOLEAN
  BY DEF Finish
<1>2. Goto(t, "done") \/ Goto(t, "next")
  BY DEF Finish
<1>3. QED
  BY <1>1, <1>2, GotoStep DEF InSend

\* Every context is cancelled.
LEMMA CancelStep ==
    ASSUME ThreadTyped
    PROVE  /\ Cancelled \in [Threads -> ThreadState]
           /\ \A t \in Threads : Cancelled[t].pc = thread[t].pc /\ Cancelled[t].item = thread[t].item
<1>1. ASSUME NEW t \in Threads
      PROVE  /\ Cancelled[t] \in ThreadState
             /\ Cancelled[t].pc = thread[t].pc /\ Cancelled[t].item = thread[t].item
  BY DEF Cancelled, ThreadTyped, ThreadState
<1>2. Cancelled = [t \in Threads |-> Cancelled[t]]
  BY DEF Cancelled
<1>3. QED
  BY <1>1, <1>2

LEMMA NewThreads ==
    /\ Asleep \in ThreadState /\ Asleep.pc = "off"
    /\ \A i \in Items : Idle(i) \in ThreadState /\ Idle(i).pc = "new" /\ Idle(i).item = i
BY MaxAttemptsAssumption DEF Asleep, Idle, ThreadState

-----------------------------------------------------------------------------
(***************************************************************************)
(* What the steps have in common: the rest of the state is typed, and the  *)
(* store and the goroutines are as the lemmas above say.                   *)
(***************************************************************************)
RestTyped ==
    /\ ui \in {"auth", "shell"} /\ login \in {"none", "online", "offline"}
    /\ sending \in BOOLEAN /\ token \in BOOLEAN /\ offline \in BOOLEAN
    /\ batch \in [Workers -> SUBSET [item : Items, tries : 0 .. MaxAttempts]]
    /\ wire \subseteq Items /\ stored \subseteq Items

LEMMA Parts == IndInv <=> StoreTyped /\ ThreadTyped /\ RestTyped /\ SentInv /\ NoSilentLoss
BY DEF IndInv, TypeOK, StoreTyped, ThreadTyped, RestTyped

\* A step that stores nothing and is told nothing.
LEMMA QuietStep ==
    ASSUME IndInv, StoreTyped', ThreadTyped', RestTyped', stored \subseteq stored',
           Keeps \/ UNCHANGED storeVars,
           \A t \in Threads : thread'[t].pc = "ok" =>
                /\ thread[t].pc = "ok" \/ thread'[t].item \in stored
                /\ thread'[t].item = thread[t].item
    PROVE  IndInv'
<1>1. Keeps
  BY DEF Keeps, storeVars
<1>2. NoSilentLoss'
  BY <1>1 DEF IndInv, NoSilentLoss, Keeps, StoreTyped
<1>3. SentInv'
  BY <1>1 DEF IndInv, SentInv, Keeps
<1>4. QED
  BY <1>2, <1>3 DEF IndInv, TypeOK, StoreTyped, ThreadTyped, RestTyped

-----------------------------------------------------------------------------
(***************************************************************************)
(* The Send button.                                                        *)
(***************************************************************************)
LEMMA SendInv == ASSUME IndInv, NEW i \in Items, Send(i) PROVE IndInv'
<1> DEFINE new == [thread[i] EXCEPT !.pc = "enqueue", !.live = TRUE]
<1>1. StoreTyped /\ ThreadTyped /\ RestTyped /\ i \in Threads
  BY Parts DEF Threads
<1>2. new \in ThreadState /\ new.pc = "enqueue" /\ new.item = thread[i].item
  BY <1>1 DEF ThreadTyped, ThreadState
<1>3. thread' = [thread EXCEPT ![i] = new]
  BY <1>1 DEF Send, ThreadTyped
<1> HIDE DEF new
<1>4. /\ thread' \in [Threads -> ThreadState] /\ thread'[i] = new
      /\ \A t \in Threads \ {i} : thread'[t] = thread[t]
  BY <1>1, <1>2, <1>3 DEF ThreadTyped
<1>5. ThreadTyped'
  BY <1>1, <1>2, <1>4 DEF ThreadTyped, ItemInv, InSend, Threads
<1>6. StoreTyped' /\ RestTyped' /\ UNCHANGED <<storeVars, stored>>
  BY <1>1 DEF Send, StoreTyped, RestTyped, storeVars, serverVars
<1>7. QED
  BY <1>2, <1>4, <1>5, <1>6, QuietStep

LEMMA EnqueueInv == ASSUME IndInv, NEW i \in Items, Enqueue(i) PROVE IndInv'
<1>1. StoreTyped /\ ThreadTyped /\ RestTyped /\ SentInv /\ NoSilentLoss /\ i \in Threads
  BY Parts DEF Threads
<1>2. /\ EnqueueOutbox(i) /\ Goto(i, "queued")
      /\ UNCHANGED <<owner, ui, login, sending, token, offline, wire, stored, batch>>
  BY DEF Enqueue, sessionVars, serverVars
<1>3. /\ ThreadTyped' /\ thread'[i].pc = "queued"
      /\ \A u \in Threads \ {i} : thread'[u] = thread[u]
  BY <1>1, <1>2, GotoStep DEF InSend
<1> DEFINE r == [status |-> "queued", owner |-> owner, attempts |-> 0, due |-> TRUE]
           l == [delivery |-> "pending", owner |-> owner]
<1>4. r \in RowState /\ r.status = "queued" /\ l \in LocalState
  BY <1>1, MaxAttemptsAssumption DEF StoreTyped, RowState, LocalState
<1>5. /\ row' = [row EXCEPT ![i] = r] /\ local' = [local EXCEPT ![i] = l]
      /\ accepted' = accepted \cup {i} /\ UNCHANGED <<remote, cleared>>
  BY <1>2 DEF EnqueueOutbox
<1> HIDE DEF r, l
<1>6. StoreTyped'
  BY <1>1, <1>2, <1>4, <1>5 DEF StoreTyped
<1>7. NoSilentLoss'
  BY <1>1, <1>2, <1>4, <1>5 DEF NoSilentLoss, StoreTyped
<1>8. SentInv'
  BY <1>1, <1>2, <1>3, <1>5 DEF SentInv
<1>9. RestTyped'
  BY <1>1, <1>2 DEF RestTyped
<1>10. IndInv' <=> (StoreTyped /\ ThreadTyped /\ RestTyped /\ SentInv /\ NoSilentLoss)'
  BY DEF IndInv, TypeOK, StoreTyped, ThreadTyped, RestTyped
<1>11. QED
  BY <1>3, <1>6, <1>7, <1>8, <1>9, <1>10

\* The goroutine ends, or goes on with the offline check.
LEMMA ButtonInv ==
    ASSUME IndInv, NEW i \in Items, EnqueueFails(i) \/ AfterEnqueue(i)
    PROVE  IndInv'
<1>1. StoreTyped /\ ThreadTyped /\ RestTyped /\ i \in Threads
  BY Parts DEF Threads
<1>2. /\ Finish(i) \/ (Goto(i, "mark") /\ UNCHANGED sending)
      /\ UNCHANGED <<ui, login, owner, token, offline, storeVars, serverVars, batch>>
  BY DEF EnqueueFails, AfterEnqueue
<1>3. thread[i].item \in Items
  BY <1>1 DEF ThreadTyped, ItemInv
<1>4. /\ ThreadTyped' /\ sending' \in BOOLEAN
      /\ \A u \in Threads : thread'[u].pc = "ok" =>
            thread[u].pc = "ok" /\ thread'[u].item = thread[u].item
  <2>1. CASE Finish(i)
    BY <1>1, <2>1, FinishStep DEF RestTyped
  <2>2. CASE Goto(i, "mark") /\ UNCHANGED sending
    BY <1>1, <1>3, <2>2, GotoStep DEF RestTyped
  <2>3. QED
    BY <1>2, <2>1, <2>2
<1>5. StoreTyped' /\ RestTyped'
  BY <1>1, <1>2, <1>4 DEF StoreTyped, RestTyped, storeVars, serverVars
<1>6. QED
  BY <1>2, <1>4, <1>5, QuietStep DEF serverVars

-----------------------------------------------------------------------------
(***************************************************************************)
(* sendOutboxItem.                                                         *)
(***************************************************************************)
LEMMA MarkInv == ASSUME IndInv, NEW t \in Threads, Mark(t) \/ MarkFails(t) PROVE IndInv'
<1>1. StoreTyped /\ ThreadTyped /\ RestTyped
  BY Parts
<1>2. /\ thread[t].pc = "mark" /\ Goto(t, "call")
      /\ MarkOutboxSending(thread[t].item) \/ UNCHANGED storeVars
      /\ UNCHANGED <<owner, ui, login, sending, token, offline, wire, stored, batch>>
  BY DEF Mark, MarkFails, sessionVars, serverVars
<1>3. thread[t].item \in Items
  BY <1>1, <1>2 DEF ThreadTyped, ItemInv, InSend
<1>4. ThreadTyped' /\ \A u \in Threads : thread'[u].pc = "ok" =>
            thread[u].pc = "ok" /\ thread'[u].item = thread[u].item
  BY <1>1, <1>2, <1>3, GotoStep
<1>5. StoreTyped' /\ (Keeps \/ UNCHANGED storeVars)
  <2>1. CASE MarkOutboxSending(thread[t].item)
    BY <1>1, <1>2, <1>3, <2>1, SendingStep
  <2>2. CASE UNCHANGED storeVars
    BY <1>1, <1>2, <2>2 DEF StoreTyped, storeVars
  <2>3. QED
    BY <1>2, <2>1, <2>2
<1>6. RestTyped'
  BY <1>1, <1>2 DEF RestTyped
<1>7. QED
  BY <1>2, <1>4, <1>5, <1>6, QuietStep

LEMMA CallInv ==
    ASSUME IndInv, NEW t \in Threads, Call(t) \/ ReplyOK(t) \/ ReplyError(t)
    PROVE  IndInv'
<1>1. StoreTyped /\ ThreadTyped /\ RestTyped
  BY Parts
<1>2. thread[t].pc \in InSend
  BY DEF Call, ReplyOK, ReplyError, InSend
<1>3. thread[t].item \in Items
  BY <1>1, <1>2 DEF ThreadTyped, ItemInv
<1>4. UNCHANGED <<sessionVars, storeVars, stored, batch>> /\ wire' \subseteq Items
  BY <1>1, <1>3 DEF Call, ReplyOK, ReplyError, serverVars, RestTyped
<1>5. \/ Goto(t, "wait") \/ Goto(t, "error")
      \/ Goto(t, "ok") /\ thread[t].item \in stored
  BY DEF Call, ReplyOK, ReplyError
<1>6. ThreadTyped' /\ \A u \in Threads : thread'[u].pc = "ok" =>
        /\ thread[u].pc = "ok" \/ thread'[u].item \in stored
        /\ thread'[u].item = thread[u].item
  <2>1. CASE Goto(t, "wait")
    BY <1>1, <1>3, <2>1, GotoStep
  <2>2. CASE Goto(t, "error")
    BY <1>1, <1>3, <2>2, GotoStep
  <2>3. CASE Goto(t, "ok") /\ thread[t].item \in stored
    BY <1>1, <1>3, <2>3, GotoStep
  <2>4. QED
    BY <1>5, <2>1, <2>2, <2>3
<1>7. StoreTyped' /\ RestTyped'
  BY <1>1, <1>4 DEF StoreTyped, RestTyped, storeVars, sessionVars
<1>8. QED
  BY <1>4, <1>6, <1>7, QuietStep

(***************************************************************************)
(* The result is recorded.  Only an OK removes the row, and the server has *)
(* the message then.                                                       *)
(***************************************************************************)
LEMMA RecordInv == ASSUME IndInv, NEW t \in Threads, Record(t) \/ RecordFails(t) PROVE IndInv'
<1> DEFINE i == thread[t].item
<1>1. StoreTyped /\ ThreadTyped /\ RestTyped /\ SentInv /\ NoSilentLoss
  BY Parts
<1>2. /\ thread[t].pc \in {"ok", "error"} /\ Finish(t)
      /\ UNCHANGED <<ui, login, owner, token, offline, wire, stored, batch>>
  BY DEF Record, RecordFails, serverVars
<1>3. i \in Items /\ (thread[t].pc = "ok" => i \in stored)
  BY <1>1, <1>2 DEF ThreadTyped, ItemInv, InSend, SentInv
<1>4. Attempt(t) \in 0 .. MaxAttempts
  BY <1>1, MaxAttemptsAssumption DEF Attempt, ThreadTyped, ThreadState
<1>5. /\ ThreadTyped' /\ sending' \in BOOLEAN
      /\ \A u \in Threads : thread'[u].pc = "ok" => thread[u].pc = "ok"
      /\ \A u \in Threads : thread'[u].item = thread[u].item
  BY <1>1, <1>2, FinishStep DEF RestTyped
<1>6. RestTyped'
  BY <1>1, <1>2, <1>5 DEF RestTyped
<1>7. CASE thread[t].pc = "ok" /\ MarkOutboxSent(i)
  <2>1. /\ StoreTyped'
        /\ \A j \in Items \ {i} : row'[j] = row[j]
        /\ \A j \in Items \ {i} : Shown(remote'[j]) => Shown(remote[j])
        /\ UNCHANGED <<accepted, cleared>>
    BY <1>1, <1>2, <1>3, <1>7, SentStep
  <2> HIDE DEF i
  <2>2. NoSilentLoss'
    BY <1>1, <1>2, <1>3, <1>7, <2>1 DEF NoSilentLoss, StoreTyped
  <2>3. SentInv'
    BY <1>1, <1>2, <1>3, <1>5, <1>7, <2>1 DEF SentInv
  <2>4. IndInv' <=> (StoreTyped /\ ThreadTyped /\ RestTyped /\ SentInv /\ NoSilentLoss)'
    BY DEF IndInv, TypeOK, StoreTyped, ThreadTyped, RestTyped
  <2>5. QED
    BY <1>5, <1>6, <2>1, <2>2, <2>3, <2>4
<1>8. CASE MarkOutboxRetry(i, Attempt(t)) \/ MarkOutboxFailed(i, Attempt(t))
  <2> DEFINE n == Attempt(t)
  <2>1. n \in 0 .. MaxAttempts /\ (MarkOutboxRetry(i, n) \/ MarkOutboxFailed(i, n))
    BY <1>4, <1>8
  <2> HIDE DEF i, n
  <2>2. StoreTyped' /\ Keeps
    BY <1>1, <1>2, <1>3, <2>1, RetryStep
  <2>3. QED
    BY <1>2, <1>5, <1>6, <2>2, QuietStep
<1>9. CASE UNCHANGED storeVars
  <2>1. StoreTyped'
    BY <1>1, <1>2, <1>9 DEF StoreTyped, storeVars
  <2>2. QED
    BY <1>2, <1>5, <1>6, <1>9, <2>1, QuietStep
<1>10. QED
  BY <1>7, <1>8, <1>9 DEF Record, RecordFails

-----------------------------------------------------------------------------
(***************************************************************************)
(* The workers.                                                            *)
(***************************************************************************)
LEMMA DueType == StoreTyped => DueOutbox \subseteq [item : Items, tries : 0 .. MaxAttempts]
BY DEF StoreTyped, DueOutbox, RowState

\* A worker's step leaves the Send goroutines alone.
LEMMA WorkerStep ==
    ASSUME ThreadTyped, NEW w \in Workers, NEW new \in ThreadState,
           thread' = [thread EXCEPT ![w] = new], new.pc # "ok",
           new.pc \in InSend => new.item \in Items
    PROVE  ThreadTyped' /\ \A u \in Threads : thread'[u].pc = "ok" =>
                thread[u].pc = "ok" /\ thread'[u].item = thread[u].item
<1>1. /\ thread' \in [Threads -> ThreadState] /\ thread'[w] = new
      /\ \A u \in Threads \ {w} : thread'[u] = thread[u]
  BY DEF ThreadTyped, Threads
<1>2. w \notin Items
  BY ThreadsAssumption
<1>3. QED
  BY <1>1, <1>2 DEF ThreadTyped, ItemInv, Threads

LEMMA WorkerInv ==
    ASSUME IndInv, NEW w \in Workers, Poll(w) \/ NextItem(w) \/ WorkerExits(w)
    PROVE  IndInv'
<1>1. StoreTyped /\ ThreadTyped /\ RestTyped /\ w \in Threads
  BY Parts DEF Threads
<1>2. UNCHANGED <<sessionVars, storeVars, serverVars>>
  BY DEF Poll, NextItem, WorkerExits
<1>3. batch' \in [Workers -> SUBSET [item : Items, tries : 0 .. MaxAttempts]]
  BY <1>1, DueType DEF Poll, NextItem, WorkerExits, RestTyped
<1>4. ThreadTyped' /\ \A u \in Threads : thread'[u].pc = "ok" =>
            thread[u].pc = "ok" /\ thread'[u].item = thread[u].item
  <2>1. CASE Poll(w)
    BY <1>1, <2>1, GotoStep DEF Poll, InSend
  <2>2. ASSUME NEW b \in batch[w],
               thread' = [thread EXCEPT ![w].pc = "mark", ![w].item = b.item, ![w].tries = b.tries]
        PROVE  ThreadTyped' /\ \A u \in Threads : thread'[u].pc = "ok" =>
                    thread[u].pc = "ok" /\ thread'[u].item = thread[u].item
    <3> DEFINE new == [thread[w] EXCEPT !.pc = "mark", !.item = b.item, !.tries = b.tries]
    <3>1. b.item \in Items /\ b.tries \in 0 .. MaxAttempts
      BY <1>1 DEF RestTyped
    <3>2. new \in ThreadState /\ new.pc = "mark" /\ new.item \in Items
      BY <1>1, <3>1 DEF ThreadTyped, ThreadState
    <3>3. thread' = [thread EXCEPT ![w] = new]
      BY <1>1, <2>2 DEF ThreadTyped
    <3> HIDE DEF new
    <3>4. QED
      BY <1>1, <3>2, <3>3, WorkerStep
  <2>3. CASE thread' = [thread EXCEPT ![w] = [Asleep EXCEPT !.pc = "poll", !.live = TRUE]]
    <3> DEFINE new == [Asleep EXCEPT !.pc = "poll", !.live = TRUE]
    <3>1. new \in ThreadState /\ new.pc = "poll"
      BY NewThreads DEF ThreadState
    <3> HIDE DEF new
    <3>2. QED
      BY <1>1, <2>3, <3>1, WorkerStep DEF new, InSend
  <2>4. CASE WorkerExits(w)
    BY <1>1, <2>4, NewThreads, WorkerStep DEF WorkerExits, InSend
  <2>5. QED
    BY <2>1, <2>2, <2>3, <2>4 DEF NextItem
<1>5. StoreTyped' /\ RestTyped'
  BY <1>1, <1>2, <1>3 DEF StoreTyped, RestTyped, storeVars, sessionVars, serverVars
<1>6. QED
  BY <1>2, <1>4, <1>5, QuietStep DEF serverVars

-----------------------------------------------------------------------------
(***************************************************************************)
(* Sessions.                                                               *)
(***************************************************************************)
\* The goroutines go on where they are, but for one worker that may start.
LEMMA SessionStep ==
    ASSUME ThreadTyped,
           \/ thread' = Cancelled
           \/ \E w \in Workers : thread' = [Cancelled EXCEPT ![w].pc = "poll", ![w].live = TRUE]
    PROVE  ThreadTyped' /\ \A u \in Threads : thread'[u].pc = "ok" =>
                thread[u].pc = "ok" /\ thread'[u].item = thread[u].item
<1>1. /\ Cancelled \in [Threads -> ThreadState]
      /\ \A t \in Threads : Cancelled[t].pc = thread[t].pc /\ Cancelled[t].item = thread[t].item
  BY CancelStep
<1>2. CASE thread' = Cancelled
  BY <1>1, <1>2 DEF ThreadTyped, ItemInv, Threads
<1>3. ASSUME NEW w \in Workers, thread' = [Cancelled EXCEPT ![w].pc = "poll", ![w].live = TRUE]
      PROVE  ThreadTyped' /\ \A u \in Threads : thread'[u].pc = "ok" =>
                thread[u].pc = "ok" /\ thread'[u].item = thread[u].item
  <2> DEFINE C == Cancelled
             new == [C[w] EXCEPT !.pc = "poll", !.live = TRUE]
  <2>1. w \in Threads
    BY DEF Threads
  <2>2. C[w] \in ThreadState
    BY <1>1, <2>1
  <2> HIDE DEF C
  <2>3. new \in ThreadState /\ new.pc = "poll" /\ w \in Threads
    BY <2>1, <2>2 DEF ThreadState
  <2> USE DEF C
  <2>4. thread' = [C EXCEPT ![w] = new]
    BY <1>1, <1>3
  <2> HIDE DEF new, C
  <2>5. /\ thread' \in [Threads -> ThreadState] /\ thread'[w] = new
        /\ \A u \in Threads \ {w} : thread'[u].pc = thread[u].pc /\ thread'[u].item = thread[u].item
    BY <1>1, <2>3, <2>4 DEF C
  <2>6. w \notin Items
    BY ThreadsAssumption
  <2>7. QED
    BY <2>3, <2>5, <2>6 DEF ThreadTyped, ItemInv, Threads, InSend
<1>4. QED
  BY <1>2, <1>3

LEMMA LoginInv ==
    ASSUME IndInv, NEW result \in {"online", "offline"}, Login(result)
    PROVE  IndInv'
<1>1. StoreTyped /\ ThreadTyped /\ RestTyped
  BY Parts
<1>2. StoreTyped' /\ RestTyped'
  BY <1>1 DEF Login, StoreTyped, RestTyped, storeVars, serverVars
<1>3. ThreadTyped' /\ UNCHANGED <<thread, storeVars, stored>>
  BY <1>1 DEF Login, ThreadTyped, ItemInv, serverVars
<1>4. QED
  BY <1>2, <1>3, QuietStep

LEMMA EnterShellInv ==
    ASSUME IndInv, NEW recovered \in BOOLEAN, EnterShell(recovered)
    PROVE  IndInv'
<1>1. StoreTyped /\ ThreadTyped /\ RestTyped
  BY Parts
<1>2. UNCHANGED <<sending, owner, token, offline, local, remote, accepted, cleared, wire, stored, batch>>
  BY DEF EnterShell, serverVars
<1>3. RestTyped'
  BY <1>1, <1>2 DEF EnterShell, RestTyped
<1>4. ThreadTyped' /\ \A u \in Threads : thread'[u].pc = "ok" =>
            thread[u].pc = "ok" /\ thread'[u].item = thread[u].item
  BY <1>1, SessionStep DEF EnterShell
<1>5. Requeue("sending") \/ UNCHANGED row
  BY DEF EnterShell
<1>6. StoreTyped' /\ (Keeps \/ UNCHANGED storeVars)
  <2>1. CASE Requeue("sending")
    BY <1>1, <1>2, <2>1, RequeueStep DEF StoreTyped
  <2>2. CASE UNCHANGED row
    BY <1>1, <1>2, <2>2 DEF StoreTyped, storeVars
  <2>3. QED
    BY <1>5, <2>1, <2>2
<1>7. QED
  BY <1>2, <1>3, <1>4, <1>6, QuietStep

LEMMA LogoutInv == IndInv /\ Logout => IndInv'
<1> SUFFICES ASSUME IndInv, Logout PROVE IndInv'
  OBVIOUS
<1>1. StoreTyped /\ ThreadTyped /\ RestTyped
  BY Parts
<1>2. ThreadTyped' /\ \A u \in Threads : thread'[u].pc = "ok" =>
            thread[u].pc = "ok" /\ thread'[u].item = thread[u].item
  BY <1>1, SessionStep DEF Logout
<1>3. StoreTyped' /\ RestTyped' /\ UNCHANGED <<storeVars, stored>>
  BY <1>1 DEF Logout, StoreTyped, RestTyped, storeVars, serverVars
<1>4. QED
  BY <1>2, <1>3, QuietStep

LEMMA ExitInv == IndInv /\ Exit => IndInv'
<1> SUFFICES ASSUME IndInv, Exit PROVE IndInv'
  OBVIOUS
<1>1. StoreTyped /\ ThreadTyped /\ RestTyped
  BY Parts
<1> DEFINE Left(t) == IF t \in Workers THEN Asleep
                      ELSE IF thread[t].pc = "new" THEN Idle(t)
                      ELSE [Idle(t) EXCEPT !.pc = "done"]
<1>2. \A t \in Threads : /\ Left(t) \in ThreadState /\ Left(t).pc \in {"off", "new", "done"}
                         /\ t \in Items => Left(t).item = t
  <2>1. ASSUME NEW i \in Items
        PROVE  LET done == [Idle(i) EXCEPT !.pc = "done"]
               IN  done \in ThreadState /\ done.pc = "done" /\ done.item = i
    BY NewThreads DEF ThreadState
  <2>2. QED
    BY <2>1, NewThreads, ThreadsAssumption DEF Threads
<1>3. thread' = [t \in Threads |-> Left(t)]
  BY DEF Exit
<1> HIDE DEF Left
<1>4. ThreadTyped' /\ \A t \in Threads : thread'[t].pc # "ok"
  BY <1>2, <1>3 DEF ThreadTyped, ItemInv, InSend, Threads
<1>5. StoreTyped' /\ RestTyped' /\ UNCHANGED <<storeVars, stored>>
  BY <1>1 DEF Exit, StoreTyped, RestTyped, storeVars, serverVars
<1>6. QED
  BY <1>4, <1>5, QuietStep

-----------------------------------------------------------------------------
(***************************************************************************)
(* The rows by themselves, the user's buttons, and the server.             *)
(***************************************************************************)
LEMMA RetryInv ==
    ASSUME IndInv, RetryFailed \/ \E i \in Items : RetryDue(i)
    PROVE  IndInv'
<1>1. StoreTyped /\ ThreadTyped /\ RestTyped
  BY Parts
<1>2. UNCHANGED <<sessionVars, local, remote, accepted, cleared, serverVars, thread, batch>>
  BY DEF RetryFailed, RetryDue
<1>3. ThreadTyped' /\ RestTyped'
  BY <1>1, <1>2 DEF ThreadTyped, ItemInv, RestTyped, sessionVars, serverVars
<1>4. StoreTyped' /\ Keeps
  <2>1. CASE RetryFailed
    BY <1>1, <1>2, <2>1, RequeueStep DEF RetryFailed, sessionVars, StoreTyped
  <2>2. ASSUME NEW i \in Items, RetryDue(i) PROVE StoreTyped' /\ Keeps
    <3>1. row' = [row EXCEPT ![i].due = TRUE]
      BY <2>2 DEF RetryDue
    <3>2. row' \in [Items -> RowState]
      BY <1>1, <3>1 DEF StoreTyped, RowState
    <3>3. \A j \in Items : row[j].status # "none" => row'[j].status # "none"
      BY <1>1, <3>1 DEF StoreTyped, RowState
    <3>4. QED
      BY <1>1, <1>2, <3>2, <3>3 DEF StoreTyped, Keeps, sessionVars
  <2>3. QED
    BY <2>1, <2>2
<1>5. QED
  BY <1>2, <1>3, <1>4, QuietStep DEF serverVars

LEMMA ClearFailedInv == IndInv /\ ClearFailed => IndInv'
<1> SUFFICES ASSUME IndInv, ClearFailed PROVE IndInv'
  OBVIOUS
<1>1. StoreTyped /\ ThreadTyped /\ RestTyped /\ SentInv /\ NoSilentLoss
  BY Parts
<1>2. /\ row' = [i \in Items |-> IF i \in FailedItems THEN NoRow ELSE row[i]]
      /\ local' = [i \in Items |->
            IF i \in FailedItems /\ local[i].owner = owner THEN NoLocal ELSE local[i]]
      /\ cleared' = cleared \cup FailedItems
      /\ UNCHANGED <<sessionVars, remote, accepted, serverVars, thread, batch>>
  BY DEF ClearFailed
<1>3. FailedItems \subseteq Items
  BY DEF FailedItems
<1>4. StoreTyped'
  BY <1>1, <1>2, <1>3, NoRows DEF StoreTyped, sessionVars
<1>5. ThreadTyped' /\ RestTyped' /\ SentInv'
  BY <1>1, <1>2 DEF ThreadTyped, ItemInv, RestTyped, SentInv, sessionVars, serverVars
<1>6. NoSilentLoss'
  BY <1>1, <1>2, <1>3 DEF NoSilentLoss, StoreTyped, serverVars
<1>7. QED
  BY <1>4, <1>5, <1>6 DEF IndInv, TypeOK, StoreTyped, ThreadTyped, RestTyped

LEMMA HistoryPageInv == ASSUME IndInv, NEW i \in Items, HistoryPage(i) PROVE IndInv'
<1>1. StoreTyped /\ ThreadTyped /\ RestTyped /\ SentInv /\ NoSilentLoss
  BY Parts
<1> DEFINE r == [delivery |-> "sent", linked |-> FALSE]
<1>2. r \in RemoteState
  BY DEF RemoteState
<1>3. /\ i \in stored /\ remote' = [remote EXCEPT ![i] = r]
      /\ UNCHANGED <<sessionVars, row, local, accepted, cleared, serverVars, thread, batch>>
  BY DEF HistoryPage
<1> HIDE DEF r
<1>4. StoreTyped'
  BY <1>1, <1>2, <1>3 DEF StoreTyped, sessionVars
<1>5. SentInv'
  BY <1>1, <1>3 DEF SentInv, StoreTyped, serverVars
<1>6. ThreadTyped' /\ RestTyped' /\ NoSilentLoss'
  BY <1>1, <1>3 DEF ThreadTyped, ItemInv, RestTyped, NoSilentLoss, sessionVars, serverVars
<1>7. QED
  BY <1>4, <1>5, <1>6 DEF IndInv, TypeOK, StoreTyped, ThreadTyped, RestTyped

LEMMA ServerInv ==
    ASSUME IndInv, NEW i \in Items, ServerStores(i) \/ RequestLost(i)
    PROVE  IndInv'
<1>1. StoreTyped /\ ThreadTyped /\ RestTyped
  BY Parts
<1>2. /\ UNCHANGED <<sessionVars, storeVars, thread, batch>>
      /\ stored \subseteq stored' /\ stored' \subseteq Items /\ wire' \subseteq Items
  BY <1>1 DEF ServerStores, RequestLost, RestTyped
<1>3. ThreadTyped' /\ RestTyped' /\ StoreTyped'
  BY <1>1, <1>2 DEF ThreadTyped, ItemInv, RestTyped, StoreTyped, sessionVars, storeVars
<1>4. QED
  BY <1>2, <1>3, QuietStep

-----------------------------------------------------------------------------
LEMMA InitInv == Init => IndInv
<1> SUFFICES ASSUME Init PROVE IndInv
  OBVIOUS
<1>1. StoreTyped
  BY NoRows DEF Init, StoreTyped
<1>2. thread \in [Threads -> ThreadState]
  BY NewThreads DEF Init, Threads
<1>3. \A t \in Threads : thread[t].pc \in {"new", "off"} /\ (t \in Items => thread[t].item = t)
  BY NewThreads DEF Init, Threads
<1>4. ThreadTyped
  BY <1>2, <1>3 DEF ThreadTyped, ItemInv, InSend, Threads
<1>5. RestTyped
  BY DEF Init, RestTyped
<1>6. SentInv /\ NoSilentLoss
  BY <1>3 DEF Init, SentInv, NoSilentLoss, Shown, NoRemote
<1>7. QED
  BY <1>1, <1>4, <1>5, <1>6, Parts

LEMMA NextInv == IndInv /\ [Next]_vars => IndInv'
<1> SUFFICES ASSUME IndInv, [Next]_vars PROVE IndInv'
  OBVIOUS
<1>1. CASE UNCHANGED vars
  BY <1>1 DEF IndInv, TypeOK, ItemInv, SentInv, NoSilentLoss, vars, sessionVars, storeVars,
              serverVars
<1>2. CASE Next
  BY <1>2, SendInv, EnqueueInv, ButtonInv, RetryInv, HistoryPageInv, ServerInv, MarkInv,
     CallInv, RecordInv, WorkerInv, LoginInv, EnterShellInv, LogoutInv, ExitInv,
     ClearFailedInv DEF Next
<1>3. QED
  BY <1>1, <1>2

LEMMA Invariance == Spec => []IndInv
BY InitInv, NextInv, PTL DEF Spec

(***************************************************************************)
(* The outbox's tables, goroutines and requests are of their types.        *)
(***************************************************************************)
THEOREM TypeCorrect == Spec => []TypeOK
<1>1. IndInv => TypeOK
  BY DEF IndInv
<1>2. QED
  BY <1>1, Invariance, PTL

(***************************************************************************)
(* A message that EnqueueOutbox committed is at the server, in the outbox, *)
(* or was removed by the user, whatever goroutines, sessions, crashes and  *)
(* failing statements it has met.                                          *)
(***************************************************************************)
THEOREM NoSilentLossCorrect == Spec => []NoSilentLoss
<1>1. IndInv => NoSilentLoss
  BY DEF IndInv
<1>2. QED
  BY <1>1, Invariance, PTL

(***************************************************************************)
(* A message of the cache that has the server's id is one that the server  *)
(* stored, however late the answer was recorded and by whom.               *)
(***************************************************************************)
THEOREM SentIsStoredCorrect == Spec => []SentIsStored
<1>1. IndInv => SentIsStored
  BY DEF IndInv, SentInv, Shown, SentIsStored
<1>2. QED
  BY <1>1, Invariance, PTL

-----------------------------------------------------------------------------
(***************************************************************************)
(* Outbox implements Delivery.  Beyond IndInv this needs where a message   *)
(* is known: only one that EnqueueOutbox committed has a row, is read by a *)
(* worker, sent and stored, and the goroutine of the Send button commits   *)
(* it once.                                                                *)
(***************************************************************************)
Queued == InSend \cup {"queued"}

ThreadTaken ==
    /\ \A t \in Threads : thread[t].pc \in Queued => thread[t].item \in accepted
    /\ \A i \in Items : thread[i].pc \in {"new", "enqueue"} => i \notin accepted

RowTaken ==
    /\ \A i \in Items : row[i].status # "none" => i \in accepted
    /\ \A w \in Workers : \A b \in batch[w] : b.item \in accepted
    /\ stored \subseteq accepted /\ wire \subseteq accepted

LinkInv == \A i \in Items : remote[i].linked => remote[i].delivery # "none"

TakenInv == ThreadTaken /\ RowTaken /\ LinkInv

LEMMA GotoTaken ==
    ASSUME ThreadTyped, ThreadTaken, NEW t \in Threads, NEW pc, Goto(t, pc),
           pc \notin {"new", "enqueue"}, UNCHANGED accepted,
           pc \in Queued => thread[t].item \in accepted
    PROVE  ThreadTaken'
BY DEF ThreadTyped, ThreadState, ThreadTaken, Goto, Threads

LEMMA FinishTaken ==
    ASSUME ThreadTyped, ThreadTaken, NEW t \in Threads, Finish(t), UNCHANGED accepted
    PROVE  ThreadTaken'
<1>1. Goto(t, "done") \/ Goto(t, "next")
  BY DEF Finish
<1>2. QED
  BY <1>1, GotoTaken DEF Queued, InSend

\* A worker's goroutine is in no state of the Send button's.
LEMMA WorkerTaken ==
    ASSUME ThreadTyped, ThreadTaken, NEW w \in Workers, NEW new,
           thread' = [thread EXCEPT ![w] = new], UNCHANGED accepted,
           new.pc \in Queued => new.item \in accepted
    PROVE  ThreadTaken'
<1>1. w \notin Items
  BY ThreadsAssumption
<1>2. QED
  BY <1>1 DEF ThreadTyped, ThreadTaken, Threads

LEMMA CancelTaken ==
    ASSUME ThreadTyped, ThreadTaken, thread' = Cancelled, UNCHANGED accepted
    PROVE  ThreadTaken'
<1>1. \A t \in Threads : thread'[t].pc = thread[t].pc /\ thread'[t].item = thread[t].item
  BY CancelStep
<1>2. QED
  BY <1>1 DEF ThreadTaken, Threads

-----------------------------------------------------------------------------
(***************************************************************************)
(* What the store's statements are in Delivery.  A change of the delivery  *)
(* shown for a message shows no other message.                             *)
(***************************************************************************)
Pending == InState({"queued", "sending", "failed"})

Failed == InState({"failed"})

ShownItems == {i \in Items : remote[i].delivery # "none"}

DeliveryNext == [Promise!Next]_(Promise!deliveryVars)

\* DeliveryNext in terms of the sets above.
LEMMA Abstract ==
    /\ UNCHANGED <<accepted, Pending, Failed, stored, cleared, ShownItems>> => DeliveryNext
    /\ \A i \in Items :
        /\ i \notin accepted
        /\ accepted' = accepted \cup {i} /\ Pending' = Pending \cup {i}
        /\ UNCHANGED <<Failed, stored, cleared, ShownItems>>
        => DeliveryNext
    /\ \A i \in accepted :
        /\ i \in Items
        /\ stored' = stored \cup {i}
        /\ UNCHANGED <<accepted, Pending, Failed, cleared, ShownItems>>
        => DeliveryNext
    /\ \A i \in Items :
        /\ i \in Pending \cap stored
        /\ Pending' = Pending \ {i} /\ Failed' = Failed \ {i}
        /\ ShownItems' \in {ShownItems, ShownItems \cup {i}}
        /\ UNCHANGED <<accepted, stored, cleared>>
        => DeliveryNext
    /\ \A i \in Items :
        /\ i \in stored
        /\ ShownItems' = ShownItems \cup {i}
        /\ UNCHANGED <<accepted, Pending, Failed, stored, cleared>>
        => DeliveryNext
    /\ \A i \in Items :
        /\ i \in Pending
        /\ Failed' = Failed \cup {i}
        /\ UNCHANGED <<accepted, Pending, stored, cleared, ShownItems>>
        => DeliveryNext
    /\ \A S \in SUBSET Failed :
        /\ Failed' = Failed \ S
        /\ UNCHANGED <<accepted, Pending, stored, cleared, ShownItems>>
        => DeliveryNext
    /\ \A S \in SUBSET Failed :
        /\ Pending' = Pending \ S /\ Failed' = Failed \ S /\ cleared' = cleared \cup S
        /\ UNCHANGED <<accepted, stored, ShownItems>>
        => DeliveryNext
<1> USE DEF DeliveryNext, Promise!deliveryVars, Promise!Next, Pending, Failed, ShownItems
<1>1. UNCHANGED <<accepted, Pending, Failed, stored, cleared, ShownItems>> => DeliveryNext
  OBVIOUS
<1>2. ASSUME NEW i \in Items, i \notin accepted,
             accepted' = accepted \cup {i}, Pending' = Pending \cup {i},
             UNCHANGED <<Failed, stored, cleared, ShownItems>>
      PROVE  DeliveryNext
  BY <1>2 DEF Promise!Take
<1>3. ASSUME NEW i \in accepted, i \in Items, stored' = stored \cup {i},
             UNCHANGED <<accepted, Pending, Failed, cleared, ShownItems>>
      PROVE  DeliveryNext
  BY <1>3 DEF Promise!Store
<1>4. ASSUME NEW i \in Items, i \in Pending \cap stored,
             Pending' = Pending \ {i}, Failed' = Failed \ {i},
             ShownItems' \in {ShownItems, ShownItems \cup {i}},
             UNCHANGED <<accepted, stored, cleared>>
      PROVE  DeliveryNext
  BY <1>4 DEF Promise!Settle
<1>5. ASSUME NEW i \in Items, i \in stored, ShownItems' = ShownItems \cup {i},
             UNCHANGED <<accepted, Pending, Failed, stored, cleared>>
      PROVE  DeliveryNext
  BY <1>5 DEF Promise!Show
<1>6. ASSUME NEW i \in Items, i \in Pending, Failed' = Failed \cup {i},
             UNCHANGED <<accepted, Pending, stored, cleared, ShownItems>>
      PROVE  DeliveryNext
  BY <1>6 DEF Promise!Fail
<1>7. ASSUME NEW S \in SUBSET Failed, Failed' = Failed \ S,
             UNCHANGED <<accepted, Pending, stored, cleared, ShownItems>>
      PROVE  DeliveryNext
  BY <1>7 DEF Promise!Retry
<1>8. ASSUME NEW S \in SUBSET Failed,
             Pending' = Pending \ S, Failed' = Failed \ S, cleared' = cleared \cup S,
             UNCHANGED <<accepted, stored, ShownItems>>
      PROVE  DeliveryNext
  BY <1>8 DEF Promise!Drop
<1> HIDE DEF DeliveryNext, Promise!deliveryVars, Promise!Next, Pending, Failed, ShownItems
<1>9. QED
  BY <1>1, <1>2, <1>3, <1>4, <1>5, <1>6, <1>7, <1>8

LEMMA PendingSame ==
    ASSUME StoreTyped, StoreTyped',
           \A j \in Items : row'[j].status = "none" <=> row[j].status = "none"
    PROVE  Pending' = Pending
<1>1. \A j \in Items : row[j].status # "none" <=> row[j].status \in {"queued", "sending", "failed"}
  BY DEF StoreTyped, RowState
<1>2. \A j \in Items : row'[j].status # "none" <=> row'[j].status \in {"queued", "sending", "failed"}
  BY DEF StoreTyped, RowState
<1>3. QED
  BY <1>1, <1>2 DEF Pending, InState

\* A statement that leaves the rows in the outbox, with what it has to do with the failed ones.
LEMMA SendingImpl ==
    ASSUME StoreTyped, NEW i \in Items, MarkOutboxSending(i), UNCHANGED <<owner, stored>>
    PROVE  DeliveryNext
<1>1. Pending' = Pending
  <2>1. \A j \in Items : row'[j].status = "none" <=> row[j].status = "none"
    BY DEF MarkOutboxSending, StoreTyped, RowState, Mine
  <2>2. QED
    BY <2>1, SendingStep, PendingSame
<1>2. Failed' = Failed \/ Failed' = Failed \ {i}
  BY DEF MarkOutboxSending, StoreTyped, RowState, Failed, InState, Mine
<1>3. UNCHANGED <<accepted, cleared, ShownItems>>
  BY DEF MarkOutboxSending, ShownItems
<1>4. QED
  <2>1. CASE i \in Failed /\ Failed' = Failed \ {i}
    <3>1. {i} \in SUBSET Failed
      BY <2>1
    <3>2. QED
      BY <1>1, <1>3, <2>1, <3>1, Abstract
  <2>2. CASE Failed' = Failed
    BY <1>1, <1>3, <2>2, Abstract
  <2>3. i \notin Failed => Failed \ {i} = Failed
    OBVIOUS
  <2>4. QED
    BY <1>2, <2>1, <2>2, <2>3

LEMMA ShownSame ==
    ASSUME StoreTyped, LinkInv, NEW i \in Items, NEW d \in {"pending", "failed"},
           SetDelivery(i, d)
    PROVE  ShownItems' = ShownItems /\ LinkInv'
BY DEF StoreTyped, RemoteState, LinkInv, SetDelivery, ShownItems

LEMMA RetryImpl ==
    ASSUME StoreTyped, LinkInv, NEW i \in Items, NEW n \in 0 .. MaxAttempts,
           MarkOutboxRetry(i, n), UNCHANGED <<owner, stored>>
    PROVE  DeliveryNext /\ LinkInv'
<1>1. Pending' = Pending
  <2>1. \A j \in Items : row'[j].status = "none" <=> row[j].status = "none"
    BY DEF MarkOutboxRetry, StoreTyped, RowState, Mine
  <2>2. QED
    BY <2>1, RetryStep, PendingSame
<1>2. Failed' = Failed \/ Failed' = Failed \ {i}
  BY DEF MarkOutboxRetry, StoreTyped, RowState, Failed, InState, Mine
<1>3. UNCHANGED <<accepted, cleared, ShownItems>> /\ LinkInv'
  BY ShownSame DEF MarkOutboxRetry
<1>4. QED
  <2>1. CASE i \in Failed /\ Failed' = Failed \ {i}
    <3>1. {i} \in SUBSET Failed
      BY <2>1
    <3>2. QED
      BY <1>1, <1>3, <2>1, <3>1, Abstract
  <2>2. CASE Failed' = Failed
    BY <1>1, <1>3, <2>2, Abstract
  <2>3. i \notin Failed => Failed \ {i} = Failed
    OBVIOUS
  <2>4. QED
    BY <1>2, <1>3, <2>1, <2>2, <2>3

LEMMA FailedImpl ==
    ASSUME StoreTyped, LinkInv, NEW i \in Items, NEW n \in 0 .. MaxAttempts,
           MarkOutboxFailed(i, n), UNCHANGED <<owner, stored>>
    PROVE  DeliveryNext /\ LinkInv'
<1>1. Pending' = Pending
  <2>1. \A j \in Items : row'[j].status = "none" <=> row[j].status = "none"
    BY DEF MarkOutboxFailed, StoreTyped, RowState, Mine
  <2>2. QED
    BY <2>1, RetryStep, PendingSame
<1>2. Failed' = Failed \/ (i \in Pending /\ Failed' = Failed \cup {i})
  BY DEF MarkOutboxFailed, StoreTyped, RowState, Failed, Pending, InState, Mine
<1>3. UNCHANGED <<accepted, cleared, ShownItems>> /\ LinkInv'
  BY ShownSame DEF MarkOutboxFailed
<1>4. QED
  BY <1>1, <1>2, <1>3, Abstract

\* The server has the message.
LEMMA SentImpl ==
    ASSUME StoreTyped, LinkInv, NEW i \in Items, i \in stored, MarkOutboxSent(i), UNCHANGED stored
    PROVE  DeliveryNext /\ LinkInv'
<1>1. CASE ~ Mine(i)
  <2>1. UNCHANGED <<accepted, Pending, Failed, stored, cleared, ShownItems, remote>>
    BY <1>1 DEF MarkOutboxSent, storeVars, Pending, Failed, InState, ShownItems
  <2>2. QED
    BY <2>1, Abstract DEF LinkInv
<1>2. CASE Mine(i)
  <2>1. row' = [row EXCEPT ![i] = NoRow] /\ UNCHANGED <<accepted, cleared>>
    BY <1>2 DEF MarkOutboxSent
  <2>2. i \in Pending
    BY <1>2 DEF Mine, StoreTyped, RowState, Pending, InState
  <2>3. Pending' = Pending \ {i} /\ Failed' = Failed \ {i}
    BY <2>1 DEF StoreTyped, RowState, Pending, Failed, InState, NoRow
  <2> DEFINE r == [delivery |-> "sent",
                   linked |-> IF remote[i].delivery = "none" THEN TRUE ELSE remote[i].linked]
  <2>4. remote' = IF owner # Me THEN remote ELSE [remote EXCEPT ![i] = r]
    BY <1>2 DEF MarkOutboxSent
  <2>5. r.delivery = "sent"
    OBVIOUS
  <2> HIDE DEF r
  <2>6. ShownItems' \in {ShownItems, ShownItems \cup {i}} /\ LinkInv'
    BY <2>4, <2>5 DEF StoreTyped, LinkInv, ShownItems
  <2>7. QED
    BY <2>1, <2>2, <2>3, <2>6, Abstract
<1>3. QED
  BY <1>1, <1>2

LEMMA RequeueImpl ==
    ASSUME StoreTyped, NEW from \in {"sending", "failed"}, Requeue(from),
           UNCHANGED <<remote, accepted, cleared, stored>>
    PROVE  DeliveryNext
<1> DEFINE S == {i \in Failed : Mine(i) /\ row[i].status = from}
<1>1. \A i \in Items : /\ row'[i].status = (IF Mine(i) /\ row[i].status = from THEN "queued"
                                            ELSE row[i].status)
  BY DEF Requeue, StoreTyped, RowState
<1>2. Pending' = Pending
  BY <1>1 DEF Pending, InState
<1>3. Failed' = Failed \ S
  BY <1>1 DEF Failed, InState
<1>4. ShownItems' = ShownItems /\ S \in SUBSET Failed
  BY DEF ShownItems
<1> HIDE DEF S
<1>5. QED
  BY <1>2, <1>3, <1>4, Abstract

-----------------------------------------------------------------------------
(***************************************************************************)
(* One step each: TakenInv is kept, and the step is one of Delivery.       *)
(***************************************************************************)
Refines == TakenInv' /\ DeliveryNext

\* Nothing of what Delivery sees changes.
LEMMA UnseenStep ==
    ASSUME TakenInv, UNCHANGED <<storeVars, stored>>, ThreadTaken', wire' \subseteq accepted,
           \A w \in Workers : \A b \in batch'[w] : b.item \in accepted
    PROVE  Refines
<1>1. UNCHANGED <<accepted, Pending, Failed, stored, cleared, ShownItems>>
  BY DEF storeVars, Pending, Failed, InState, ShownItems
<1>2. RowTaken' /\ LinkInv'
  BY DEF TakenInv, RowTaken, LinkInv, storeVars
<1>3. QED
  BY <1>1, <1>2, Abstract DEF TakenInv, Refines

\* The rows of the outbox change, but none comes.
LEMMA RowStep ==
    ASSUME TakenInv, ThreadTaken', LinkInv', UNCHANGED <<accepted, stored, wire, batch>>,
           \A i \in Items : row'[i].status # "none" => row[i].status # "none", DeliveryNext
    PROVE  Refines
BY DEF TakenInv, RowTaken, Refines

LEMMA SendRefines ==
    ASSUME IndInv, TakenInv, NEW i \in Items, Send(i) PROVE Refines
<1>1. ThreadTyped /\ thread[i].pc = "new" /\ i \in Threads
  BY Parts DEF Send, Threads
<1>2. thread' = [thread EXCEPT ![i].pc = "enqueue", ![i].live = TRUE]
      /\ UNCHANGED <<storeVars, stored, wire, batch>>
  BY DEF Send, serverVars
<1>3. ThreadTaken'
  BY <1>1, <1>2 DEF ThreadTyped, ThreadState, TakenInv, ThreadTaken, Queued, InSend,
                    storeVars, Threads
<1>4. QED
  BY <1>2, <1>3, UnseenStep DEF TakenInv, RowTaken

LEMMA EnqueueRefines ==
    ASSUME IndInv, TakenInv, NEW i \in Items, Enqueue(i) PROVE Refines
<1>1. StoreTyped /\ ThreadTyped /\ i \in Threads /\ thread[i].pc = "enqueue" /\ thread[i].item = i
  BY Parts DEF Enqueue, Threads, ThreadTyped, ItemInv
<1>2. i \notin accepted /\ row[i].status = "none"
  BY <1>1 DEF TakenInv, ThreadTaken, RowTaken
<1> DEFINE r == [status |-> "queued", owner |-> owner, attempts |-> 0, due |-> TRUE]
<1>3. /\ row' = [row EXCEPT ![i] = r] /\ accepted' = accepted \cup {i}
      /\ UNCHANGED <<remote, cleared, stored, wire, batch>>
      /\ thread' = [thread EXCEPT ![i].pc = "queued"]
  BY DEF Enqueue, EnqueueOutbox, serverVars, Goto
<1>4. r.status = "queued"
  OBVIOUS
<1> HIDE DEF r
<1>5. Pending' = Pending \cup {i} /\ UNCHANGED <<Failed, ShownItems>>
  BY <1>1, <1>2, <1>3, <1>4 DEF StoreTyped, RowState, Pending, Failed, InState, ShownItems
<1>6. ThreadTaken'
  BY <1>1, <1>3 DEF ThreadTyped, ThreadState, TakenInv, ThreadTaken, Queued, InSend, Threads,
                    ItemInv
<1>7. RowTaken' /\ LinkInv'
  BY <1>1, <1>3 DEF StoreTyped, TakenInv, RowTaken, LinkInv
<1>8. QED
  BY <1>2, <1>3, <1>5, <1>6, <1>7, Abstract DEF TakenInv, Refines

LEMMA ButtonRefines ==
    ASSUME IndInv, TakenInv, NEW i \in Items, EnqueueFails(i) \/ AfterEnqueue(i)
    PROVE  Refines
<1>1. ThreadTyped /\ i \in Threads
  BY Parts DEF Threads
<1>2. /\ Finish(i) \/ (Goto(i, "mark") /\ thread[i].pc = "queued")
      /\ UNCHANGED <<storeVars, stored, wire, batch, accepted>>
  BY DEF EnqueueFails, AfterEnqueue, serverVars, storeVars
<1>3. ThreadTaken'
  <2>1. CASE Finish(i)
    BY <1>1, <1>2, <2>1, FinishTaken DEF TakenInv
  <2>2. CASE Goto(i, "mark") /\ thread[i].pc = "queued"
    BY <1>1, <1>2, <2>2, GotoTaken DEF TakenInv, ThreadTaken, Queued
  <2>3. QED
    BY <1>2, <2>1, <2>2
<1>4. QED
  BY <1>2, <1>3, UnseenStep DEF TakenInv, RowTaken

LEMMA MarkRefines ==
    ASSUME IndInv, TakenInv, NEW t \in Threads, Mark(t) \/ MarkFails(t) PROVE Refines
<1>1. StoreTyped /\ ThreadTyped
  BY Parts
<1>2. /\ thread[t].pc = "mark" /\ Goto(t, "call")
      /\ MarkOutboxSending(thread[t].item) \/ UNCHANGED storeVars
      /\ UNCHANGED <<owner, wire, stored, batch>>
  BY DEF Mark, MarkFails, sessionVars, serverVars
<1>3. thread[t].item \in Items \cap accepted /\ UNCHANGED accepted
  BY <1>1, <1>2 DEF ThreadTyped, ItemInv, TakenInv, ThreadTaken, Queued, InSend,
                    MarkOutboxSending, storeVars
<1>4. ThreadTaken'
  BY <1>1, <1>2, <1>3, GotoTaken DEF TakenInv
<1>5. CASE MarkOutboxSending(thread[t].item)
  <2>1. DeliveryNext /\ LinkInv'
    BY <1>1, <1>2, <1>3, <1>5, SendingImpl DEF TakenInv, LinkInv, MarkOutboxSending
  <2>2. \A i \in Items : row'[i].status # "none" => row[i].status # "none"
    BY <1>1, <1>5 DEF MarkOutboxSending, StoreTyped, RowState, Mine
  <2>3. QED
    BY <1>2, <1>3, <1>4, <2>1, <2>2, RowStep
<1>6. CASE UNCHANGED storeVars
  BY <1>2, <1>4, <1>6, UnseenStep DEF TakenInv, RowTaken
<1>7. QED
  BY <1>2, <1>5, <1>6

LEMMA CallRefines ==
    ASSUME IndInv, TakenInv, NEW t \in Threads, Call(t) \/ ReplyOK(t) \/ ReplyError(t)
    PROVE  Refines
<1>1. ThreadTyped
  BY Parts
<1>2. thread[t].item \in accepted
  BY DEF Call, ReplyOK, ReplyError, TakenInv, ThreadTaken, Queued, InSend
<1>3. /\ UNCHANGED <<storeVars, stored, batch, accepted>> /\ wire' \subseteq accepted
      /\ Goto(t, "wait") \/ Goto(t, "error") \/ Goto(t, "ok")
  BY <1>2 DEF Call, ReplyOK, ReplyError, storeVars, serverVars, TakenInv, RowTaken
<1>4. ThreadTaken'
  BY <1>1, <1>2, <1>3, GotoTaken DEF TakenInv
<1>5. QED
  BY <1>3, <1>4, UnseenStep DEF TakenInv, RowTaken

LEMMA RecordRefines ==
    ASSUME IndInv, TakenInv, NEW t \in Threads, Record(t) \/ RecordFails(t) PROVE Refines
<1> DEFINE i == thread[t].item
           n == Attempt(t)
<1>1. StoreTyped /\ ThreadTyped /\ SentInv /\ ThreadTaken /\ LinkInv
  BY Parts DEF TakenInv
<1>2. /\ thread[t].pc \in {"ok", "error"} /\ Finish(t)
      /\ UNCHANGED <<owner, wire, stored, batch>>
  BY DEF Record, RecordFails, serverVars
<1>3. i \in Items /\ (thread[t].pc = "ok" => i \in stored)
  BY <1>1, <1>2 DEF ThreadTyped, ItemInv, InSend, SentInv
<1>4. n \in 0 .. MaxAttempts
  BY <1>1, MaxAttemptsAssumption DEF Attempt, ThreadTyped, ThreadState
<1>5. \/ thread[t].pc = "ok" /\ MarkOutboxSent(i)
      \/ MarkOutboxRetry(i, n)
      \/ MarkOutboxFailed(i, n)
      \/ UNCHANGED storeVars
  BY DEF Record, RecordFails
<1> HIDE DEF i, n
<1>6. UNCHANGED accepted
  BY <1>5 DEF MarkOutboxSent, MarkOutboxRetry, MarkOutboxFailed, storeVars
<1>7. ThreadTaken'
  BY <1>1, <1>2, <1>6, FinishTaken
<1>8. CASE thread[t].pc = "ok" /\ MarkOutboxSent(i)
  <2>1. \A j \in Items : row'[j] = row[j] \/ Mine(j)
    BY <1>1, <1>8 DEF MarkOutboxSent, storeVars, StoreTyped
  <2>2. QED
    BY <1>1, <1>2, <1>3, <1>6, <1>7, <1>8, <2>1, SentImpl, RowStep DEF Mine
<1>9. CASE MarkOutboxRetry(i, n)
  <2>1. \A j \in Items : row'[j] = row[j] \/ Mine(j)
    BY <1>1, <1>9 DEF MarkOutboxRetry, StoreTyped
  <2>2. QED
    BY <1>1, <1>2, <1>3, <1>4, <1>6, <1>7, <1>9, <2>1, RetryImpl, RowStep DEF Mine
<1>10. CASE MarkOutboxFailed(i, n)
  <2>1. \A j \in Items : row'[j] = row[j] \/ Mine(j)
    BY <1>1, <1>10 DEF MarkOutboxFailed, StoreTyped
  <2>2. QED
    BY <1>1, <1>2, <1>3, <1>4, <1>6, <1>7, <1>10, <2>1, FailedImpl, RowStep DEF Mine
<1>11. CASE UNCHANGED storeVars
  BY <1>2, <1>7, <1>11, UnseenStep DEF TakenInv, RowTaken
<1>12. QED
  BY <1>5, <1>8, <1>9, <1>10, <1>11

LEMMA WorkerRefines ==
    ASSUME IndInv, TakenInv, NEW w \in Workers, Poll(w) \/ NextItem(w) \/ WorkerExits(w)
    PROVE  Refines
<1>1. ThreadTyped /\ RestTyped /\ w \in Threads /\ UNCHANGED <<storeVars, wire, stored, accepted>>
  BY Parts DEF Poll, NextItem, WorkerExits, storeVars, serverVars, Threads
<1>2. ThreadTaken'
  <2>1. CASE Poll(w)
    BY <1>1, <2>1, GotoTaken DEF Poll, TakenInv, Queued, InSend
  <2>2. ASSUME NEW b \in batch[w],
               thread' = [thread EXCEPT ![w].pc = "mark", ![w].item = b.item, ![w].tries = b.tries]
        PROVE  ThreadTaken'
    <3> DEFINE new == [thread[w] EXCEPT !.pc = "mark", !.item = b.item, !.tries = b.tries]
    <3>1. new.item \in accepted
      BY <1>1 DEF TakenInv, RowTaken, ThreadTyped, ThreadState
    <3>2. thread' = [thread EXCEPT ![w] = new]
      BY <1>1, <2>2 DEF ThreadTyped
    <3> HIDE DEF new
    <3>3. QED
      BY <1>1, <3>1, <3>2, WorkerTaken DEF TakenInv
  <2>3. CASE thread' = [thread EXCEPT ![w] = [Asleep EXCEPT !.pc = "poll", !.live = TRUE]]
    <3> DEFINE new == [Asleep EXCEPT !.pc = "poll", !.live = TRUE]
    <3>1. new.pc = "poll"
      BY DEF Asleep
    <3> HIDE DEF new
    <3>2. QED
      BY <1>1, <2>3, <3>1, WorkerTaken DEF new, TakenInv, Queued, InSend
  <2>4. CASE WorkerExits(w)
    BY <1>1, <2>4, NewThreads, WorkerTaken DEF WorkerExits, TakenInv, Queued, InSend
  <2>5. QED
    BY <2>1, <2>2, <2>3, <2>4 DEF NextItem
<1>3. \A v \in Workers : \A b \in batch'[v] : b.item \in accepted
  <2>1. \A b \in DueOutbox : b.item \in accepted
    BY DEF DueOutbox, Mine, TakenInv, RowTaken
  <2>2. batch'[w] \subseteq batch[w] \cup DueOutbox /\ \A v \in Workers \ {w} : batch'[v] = batch[v]
    BY <1>1 DEF Poll, NextItem, WorkerExits, RestTyped
  <2>3. QED
    BY <2>1, <2>2 DEF TakenInv, RowTaken
<1>4. QED
  BY <1>1, <1>2, <1>3, UnseenStep DEF TakenInv, RowTaken

LEMMA LoginRefines ==
    ASSUME IndInv, TakenInv, NEW result \in {"online", "offline"}, Login(result)
    PROVE  Refines
BY UnseenStep DEF Login, TakenInv, ThreadTaken, RowTaken, storeVars, serverVars

LEMMA EnterShellRefines ==
    ASSUME IndInv, TakenInv, NEW recovered \in BOOLEAN, EnterShell(recovered)
    PROVE  Refines
<1>1. StoreTyped /\ ThreadTyped
  BY Parts
<1>2. UNCHANGED <<owner, local, remote, accepted, cleared, wire, stored, batch>>
  BY DEF EnterShell, serverVars
<1>3. ThreadTaken'
  <2>1. CASE thread' = Cancelled
    BY <1>1, <1>2, <2>1, CancelTaken DEF TakenInv
  <2>2. ASSUME NEW w \in Workers,
               thread' = [Cancelled EXCEPT ![w].pc = "poll", ![w].live = TRUE]
        PROVE  ThreadTaken'
    <3> DEFINE C == Cancelled
    <3>1. /\ C \in [Threads -> ThreadState]
          /\ \A t \in Threads : C[t].pc = thread[t].pc /\ C[t].item = thread[t].item
      BY <1>1, CancelStep
    <3>2. thread' = [C EXCEPT ![w].pc = "poll", ![w].live = TRUE]
      BY <2>2
    <3>3. w \in Threads /\ w \notin Items
      BY ThreadsAssumption DEF Threads
    <3> HIDE DEF C
    <3>4. C[w] \in ThreadState
      BY <3>1, <3>3
    <3>5. thread'[w].pc = "poll" /\ \A t \in Threads \ {w} : thread'[t] = C[t]
      BY <3>1, <3>2, <3>3, <3>4 DEF ThreadState
    <3>6. QED
      BY <1>2, <3>1, <3>3, <3>5 DEF TakenInv, ThreadTaken, Queued, InSend, Threads
  <2>3. QED
    BY <2>1, <2>2 DEF EnterShell
<1>4. CASE Requeue("sending")
  <2>1. DeliveryNext /\ LinkInv'
    BY <1>1, <1>2, <1>4, RequeueImpl DEF TakenInv, LinkInv
  <2>2. \A i \in Items : row'[i] = row[i] \/ Mine(i)
    BY <1>4 DEF Requeue
  <2>3. QED
    BY <1>2, <1>3, <2>1, <2>2, RowStep DEF Mine
<1>5. CASE UNCHANGED row
  BY <1>2, <1>3, <1>5, UnseenStep DEF TakenInv, RowTaken, storeVars
<1>6. QED
  BY <1>4, <1>5 DEF EnterShell

LEMMA LogoutRefines == IndInv /\ TakenInv /\ Logout => Refines
<1> SUFFICES ASSUME IndInv, TakenInv, Logout PROVE Refines
  OBVIOUS
<1>1. UNCHANGED <<storeVars, stored, wire, batch, accepted>> /\ thread' = Cancelled
  BY DEF Logout, serverVars, storeVars
<1>2. ThreadTaken'
  BY <1>1, Parts, CancelTaken DEF TakenInv
<1>3. QED
  BY <1>1, <1>2, UnseenStep DEF TakenInv, RowTaken

LEMMA ExitRefines == IndInv /\ TakenInv /\ Exit => Refines
<1> SUFFICES ASSUME IndInv, TakenInv, Exit PROVE Refines
  OBVIOUS
<1>1. UNCHANGED <<storeVars, stored, wire, accepted>> /\ batch' = [w \in Workers |-> {}]
  BY DEF Exit, serverVars, storeVars
<1>2. \A t \in Threads : thread'[t].pc \in {"off", "new", "done"}
                         /\ (thread'[t].pc = "new" /\ t \in Items => thread[t].pc = "new")
  BY NewThreads, ThreadsAssumption DEF Exit, Asleep, Idle, Threads
<1>3. ThreadTaken'
  BY <1>1, <1>2 DEF TakenInv, ThreadTaken, Queued, InSend, Threads
<1>4. QED
  BY <1>1, <1>3, UnseenStep DEF TakenInv, RowTaken

LEMMA RetryRefines ==
    ASSUME IndInv, TakenInv, RetryFailed \/ \E i \in Items : RetryDue(i)
    PROVE  Refines
<1>1. StoreTyped
  BY Parts
<1>2. UNCHANGED <<remote, accepted, cleared, stored, wire, thread, batch>>
  BY DEF RetryFailed, RetryDue, serverVars
<1>3. ThreadTaken' /\ LinkInv'
  BY <1>2 DEF TakenInv, ThreadTaken, LinkInv
<1>4. CASE RetryFailed
  <2>1. DeliveryNext
    BY <1>1, <1>2, <1>4, RequeueImpl DEF RetryFailed
  <2>2. \A i \in Items : row'[i] = row[i] \/ Mine(i)
    BY <1>4 DEF RetryFailed, Requeue
  <2>3. QED
    BY <1>2, <1>3, <2>1, <2>2, RowStep DEF Mine
<1>5. ASSUME NEW i \in Items, RetryDue(i) PROVE Refines
  <2>1. \A j \in Items : row'[j].status = row[j].status
    BY <1>1, <1>5 DEF RetryDue, StoreTyped, RowState
  <2>2. UNCHANGED <<Pending, Failed, ShownItems>>
    BY <1>2, <2>1 DEF Pending, Failed, InState, ShownItems
  <2>3. DeliveryNext
    BY <1>2, <2>2, Abstract
  <2>4. QED
    BY <1>2, <1>3, <2>1, <2>3, RowStep
<1>6. QED
  BY <1>4, <1>5

LEMMA ClearFailedRefines == IndInv /\ TakenInv /\ ClearFailed => Refines
<1> SUFFICES ASSUME IndInv, TakenInv, ClearFailed PROVE Refines
  OBVIOUS
<1>1. StoreTyped
  BY Parts
<1>2. /\ row' = [i \in Items |-> IF i \in FailedItems THEN NoRow ELSE row[i]]
      /\ cleared' = cleared \cup FailedItems
      /\ UNCHANGED <<remote, accepted, stored, wire, thread, batch>>
  BY DEF ClearFailed, serverVars
<1>3. ThreadTaken' /\ LinkInv' /\ ShownItems' = ShownItems
  BY <1>2 DEF TakenInv, ThreadTaken, LinkInv, ShownItems
<1>4. FailedItems \in SUBSET Failed
  BY DEF FailedItems, Failed, InState
<1>5. Pending' = Pending \ FailedItems /\ Failed' = Failed \ FailedItems
  BY <1>2 DEF Pending, Failed, InState, NoRow
<1>6. DeliveryNext
  BY <1>2, <1>3, <1>4, <1>5, Abstract
<1>7. \A i \in Items : row'[i].status # "none" => row[i].status # "none"
  BY <1>2 DEF NoRow
<1>8. QED
  BY <1>2, <1>3, <1>6, <1>7, RowStep

LEMMA HistoryPageRefines == ASSUME IndInv, TakenInv, NEW i \in Items, HistoryPage(i) PROVE Refines
<1>1. StoreTyped
  BY Parts
<1>2. /\ i \in stored /\ remote' = [remote EXCEPT ![i] = [delivery |-> "sent", linked |-> FALSE]]
      /\ UNCHANGED <<row, accepted, cleared, stored, wire, thread, batch>>
  BY DEF HistoryPage, serverVars
<1>3. ThreadTaken'
  BY <1>2 DEF TakenInv, ThreadTaken
<1>4. LinkInv' /\ ShownItems' = ShownItems \cup {i}
  BY <1>1, <1>2 DEF TakenInv, StoreTyped, LinkInv, ShownItems
<1>5. UNCHANGED <<Pending, Failed>>
  BY <1>2 DEF Pending, Failed, InState
<1>6. DeliveryNext
  BY <1>2, <1>4, <1>5, Abstract
<1>7. QED
  BY <1>2, <1>3, <1>4, <1>6, RowStep

LEMMA ServerRefines ==
    ASSUME IndInv, TakenInv, NEW i \in Items, ServerStores(i) \/ RequestLost(i)
    PROVE  Refines
<1>1. i \in accepted /\ UNCHANGED <<storeVars, thread, batch, accepted>> /\ wire' \subseteq accepted
  BY DEF ServerStores, RequestLost, storeVars, TakenInv, RowTaken
<1>2. ThreadTaken' /\ LinkInv' /\ UNCHANGED <<accepted, cleared, Pending, Failed, ShownItems>>
  BY <1>1 DEF TakenInv, ThreadTaken, LinkInv, storeVars, Pending, Failed, InState, ShownItems
<1>3. stored' = stored \/ stored' = stored \cup {i}
  BY DEF ServerStores, RequestLost
<1>4. DeliveryNext
  BY <1>1, <1>2, <1>3, Abstract
<1>5. RowTaken'
  BY <1>1, <1>3 DEF TakenInv, RowTaken, storeVars
<1>6. QED
  BY <1>2, <1>4, <1>5 DEF TakenInv, Refines

-----------------------------------------------------------------------------
LEMMA InitRefines == Init => TakenInv /\ Promise!Init
<1> SUFFICES ASSUME Init PROVE TakenInv /\ Promise!Init
  OBVIOUS
<1>1. \A t \in Threads : thread[t].pc \in {"new", "off"}
  BY NewThreads DEF Init, Threads
<1>2. TakenInv
  BY <1>1 DEF Init, TakenInv, ThreadTaken, RowTaken, LinkInv, Queued, InSend, NoRow, NoRemote
<1>3. Promise!Init
  BY DEF Init, Promise!Init, InState, NoRow, NoRemote
<1>4. QED
  BY <1>2, <1>3

LEMMA NextRefines == IndInv /\ TakenInv /\ [Next]_vars => Refines
<1> SUFFICES ASSUME IndInv, TakenInv, [Next]_vars PROVE Refines
  OBVIOUS
<1>1. CASE UNCHANGED vars
  BY <1>1, UnseenStep DEF TakenInv, ThreadTaken, RowTaken, vars, storeVars, serverVars
<1>2. CASE Next
  BY <1>2, SendRefines, EnqueueRefines, ButtonRefines, RetryRefines, HistoryPageRefines,
     ServerRefines, MarkRefines, CallRefines, RecordRefines, WorkerRefines, LoginRefines,
     EnterShellRefines, LogoutRefines, ExitRefines, ClearFailedRefines DEF Next
<1>3. QED
  BY <1>1, <1>2

(***************************************************************************)
(* The outbox does for the user what Delivery promises: a message taken    *)
(* once leaves the outbox because the server has it or because the user    *)
(* dropped it as failed, and what is shown as sent the server has.         *)
(***************************************************************************)
THEOREM DeliveryRefinement == Spec => DeliverySpec
<1>1. Init => IndInv /\ TakenInv /\ Promise!Init
  BY InitInv, InitRefines
<1>2. IndInv /\ TakenInv /\ [Next]_vars => IndInv' /\ TakenInv' /\ DeliveryNext
  BY NextInv, NextRefines DEF Refines
<1>3. DeliveryNext <=> [Promise!Next]_(Promise!deliveryVars)
  BY DEF DeliveryNext
<1>4. QED
  BY <1>1, <1>2, <1>3, PTL DEF Spec, DeliverySpec, Promise!Spec
=============================================================================
