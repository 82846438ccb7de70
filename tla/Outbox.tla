------------------------------- MODULE Outbox -------------------------------
(***************************************************************************)
(* The client's outbox: a message is put into a SQLite queue, sent at once *)
(* by the goroutine of the Send button, and sent again by a background     *)
(* worker until the server acknowledges it or the attempts are used up.    *)
(* Goroutines of an ended session live on until their call returns, the    *)
(* store serves whichever account it was last given, the network loses     *)
(* requests and answers, a request may be carried out after its deadline.  *)
(*                                                                         *)
(* One account, Me, logs in and out on the device.  The store keys every   *)
(* row by the owner set at the moment of the statement, Me or the empty    *)
(* string Logout sets.  A message is its client message id.  What the      *)
(* server does with a repeated id is the subject of ChatSend; here it      *)
(* keeps the set of ids it has stored.                                     *)
(***************************************************************************)
EXTENDS Integers, FiniteSets

CONSTANTS
    Items,         \* the messages the user writes; each has an id of its own
    Workers,       \* bound of the model: outbox workers alive at a time
    Me, NoOwner,   \* the account, and the owner "" of a locked client
    NoItem,        \* the item of a worker that is not sending
    MaxAttempts,   \* 5 in the code
    StoreMayFail   \* whether SQLite may answer SQLITE_BUSY or an I/O error

ASSUME MaxAttemptsAssumption == MaxAttempts \in Nat \ {0}
ASSUME StoreMayFailAssumption == StoreMayFail \in BOOLEAN
ASSUME ThreadsAssumption == Items \cap Workers = {}

VARIABLES
    ui,            \* "auth" or "shell": which view the application shows
    login,         \* a Login whose callback is yet to run: its result, or "none"
    sending,       \* the composer's guard against a second send
    owner,         \* storage.Store.owner
    token,         \* rpcclient holds a session token
    offline,       \* core.Service.offline
    row,           \* table outbox
    local,         \* table messages, the row with the client's id
    remote,        \* table messages, the row with the server's id, of owner Me
    thread,        \* goroutines: the Send button's one per item, and the workers
    batch,         \* what a worker's DueOutbox returned and it has not yet sent
    wire,          \* requests under way
    stored,        \* ids the server has stored
    accepted,      \* history: items EnqueueOutbox committed
    cleared        \* history: items the user removed with Clear Failed

sessionVars == <<ui, login, sending, owner, token, offline>>
storeVars == <<row, local, remote, accepted, cleared>>
serverVars == <<wire, stored>>
vars == <<sessionVars, storeVars, serverVars, thread, batch>>

Threads == Items \cup Workers

NoRow == [status |-> "none", owner |-> NoOwner, attempts |-> 0, due |-> FALSE]

NoLocal == [delivery |-> "none", owner |-> NoOwner]

NoRemote == [delivery |-> "none", linked |-> FALSE]

Asleep == [pc |-> "off", live |-> FALSE, item |-> NoItem, tries |-> 0]

Idle(i) == [pc |-> "new", live |-> FALSE, item |-> i, tries |-> 0]

Init ==
    /\ ui = "auth" /\ login = "none" /\ sending = FALSE
    /\ owner = NoOwner /\ token = FALSE /\ offline = FALSE
    /\ row = [i \in Items |-> NoRow]
    /\ local = [i \in Items |-> NoLocal]
    /\ remote = [i \in Items |-> NoRemote]
    /\ thread = [t \in Threads |-> IF t \in Items THEN Idle(t) ELSE Asleep]
    /\ batch = [w \in Workers |-> {}]
    /\ wire = {} /\ stored = {}
    /\ accepted = {} /\ cleared = {}

-----------------------------------------------------------------------------
(***************************************************************************)
(* The statements of storage/outbox.go, for the owner the store has now.   *)
(***************************************************************************)
Mine(i) == row[i].status # "none" /\ row[i].owner = owner

\* UPDATE messages SET delivery ... WHERE client_msg_id = id OR id = id.
SetDelivery(i, d) ==
    /\ local' = IF local[i].delivery # "none" /\ local[i].owner = owner
                THEN [local EXCEPT ![i].delivery = d] ELSE local
    /\ remote' = IF owner = Me /\ remote[i].linked
                 THEN [remote EXCEPT ![i].delivery = d] ELSE remote

EnqueueOutbox(i) ==
    /\ row' = [row EXCEPT ![i] =
                [status |-> "queued", owner |-> owner, attempts |-> 0, due |-> TRUE]]
    /\ local' = [local EXCEPT ![i] = [delivery |-> "pending", owner |-> owner]]
    /\ accepted' = accepted \cup {i}
    /\ UNCHANGED <<remote, cleared>>

MarkOutboxSending(i) ==
    /\ row' = IF Mine(i) THEN [row EXCEPT ![i].status = "sending"] ELSE row
    /\ UNCHANGED <<local, remote, accepted, cleared>>

(***************************************************************************)
(* One transaction: without a row of this owner it fails and changes       *)
(* nothing.  The upsert leaves client_msg_id alone when a history page has *)
(* brought the server's row before.                                        *)
(***************************************************************************)
MarkOutboxSent(i) ==
    IF ~ Mine(i) THEN UNCHANGED storeVars ELSE
    /\ row' = [row EXCEPT ![i] = NoRow]
    /\ local' = IF local[i].owner = owner THEN [local EXCEPT ![i] = NoLocal] ELSE local
    /\ remote' = IF owner # Me THEN remote ELSE [remote EXCEPT ![i] =
            [delivery |-> "sent",
             linked |-> IF @.delivery = "none" THEN TRUE ELSE @.linked]]
    /\ UNCHANGED <<accepted, cleared>>

\* The cached message is updated whether or not the outbox still has the row.
MarkOutboxRetry(i, n) ==
    /\ row' = IF Mine(i)
              THEN [row EXCEPT ![i] = [status |-> "queued", owner |-> owner,
                                       attempts |-> n, due |-> FALSE]]
              ELSE row
    /\ SetDelivery(i, "pending")
    /\ UNCHANGED <<accepted, cleared>>

MarkOutboxFailed(i, n) ==
    /\ row' = IF Mine(i)
              THEN [row EXCEPT ![i].status = "failed", ![i].attempts = n, ![i].due = TRUE]
              ELSE row
    /\ SetDelivery(i, "failed")
    /\ UNCHANGED <<accepted, cleared>>

\* The rows with status `from` are queued again, due at once.
Requeue(from) ==
    row' = [i \in Items |->
              IF Mine(i) /\ row[i].status = from
              THEN [row[i] EXCEPT !.status = "queued", !.due = TRUE] ELSE row[i]]

DueOutbox ==
    {[item |-> i, tries |-> row[i].attempts] :
        i \in {j \in Items : Mine(j) /\ row[j].status = "queued" /\ row[j].due}}

-----------------------------------------------------------------------------
(***************************************************************************)
(* core.SendMessage, from the Send button of a shell: one at a time, in    *)
(* the context of the session.                                             *)
(***************************************************************************)
Goto(t, pc) == thread' = [thread EXCEPT ![t].pc = pc]

\* Mutant: the callback of a send does not open the composer.
KeepClosed(t) ==
    /\ Goto(t, IF t \in Items THEN "done" ELSE "next")
    /\ UNCHANGED sending

\* The goroutine returns; the callback of an ended session is dropped.
Finish(t) ==
    IF t \in Items
    THEN Goto(t, "done") /\ sending' = (sending /\ ~ thread[t].live)
    ELSE Goto(t, "next") /\ UNCHANGED sending

Send(i) ==
    /\ ui = "shell" /\ ~ sending
    /\ thread[i].pc = "new"
    /\ thread' = [thread EXCEPT ![i].pc = "enqueue", ![i].live = TRUE]
    /\ sending' = TRUE
    /\ UNCHANGED <<ui, login, owner, token, offline, storeVars, serverVars, batch>>

Enqueue(i) ==
    /\ thread[i].pc = "enqueue"
    /\ EnqueueOutbox(i)
    /\ Goto(i, "queued")
    /\ UNCHANGED <<sessionVars, serverVars, batch>>

\* The text goes back into the composer.
EnqueueFails(i) ==
    /\ StoreMayFail
    /\ thread[i].pc = "enqueue"
    /\ Finish(i)
    /\ UNCHANGED <<ui, login, owner, token, offline, storeVars, serverVars, batch>>

\* if s.IsOffline(): the message stays queued.
AfterEnqueue(i) ==
    /\ thread[i].pc = "queued"
    /\ IF offline THEN Finish(i) ELSE Goto(i, "mark") /\ UNCHANGED sending
    /\ UNCHANGED <<ui, login, owner, token, offline, storeVars, serverVars, batch>>

-----------------------------------------------------------------------------
(***************************************************************************)
(* core.sendOutboxItem, run by the Send button's goroutine and by workers. *)
(* The attempt counts from the row as it was read; a count past            *)
(* MaxAttempts is kept at MaxAttempts, which no comparison tells apart.    *)
(***************************************************************************)
Attempt(t) == IF thread[t].tries < MaxAttempts THEN thread[t].tries + 1 ELSE MaxAttempts

Mark(t) ==
    /\ thread[t].pc = "mark"
    /\ MarkOutboxSending(thread[t].item)
    /\ Goto(t, "call")
    /\ UNCHANGED <<sessionVars, serverVars, batch>>

\* _ = s.cache.MarkOutboxSending: the error is ignored.
MarkFails(t) ==
    /\ StoreMayFail
    /\ thread[t].pc = "mark"
    /\ Goto(t, "call")
    /\ UNCHANGED <<sessionVars, storeVars, serverVars, batch>>

\* A cancelled context or a missing token fails the call with no effect.
Call(t) ==
    /\ thread[t].pc = "call"
    /\ IF thread[t].live /\ token
       THEN wire' = wire \cup {thread[t].item} /\ Goto(t, "wait")
       ELSE UNCHANGED wire /\ Goto(t, "error")
    /\ UNCHANGED <<sessionVars, storeVars, stored, batch>>

ReplyOK(t) ==
    /\ thread[t].pc = "wait"
    /\ thread[t].item \in stored
    /\ Goto(t, "ok")
    /\ UNCHANGED <<sessionVars, storeVars, serverVars, batch>>

\* An error of the server, a lost answer, the deadline, a cancelled context.
ReplyError(t) ==
    /\ thread[t].pc = "wait"
    /\ Goto(t, "error")
    /\ UNCHANGED <<sessionVars, storeVars, serverVars, batch>>

\* Mutant: an answer is taken for an acknowledgement.
RecordAnySent(t) ==
    LET i == thread[t].item IN
    /\ thread[t].pc \in {"ok", "error"}
    /\ IF thread[t].pc = "ok" \/ Attempt(t) >= MaxAttempts
       THEN MarkOutboxSent(i) ELSE MarkOutboxRetry(i, Attempt(t))
    /\ Finish(t)
    /\ UNCHANGED <<ui, login, owner, token, offline, serverVars, batch>>

\* Mutant: the attempts are not carried over to the row.
RecordUncounted(t) ==
    LET i == thread[t].item IN
    /\ thread[t].pc \in {"ok", "error"}
    /\ IF thread[t].pc = "ok" THEN MarkOutboxSent(i) ELSE MarkOutboxRetry(i, 0)
    /\ Finish(t)
    /\ UNCHANGED <<ui, login, owner, token, offline, serverVars, batch>>

Record(t) ==
    LET i == thread[t].item IN
    /\ thread[t].pc \in {"ok", "error"}
    /\ IF thread[t].pc = "ok" THEN MarkOutboxSent(i)
       ELSE IF Attempt(t) >= MaxAttempts THEN MarkOutboxFailed(i, Attempt(t))
       ELSE MarkOutboxRetry(i, Attempt(t))
    /\ Finish(t)
    /\ UNCHANGED <<ui, login, owner, token, offline, serverVars, batch>>

RecordFails(t) ==
    /\ StoreMayFail
    /\ thread[t].pc \in {"ok", "error"}
    /\ Finish(t)
    /\ UNCHANGED <<ui, login, owner, token, offline, storeVars, serverVars, batch>>

-----------------------------------------------------------------------------
(***************************************************************************)
(* The worker's loop: processOutbox reads the due rows once and sends them *)
(* one after the other, then waits for the ticker.                         *)
(***************************************************************************)
Poll(w) ==
    /\ thread[w].pc = "poll" /\ thread[w].live
    /\ DueOutbox # {}
    /\ batch' = [batch EXCEPT ![w] = DueOutbox]
    /\ Goto(w, "next")
    /\ UNCHANGED <<sessionVars, storeVars, serverVars>>

\* Rows of the same second come in any order; the context is checked before each.
NextItem(w) ==
    /\ thread[w].pc = "next" /\ thread[w].live
    /\ \/ \E b \in batch[w] :
            /\ thread' = [thread EXCEPT ![w].pc = "mark", ![w].item = b.item, ![w].tries = b.tries]
            /\ batch' = [batch EXCEPT ![w] = @ \ {b}]
       \/ /\ batch[w] = {}
          /\ thread' = [thread EXCEPT ![w] = [Asleep EXCEPT !.pc = "poll", !.live = TRUE]]
          /\ UNCHANGED batch
    /\ UNCHANGED <<sessionVars, storeVars, serverVars>>

WorkerExits(w) ==
    /\ thread[w].pc \in {"poll", "next"} /\ ~ thread[w].live
    /\ thread' = [thread EXCEPT ![w] = Asleep]
    /\ batch' = [batch EXCEPT ![w] = {}]
    /\ UNCHANGED <<sessionVars, storeVars, serverVars>>

\* The retry time of a row comes.
RetryDue(i) ==
    /\ row[i].status = "queued" /\ ~ row[i].due
    /\ row' = [row EXCEPT ![i].due = TRUE]
    /\ UNCHANGED <<sessionVars, local, remote, accepted, cleared, serverVars, thread, batch>>

-----------------------------------------------------------------------------
(***************************************************************************)
(* Sessions.  Login runs in a goroutine of its own, from the auth view or, *)
(* to reconnect, from the shell; what the UI does about its result is a    *)
(* callback that runs later.  If the server is unreachable the login is an *)
(* offline one, which leaves an earlier token in place.                    *)
(***************************************************************************)
Login(result) ==
    /\ login = "none"
    /\ login' = result
    /\ owner' = Me
    /\ token' = (token \/ result = "online")
    /\ offline' = (result = "offline")
    /\ UNCHANGED <<ui, sending, storeVars, serverVars, thread, batch>>

\* Every goroutine of the session has its context cancelled.
Cancelled == [t \in Threads |-> [thread[t] EXCEPT !.live = FALSE]]

(***************************************************************************)
(* The callback: a new session context, the shell and, if the login was an *)
(* online one, startOutboxWorker, which re-queues the rows left "sending". *)
(* A session that was locked since then starts its worker all the same.    *)
(***************************************************************************)
EnterShell(recovered) ==
    /\ login # "none"
    /\ recovered \/ StoreMayFail
    /\ login' = "none"
    /\ ui' = "shell"
    /\ IF login = "online" /\ ~ offline
       THEN /\ \E w \in Workers :
                /\ thread[w].pc = "off"
                /\ thread' = [Cancelled EXCEPT ![w].pc = "poll", ![w].live = TRUE]
            /\ IF recovered THEN Requeue("sending") ELSE UNCHANGED row
       ELSE thread' = Cancelled /\ UNCHANGED row
    /\ UNCHANGED <<sending, owner, token, offline, local, remote, accepted, cleared,
                   serverVars, batch>>

\* The Lock button, or a ForceOffline event.
Logout ==
    /\ ui = "shell"
    /\ ui' = "auth"
    /\ sending' = FALSE
    /\ owner' = NoOwner
    /\ token' = FALSE
    /\ offline' = FALSE
    /\ thread' = Cancelled
    /\ UNCHANGED <<login, storeVars, serverVars, batch>>

\* The process ends; the database stays, and so do requests under way.
Exit ==
    /\ ui' = "auth" /\ login' = "none" /\ sending' = FALSE
    /\ owner' = NoOwner /\ token' = FALSE /\ offline' = FALSE
    /\ thread' = [t \in Threads |->
                    IF t \in Workers THEN Asleep
                    ELSE IF thread[t].pc = "new" THEN Idle(t)
                    ELSE [Idle(t) EXCEPT !.pc = "done"]]
    /\ batch' = [w \in Workers |-> {}]
    /\ UNCHANGED <<storeVars, serverVars>>

-----------------------------------------------------------------------------
\* The Retry button; the attempts already made are not forgotten.
RetryFailed ==
    /\ ui = "shell" /\ ~ offline
    /\ \E i \in Items : Mine(i) /\ row[i].status = "failed"
    /\ Requeue("failed")
    /\ UNCHANGED <<sessionVars, local, remote, accepted, cleared, serverVars, thread, batch>>

FailedItems == {i \in Items : Mine(i) /\ row[i].status = "failed"}

\* Mutant: the rows of the owner are cleared whatever their status.
ClearAll ==
    /\ ui = "shell"
    /\ \E i \in Items : Mine(i)
    /\ row' = [i \in Items |-> IF Mine(i) THEN NoRow ELSE row[i]]
    /\ local' = [i \in Items |-> IF i \in FailedItems THEN NoLocal ELSE local[i]]
    /\ cleared' = cleared \cup FailedItems
    /\ UNCHANGED <<sessionVars, remote, accepted, serverVars, thread, batch>>

(***************************************************************************)
(* The Clear Failed button, confirmed by the user.  The two DELETEs, each  *)
(* committed by itself, are one step here, that of the second: no other    *)
(* step reads what the first has taken from `local`, so that what others   *)
(* do between the two goes on in the same way before this step.  (Only     *)
(* that a row that fails between them keeps its `local` is not seen.)      *)
(***************************************************************************)
ClearFailed ==
    /\ ui = "shell"
    /\ FailedItems # {}
    /\ row' = [i \in Items |-> IF i \in FailedItems THEN NoRow ELSE row[i]]
    /\ local' = [i \in Items |->
            IF i \in FailedItems /\ local[i].owner = owner THEN NoLocal ELSE local[i]]
    /\ cleared' = cleared \cup FailedItems
    /\ UNCHANGED <<sessionVars, remote, accepted, serverVars, thread, batch>>

\* A page of history with the message arrives and SaveMessages caches it.
HistoryPage(i) ==
    /\ ui = "shell" /\ owner = Me /\ token /\ ~ offline
    /\ i \in stored
    /\ remote' = [remote EXCEPT ![i] = [delivery |-> "sent", linked |-> FALSE]]
    /\ UNCHANGED <<sessionVars, row, local, accepted, cleared, serverVars, thread, batch>>

-----------------------------------------------------------------------------
\* The server carries a request out, perhaps after the client gave it up.
ServerStores(i) ==
    /\ i \in wire
    /\ wire' = wire \ {i}
    /\ stored' = stored \cup {i}
    /\ UNCHANGED <<sessionVars, storeVars, thread, batch>>

\* The request is lost, or refused by the server.
RequestLost(i) ==
    /\ i \in wire
    /\ wire' = wire \ {i}
    /\ UNCHANGED <<sessionVars, storeVars, stored, thread, batch>>

-----------------------------------------------------------------------------
Next ==
    \/ \E i \in Items :
        \/ Send(i) \/ Enqueue(i) \/ EnqueueFails(i) \/ AfterEnqueue(i)
        \/ RetryDue(i) \/ HistoryPage(i) \/ ServerStores(i) \/ RequestLost(i)
    \/ \E t \in Threads :
        \/ Mark(t) \/ MarkFails(t) \/ Call(t) \/ ReplyOK(t) \/ ReplyError(t)
        \/ Record(t) \/ RecordFails(t)
    \/ \E w \in Workers : Poll(w) \/ NextItem(w) \/ WorkerExits(w)
    \/ \E result \in {"online", "offline"} : Login(result)
    \/ \E recovered \in BOOLEAN : EnterShell(recovered)
    \/ Logout \/ Exit
    \/ RetryFailed \/ ClearFailed

Spec == Init /\ [][Next]_vars

(***************************************************************************)
(* Goroutines run, every call returns, by its 10 s deadline at the latest, *)
(* the tickers tick and the UI thread runs its callbacks.                  *)
(***************************************************************************)
Fairness ==
    /\ \A i \in Items : WF_vars(Enqueue(i)) /\ WF_vars(RetryDue(i))
    /\ \A i \in Items : WF_vars(AfterEnqueue(i))
    /\ \A t \in Threads :
        WF_vars(Mark(t) \/ Call(t) \/ ReplyOK(t) \/ ReplyError(t) \/ Record(t))
    /\ \A w \in Workers : WF_vars(Poll(w) \/ NextItem(w) \/ WorkerExits(w))
    /\ WF_vars(EnterShell(TRUE))

FairSpec == Spec /\ Fairness

-----------------------------------------------------------------------------
RowState == [status : {"none", "queued", "sending", "failed"}, owner : {Me, NoOwner},
             attempts : 0 .. MaxAttempts, due : BOOLEAN]

LocalState == [delivery : {"none", "pending", "failed"}, owner : {Me, NoOwner}]

RemoteState == [delivery : {"none", "sent", "pending", "failed"}, linked : BOOLEAN]

ThreadState ==
    [pc : {"new", "off", "enqueue", "queued", "mark", "call", "wait", "ok", "error", "done",
           "poll", "next"},
     live : BOOLEAN, item : Items \cup {NoItem}, tries : 0 .. MaxAttempts]

TypeOK ==
    /\ ui \in {"auth", "shell"} /\ login \in {"none", "online", "offline"}
    /\ sending \in BOOLEAN
    /\ owner \in {Me, NoOwner} /\ token \in BOOLEAN /\ offline \in BOOLEAN
    /\ row \in [Items -> RowState]
    /\ local \in [Items -> LocalState]
    /\ remote \in [Items -> RemoteState]
    /\ thread \in [Threads -> ThreadState]
    /\ batch \in [Workers -> SUBSET [item : Items, tries : 0 .. MaxAttempts]]
    /\ wire \subseteq Items /\ stored \subseteq Items
    /\ accepted \subseteq Items /\ cleared \subseteq Items

(***************************************************************************)
(* A message taken into the outbox is never lost silently: the server has  *)
(* it, or the outbox still has its row, or the user removed it as failed.  *)
(* Crashes, failing statements, lost answers, locked sessions and two      *)
(* goroutines sending one row do not change that.                          *)
(***************************************************************************)
NoSilentLoss ==
    \A i \in accepted : i \in stored \/ row[i].status # "none" \/ i \in cleared

(***************************************************************************)
(* MESSAGE_DELIVERY_SENT: a message shown as sent is stored by the server. *)
(***************************************************************************)
SentIsStored == \A i \in Items : remote[i].delivery # "none" => i \in stored

(***************************************************************************)
(* The whole of it implements Delivery: a row leaves the outbox because    *)
(* the server has the message or because the user clears it while it is    *)
(* failed, whichever goroutine of whichever session does what, in whatever *)
(* order, between the reads and the writes of another.                     *)
(***************************************************************************)
InState(status) == {i \in Items : row[i].status \in status}

Promise == INSTANCE Delivery WITH
    Messages <- Items, taken <- accepted, pending <- InState({"queued", "sending", "failed"}),
    failed <- InState({"failed"}), dropped <- cleared,
    shown <- {i \in Items : remote[i].delivery # "none"}

DeliverySpec == Promise!Spec

(***************************************************************************)
(* In a session that stays online, with no further reconnect, a queued     *)
(* message does not stay queued or "sending" for ever, also if an earlier  *)
(* session, or the crash of one, left it so.                               *)
(***************************************************************************)
Online == ui = "shell" /\ owner = Me /\ token /\ ~ offline /\ login = "none"

QueuedResolves ==
    \A i \in Items :
        <>[]Online => [](row[i].owner = Me /\ row[i].status \in {"queued", "sending"}
                            => <>(row[i].status \in {"none", "failed"}))

(***************************************************************************)
(* The composer, closed while a message is being sent, opens again, unless *)
(* a reconnect came in between: the new session drops the callback of the  *)
(* goroutine it cancelled, and the composer stays closed.                  *)
(***************************************************************************)
Orphaned == \A i \in Items : ~ thread[i].live

ComposerReopens == sending ~> (~ sending \/ Orphaned)
=============================================================================
