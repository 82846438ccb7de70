------------------------------ MODULE Delivery ------------------------------
(***************************************************************************)
(* What the client promises about a message the user has sent, with no     *)
(* goroutine, session, store or network in sight.  A message that is taken *)
(* is pending until it is settled, and it is settled only once the server  *)
(* has it.  It may fail meanwhile; the user then has it sent again or      *)
(* drops it, and nothing else is ever dropped.  What the conversation      *)
(* shows as sent, the server has.                                          *)
(*                                                                         *)
(* Outbox implements this specification (Promise!Spec there).              *)
(***************************************************************************)

CONSTANT Messages

VARIABLES
    taken,      \* messages the client has accepted
    pending,    \* those it is to deliver, the failed ones among them
    failed,     \* those it has given up until the user decides
    stored,     \* those the server has
    dropped,    \* those the user gave up
    shown       \* those the conversation shows under the server's id

deliveryVars == <<taken, pending, failed, stored, dropped, shown>>

\* The client takes a message over, once and for all.
Take(m) ==
    /\ m \notin taken
    /\ taken' = taken \cup {m}
    /\ pending' = pending \cup {m}
    /\ UNCHANGED <<failed, stored, dropped, shown>>

\* The server may have it long before the client knows.
Store(m) ==
    /\ m \in taken
    /\ stored' = stored \cup {m}
    /\ UNCHANGED <<taken, pending, failed, dropped, shown>>

\* The client learns that the server has it, and may show it at once.
Settle(m) ==
    /\ m \in pending \cap stored
    /\ pending' = pending \ {m}
    /\ failed' = failed \ {m}
    /\ shown' \in {shown, shown \cup {m}}
    /\ UNCHANGED <<taken, stored, dropped>>

\* A page of history shows it, settled or not.
Show(m) ==
    /\ m \in stored
    /\ shown' = shown \cup {m}
    /\ UNCHANGED <<taken, pending, failed, stored, dropped>>

Fail(m) ==
    /\ m \in pending
    /\ failed' = failed \cup {m}
    /\ UNCHANGED <<taken, pending, stored, dropped, shown>>

\* Failed messages are to be sent again.
Retry(ms) ==
    /\ failed' = failed \ ms
    /\ UNCHANGED <<taken, pending, stored, dropped, shown>>

\* The user gives failed messages up.
Drop(ms) ==
    /\ pending' = pending \ ms
    /\ failed' = failed \ ms
    /\ dropped' = dropped \cup ms
    /\ UNCHANGED <<taken, stored, shown>>

Init ==
    /\ taken = {} /\ pending = {} /\ failed = {}
    /\ stored = {} /\ dropped = {} /\ shown = {}

Next ==
    \/ \E m \in Messages : Take(m) \/ Store(m) \/ Settle(m) \/ Show(m) \/ Fail(m)
    \/ \E ms \in SUBSET failed : Retry(ms) \/ Drop(ms)

Spec == Init /\ [][Next]_deliveryVars
=============================================================================
