----------------------------- MODULE MessageLog -----------------------------
(***************************************************************************)
(* What chatview promises about sending a message, with no transaction,    *)
(* retry, connection or process in sight.  A conversation is the pair of   *)
(* its participants and holds an append-only log whose entries are         *)
(* numbered 1, 2, 3, ... without a hole.  A sender that gives its message  *)
(* an idempotency key gets at most one entry for that key, however often   *)
(* it retries; an acknowledgement quotes an entry that is in the log.      *)
(*                                                                         *)
(* ChatSend implements this specification (Log!Spec there).                *)
(***************************************************************************)
EXTENDS Integers

CONSTANTS
    Users,   \* public keys
    Texts,   \* message bodies
    Keys,    \* client message ids
    Blank    \* the empty string

VARIABLES
    log,     \* the entries of all conversations
    size,    \* how many entries each conversation has
    acks     \* the entries senders have been told of

logVars == <<log, size, acks>>

Convs == {{u, v} : u, v \in Users}

\* Some entry of sender u carries key k; the blank key marks nothing.
Carried(u, k) == k # Blank /\ \E e \in log : e.sender = u /\ e.key = k

(***************************************************************************)
(* User u writes text t to v under a key no earlier message of u carries;  *)
(* the entry takes the next number of the conversation.                    *)
(***************************************************************************)
Append(u, v, t, k) ==
    LET conv == {u, v} IN
    /\ u # v
    /\ ~ Carried(u, k)
    /\ size' = [size EXCEPT ![conv] = @ + 1]
    /\ log' = log \cup
        {[conv |-> conv, sender |-> u, text |-> t, key |-> k, seq |-> size[conv] + 1]}
    /\ UNCHANGED acks

\* The sender of e learns that e is stored, and under which number.
Ack(e) ==
    /\ acks' = acks \cup {e}
    /\ UNCHANGED <<log, size>>

Init ==
    /\ log = {}
    /\ size = [c \in Convs |-> 0]
    /\ acks = {}

Next ==
    \/ \E u, v \in Users, t \in Texts, k \in Keys \cup {Blank} : Append(u, v, t, k)
    \/ \E e \in log : Ack(e)

Spec == Init /\ [][Next]_logVars
=============================================================================
