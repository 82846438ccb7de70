----------------------------- MODULE MCChatSend -----------------------------
(***************************************************************************)
(* Small instances of ChatSend for TLC.                                    *)
(***************************************************************************)
EXTENDS ChatSend, TLC

CONSTANTS alice, bob, carol, hi, yo, k1, h1, h2

Req(from, to, txt, k) == [sender |-> from, receiver |-> to, text |-> txt, key |-> k]

(***************************************************************************)
(* Alice's message to Bob, that key reused for another text and for        *)
(* another receiver, Bob's unkeyed answer in the same conversation, and a  *)
(* request that newSendMessageInput rejects.                               *)
(***************************************************************************)
MCRequests ==
    {Req(alice, bob, hi, k1), Req(alice, bob, yo, k1), Req(alice, carol, hi, k1),
     Req(bob, alice, hi, Blank), Req(alice, alice, hi, k1)}

\* For liveness: one key in two conversations, and an unkeyed message in one.
MCFewRequests ==
    {Req(alice, bob, hi, k1), Req(alice, carol, hi, k1), Req(bob, alice, hi, Blank)}

HandlerSymmetry == Permutations(Handlers)
=============================================================================
