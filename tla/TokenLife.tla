----------------------------- MODULE TokenLife -----------------------------
(***************************************************************************)
(* What the server promises about session tokens and bans, with no         *)
(* statement, lock, challenge or process in sight.  A token is issued at   *)
(* most once and lives until it expires or its owner is banned.  A ban     *)
(* ends every token that lived when it was asked for, and may end those    *)
(* issued meanwhile.  Only the administrator's call lifts a ban, and the   *)
(* start of the server that of the administrator himself.                  *)
(*                                                                         *)
(* Accounts implements this specification (Life!Spec there).               *)
(***************************************************************************)

CONSTANTS
    Tokens, Users,
    Root,       \* the configured administrator
    OwnerOf     \* the user of a token

VARIABLES
    fresh,      \* tokens not issued yet, nor thrown away
    live,       \* tokens in the table
    banned,     \* users who are banned
    called,     \* whom a call under way is to ban or unban
    doomed      \* his tokens that lived when the call began

lifeVars == <<fresh, live, banned, called, doomed>>

TokensOf(u) == {t \in live : OwnerOf[t] = u}

\* A login gets in: banned or not, the user then has a token.
Issue(t) ==
    /\ t \in fresh
    /\ fresh' = fresh \ {t}
    /\ live' = live \cup {t}
    /\ UNCHANGED <<banned, called, doomed>>

\* A login does not get in.
Discard(t) ==
    /\ t \in fresh
    /\ fresh' = fresh \ {t}
    /\ UNCHANGED <<live, banned, called, doomed>>

Expire(t) ==
    /\ live' = live \ {t}
    /\ UNCHANGED <<fresh, banned, called, doomed>>

Begin(u) ==
    /\ called = {}
    /\ called' = {u}
    /\ doomed' = TokensOf(u)
    /\ UNCHANGED <<fresh, live, banned>>

\* The call takes effect, with every token that was doomed.
Ban(u, ts) ==
    /\ u \in called
    /\ doomed \cap live \subseteq ts
    /\ banned' = banned \cup {u}
    /\ live' = live \ ts
    /\ called' = {} /\ doomed' = {}
    /\ UNCHANGED fresh

Unban(u) ==
    /\ u \in called
    /\ banned' = banned \ {u}
    /\ called' = {} /\ doomed' = {}
    /\ UNCHANGED <<fresh, live>>

\* The call fails, or the process stops and the logins fail with it.
Stop(ts) ==
    /\ fresh' = fresh \ ts
    /\ called' = {} /\ doomed' = {}
    /\ UNCHANGED <<live, banned>>

Reseed ==
    /\ banned' = banned \ {Root}
    /\ UNCHANGED <<fresh, live, called, doomed>>

Init ==
    /\ fresh = Tokens /\ live = {}
    /\ banned = {} /\ called = {} /\ doomed = {}

Next ==
    \/ Reseed
    \/ \E ts \in SUBSET fresh : Stop(ts)
    \/ \E t \in fresh : Issue(t) \/ Discard(t)
    \/ \E t \in live : Expire(t)
    \/ \E u \in Users : Begin(u)
    \/ \E u \in called : Unban(u) \/ \E ts \in SUBSET TokensOf(u) : Ban(u, ts)

Spec == Init /\ [][Next]_lifeVars
=============================================================================
