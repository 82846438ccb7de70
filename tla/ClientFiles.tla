----------------------------- MODULE ClientFiles -----------------------------
(***************************************************************************)
(* What the client keeps on disk, and the start of the process.            *)
(*                                                                         *)
(* storage.Open brings cache-go.db from the schema without owners to the   *)
(* one with: for every table with an old primary key it runs ALTER TABLE   *)
(* RENAME, CREATE TABLE, INSERT ... SELECT and DROP TABLE, each statement  *)
(* a transaction of its own; then it creates what is missing.  A failed    *)
(* read of the schema is taken for an answer.  The identity file is        *)
(* written in place.  The process may be killed between any two steps, and *)
(* a second one may be started on the same directory.                      *)
(*                                                                         *)
(* Of a row its owner and id are kept; nothing is deleted.  A statement    *)
(* that fails for want of disk space ends the process like a kill.         *)
(***************************************************************************)
EXTENDS Integers, Sequences, FiniteSets

CONSTANTS
    Processes,
    Tables,         \* friends, messages and outbox, in the order they are migrated
    Indexed,        \* the tables with an index on owner_pub_key: the last two
    Owners,         \* public keys
    Anonymous,      \* the owner '' of migrated rows
    Ids,            \* primary keys of rows, without the owner
    Identities,     \* what an identity file may hold: a key under a PIN
    None            \* no identity file

ASSUME TablesAssumption == Tables \in Seq(STRING) /\ Len(Tables) > 0 /\
    \A i, j \in 1 .. Len(Tables) : Tables[i] = Tables[j] => i = j
ASSUME AnonymousAssumption == Anonymous \notin Owners
ASSUME FileAssumption == None \notin Identities /\ "torn" \notin Identities /\ None # "torn"

VARIABLES
    table,      \* the database, for each table
    proc,       \* the processes
    file,       \* the identity file
    saved,      \* history: the rows that were stored in each table
    reported,   \* history: the identity last reported as saved, None once a write begins
    mishaps     \* history: what happened besides one process at a time running to its end

vars == <<table, proc, file, saved, reported, mishaps>>

Names == {Tables[i] : i \in 1 .. Len(Tables)}

Rows == (Owners \cup {Anonymous}) \X Ids

IdsOf(rows) == {r[2] : r \in rows}

NoTable == [main |-> "none", rows |-> {}, legacy |-> FALSE, left |-> {}]

Off == [pc |-> "off", at |-> 1, identity |-> None]

Init ==
    /\ table \in [Names -> {[NoTable EXCEPT !.main = "old", !.rows = {Anonymous} \X ids] :
                                ids \in SUBSET Ids} \cup {NoTable}]
    /\ proc = [p \in Processes |-> Off]
    /\ file = None
    /\ saved = [t \in Names |-> table[t].rows]
    /\ reported = None
    /\ mishaps = {}

-----------------------------------------------------------------------------
At(p, pc) == proc[p].pc = pc

Goto(p, pc) == proc' = [proc EXCEPT ![p].pc = pc]

Current(p) == Tables[proc[p].at]

\* On to the next table, or to the first one of what comes after.
NextTable(p, same, after) ==
    proc' = [proc EXCEPT ![p] =
        IF @.at < Len(Tables) THEN [@ EXCEPT !.pc = same, !.at = proc[p].at + 1]
        ELSE [@ EXCEPT !.pc = after, !.at = 1]]

SetTable(p, new) ==
    /\ table' = [table EXCEPT ![Current(p)] = new]
    /\ UNCHANGED <<file, saved, reported, mishaps>>

Start(p) ==
    /\ At(p, "off")
    /\ Goto(p, "exists")
    /\ mishaps' = IF \E q \in Processes \ {p} : ~ At(q, "off")
                  THEN mishaps \cup {"shared"} ELSE mishaps
    /\ UNCHANGED <<table, file, saved, reported>>

\* tableExists and primaryKeyColumns report no error: a read that fails tells
\* that there is no table, or no primary key.
TableExists(p) ==
    /\ At(p, "exists")
    /\ \E failed \in BOOLEAN :
        /\ IF failed \/ table[Current(p)].main = "none"
           THEN NextTable(p, "exists", "ensure")
           ELSE Goto(p, "columns")
        /\ mishaps' = IF failed THEN mishaps \cup {"misread"} ELSE mishaps
    /\ UNCHANGED <<table, file, saved, reported>>

PrimaryKeyColumns(p) ==
    /\ At(p, "columns")
    /\ \E failed \in BOOLEAN :
        /\ IF ~ failed /\ table[Current(p)].main = "new"
           THEN NextTable(p, "exists", "ensure")
           ELSE Goto(p, "rename")
        /\ mishaps' = IF failed THEN mishaps \cup {"misread"} ELSE mishaps
    /\ UNCHANGED <<table, file, saved, reported>>

\* A statement of migrateFriendsSchema and its like fails: Open returns the
\* error, and main exits.
StatementFails(p) ==
    /\ Goto(p, "failed")
    /\ UNCHANGED <<table, file, saved, reported, mishaps>>

\* Mutant: a table left by an earlier migration is dropped first.
RenameOver(p) ==
    /\ At(p, "rename")
    /\ LET t == table[Current(p)]
       IN  IF t.main # "none"
           THEN /\ SetTable(p, [main |-> "none", rows |-> {}, legacy |-> TRUE, left |-> t.rows])
                /\ Goto(p, "create")
           ELSE StatementFails(p)

\* ALTER TABLE t RENAME TO t_legacy, with the statements on columns and
\* indexes before it.
Rename(p) ==
    /\ At(p, "rename")
    /\ LET t == table[Current(p)]
       IN  IF t.main # "none" /\ ~ t.legacy
           THEN /\ SetTable(p, [main |-> "none", rows |-> {}, legacy |-> TRUE, left |-> t.rows])
                /\ Goto(p, "create")
           ELSE StatementFails(p)

Create(p) ==
    /\ At(p, "create")
    /\ IF table[Current(p)].main = "none"
       THEN /\ SetTable(p, [table[Current(p)] EXCEPT !.main = "new"])
            /\ Goto(p, "copy")
       ELSE StatementFails(p)

\* Mutant: the migrated rows are given to a user.
CopyToOwners(p) ==
    /\ At(p, "copy")
    /\ LET t == table[Current(p)]
       IN  SetTable(p, [t EXCEPT !.rows = @ \cup (Owners \X IdsOf(t.left))])
    /\ Goto(p, "drop")

\* INSERT OR REPLACE ... SELECT '', ...
Copy(p) ==
    /\ At(p, "copy")
    /\ LET t == table[Current(p)]
       IN  SetTable(p, [t EXCEPT !.rows = @ \cup ({Anonymous} \X IdsOf(t.left))])
    /\ Goto(p, "drop")

DropLegacy(p) ==
    /\ At(p, "drop")
    /\ SetTable(p, [table[Current(p)] EXCEPT !.legacy = FALSE, !.left = {}])
    /\ NextTable(p, "exists", "ensure")

\* Mutant: only old tables are brought up to date.
EnsureNone(p) ==
    /\ At(p, "ensure")
    /\ NextTable(p, "ensure", "serving")
    /\ UNCHANGED <<table, file, saved, reported, mishaps>>

\* Mutant: without IF NOT EXISTS.
CreateAll(p) ==
    /\ At(p, "ensure")
    /\ IF table[Current(p)].main # "none"
       THEN StatementFails(p)
       ELSE /\ SetTable(p, [table[Current(p)] EXCEPT !.main = "new"])
            /\ NextTable(p, "ensure", "serving")

\* CREATE TABLE IF NOT EXISTS, and CREATE INDEX, which fails on a table
\* without owners.
EnsureTable(p) ==
    /\ At(p, "ensure")
    /\ LET t == table[Current(p)]
       IN  IF t.main = "old" /\ Current(p) \in Indexed
           THEN StatementFails(p)
           ELSE /\ SetTable(p, [t EXCEPT !.main = IF @ = "none" THEN "new" ELSE @])
                /\ NextTable(p, "ensure", "serving")

\* SaveFriends, SaveMessages, EnqueueOutbox, by their first statement.
Save(p, t, row) ==
    /\ At(p, "serving")
    /\ table[t].main = "new"
    /\ table' = [table EXCEPT ![t].rows = @ \cup {row}]
    /\ saved' = [saved EXCEPT ![t] = @ \cup {row}]
    /\ UNCHANGED <<proc, file, reported, mishaps>>

-----------------------------------------------------------------------------
(***************************************************************************)
(* Create and Import: os.WriteFile truncates the file and writes it.       *)
(***************************************************************************)
Truncate(p, identity) ==
    /\ At(p, "serving")
    /\ file' = "torn"
    /\ reported' = None
    /\ proc' = [proc EXCEPT ![p].pc = "writing", ![p].identity = identity]
    /\ UNCHANGED <<table, saved, mishaps>>

WriteFile(p) ==
    /\ At(p, "writing")
    /\ file' = proc[p].identity
    /\ reported' = proc[p].identity
    /\ proc' = [proc EXCEPT ![p].pc = "serving", ![p].identity = None]
    /\ UNCHANGED <<table, saved, mishaps>>

\* Mutant: the error is not looked at.
WriteFailsSilently(p) ==
    /\ At(p, "writing")
    /\ file' = "torn"
    /\ reported' = proc[p].identity
    /\ proc' = [proc EXCEPT ![p].pc = "serving", ![p].identity = None]
    /\ UNCHANGED <<table, saved, mishaps>>

WriteFails(p) ==
    /\ At(p, "writing")
    /\ file' = "torn"
    /\ proc' = [proc EXCEPT ![p].pc = "serving", ![p].identity = None]
    /\ UNCHANGED <<table, saved, reported, mishaps>>

\* The window is closed, or the process is killed.
Ends(p) ==
    /\ ~ At(p, "off")
    /\ proc' = [proc EXCEPT ![p] = Off]
    /\ mishaps' = IF proc[p].pc \in {"serving", "writing", "failed"}
                  THEN mishaps ELSE mishaps \cup {"killed"}
    /\ UNCHANGED <<table, file, saved, reported>>

-----------------------------------------------------------------------------
Open(p) ==
    \/ TableExists(p) \/ PrimaryKeyColumns(p)
    \/ Rename(p) \/ Create(p) \/ Copy(p) \/ DropLegacy(p)
    \/ EnsureTable(p)

Next == \E p \in Processes :
    \/ Start(p) \/ Open(p) \/ Ends(p)
    \/ \E t \in Names, o \in Owners, id \in Ids : Save(p, t, <<o, id>>)
    \/ \E identity \in Identities : Truncate(p, identity)
    \/ WriteFile(p) \/ WriteFails(p)

Spec == Init /\ [][Next]_vars

-----------------------------------------------------------------------------
Undisturbed == mishaps \cap {"shared", "misread"} = {}

Table == [main : {"none", "old", "new"}, rows : SUBSET Rows, legacy : BOOLEAN, left : SUBSET Rows]

Process == [pc : {"off", "exists", "columns", "rename", "create", "copy", "drop", "ensure",
                  "serving", "writing", "failed"},
            at : 1 .. Len(Tables), identity : Identities \cup {None}]

TypeOK ==
    /\ table \in [Names -> Table]
    /\ proc \in [Processes -> Process]
    /\ file \in Identities \cup {None, "torn"}
    /\ saved \in [Names -> SUBSET Rows]
    /\ reported \in Identities \cup {None}
    /\ mishaps \subseteq {"shared", "misread", "killed"}

(***************************************************************************)
(* No id that was ever stored disappears from the file: it is in the table *)
(* or in what a migration left behind, wherever processes were killed, two *)
(* of them met, or the schema was misread.                                 *)
(***************************************************************************)
RowsKept == \A t \in Names :
    IdsOf(saved[t]) \subseteq IdsOf(table[t].rows \cup table[t].left)

(***************************************************************************)
(* A row stays with its owner, who would not find it otherwise, as long as *)
(* no read of the schema fails and processes do not share the file.        *)
(***************************************************************************)
OwnersKept == Undisturbed =>
    \A t \in Names : saved[t] \subseteq table[t].rows \cup table[t].left

(***************************************************************************)
(* A process started alone opens the store, whatever earlier ones that     *)
(* were killed left behind.                                                *)
(***************************************************************************)
OpenSucceeds == Undisturbed => \A p \in Processes : ~ At(p, "failed")

(***************************************************************************)
(* A store that is served has the new schema; and all that was stored is   *)
(* in its tables, unless a start was killed: its rows stay in a table that *)
(* nothing reads again.                                                    *)
(***************************************************************************)
ServedMigrated == Undisturbed =>
    \A p \in Processes : proc[p].pc \in {"serving", "writing"} =>
        \A t \in Names :
            /\ table[t].main = "new"
            /\ "killed" \notin mishaps => saved[t] \subseteq table[t].rows

(***************************************************************************)
(* An identity that was reported as saved is in the file until Create or   *)
(* Import is called again, across kills and starts.                        *)
(***************************************************************************)
IdentityKept == "shared" \notin mishaps /\ reported # None => file = reported
=============================================================================
