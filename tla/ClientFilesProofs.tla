-------------------------- MODULE ClientFilesProofs --------------------------
(***************************************************************************)
(* Proofs about ClientFiles, for any number of processes, tables, owners   *)
(* and rows.                                                               *)
(***************************************************************************)
EXTENDS ClientFiles, TLAPS

-----------------------------------------------------------------------------
(***************************************************************************)
(* The inductive invariant.  RowsKept rests on the rename: it fails if     *)
(* there is a table that was left, so that whoever is past it migrates the *)
(* table alone, and has copied what it drops.                              *)
(***************************************************************************)
Migration == {"create", "copy", "drop"}

Scanning == {"exists", "columns", "rename"} \cup Migration

Migrates(p, t) == proc[p].pc \in Migration /\ Current(p) = t

Nameless == {Anonymous} \X Ids

TableInv == \A t \in Names :
    /\ table[t].main = "none" => table[t].rows = {}
    /\ ~ table[t].legacy => table[t].left = {}
    /\ table[t].main = "old" => ~ table[t].legacy /\ table[t].rows \subseteq Nameless

Prepared(p) ==
    LET t == table[Current(p)]
    IN  /\ proc[p].pc \in Migration => t.legacy
        /\ proc[p].pc \in {"copy", "drop"} => t.main = "new"
        /\ proc[p].pc = "drop" => IdsOf(t.left) \subseteq IdsOf(t.rows)

MigrationInv ==
    /\ \A p \in Processes : Prepared(p)
    /\ \A p, q \in Processes, t \in Names : Migrates(p, t) /\ Migrates(q, t) => p = q

RowsInv == TableInv /\ MigrationInv /\ RowsKept

\* One process runs at a time, and nothing counts as saved while it writes.
AloneInv == "shared" \notin mishaps =>
    /\ \A p, q \in Processes : ~ At(p, "off") /\ ~ At(q, "off") => p = q
    /\ \A p \in Processes : At(p, "writing") => reported = None

FileInv == AloneInv /\ IdentityKept

\* A lone process has migrated the tables before the one it is at.
Progress(p) ==
    /\ ~ At(p, "failed")
    /\ At(p, "off") => proc[p].at = 1
    /\ proc[p].pc \in Scanning => \A i \in 1 .. proc[p].at - 1 : table[Tables[i]].main # "old"
    /\ At(p, "columns") => table[Current(p)].main # "none"
    /\ At(p, "rename") => table[Current(p)].main = "old"
    /\ At(p, "create") => table[Current(p)].main = "none"
    /\ At(p, "drop") => table[Current(p)].left \subseteq table[Current(p)].rows
    /\ At(p, "ensure") => \A i \in 1 .. Len(Tables) :
        /\ table[Tables[i]].main # "old"
        /\ i < proc[p].at => table[Tables[i]].main = "new"
    /\ proc[p].pc \in {"serving", "writing"} => \A t \in Names : table[t].main = "new"

OwnerInv == Undisturbed =>
    /\ \A t \in Names : table[t].left \subseteq Nameless
    /\ \A p \in Processes : Progress(p)
    /\ "killed" \notin mishaps =>
        \A t \in Names : table[t].legacy => \E p \in Processes : Migrates(p, t)

IndInv == TypeOK /\ RowsInv /\ FileInv /\ OwnerInv /\ OwnersKept

-----------------------------------------------------------------------------
(***************************************************************************)
(* How the steps move a process and change a table.                        *)
(***************************************************************************)
Pcs == {"off", "failed", "ensure", "serving", "writing"} \cup Scanning

LEMMA ProcessPcs == Process = [pc : Pcs, at : 1 .. Len(Tables), identity : Identities \cup {None}]
BY DEF Process, Pcs, Scanning, Migration

LEMMA TableNumbers ==
    /\ Len(Tables) \in Nat \ {0}
    /\ \A i \in 1 .. Len(Tables) : Tables[i] \in Names
    /\ \A t \in Names : \E i \in 1 .. Len(Tables) : t = Tables[i]
    /\ \A i, j \in 1 .. Len(Tables) : Tables[i] = Tables[j] => i = j
BY TablesAssumption DEF Names

LEMMA CurrentTable ==
    ASSUME TypeOK, NEW p \in Processes
    PROVE  Current(p) \in Names /\ table[Current(p)] \in Table /\ proc[p].at \in 1 .. Len(Tables)
BY TableNumbers DEF TypeOK, Process, Current

\* p goes on at the same table.
Moves(p, pc) ==
    /\ proc' \in [Processes -> Process]
    /\ \A q \in Processes \ {p} : proc'[q] = proc[q]
    /\ proc'[p].pc = pc /\ proc'[p].at = proc[p].at

LEMMA GotoMoves ==
    ASSUME TypeOK, NEW p \in Processes, NEW pc \in Pcs, Goto(p, pc)
    PROVE  Moves(p, pc)
BY ProcessPcs DEF TypeOK, Goto, Moves

\* p goes on to the next table, or to what comes after the last.
Advances(p, same, after) ==
    /\ proc' \in [Processes -> Process]
    /\ \A q \in Processes \ {p} : proc'[q] = proc[q]
    /\ \/ proc[p].at < Len(Tables) /\ proc'[p].pc = same /\ proc'[p].at = proc[p].at + 1
       \/ proc[p].at = Len(Tables) /\ proc'[p].pc = after /\ proc'[p].at = 1

LEMMA NextTableAdvances ==
    ASSUME TypeOK, NEW p \in Processes, NEW same \in Pcs, NEW after \in Pcs,
           NextTable(p, same, after)
    PROVE  Advances(p, same, after)
<1>1. proc[p].at \in 1 .. Len(Tables)
  BY CurrentTable
<1>2. CASE proc[p].at < Len(Tables)
  <2>1. proc' = [proc EXCEPT ![p] = [@ EXCEPT !.pc = same, !.at = proc[p].at + 1]]
    BY <1>2 DEF NextTable, TypeOK
  <2>2. proc[p].at + 1 \in 1 .. Len(Tables)
    BY <1>1, <1>2, TableNumbers
  <2>3. QED
    BY <1>2, <2>1, <2>2, ProcessPcs DEF TypeOK, Advances
<1>3. CASE ~ proc[p].at < Len(Tables)
  <2>1. proc' = [proc EXCEPT ![p] = [@ EXCEPT !.pc = after, !.at = 1]]
    BY <1>3 DEF NextTable, TypeOK
  <2>2. 1 \in 1 .. Len(Tables) /\ proc[p].at = Len(Tables)
    BY <1>1, <1>3, TableNumbers
  <2>3. QED
    BY <2>1, <2>2, ProcessPcs DEF TypeOK, Advances
<1>4. QED
  BY <1>2, <1>3

\* Only the table p is at changes, to new.
Sets(p, new) ==
    /\ table' \in [Names -> Table]
    /\ table'[Current(p)] = new
    /\ \A t \in Names \ {Current(p)} : table'[t] = table[t]
    /\ UNCHANGED <<file, saved, reported, mishaps>>

LEMMA SetTableSets ==
    ASSUME TypeOK, NEW p \in Processes, NEW new \in Table, SetTable(p, new)
    PROVE  Sets(p, new)
BY CurrentTable DEF TypeOK, SetTable, Sets

LEMMA IdsOfUnion == \A A, B : IdsOf(A \cup B) = IdsOf(A) \cup IdsOf(B)
BY DEF IdsOf

\* What Copy inserts has the ids of what was left.
LEMMA CopiedIds ==
    ASSUME NEW rows \in SUBSET Rows
    PROVE  /\ {Anonymous} \X IdsOf(rows) \in SUBSET Rows
           /\ IdsOf({Anonymous} \X IdsOf(rows)) = IdsOf(rows)
           /\ rows \subseteq Nameless => {Anonymous} \X IdsOf(rows) = rows
<1>1. IdsOf(rows) \subseteq Ids
  BY DEF IdsOf, Rows
<1>2. {Anonymous} \X IdsOf(rows) \in SUBSET Rows
  BY <1>1 DEF Rows
<1>3. IdsOf({Anonymous} \X IdsOf(rows)) = IdsOf(rows)
  <2>1. \A x : x \in IdsOf({Anonymous} \X IdsOf(rows)) => x \in IdsOf(rows)
    BY DEF IdsOf
  <2>2. ASSUME NEW x \in IdsOf(rows) PROVE x \in IdsOf({Anonymous} \X IdsOf(rows))
    <3>1. <<Anonymous, x>> \in {Anonymous} \X IdsOf(rows) /\ <<Anonymous, x>>[2] = x
      BY <2>2
    <3>2. QED
      BY <3>1 DEF IdsOf
  <2>3. QED
    BY <2>1, <2>2
<1>4. ASSUME rows \subseteq Nameless PROVE {Anonymous} \X IdsOf(rows) = rows
  <2>1. ASSUME NEW r \in rows PROVE r \in {Anonymous} \X IdsOf(rows)
    BY <1>4, <2>1 DEF IdsOf, Nameless
  <2>2. ASSUME NEW r \in {Anonymous} \X IdsOf(rows) PROVE r \in rows
    <3>1. PICK s \in rows : r[2] = s[2]
      BY <2>2 DEF IdsOf
    <3>2. r = <<Anonymous, r[2]>> /\ s = <<Anonymous, s[2]>>
      BY <2>2, <1>4, <3>1 DEF Nameless
    <3>3. QED
      BY <3>1, <3>2
  <2>3. QED
    BY <2>1, <2>2
<1>5. QED
  BY <1>2, <1>3, <1>4

-----------------------------------------------------------------------------
(***************************************************************************)
(* RowsInv.                                                                *)
(***************************************************************************)
\* A step that leaves the tables alone, and p outside of the migrations.
LEMMA MoveRows ==
    ASSUME TypeOK, RowsInv, NEW p \in Processes, UNCHANGED <<table, saved>>,
           \A q \in Processes \ {p} : proc'[q] = proc[q], proc'[p].pc \notin Migration
    PROVE  RowsInv'
<1>1. TableInv' /\ RowsKept'
  BY DEF RowsInv, TableInv, RowsKept
<1>2. ASSUME NEW q \in Processes PROVE Prepared(q)'
  BY DEF RowsInv, MigrationInv, Prepared, Migration, Current
<1>3. ASSUME NEW q \in Processes, NEW r \in Processes, NEW t \in Names,
             Migrates(q, t)', Migrates(r, t)'
      PROVE  q = r
  BY <1>3 DEF RowsInv, MigrationInv, Migrates, Current
<1>4. QED
  BY <1>1, <1>2, <1>3 DEF RowsInv, MigrationInv

\* A step that changes the table p is at.
LEMMA SetRows ==
    ASSUME TypeOK, RowsInv, NEW p \in Processes, NEW new \in Table, Sets(p, new),
           \A q \in Processes \ {p} : proc'[q] = proc[q],
           new.main = "none" => new.rows = {},
           ~ new.legacy => new.left = {},
           new.main = "old" => ~ new.legacy /\ new.rows \subseteq Nameless,
           IdsOf(table[Current(p)].rows \cup table[Current(p)].left)
                \subseteq IdsOf(new.rows \cup new.left),
           Prepared(p)',
           proc'[p].pc \in Migration => proc'[p].at = proc[p].at,
           \A q \in Processes \ {p} : Migrates(q, Current(p)) =>
                /\ proc'[p].pc \notin Migration
                /\ new.legacy = table[Current(p)].legacy
                /\ table[Current(p)].main = "new" => new.main = "new"
                /\ new.rows = table[Current(p)].rows /\ new.left = table[Current(p)].left
    PROVE  RowsInv'
<1> DEFINE c == Current(p)
<1>c. c \in Names
  BY CurrentTable
<1>1. TableInv'
  <2> SUFFICES ASSUME NEW t \in Names
               PROVE  /\ table'[t].main = "none" => table'[t].rows = {}
                      /\ ~ table'[t].legacy => table'[t].left = {}
                      /\ table'[t].main = "old" =>
                            ~ table'[t].legacy /\ table'[t].rows \subseteq Nameless
    BY DEF TableInv
  <2>1. CASE t = c
    BY <2>1 DEF Sets
  <2>2. CASE t # c
    BY <2>2 DEF Sets, RowsInv, TableInv
  <2>3. QED
    BY <2>1, <2>2
<1>2. RowsKept'
  <2> SUFFICES ASSUME NEW t \in Names
               PROVE  IdsOf(saved[t]) \subseteq IdsOf(table'[t].rows \cup table'[t].left)
    BY DEF RowsKept, Sets
  <2>1. IdsOf(saved[t]) \subseteq IdsOf(table[t].rows \cup table[t].left)
    BY DEF RowsInv, RowsKept
  <2>2. CASE t = c
    BY <2>1, <2>2 DEF Sets
  <2>3. CASE t # c
    BY <2>1, <2>3 DEF Sets
  <2>4. QED
    BY <2>2, <2>3
<1>3. ASSUME NEW q \in Processes PROVE Prepared(q)'
  <2>1. CASE q = p
    BY <2>1
  <2>2. CASE q # p /\ Current(q) = c
    <3>1. Current(q)' = c /\ proc'[q] = proc[q] /\ table'[c] = new
      BY <2>2 DEF Current, Sets
    <3>2. Prepared(q)
      BY DEF RowsInv, MigrationInv
    <3>3. QED
      BY <2>2, <3>1, <3>2 DEF Prepared, Migrates, Migration
  <2>3. CASE q # p /\ Current(q) # c
    <3>1. Current(q)' = Current(q) /\ proc'[q] = proc[q] /\ Current(q) \in Names
      BY <2>3, CurrentTable DEF Current
    <3>2. table'[Current(q)] = table[Current(q)]
      BY <2>3, <3>1 DEF Sets
    <3>3. Prepared(q)
      BY DEF RowsInv, MigrationInv
    <3>4. QED
      BY <3>1, <3>2, <3>3 DEF Prepared
  <2>4. QED
    BY <2>1, <2>2, <2>3
<1>4. ASSUME NEW q \in Processes, NEW r \in Processes, NEW t \in Names,
             Migrates(q, t)', Migrates(r, t)'
      PROVE  q = r
  <2>1. ASSUME NEW o \in Processes \ {p}, Migrates(o, t)', Migrates(p, t)' PROVE FALSE
    <3>1. Migrates(o, t)
      BY <2>1 DEF Migrates, Current
    <3>2. t = c
      BY <2>1 DEF Migrates, Current
    <3>3. QED
      BY <2>1, <3>1, <3>2 DEF Migrates
  <2>2. CASE q # p /\ r # p
    BY <1>4, <2>2 DEF RowsInv, MigrationInv, Migrates, Current
  <2>3. QED
    BY <1>4, <2>1, <2>2
<1>5. QED
  BY <1>1, <1>2, <1>3, <1>4 DEF RowsInv, MigrationInv

\* While p migrates a table it is the only one.
LEMMA MigratesAlone ==
    ASSUME TypeOK, RowsInv, NEW p \in Processes, proc[p].pc \in Migration
    PROVE  \A q \in Processes \ {p} : ~ Migrates(q, Current(p))
BY CurrentTable DEF RowsInv, MigrationInv, Migrates

Same == UNCHANGED <<table, file, saved, reported, mishaps>>

LEMMA FailsFacts ==
    ASSUME TypeOK, NEW p \in Processes, StatementFails(p)
    PROVE  Moves(p, "failed") /\ Same
BY GotoMoves DEF StatementFails, Pcs, Same

\* The five statements, by what they set and where they lead.
LEMMA RenameFacts ==
    ASSUME TypeOK, NEW p \in Processes, Rename(p)
    PROVE  LET t == table[Current(p)]
           IN  /\ At(p, "rename")
               /\ \/ (t.main = "none" \/ t.legacy) /\ Moves(p, "failed") /\ Same
                  \/ /\ t.main # "none" /\ ~ t.legacy /\ Moves(p, "create")
                     /\ Sets(p, [main |-> "none", rows |-> {}, legacy |-> TRUE, left |-> t.rows])
<1> DEFINE t == table[Current(p)]
           new == [main |-> "none", rows |-> {}, legacy |-> TRUE, left |-> t.rows]
<1>1. new \in Table
  BY CurrentTable DEF Table
<1>2. CASE t.main # "none" /\ ~ t.legacy
  <2>1. SetTable(p, new) /\ Goto(p, "create") /\ At(p, "rename")
    BY <1>2 DEF Rename
  <2>2. QED
    BY <1>1, <1>2, <2>1, SetTableSets, GotoMoves DEF Pcs, Scanning, Migration
<1>3. CASE ~ (t.main # "none" /\ ~ t.legacy)
  BY <1>3, FailsFacts DEF Rename
<1>4. QED
  BY <1>2, <1>3

LEMMA CreateFacts ==
    ASSUME TypeOK, NEW p \in Processes, Create(p)
    PROVE  LET t == table[Current(p)]
           IN  /\ At(p, "create")
               /\ \/ t.main # "none" /\ Moves(p, "failed") /\ Same
                  \/ /\ t.main = "none" /\ Moves(p, "copy")
                     /\ Sets(p, [t EXCEPT !.main = "new"])
<1> DEFINE t == table[Current(p)]
<1>1. [t EXCEPT !.main = "new"] \in Table
  BY CurrentTable DEF Table
<1>2. QED
  BY <1>1, SetTableSets, GotoMoves, FailsFacts DEF Create, Pcs, Scanning, Migration

LEMMA CopyFacts ==
    ASSUME TypeOK, NEW p \in Processes, Copy(p)
    PROVE  LET t == table[Current(p)]
           IN  /\ At(p, "copy") /\ Moves(p, "drop")
               /\ Sets(p, [t EXCEPT !.rows = @ \cup ({Anonymous} \X IdsOf(t.left))])
<1> DEFINE t == table[Current(p)]
           new == [t EXCEPT !.rows = @ \cup ({Anonymous} \X IdsOf(t.left))]
<1>1. new \in Table
  <2>1. t \in Table /\ t.rows \in SUBSET Rows /\ t.left \in SUBSET Rows
    BY CurrentTable DEF Table
  <2>2. {Anonymous} \X IdsOf(t.left) \in SUBSET Rows
    BY <2>1, CopiedIds
  <2>3. QED
    BY <2>1, <2>2 DEF Table
<1>2. QED
  BY <1>1, SetTableSets, GotoMoves DEF Copy, Pcs, Scanning, Migration

LEMMA DropFacts ==
    ASSUME TypeOK, NEW p \in Processes, DropLegacy(p)
    PROVE  /\ At(p, "drop") /\ Advances(p, "exists", "ensure")
           /\ Sets(p, [table[Current(p)] EXCEPT !.legacy = FALSE, !.left = {}])
<1> DEFINE new == [table[Current(p)] EXCEPT !.legacy = FALSE, !.left = {}]
<1>1. new \in Table
  BY CurrentTable DEF Table
<1>2. QED
  BY <1>1, SetTableSets, NextTableAdvances DEF DropLegacy, Pcs, Scanning

Ensured(t) == [t EXCEPT !.main = IF t.main = "none" THEN "new" ELSE t.main]

LEMMA EnsureFacts ==
    ASSUME TypeOK, NEW p \in Processes, EnsureTable(p)
    PROVE  LET t == table[Current(p)]
           IN  /\ At(p, "ensure")
               /\ \/ t.main = "old" /\ Moves(p, "failed") /\ Same
                  \/ Advances(p, "ensure", "serving") /\ Sets(p, Ensured(t))
<1> DEFINE t == table[Current(p)]
<1>1. Ensured(t) \in Table
  BY CurrentTable DEF Table, Ensured
<1>2. CASE t.main = "old" /\ Current(p) \in Indexed
  BY <1>2, FailsFacts DEF EnsureTable
<1>3. CASE ~ (t.main = "old" /\ Current(p) \in Indexed)
  <2>1. SetTable(p, Ensured(t)) /\ NextTable(p, "ensure", "serving") /\ At(p, "ensure")
    BY <1>3, CurrentTable DEF EnsureTable, Ensured, Table
  <2>2. QED
    BY <1>1, <2>1, SetTableSets, NextTableAdvances DEF Pcs
<1>4. QED
  BY <1>2, <1>3

LEMMA ExistsFacts ==
    ASSUME TypeOK, NEW p \in Processes, TableExists(p)
    PROVE  /\ At(p, "exists") /\ UNCHANGED <<table, file, saved, reported>>
           /\ \/ mishaps' = mishaps \cup {"misread"}
              \/ mishaps' = mishaps
           /\ \/ /\ Advances(p, "exists", "ensure")
                 /\ table[Current(p)].main = "none" \/ "misread" \in mishaps'
              \/ Moves(p, "columns") /\ table[Current(p)].main # "none"
<1>1. PICK failed \in BOOLEAN :
        /\ IF failed \/ table[Current(p)].main = "none"
           THEN NextTable(p, "exists", "ensure")
           ELSE Goto(p, "columns")
        /\ mishaps' = IF failed THEN mishaps \cup {"misread"} ELSE mishaps
  BY DEF TableExists
<1>2. QED
  BY <1>1, NextTableAdvances, GotoMoves DEF TableExists, Pcs, Scanning

LEMMA ColumnsFacts ==
    ASSUME TypeOK, NEW p \in Processes, PrimaryKeyColumns(p)
    PROVE  /\ At(p, "columns") /\ UNCHANGED <<table, file, saved, reported>>
           /\ \/ mishaps' = mishaps \cup {"misread"}
              \/ mishaps' = mishaps
           /\ \/ Advances(p, "exists", "ensure") /\ table[Current(p)].main = "new"
              \/ /\ Moves(p, "rename")
                 /\ table[Current(p)].main # "new" \/ "misread" \in mishaps'
<1>1. PICK failed \in BOOLEAN :
        /\ IF ~ failed /\ table[Current(p)].main = "new"
           THEN NextTable(p, "exists", "ensure")
           ELSE Goto(p, "rename")
        /\ mishaps' = IF failed THEN mishaps \cup {"misread"} ELSE mishaps
  BY DEF PrimaryKeyColumns
<1>2. QED
  BY <1>1, NextTableAdvances, GotoMoves DEF PrimaryKeyColumns, Pcs, Scanning

LEMMA AdvancesRows ==
    ASSUME NEW p \in Processes, NEW same, NEW after, Advances(p, same, after)
    PROVE  /\ \A q \in Processes \ {p} : proc'[q] = proc[q]
           /\ proc'[p].pc \in {same, after}
BY DEF Advances

LEMMA OpenRows ==
    ASSUME TypeOK, RowsInv, NEW p \in Processes, Open(p)
    PROVE  RowsInv'
<1> DEFINE t == table[Current(p)]
<1>t. t \in Table /\ t = table[Current(p)] /\ Current(p) \in Names
  BY CurrentTable
<1>p. Prepared(p) /\ (proc[p].pc \in Migration =>
                        \A q \in Processes \ {p} : ~ Migrates(q, Current(p)))
  BY MigratesAlone DEF RowsInv, MigrationInv
<1>i. /\ t.main = "none" => t.rows = {}
      /\ ~ t.legacy => t.left = {}
      /\ t.main = "old" => ~ t.legacy /\ t.rows \subseteq Nameless
  BY <1>t DEF RowsInv, TableInv
<1> HIDE DEF t
<1>1. CASE TableExists(p)
  <2>1. /\ UNCHANGED <<table, saved>> /\ proc'[p].pc \notin Migration
        /\ \A q \in Processes \ {p} : proc'[q] = proc[q]
    BY <1>1, ExistsFacts, AdvancesRows DEF Moves, Migration
  <2>2. QED
    BY <2>1, MoveRows
<1>2. CASE PrimaryKeyColumns(p)
  <2>1. /\ UNCHANGED <<table, saved>> /\ proc'[p].pc \notin Migration
        /\ \A q \in Processes \ {p} : proc'[q] = proc[q]
    BY <1>2, ColumnsFacts, AdvancesRows DEF Moves, Migration
  <2>2. QED
    BY <2>1, MoveRows
<1>f. ASSUME Moves(p, "failed"), Same PROVE RowsInv'
  BY <1>f, MoveRows DEF Moves, Same, Migration
<1>3. CASE Rename(p)
  <2> DEFINE new == [main |-> "none", rows |-> {}, legacy |-> TRUE, left |-> t.rows]
  <2>1. ASSUME t.main # "none", ~ t.legacy, Moves(p, "create"), Sets(p, new) PROVE RowsInv'
    <3>1. new \in Table
      BY <1>t DEF Table
    <3>2. IdsOf(t.rows \cup t.left) \subseteq IdsOf(new.rows \cup new.left)
      <4>1. t.rows \cup t.left = new.rows \cup new.left
        BY <2>1, <1>i
      <4>2. QED
        BY <4>1
    <3>3. Prepared(p)'
      BY <2>1 DEF Prepared, Moves, Sets, Current, Migration
    <3>4. \A q \in Processes \ {p} : ~ Migrates(q, Current(p))
      BY <2>1, <1>t DEF RowsInv, MigrationInv, Prepared, Migrates
    <3>5. new.main = "none" /\ new.rows = {} /\ new.legacy
      OBVIOUS
    <3> HIDE DEF new
    <3>6. QED
      BY <2>1, <1>t, <3>1, <3>2, <3>3, <3>4, <3>5, SetRows DEF Moves
  <2>2. QED
    BY <1>3, <1>f, <1>t, <2>1, RenameFacts
<1>4. CASE Create(p)
  <2> DEFINE new == [t EXCEPT !.main = "new"]
  <2>1. ASSUME At(p, "create"), Moves(p, "copy"), Sets(p, new) PROVE RowsInv'
    <3>1. /\ new \in Table /\ new.main = "new"
          /\ new.rows = t.rows /\ new.left = t.left /\ new.legacy = t.legacy
      BY <1>t DEF Table
    <3> HIDE DEF new
    <3>2. Prepared(p)'
      BY <2>1, <1>p, <1>t, <3>1 DEF Prepared, Moves, Sets, Current, Migration, At
    <3>3. proc[p].pc \in Migration
      BY <2>1 DEF At, Migration
    <3>4. QED
      BY <2>1, <1>t, <1>i, <1>p, <3>1, <3>2, <3>3, SetRows DEF Moves
  <2>2. QED
    BY <1>4, <1>f, <1>t, <2>1, CreateFacts
<1>5. CASE Copy(p)
  <2> DEFINE copied == {Anonymous} \X IdsOf(t.left)
             new == [t EXCEPT !.rows = @ \cup copied]
  <2>1. At(p, "copy") /\ Moves(p, "drop") /\ Sets(p, new)
    BY <1>5, <1>t, CopyFacts
  <2>2. copied \in SUBSET Rows /\ IdsOf(copied) = IdsOf(t.left)
    BY <1>t, CopiedIds DEF Table
  <2> HIDE DEF copied
  <2>3. /\ new \in Table /\ new.main = t.main
        /\ new.rows = t.rows \cup copied /\ new.left = t.left /\ new.legacy = t.legacy
    BY <1>t, <2>2 DEF Table
  <2> HIDE DEF new
  <2>4. proc[p].pc \in Migration /\ t.main = "new" /\ t.legacy
    BY <2>1, <1>p, <1>t DEF At, Prepared, Migration
  <2>5. IdsOf(new.left) \subseteq IdsOf(new.rows)
    BY <2>2, <2>3, IdsOfUnion
  <2>6. Prepared(p)'
    BY <2>1, <2>3, <2>4, <2>5 DEF Prepared, Moves, Sets, Current
  <2>7. IdsOf(t.rows \cup t.left) \subseteq IdsOf(new.rows \cup new.left)
    BY <2>3, IdsOfUnion
  <2>8. QED
    BY <1>t, <1>p, <2>1, <2>3, <2>4, <2>6, <2>7, SetRows DEF Moves
<1>6. CASE DropLegacy(p)
  <2> DEFINE new == [t EXCEPT !.legacy = FALSE, !.left = {}]
  <2>1. At(p, "drop") /\ Advances(p, "exists", "ensure") /\ Sets(p, new)
    BY <1>6, <1>t, DropFacts
  <2>2. /\ new \in Table /\ new.main = t.main
        /\ new.rows = t.rows /\ new.left = {} /\ new.legacy = FALSE
    BY <1>t DEF Table
  <2> HIDE DEF new
  <2>3. /\ proc[p].pc \in Migration /\ t.main = "new"
        /\ IdsOf(t.left) \subseteq IdsOf(t.rows)
    BY <2>1, <1>p, <1>t DEF At, Prepared, Migration
  <2>4. IdsOf(t.rows \cup t.left) \subseteq IdsOf(new.rows \cup new.left)
    BY <2>2, <2>3, IdsOfUnion
  <2>5. proc'[p].pc \notin Migration /\ \A q \in Processes \ {p} : proc'[q] = proc[q]
    BY <2>1, AdvancesRows DEF Migration
  <2>6. Prepared(p)'
    BY <2>5 DEF Prepared, Migration
  <2>7. QED
    BY <1>t, <1>p, <2>1, <2>2, <2>3, <2>4, <2>5, <2>6, SetRows
<1>7. CASE EnsureTable(p)
  <2> DEFINE new == Ensured(t)
  <2>1. ASSUME Advances(p, "ensure", "serving"), Sets(p, new) PROVE RowsInv'
    <3>1. /\ new \in Table /\ new.main = IF t.main = "none" THEN "new" ELSE t.main
          /\ new.rows = t.rows /\ new.left = t.left /\ new.legacy = t.legacy
      BY <1>t DEF Table, Ensured
    <3> HIDE DEF new
    <3>2. proc'[p].pc \notin Migration /\ \A q \in Processes \ {p} : proc'[q] = proc[q]
      BY <2>1, AdvancesRows DEF Migration
    <3>3. Prepared(p)'
      BY <3>2 DEF Prepared, Migration
    <3>4. QED
      BY <2>1, <1>t, <1>i, <3>1, <3>2, <3>3, SetRows
  <2>2. QED
    BY <1>7, <1>f, <1>t, <2>1, EnsureFacts
<1>8. QED
  BY <1>1, <1>2, <1>3, <1>4, <1>5, <1>6, <1>7 DEF Open

LEMMA SaveRows ==
    ASSUME TypeOK, RowsInv, NEW p \in Processes, NEW t \in Names, NEW row \in Rows,
           Save(p, t, row)
    PROVE  RowsInv'
<1>1. /\ table' \in [Names -> Table] /\ saved' \in [Names -> SUBSET Rows]
      /\ table'[t] = [table[t] EXCEPT !.rows = @ \cup {row}]
      /\ saved'[t] = saved[t] \cup {row} /\ table[t].main = "new"
      /\ \A s \in Names \ {t} : table'[s] = table[s] /\ saved'[s] = saved[s]
      /\ proc' = proc
  BY DEF Save, TypeOK, Table
<1>2. /\ table'[t].main = "new" /\ table'[t].left = table[t].left
      /\ table'[t].legacy = table[t].legacy /\ table'[t].rows = table[t].rows \cup {row}
  BY <1>1 DEF TypeOK, Table
<1>3. TableInv'
  BY <1>1, <1>2 DEF RowsInv, TableInv
<1>4. ASSUME NEW s \in Names
      PROVE  IdsOf(saved'[s]) \subseteq IdsOf(table'[s].rows \cup table'[s].left)
  <2>1. IdsOf(saved[s]) \subseteq IdsOf(table[s].rows \cup table[s].left)
    BY DEF RowsInv, RowsKept
  <2>2. CASE s = t
    <3>1. table'[t].rows \cup table'[t].left = (table[t].rows \cup table[t].left) \cup {row}
      BY <1>2
    <3>2. IdsOf(table'[t].rows \cup table'[t].left)
            = IdsOf(table[t].rows \cup table[t].left) \cup IdsOf({row})
      BY <3>1, IdsOfUnion
    <3>3. IdsOf(saved'[t]) = IdsOf(saved[t]) \cup IdsOf({row})
      BY <1>1, IdsOfUnion
    <3>4. QED
      BY <2>1, <2>2, <3>2, <3>3
  <2>3. CASE s # t
    BY <1>1, <2>1, <2>3
  <2>4. QED
    BY <2>2, <2>3
<1>5. ASSUME NEW q \in Processes PROVE Prepared(q)'
  <2>1. Current(q) \in Names /\ Current(q)' = Current(q) /\ Prepared(q)
    BY <1>1, CurrentTable DEF Current, RowsInv, MigrationInv
  <2>2. CASE Current(q) = t
    <3>1. IdsOf(table[t].rows) \subseteq IdsOf(table'[t].rows)
      <4>1. IdsOf(table[t].rows \cup {row}) = IdsOf(table[t].rows) \cup IdsOf({row})
        BY IdsOfUnion
      <4>2. QED
        BY <1>2, <4>1
    <3>2. QED
      BY <1>1, <1>2, <2>1, <2>2, <3>1 DEF Prepared
  <2>3. CASE Current(q) # t
    BY <1>1, <2>1, <2>3 DEF Prepared
  <2>4. QED
    BY <2>2, <2>3
<1>6. QED
  BY <1>1, <1>3, <1>4, <1>5 DEF RowsInv, RowsKept, MigrationInv, Migrates, Current

-----------------------------------------------------------------------------
(***************************************************************************)
(* TypeOK and FileInv.                                                     *)
(***************************************************************************)
\* What the steps of Open have in common.
Opens(p) ==
    /\ table' \in [Names -> Table] /\ proc' \in [Processes -> Process]
    /\ \A q \in Processes \ {p} : proc'[q] = proc[q]
    /\ UNCHANGED <<file, saved, reported>>
    /\ mishaps' = mishaps \/ mishaps' = mishaps \cup {"misread"}
    /\ proc[p].pc \in Scanning \cup {"ensure"}
    /\ proc'[p].pc \in Scanning \cup {"ensure", "serving", "failed"}

LEMMA OpenFacts ==
    ASSUME TypeOK, NEW p \in Processes, Open(p)
    PROVE  Opens(p)
<1>1. CASE TableExists(p)
  BY <1>1, ExistsFacts DEF Advances, Moves, Opens, At, Scanning, TypeOK
<1>2. CASE PrimaryKeyColumns(p)
  BY <1>2, ColumnsFacts DEF Advances, Moves, Opens, At, Scanning, TypeOK
<1>3. CASE Rename(p)
  BY <1>3, RenameFacts DEF Moves, Opens, At, Scanning, Migration, TypeOK, Sets, Same
<1>4. CASE Create(p)
  BY <1>4, CreateFacts DEF Moves, Opens, At, Scanning, Migration, TypeOK, Sets, Same
<1>5. CASE Copy(p)
  BY <1>5, CopyFacts DEF Moves, Opens, At, Scanning, Migration, TypeOK, Sets
<1>6. CASE DropLegacy(p)
  BY <1>6, DropFacts DEF Advances, Opens, At, Scanning, Migration, TypeOK, Sets
<1>7. CASE EnsureTable(p)
  BY <1>7, EnsureFacts DEF Advances, Moves, Opens, At, TypeOK, Sets, Same
<1>8. QED
  BY <1>1, <1>2, <1>3, <1>4, <1>5, <1>6, <1>7 DEF Open

LEMMA WriteFacts ==
    ASSUME TypeOK, NEW p \in Processes, WriteFile(p) \/ WriteFails(p)
    PROVE  /\ proc' \in [Processes -> Process] /\ proc'[p].pc = "serving"
           /\ \A q \in Processes \ {p} : proc'[q] = proc[q]
<1> DEFINE new == [proc[p] EXCEPT !.pc = "serving", !.identity = None]
<1>1. new \in Process /\ new.pc = "serving"
  BY DEF TypeOK, Process
<1>2. proc' = [proc EXCEPT ![p] = new]
  BY DEF WriteFile, WriteFails
<1>3. QED
  BY <1>1, <1>2 DEF TypeOK

LEMMA NextType == TypeOK /\ [Next]_vars => TypeOK'
<1> SUFFICES ASSUME TypeOK, [Next]_vars PROVE TypeOK'
  OBVIOUS
<1>1. CASE UNCHANGED vars
  BY <1>1 DEF vars, TypeOK
<1>2. ASSUME NEW p \in Processes, Start(p) PROVE TypeOK'
  <2>1. Goto(p, "exists")
    BY <1>2 DEF Start
  <2>2. proc' \in [Processes -> Process]
    BY <2>1, GotoMoves DEF Moves, Pcs, Scanning
  <2>3. QED
    BY <1>2, <2>2 DEF Start, TypeOK
<1>3. ASSUME NEW p \in Processes, Open(p) PROVE TypeOK'
  BY <1>3, OpenFacts DEF Opens, TypeOK
<1>4. ASSUME NEW p \in Processes, Ends(p) PROVE TypeOK'
  <2>1. Off \in Process
    BY TableNumbers, ProcessPcs DEF Off, Pcs
  <2>2. QED
    BY <1>4, <2>1 DEF Ends, TypeOK
<1>5. ASSUME NEW p \in Processes, NEW t \in Names, NEW o \in Owners, NEW id \in Ids,
             Save(p, t, <<o, id>>)
      PROVE  TypeOK'
  <2>1. <<o, id>> \in Rows
    BY DEF Rows
  <2>2. [table[t] EXCEPT !.rows = @ \cup {<<o, id>>}] \in Table
    BY <2>1 DEF TypeOK, Table
  <2>3. table' \in [Names -> Table] /\ saved' \in [Names -> SUBSET Rows]
    BY <1>5, <2>1, <2>2 DEF Save, TypeOK
  <2>4. QED
    BY <1>5, <2>3 DEF Save, TypeOK
<1>6. ASSUME NEW p \in Processes, NEW identity \in Identities, Truncate(p, identity)
      PROVE  TypeOK'
  BY <1>6 DEF Truncate, TypeOK, Process
<1>7. ASSUME NEW p \in Processes, WriteFile(p) \/ WriteFails(p) PROVE TypeOK'
  BY <1>7, WriteFacts DEF WriteFile, WriteFails, TypeOK, Process
<1>8. QED
  BY <1>1, <1>2, <1>3, <1>4, <1>5, <1>6, <1>7 DEF Next

LEMMA NextRows == TypeOK /\ RowsInv /\ [Next]_vars => RowsInv'
<1> SUFFICES ASSUME TypeOK, RowsInv, [Next]_vars PROVE RowsInv'
  OBVIOUS
<1>1. CASE UNCHANGED vars
  BY <1>1 DEF vars, RowsInv, TableInv, MigrationInv, Prepared, Migrates, Current, RowsKept
<1>2. ASSUME NEW p \in Processes, Start(p) PROVE RowsInv'
  BY <1>2, MoveRows DEF Start, Goto, TypeOK, Process, Migration
<1>3. ASSUME NEW p \in Processes, Ends(p) PROVE RowsInv'
  BY <1>3, MoveRows DEF Ends, Off, TypeOK, Migration
<1>4. ASSUME NEW p \in Processes, NEW t \in Names, NEW o \in Owners, NEW id \in Ids,
             Save(p, t, <<o, id>>)
      PROVE  RowsInv'
  BY <1>4, SaveRows DEF Rows
<1>5. ASSUME NEW p \in Processes, NEW identity \in Identities, Truncate(p, identity)
      PROVE  RowsInv'
  BY <1>5, MoveRows DEF Truncate, TypeOK, Process, Migration
<1>6. ASSUME NEW p \in Processes, WriteFile(p) \/ WriteFails(p) PROVE RowsInv'
  <2>1. proc'[p].pc \notin Migration
    BY <1>6, WriteFacts DEF Migration
  <2>2. UNCHANGED <<table, saved>>
    BY <1>6 DEF WriteFile, WriteFails
  <2>3. QED
    BY <1>6, <2>1, <2>2, WriteFacts, MoveRows
<1>7. QED
  BY <1>1, <1>2, <1>3, <1>4, <1>5, <1>6, OpenRows DEF Next

LEMMA NextFile == TypeOK /\ FileInv /\ [Next]_vars => FileInv'
<1> SUFFICES ASSUME TypeOK, FileInv, [Next]_vars PROVE FileInv'
  OBVIOUS
<1>1. CASE UNCHANGED vars
  BY <1>1 DEF vars, FileInv, AloneInv, IdentityKept, At
<1>2. ASSUME NEW p \in Processes, Start(p) PROVE FileInv'
  BY <1>2 DEF Start, Goto, At, TypeOK, Process, FileInv, AloneInv, IdentityKept
<1>3. ASSUME NEW p \in Processes, Open(p) PROVE FileInv'
  BY <1>3, OpenFacts DEF Opens, At, FileInv, AloneInv, IdentityKept, Scanning, Migration
<1>4. ASSUME NEW p \in Processes, Ends(p) PROVE FileInv'
  BY <1>4 DEF Ends, Off, At, TypeOK, FileInv, AloneInv, IdentityKept
<1>5. ASSUME NEW p \in Processes, NEW t \in Names, NEW o \in Owners, NEW id \in Ids,
             Save(p, t, <<o, id>>)
      PROVE  FileInv'
  BY <1>5 DEF Save, At, FileInv, AloneInv, IdentityKept
<1>6. ASSUME NEW p \in Processes, NEW identity \in Identities, Truncate(p, identity)
      PROVE  FileInv'
  BY <1>6 DEF Truncate, At, TypeOK, Process, FileInv, AloneInv, IdentityKept
<1>7. ASSUME NEW p \in Processes, WriteFile(p) \/ WriteFails(p) PROVE FileInv'
  BY <1>7 DEF WriteFile, WriteFails, At, TypeOK, Process, FileInv, AloneInv, IdentityKept
<1>8. QED
  BY <1>1, <1>2, <1>3, <1>4, <1>5, <1>6, <1>7 DEF Next

-----------------------------------------------------------------------------
(***************************************************************************)
(* OwnerInv: steps of a process that runs alone, on a schema it has read.  *)
(***************************************************************************)
LEMMA OthersOff ==
    ASSUME AloneInv, Undisturbed, NEW p \in Processes, proc[p].pc # "off"
    PROVE  \A q \in Processes \ {p} : proc[q].pc = "off"
BY DEF AloneInv, Undisturbed, At

\* A step that leaves the tables alone.
LEMMA MoveOwners ==
    ASSUME TypeOK, AloneInv, OwnerInv, OwnersKept, Undisturbed,
           NEW p \in Processes, proc[p].pc \notin Migration \cup {"off"},
           \A q \in Processes \ {p} : proc'[q] = proc[q],
           UNCHANGED <<table, saved, mishaps>>, Progress(p)'
    PROVE  OwnerInv' /\ OwnersKept'
<1>1. \A q \in Processes \ {p} : proc[q].pc = "off" /\ proc'[q] = proc[q] /\ Progress(q)
  BY OthersOff DEF OwnerInv
<1>2. \A q \in Processes \ {p} : Progress(q)'
  BY <1>1 DEF Progress, At, Scanning, Migration
<1>3. "killed" \notin mishaps => \A t \in Names : ~ table[t].legacy
  BY OthersOff DEF OwnerInv, Migrates, Migration
<1>4. QED
  BY <1>2, <1>3 DEF OwnerInv, OwnersKept, Undisturbed

\* A step that changes the table p is at.
LEMMA SetOwners ==
    ASSUME TypeOK, AloneInv, OwnerInv, OwnersKept, Undisturbed,
           NEW p \in Processes, proc[p].pc # "off",
           \A q \in Processes \ {p} : proc'[q] = proc[q],
           NEW new \in Table, Sets(p, new), Progress(p)',
           table[Current(p)].rows \cup table[Current(p)].left \subseteq new.rows \cup new.left,
           new.left \subseteq Nameless,
           "killed" \notin mishaps /\ new.legacy =>
                proc'[p].pc \in Migration /\ proc'[p].at = proc[p].at
    PROVE  OwnerInv' /\ OwnersKept'
<1> DEFINE c == Current(p)
<1>c. c \in Names
  BY CurrentTable
<1>1. \A q \in Processes \ {p} : proc[q].pc = "off" /\ proc'[q] = proc[q] /\ Progress(q)
  BY OthersOff DEF OwnerInv
<1>2. \A q \in Processes \ {p} : Progress(q)'
  BY <1>1 DEF Progress, At, Scanning, Migration
<1>3. \A t \in Names : table'[t].left \subseteq Nameless
  BY <1>c DEF OwnerInv, Sets
<1>4. ASSUME "killed" \notin mishaps', NEW t \in Names, table'[t].legacy
      PROVE  \E q \in Processes : Migrates(q, t)'
  <2>1. CASE t = c
    <3>1. proc'[p].pc \in Migration /\ Tables[proc'[p].at] = c
      BY <1>4, <2>1 DEF Sets, Current
    <3>2. QED
      BY <2>1, <3>1 DEF Migrates, Current
  <2>2. CASE t # c
    <3>1. table[t].legacy /\ "killed" \notin mishaps
      BY <1>4, <2>2 DEF Sets
    <3>2. PICK q \in Processes : Migrates(q, t)
      BY <3>1 DEF OwnerInv
    <3>3. q = p
      BY <1>1, <3>2 DEF Migrates, Migration
    <3>4. QED
      BY <2>2, <3>2, <3>3 DEF Migrates
  <2>3. QED
    BY <2>1, <2>2
<1>5. ASSUME NEW t \in Names PROVE saved'[t] \subseteq table'[t].rows \cup table'[t].left
  <2>1. saved[t] \subseteq table[t].rows \cup table[t].left /\ saved' = saved
    BY DEF OwnersKept, Sets
  <2>2. CASE t = c
    BY <2>1, <2>2 DEF Sets
  <2>3. CASE t # c
    BY <2>1, <2>3 DEF Sets
  <2>4. QED
    BY <2>2, <2>3
<1>6. QED
  BY <1>2, <1>3, <1>4, <1>5 DEF OwnerInv, OwnersKept

LEMMA OpenOwners ==
    ASSUME TypeOK, RowsInv, AloneInv, OwnerInv, OwnersKept,
           NEW p \in Processes, Open(p), Undisturbed'
    PROVE  OwnerInv' /\ OwnersKept'
<1> DEFINE c == Current(p)
           t == table[c]
<1>c. c = Current(p) /\ c \in Names /\ c = Tables[proc[p].at] /\ proc[p].at \in 1 .. Len(Tables)
  BY CurrentTable DEF Current
<1>t. t \in Table /\ t = table[c] /\ t.main \in {"none", "old", "new"}
  BY CurrentTable DEF Table
<1>u. Undisturbed /\ mishaps' = mishaps /\ proc[p].pc # "off"
  BY OpenFacts DEF Opens, Undisturbed, Scanning, Migration
<1>g. Progress(p) /\ t.left \subseteq Nameless
  BY <1>u, <1>c DEF OwnerInv
<1>i. /\ t.main = "none" => t.rows = {}
      /\ ~ t.legacy => t.left = {}
      /\ t.main = "old" => ~ t.legacy /\ t.rows \subseteq Nameless
  BY <1>c DEF RowsInv, TableInv
<1>o. /\ \A q \in Processes \ {p} : proc'[q] = proc[q]
      /\ UNCHANGED saved
  BY OpenFacts DEF Opens
<1>n. \A i \in 1 .. Len(Tables) : i # proc[p].at => Tables[i] \in Names \ {c}
  BY <1>c, TableNumbers
<1> HIDE DEF t, c
\* p has dealt with the table at hand, which is not old.
<1>a. ASSUME Advances(p, "exists", "ensure"), proc[p].pc \in Scanning, table'[c].main # "old",
             \A s \in Names \ {c} : table'[s] = table[s]
      PROVE  Progress(p)'
  <2>1. \A i \in 1 .. proc[p].at : table'[Tables[i]].main # "old"
    BY <1>a, <1>c, <1>g, <1>n DEF Progress
  <2>2. CASE proc'[p].pc = "exists" /\ proc'[p].at = proc[p].at + 1
    BY <2>1, <2>2, <1>c DEF Progress, At
  <2>3. CASE proc'[p].pc = "ensure" /\ proc'[p].at = 1 /\ proc[p].at = Len(Tables)
    BY <2>1, <2>3, <1>c DEF Progress, At, Scanning, Migration
  <2>4. QED
    BY <1>a, <2>2, <2>3 DEF Advances
<1>1. CASE TableExists(p)
  <2>1. At(p, "exists") /\ table' = table /\ "misread" \notin mishaps'
    BY <1>1, ExistsFacts DEF Undisturbed
  <2>2. \/ Advances(p, "exists", "ensure") /\ t.main = "none"
        \/ Moves(p, "columns") /\ t.main # "none"
    BY <1>1, <2>1, <1>t, <1>c, ExistsFacts
  <2>3. ASSUME Moves(p, "columns"), t.main # "none" PROVE Progress(p)'
    <3>1. Current(p)' = c
      BY <2>3, <1>c DEF Moves, Current
    <3>2. QED
      BY <2>1, <2>3, <3>1, <1>g, <1>t DEF Progress, At, Moves, Scanning, Migration
  <2>4. Progress(p)'
    BY <2>1, <2>2, <2>3, <1>a, <1>t DEF At, Scanning
  <2>5. QED
    BY <2>1, <2>4, <1>u, <1>o, MoveOwners DEF At, Migration
<1>2. CASE PrimaryKeyColumns(p)
  <2>1. At(p, "columns") /\ table' = table /\ "misread" \notin mishaps'
    BY <1>2, ColumnsFacts DEF Undisturbed
  <2>2. t.main # "none"
    BY <2>1, <1>g, <1>c, <1>t DEF Progress
  <2>3. \/ Advances(p, "exists", "ensure") /\ t.main = "new"
        \/ Moves(p, "rename") /\ t.main = "old"
    BY <1>2, <2>1, <2>2, <1>t, <1>c, ColumnsFacts
  <2>4. ASSUME Moves(p, "rename"), t.main = "old" PROVE Progress(p)'
    <3>1. Current(p)' = c
      BY <2>4, <1>c DEF Moves, Current
    <3>2. QED
      BY <2>1, <2>4, <3>1, <1>g, <1>t DEF Progress, At, Moves, Scanning, Migration
  <2>5. Progress(p)'
    BY <2>1, <2>3, <2>4, <1>a, <1>t DEF At, Scanning
  <2>6. QED
    BY <2>1, <2>5, <1>u, <1>o, MoveOwners DEF At, Migration
<1>3. CASE Rename(p)
  <2> DEFINE new == [main |-> "none", rows |-> {}, legacy |-> TRUE, left |-> t.rows]
  <2>1. At(p, "rename") /\ t.main = "old"
    BY <1>3, <1>g, <1>c, <1>t, RenameFacts DEF Progress
  <2>2. Moves(p, "create") /\ Sets(p, new)
    BY <1>3, <2>1, <1>i, <1>c, <1>t, RenameFacts
  <2>3. new \in Table
    BY <1>t DEF Table
  <2>4. Current(p)' = c
    BY <2>2, <1>c DEF Moves, Current
  <2>5. \A i \in 1 .. proc[p].at - 1 : table'[Tables[i]].main # "old"
    BY <2>1, <2>2, <1>g, <1>n, <1>c DEF Progress, At, Scanning, Sets
  <2>6. Progress(p)'
    BY <2>2, <2>4, <2>5, <1>c DEF Progress, At, Moves, Sets, Scanning, Migration
  <2>7. proc'[p].pc \in Migration /\ proc'[p].at = proc[p].at
    BY <2>2 DEF Moves, Migration
  <2>8. /\ table[Current(p)].rows \cup table[Current(p)].left \subseteq new.rows \cup new.left
        /\ new.left \subseteq Nameless
    BY <2>1, <1>i, <1>t, <1>c
  <2> HIDE DEF new
  <2>9. QED
    BY <2>2, <2>3, <2>6, <2>7, <2>8, <1>u, <1>o, SetOwners
<1>4. CASE Create(p)
  <2> DEFINE new == [t EXCEPT !.main = "new"]
  <2>1. At(p, "create") /\ t.main = "none"
    BY <1>4, <1>g, <1>c, <1>t, CreateFacts DEF Progress
  <2>2. Moves(p, "copy") /\ Sets(p, new)
    BY <1>4, <2>1, <1>c, <1>t, CreateFacts
  <2>3. /\ new \in Table /\ new.main = "new" /\ new.rows = t.rows /\ new.left = t.left
    BY <1>t DEF Table
  <2> HIDE DEF new
  <2>4. Current(p)' = c
    BY <2>2, <1>c DEF Moves, Current
  <2>5. \A i \in 1 .. proc[p].at - 1 : table'[Tables[i]].main # "old"
    BY <2>1, <2>2, <1>g, <1>n, <1>c DEF Progress, At, Scanning, Migration, Sets
  <2>6. Progress(p)'
    BY <2>2, <2>4, <2>5, <1>c DEF Progress, At, Moves, Sets, Scanning, Migration
  <2>7. proc'[p].pc \in Migration /\ proc'[p].at = proc[p].at
    BY <2>2 DEF Moves, Migration
  <2>8. QED
    BY <2>2, <2>3, <2>6, <2>7, <1>g, <1>t, <1>c, <1>u, <1>o, SetOwners
<1>5. CASE Copy(p)
  <2> DEFINE copied == {Anonymous} \X IdsOf(t.left)
             new == [t EXCEPT !.rows = @ \cup copied]
  <2>1. At(p, "copy") /\ Moves(p, "drop") /\ Sets(p, new)
    BY <1>5, <1>c, <1>t, CopyFacts
  <2>2. copied = t.left /\ t.left \in SUBSET Rows
    BY <1>t, <1>g, CopiedIds DEF Table
  <2> HIDE DEF copied
  <2>3. /\ new \in Table /\ new.main = t.main
        /\ new.rows = t.rows \cup t.left /\ new.left = t.left
    BY <1>t, <2>2 DEF Table
  <2> HIDE DEF new
  <2>4. Current(p)' = c
    BY <2>1, <1>c DEF Moves, Current
  <2>5. \A i \in 1 .. proc[p].at - 1 : table'[Tables[i]].main # "old"
    BY <2>1, <1>g, <1>n, <1>c DEF Progress, At, Scanning, Migration, Sets
  <2>6. Progress(p)'
    BY <2>1, <2>3, <2>4, <2>5, <1>c DEF Progress, At, Moves, Sets, Scanning, Migration
  <2>7. proc'[p].pc \in Migration /\ proc'[p].at = proc[p].at
    BY <2>1 DEF Moves, Migration
  <2>8. QED
    BY <2>1, <2>3, <2>6, <2>7, <1>g, <1>t, <1>c, <1>u, <1>o, SetOwners
<1>6. CASE DropLegacy(p)
  <2> DEFINE new == [t EXCEPT !.legacy = FALSE, !.left = {}]
  <2>1. At(p, "drop") /\ Advances(p, "exists", "ensure") /\ Sets(p, new)
    BY <1>6, <1>c, <1>t, DropFacts
  <2>2. /\ new \in Table /\ new.main = t.main
        /\ new.rows = t.rows /\ new.left = {} /\ new.legacy = FALSE
    BY <1>t DEF Table
  <2> HIDE DEF new
  <2>3. t.main = "new" /\ t.left \subseteq t.rows
    BY <2>1, <1>g, <1>c, <1>t DEF Progress, At, RowsInv, MigrationInv, Prepared
  <2>4. Progress(p)'
    BY <2>1, <2>2, <2>3, <1>a, <1>c DEF At, Scanning, Migration, Sets
  <2>5. QED
    BY <2>1, <2>2, <2>3, <2>4, <1>t, <1>c, <1>u, <1>o, SetOwners
<1>7. CASE EnsureTable(p)
  <2> DEFINE new == Ensured(t)
  <2>1. At(p, "ensure") /\ t.main # "old"
    BY <1>7, <1>g, <1>c, <1>t, EnsureFacts DEF Progress
  <2>2. Advances(p, "ensure", "serving") /\ Sets(p, new)
    BY <1>7, <2>1, <1>c, <1>t, EnsureFacts
  <2>3. /\ new \in Table /\ new.main = "new"
        /\ new.rows = t.rows /\ new.left = t.left /\ new.legacy = t.legacy
    BY <2>1, <1>t DEF Table, Ensured
  <2> HIDE DEF new
  <2>4. \A i \in 1 .. Len(Tables) :
          /\ table'[Tables[i]].main # "old"
          /\ i <= proc[p].at => table'[Tables[i]].main = "new"
    BY <2>1, <2>2, <2>3, <1>g, <1>n, <1>c DEF Progress, Sets
  <2>5. CASE proc'[p].pc = "ensure" /\ proc'[p].at = proc[p].at + 1
    <3>1. Progress(p)'
      BY <2>4, <2>5, <1>c DEF Progress, At, Scanning, Migration
    <3>2. ~ ("killed" \notin mishaps /\ t.legacy)
      BY <2>1, <1>u, <1>c, <1>t, OthersOff DEF OwnerInv, Migrates, Migration, At
    <3>3. QED
      BY <2>2, <2>3, <3>1, <3>2, <1>g, <1>t, <1>c, <1>u, <1>o, SetOwners
  <2>6. CASE proc'[p].pc = "serving" /\ proc'[p].at = 1 /\ proc[p].at = Len(Tables)
    <3>1. \A s \in Names : table'[s].main = "new"
      BY <2>4, <2>6, TableNumbers
    <3>2. Progress(p)'
      BY <2>6, <3>1 DEF Progress, At, Scanning, Migration
    <3>3. ~ ("killed" \notin mishaps /\ t.legacy)
      BY <2>1, <1>u, <1>c, <1>t, OthersOff DEF OwnerInv, Migrates, Migration, At
    <3>4. QED
      BY <2>2, <2>3, <3>2, <3>3, <1>g, <1>t, <1>c, <1>u, <1>o, SetOwners
  <2>7. QED
    BY <2>2, <2>5, <2>6 DEF Advances
<1>8. QED
  BY <1>1, <1>2, <1>3, <1>4, <1>5, <1>6, <1>7 DEF Open

LEMMA SaveOwners ==
    ASSUME TypeOK, OwnerInv, OwnersKept, NEW p \in Processes, NEW t \in Names,
           NEW row \in Rows, Save(p, t, row), Undisturbed'
    PROVE  OwnerInv' /\ OwnersKept'
<1>1. /\ table'[t].main = table[t].main /\ table'[t].left = table[t].left
      /\ table'[t].legacy = table[t].legacy /\ table'[t].rows = table[t].rows \cup {row}
      /\ saved'[t] = saved[t] \cup {row}
      /\ \A s \in Names \ {t} : table'[s] = table[s] /\ saved'[s] = saved[s]
      /\ proc' = proc /\ mishaps' = mishaps
  BY DEF Save, TypeOK, Table
<1>2. Undisturbed
  BY <1>1 DEF Undisturbed
<1>3. \A s \in Names :
        /\ table'[s].main = table[s].main /\ table'[s].left = table[s].left
        /\ table'[s].legacy = table[s].legacy /\ table[s].rows \subseteq table'[s].rows
  BY <1>1
<1>4. ASSUME NEW q \in Processes PROVE Progress(q)'
  <2>1. Progress(q) /\ Current(q) \in Names /\ Current(q)' = Current(q)
    BY <1>1, <1>2, CurrentTable DEF OwnerInv, Current
  <2>2. \A i \in 1 .. Len(Tables) : table'[Tables[i]].main = table[Tables[i]].main
    BY <1>3, TableNumbers
  <2>3. proc[q].at \in 1 .. Len(Tables)
    BY CurrentTable
  <2>4. QED
    BY <1>1, <1>3, <2>1, <2>2, <2>3 DEF Progress, At
<1>5. OwnersKept'
  BY <1>1, <1>2, <1>3 DEF OwnersKept
<1>6. QED
  BY <1>1, <1>2, <1>3, <1>4, <1>5 DEF OwnerInv, Migrates, Current

LEMMA StartOwners ==
    ASSUME TypeOK, OwnerInv, OwnersKept, NEW p \in Processes, Start(p), Undisturbed'
    PROVE  OwnerInv' /\ OwnersKept'
<1>1. Undisturbed /\ mishaps' = mishaps /\ \A q \in Processes : proc[q].pc = "off"
  BY DEF Start, Undisturbed, At
<1>2. /\ \A q \in Processes \ {p} : proc'[q] = proc[q] /\ Progress(q)
      /\ proc'[p].pc = "exists" /\ proc'[p].at = 1
      /\ UNCHANGED <<table, saved>>
  BY <1>1 DEF Start, Goto, TypeOK, Process, OwnerInv, Progress, At
<1>3. \A q \in Processes : Progress(q)'
  BY <1>1, <1>2 DEF Progress, At, Scanning, Migration
<1>4. "killed" \notin mishaps => \A t \in Names : ~ table[t].legacy
  BY <1>1 DEF OwnerInv, Migrates, Migration
<1>5. QED
  BY <1>1, <1>2, <1>3, <1>4 DEF OwnerInv, OwnersKept

LEMMA EndsOwners ==
    ASSUME TypeOK, AloneInv, OwnerInv, OwnersKept, NEW p \in Processes, Ends(p), Undisturbed'
    PROVE  OwnerInv' /\ OwnersKept'
<1>1. Undisturbed /\ proc[p].pc # "off" /\ mishaps \subseteq mishaps'
  BY DEF Ends, Undisturbed, At
<1>2. /\ \A q \in Processes \ {p} :
            proc[q].pc = "off" /\ proc'[q] = proc[q] /\ Progress(q)
      /\ proc'[p].pc = "off" /\ proc'[p].at = 1
      /\ UNCHANGED <<table, saved>>
  BY <1>1, OthersOff DEF Ends, Off, TypeOK, OwnerInv
<1>3. \A q \in Processes : Progress(q)'
  BY <1>2 DEF Progress, At, Scanning, Migration
<1>4. "killed" \notin mishaps' => \A t \in Names : ~ table[t].legacy
  BY <1>1, <1>2 DEF Ends, OwnerInv, Migrates, Migration
<1>5. QED
  BY <1>1, <1>2, <1>3, <1>4 DEF OwnerInv, OwnersKept

LEMMA NextOwners ==
    TypeOK /\ RowsInv /\ AloneInv /\ OwnerInv /\ OwnersKept /\ [Next]_vars
        => OwnerInv' /\ OwnersKept'
<1> SUFFICES ASSUME TypeOK, RowsInv, AloneInv, OwnerInv, OwnersKept, [Next]_vars
             PROVE  OwnerInv' /\ OwnersKept'
  OBVIOUS
<1>1. CASE ~ Undisturbed'
  BY <1>1 DEF OwnerInv, OwnersKept
<1>2. CASE Undisturbed'
  <2>1. CASE UNCHANGED vars
    BY <2>1 DEF vars, OwnerInv, OwnersKept, Undisturbed, Progress, At, Migrates, Current
  <2>2. ASSUME NEW p \in Processes, NEW identity \in Identities, Truncate(p, identity)
        PROVE  OwnerInv' /\ OwnersKept'
    <3>1. /\ Undisturbed /\ proc[p].pc = "serving" /\ proc'[p].pc = "writing"
          /\ \A q \in Processes \ {p} : proc'[q] = proc[q]
          /\ UNCHANGED <<table, saved, mishaps>>
      BY <1>2, <2>2 DEF Truncate, Undisturbed, At, TypeOK, Process
    <3>2. Progress(p)'
      BY <3>1 DEF OwnerInv, Progress, At, Scanning, Migration
    <3>3. QED
      BY <3>1, <3>2, MoveOwners DEF Migration
  <2>3. ASSUME NEW p \in Processes, WriteFile(p) \/ WriteFails(p)
        PROVE  OwnerInv' /\ OwnersKept'
    <3>1. /\ Undisturbed /\ proc[p].pc = "writing" /\ proc'[p].pc = "serving"
          /\ \A q \in Processes \ {p} : proc'[q] = proc[q]
          /\ UNCHANGED <<table, saved, mishaps>>
      BY <1>2, <2>3, WriteFacts DEF WriteFile, WriteFails, Undisturbed, At
    <3>2. Progress(p)'
      BY <3>1 DEF OwnerInv, Progress, At, Scanning, Migration
    <3>3. QED
      BY <3>1, <3>2, MoveOwners DEF Migration
  <2>4. ASSUME NEW p \in Processes, NEW t \in Names, NEW o \in Owners, NEW id \in Ids,
               Save(p, t, <<o, id>>)
        PROVE  OwnerInv' /\ OwnersKept'
    BY <1>2, <2>4, SaveOwners DEF Rows
  <2>5. QED
    BY <1>2, <2>1, <2>2, <2>3, <2>4, OpenOwners, StartOwners, EndsOwners DEF Next
<1>3. QED
  BY <1>1, <1>2

-----------------------------------------------------------------------------
LEMMA InitInv == Init => IndInv
<1> SUFFICES ASSUME Init PROVE IndInv
  OBVIOUS
<1>1. /\ table \in [Names -> Table]
      /\ \A t \in Names : /\ table[t].rows \subseteq Nameless /\ table[t].left = {}
                          /\ ~ table[t].legacy
                          /\ table[t].main = "none" => table[t].rows = {}
  <2>1. NoTable \in Table
    BY DEF NoTable, Table
  <2>2. \A ids \in SUBSET Ids :
            LET t == [NoTable EXCEPT !.main = "old", !.rows = {Anonymous} \X ids]
            IN  /\ t \in Table /\ t.rows \subseteq Nameless /\ t.left = {}
                /\ ~ t.legacy /\ t.main = "old"
    BY DEF NoTable, Table, Rows, Nameless
  <2>3. \A t \in Names : \/ table[t] = NoTable
                         \/ \E ids \in SUBSET Ids : table[t] =
                               [NoTable EXCEPT !.main = "old", !.rows = {Anonymous} \X ids]
    BY DEF Init
  <2>4. ASSUME NEW t \in Names
        PROVE  /\ table[t] \in Table /\ table[t].rows \subseteq Nameless
               /\ table[t].left = {} /\ ~ table[t].legacy
               /\ table[t].main = "none" => table[t].rows = {}
    <3>1. CASE table[t] = NoTable
      BY <2>1, <3>1 DEF NoTable
    <3>2. CASE table[t] # NoTable
      <4>1. PICK ids \in SUBSET Ids :
                table[t] = [NoTable EXCEPT !.main = "old", !.rows = {Anonymous} \X ids]
        BY <2>3, <3>2
      <4>2. QED
        BY <2>2, <4>1
    <3>3. QED
      BY <3>1, <3>2
  <2>5. \E S : table \in [Names -> S]
    BY DEF Init
  <2>6. QED
    BY <2>4, <2>5
<1>2. saved = [t \in Names |-> table[t].rows]
  BY DEF Init
<1>3. Off \in Process /\ proc = [p \in Processes |-> Off]
  <2>1. 1 \in 1 .. Len(Tables)
    BY TableNumbers
  <2>2. Off \in Process
    BY <2>1 DEF Off, Process
  <2>3. QED
    BY <2>2 DEF Init
<1>4. \A p \in Processes : proc[p].pc = "off" /\ proc[p].at = 1
  BY <1>3 DEF Off
<1>5. TypeOK
  BY <1>1, <1>2, <1>3 DEF Init, TypeOK, Table
<1>6. RowsInv
  <2>1. TableInv
    BY <1>1 DEF TableInv
  <2>2. MigrationInv
    BY <1>4 DEF MigrationInv, Prepared, Migrates, Migration
  <2>3. ASSUME NEW t \in Names
        PROVE  IdsOf(saved[t]) \subseteq IdsOf(table[t].rows \cup table[t].left)
    <3>1. table[t].rows \cup table[t].left = table[t].rows /\ saved[t] = table[t].rows
      BY <1>1, <1>2
    <3>2. QED
      BY <3>1
  <2>4. QED
    BY <2>1, <2>2, <2>3 DEF RowsInv, RowsKept
<1>7. FileInv
  BY <1>4 DEF Init, FileInv, AloneInv, IdentityKept, At
<1>8. OwnerInv /\ OwnersKept
  <2>1. \A p \in Processes : Progress(p)
    BY <1>4 DEF Progress, At, Scanning, Migration
  <2>2. QED
    BY <1>1, <1>2, <2>1 DEF OwnerInv, OwnersKept
<1>9. QED
  BY <1>5, <1>6, <1>7, <1>8 DEF IndInv

LEMMA Invariance == Spec => []IndInv
<1>1. IndInv /\ [Next]_vars => IndInv'
  BY NextType, NextRows, NextFile, NextOwners DEF IndInv, FileInv
<1>2. QED
  BY <1>1, InitInv, PTL DEF Spec

(***************************************************************************)
(* The tables, the processes and the file are of their types; a process    *)
(* never runs past the last table.                                         *)
(***************************************************************************)
THEOREM TypeCorrect == Spec => []TypeOK
<1>1. IndInv => TypeOK
  BY DEF IndInv
<1>2. QED
  BY <1>1, Invariance, PTL

(***************************************************************************)
(* No id that was ever stored disappears, however many processes migrate   *)
(* one file at once, are killed, or misread the schema.                    *)
(***************************************************************************)
THEOREM RowsKeptCorrect == Spec => []RowsKept
<1>1. IndInv => RowsKept
  BY DEF IndInv, RowsInv
<1>2. QED
  BY <1>1, Invariance, PTL

(***************************************************************************)
(* One process at a time that reads the schema right leaves every row with *)
(* its owner, wherever it is killed.                                       *)
(***************************************************************************)
THEOREM OwnersKeptCorrect == Spec => []OwnersKept
<1>1. IndInv => OwnersKept
  BY DEF IndInv
<1>2. QED
  BY <1>1, Invariance, PTL

(***************************************************************************)
(* A process started alone opens the store, whatever kills before it.      *)
(***************************************************************************)
THEOREM OpenSucceedsCorrect == Spec => []OpenSucceeds
<1>1. IndInv => OpenSucceeds
  BY DEF IndInv, OwnerInv, OpenSucceeds, Progress
<1>2. QED
  BY <1>1, Invariance, PTL

(***************************************************************************)
(* A store that is served has the new schema and, unless a migration was   *)
(* killed, everything that was stored.                                     *)
(***************************************************************************)
THEOREM ServedMigratedCorrect == Spec => []ServedMigrated
<1>1. IndInv => ServedMigrated
  <2> SUFFICES ASSUME IndInv, Undisturbed, NEW p \in Processes,
                      proc[p].pc \in {"serving", "writing"}, NEW t \in Names
               PROVE  /\ table[t].main = "new"
                      /\ "killed" \notin mishaps => saved[t] \subseteq table[t].rows
    BY DEF ServedMigrated
  <2>1. table[t].main = "new"
    BY DEF IndInv, OwnerInv, Progress
  <2>2. ASSUME "killed" \notin mishaps PROVE ~ table[t].legacy
    BY <2>2, OthersOff DEF IndInv, FileInv, OwnerInv, Migrates, Migration
  <2>3. ~ table[t].legacy => table[t].left = {}
    BY DEF IndInv, RowsInv, TableInv
  <2>4. saved[t] \subseteq table[t].rows \cup table[t].left
    BY DEF IndInv, OwnersKept
  <2>5. QED
    BY <2>1, <2>2, <2>3, <2>4
<1>2. QED
  BY <1>1, Invariance, PTL

(***************************************************************************)
(* An identity that was reported as saved is in the file, across kills and *)
(* starts of processes that do not share it.                               *)
(***************************************************************************)
THEOREM IdentityKeptCorrect == Spec => []IdentityKept
<1>1. IndInv => IdentityKept
  BY DEF IndInv, FileInv
<1>2. QED
  BY <1>1, Invariance, PTL
=============================================================================
