----------------------------- MODULE SchemaChain -----------------------------
(***************************************************************************)
(* The numbered migrations of a manager's database (core/schema.py) as the *)
(* one database that has any applies them, fleet.db (FleetRegistry's       *)
(* constructor in core/fleet.py). The table is the set of its columns; the *)
(* API process may be killed between any two commits.                      *)
(***************************************************************************)
EXTENDS Naturals, Sequences, FiniteSets

CONSTANTS
    Original,   \* those of the first release
    AddedColumns, \* _ADDED_COLUMNS, a sequence
    Migrations, \* _MIGRATIONS, a sequence of [drops, adds], versions 2, 3, ...
    MaxBoots

VARIABLES
    table,      \* the columns of nodes; {} when there is no such table
    version,    \* schema_version's row; 0 when there is none
    pc,         \* where the constructor is
    had,        \* its had_tables
    boots,
    orphan      \* history: a new table was left without a version

vars == <<table, version, pc, had, boots, orphan>>

Baseline == 1

\* schema.head, for versions that validate has found ascending from 2.
Latest == Baseline + Len(Migrations)

Elements(q) == {q[i] : i \in DOMAIN q}

\* The table after the first n migrations, from the baseline.
BaselineColumns == Original \cup Elements(AddedColumns)
Shape[n \in 0 .. Len(Migrations)] ==
    IF n = 0 THEN BaselineColumns
    ELSE (Shape[n - 1] \ Migrations[n].drops) \cup Migrations[n].adds

\* _SCHEMA_SQL describes head.
HeadColumns == Shape[Len(Migrations)]

\* A new node; a database of the first release, perhaps lifted in part; one
\* that has seen some of the migrations.
Init ==
    /\ \/ table = {} /\ version = 0
       \/ /\ \E n \in 0 .. Len(AddedColumns) :
                table = Original \cup {AddedColumns[i] : i \in 1 .. n}
          /\ version = 0
       \/ \E n \in 0 .. Len(Migrations) : table = Shape[n] /\ version = Baseline + n
    /\ pc = "off" /\ had = FALSE /\ boots = 0 /\ orphan = FALSE

-----------------------------------------------------------------------------
\* Did it have tables? Asked before the schema script runs.
Boot ==
    /\ pc = "off" /\ boots < MaxBoots
    /\ boots' = boots + 1
    /\ had' = (table # {})
    /\ pc' = "create"
    /\ UNCHANGED <<table, version, orphan>>

\* executescript(_SCHEMA_SQL): only a missing table is created, and committed.
Create ==
    /\ pc = "create"
    /\ table' = IF table = {} THEN HeadColumns ELSE table
    /\ pc' = "lift"
    /\ UNCHANGED <<version, had, boots, orphan>>

\* _migrate_added_columns: the next missing one; each ALTER commits by itself.
Missing == {i \in DOMAIN AddedColumns : AddedColumns[i] \notin table}

Lift ==
    /\ pc = "lift" /\ Missing # {}
    /\ table' = table \cup {AddedColumns[CHOOSE i \in Missing : \A j \in Missing : i <= j]}
    /\ UNCHANGED <<version, pc, had, boots, orphan>>

\* Fault: a database without a version is stamped at the baseline, new or not.
StampBaseline ==
    /\ pc = "lift" /\ Missing = {}
    /\ version' = IF version = 0 THEN Baseline ELSE version
    /\ pc' = "migrate"
    /\ UNCHANGED <<table, had, boots, orphan>>

\* The version table is made; a database without a version is stamped, by
\* whether it had tables.
Stamp ==
    /\ pc = "lift" /\ Missing = {}
    /\ version' = IF version # 0 THEN version ELSE IF had THEN Baseline ELSE Latest
    /\ pc' = "migrate"
    /\ UNCHANGED <<table, had, boots, orphan>>

Pending == Migrations[version - Baseline + 1]

\* One pending migration and its version, in one transaction. A column to drop
\* that is not there, or one to add that is, raises and rolls it back.
Applies(m) == m.drops \subseteq table /\ m.adds \cap table = {}

Migrate ==
    /\ pc = "migrate" /\ version < Latest
    /\ LET m == Pending
       IN  /\ Applies(m)
           /\ table' = (table \ m.drops) \cup m.adds
           /\ version' = version + 1
    /\ UNCHANGED <<pc, had, boots, orphan>>

MigrationFails ==
    /\ pc = "migrate" /\ version < Latest
    /\ ~Applies(Pending)
    /\ pc' = "raised"
    /\ UNCHANGED <<table, version, had, boots, orphan>>

Up ==
    /\ pc = "migrate" /\ version = Latest
    /\ pc' = "up"
    /\ UNCHANGED <<table, version, had, boots, orphan>>

\* The process ends: killed on the way, or stopped, or for having raised.
Down ==
    /\ pc # "off"
    /\ pc' = "off"
    /\ orphan' = (orphan \/ (~had /\ table # {} /\ version = 0))
    /\ UNCHANGED <<table, version, had, boots>>

Next == Boot \/ Create \/ Lift \/ Stamp \/ Migrate \/ MigrationFails \/ Up \/ Down

Spec == Init /\ [][Next]_vars

-----------------------------------------------------------------------------
(* Whatever release left the database and wherever earlier boots were killed,
   a boot that is not killed brings it to head, table and version alike, and
   no migration meets a table it was not written for. The exception: a boot
   killed after the table of a new database was made and before its version
   was written, whose successors take the new table for an old one
   (fleet.py:367, schema.py:142). Between commits a stamped version is the
   one the table has the shape of. *)
SchemaSound ==
    orphan \/ /\ pc # "raised"
              /\ pc = "up" => table = HeadColumns
              /\ version # 0 => table = Shape[version - Baseline]
=============================================================================
