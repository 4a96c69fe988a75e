--------------------------- MODULE RegistryUpgrade ---------------------------
(***************************************************************************)
(* How a node's registry.db comes to its present shape when Registry is    *)
(* constructed (core/registry.py): the import of registry.yaml, the split  *)
(* of the single-table database, and the identity columns. Each works on   *)
(* files, a process may be killed between any two operations, and the      *)
(* manager's API and its TUI both construct a Registry.                    *)
(*                                                                         *)
(* A directory entry leads to a file, and an open file stays open when its *)
(* name goes to another. A legacy row is its id: every other column is     *)
(* carried over, or dropped from all rows alike.                           *)
(***************************************************************************)
EXTENDS Naturals, FiniteSets

CONSTANTS
    Processes,
    Old,          \* the models registered before the upgrade
    Later,        \* models an older release may still register
    Identity,     \* the columns of _IDENTITY_MIGRATION_COLUMNS
    Slots,        \* file numbers; bounds the temporary files made
    MaxCrashes

VARIABLES
    dir,       \* per name: the number of a file, or None
    file,      \* per number: its contents
    proc,      \* per process
    crashes,
    known,     \* history: every model registered so far
    overlap,   \* history: two processes were opening the registry at once
    stale      \* history: an older release wrote beside an unused backup

vars == <<dir, file, proc, crashes, known, overlap, stale>>

None == 0
Names == {"yaml", "yaml.bak", "db", "db.tmp", "pre-rm51.bak"}

Unused == [kind |-> "none", rows |-> {}, cols |-> {}]
Legacy(kind) == [Unused EXCEPT !.kind = kind, !.rows = Old]

\* What _SCHEMA_SQL and the fills leave: two tables, with every column.
Split(rows) == [kind |-> "split", rows |-> rows, cols |-> Identity]

Down == [pc |-> "down", open |-> None, from |-> None, rows |-> {}, column |-> "",
         raised |-> FALSE]

\* A new node, or one left by an older release: a YAML file, one table, or two
\* tables without the identity columns.
Init ==
    /\ \E kind \in {"nothing", "yaml", "single", "split"} :
          /\ dir = [n \in Names |->
                      IF n = (IF kind = "yaml" THEN "yaml" ELSE "db") /\ kind # "nothing"
                      THEN 1 ELSE None]
          /\ file = [i \in Slots |->
                       IF i = 1 /\ kind # "nothing" THEN Legacy(kind) ELSE Unused]
          /\ known = IF kind = "nothing" THEN {} ELSE Old
    /\ proc = [p \in Processes |-> Down]
    /\ crashes = 0 /\ overlap = FALSE /\ stale = FALSE

-----------------------------------------------------------------------------
Exists(n) == dir[n] # None
At(n) == file[dir[n]]

Free == {i \in Slots \ {None} : /\ file[i] = Unused
                                /\ \A p \in Processes : i \notin {proc[p].open, proc[p].from}}
NewFile == CHOOSE i \in Free : \A j \in Free : i <= j

Opening(p) == proc[p].pc \notin {"down", "up", "failed"}
Goto(p, place) == proc' = [proc EXCEPT ![p].pc = place]
Raise(p) == proc' = [proc EXCEPT ![p] = [Down EXCEPT !.pc = "failed", !.raised = TRUE]]
Aside == UNCHANGED <<crashes, known, overlap, stale>>

\* Registry(path): the first check of _migrate_legacy_yaml_if_needed.
Boot(p) ==
    /\ proc[p].pc = "down"
    /\ Goto(p, IF ~Exists("db") /\ Exists("yaml") THEN "yaml temp" ELSE "probe")
    /\ overlap' = (overlap \/ \E q \in Processes \ {p} : Opening(q))
    /\ UNCHANGED <<dir, file, crashes, known, stale>>

\* The temporary file: any there is goes, and an empty two-table one is made.
Temp(p, next) ==
    /\ Free # {}
    /\ dir' = [dir EXCEPT !["db.tmp"] = NewFile]
    /\ file' = [file EXCEPT ![NewFile] = Split({})]
    /\ proc' = [proc EXCEPT ![p].pc = next, ![p].open = NewFile]
    /\ Aside

YamlTemp(p) == proc[p].pc = "yaml temp" /\ Temp(p, "yaml fill")
SplitTemp(p) == proc[p].pc = "split temp" /\ Temp(p, "split fill")

\* The rows go in by one commit, to the file this process has open.
Fill(p, rows, next) ==
    /\ file' = [file EXCEPT ![proc[p].open] = Split(@.rows \cup rows)]
    /\ Goto(p, next)
    /\ UNCHANGED dir /\ Aside

\* The YAML file is read only now, and may have been renamed since the check.
YamlFill(p) ==
    /\ proc[p].pc = "yaml fill"
    /\ \/ Exists("yaml") /\ Fill(p, At("yaml").rows, "yaml swap")
       \/ ~Exists("yaml") /\ Raise(p) /\ UNCHANGED <<dir, file>> /\ Aside

SplitFill(p) == proc[p].pc = "split fill" /\ Fill(p, proc[p].rows, "split swap")

\* os.replace(tmp, path): whatever file has the temporary name by now.
Swap(p, next) ==
    /\ \/ /\ Exists("db.tmp")
          /\ dir' = [dir EXCEPT !["db"] = dir["db.tmp"], !["db.tmp"] = None]
          /\ proc' = [proc EXCEPT ![p].pc = next, ![p].open = None]
       \/ ~Exists("db.tmp") /\ Raise(p) /\ UNCHANGED dir
    /\ UNCHANGED file /\ Aside

YamlSwap(p) == proc[p].pc = "yaml swap" /\ Swap(p, "yaml rename")
SplitSwap(p) == proc[p].pc = "split swap" /\ Swap(p, "open")

\* The YAML file is kept under another name, unless another process did.
YamlRename(p) ==
    /\ proc[p].pc = "yaml rename"
    /\ dir' = IF Exists("yaml")
              THEN [dir EXCEPT !["yaml.bak"] = dir["yaml"], !["yaml"] = None]
              ELSE dir
    /\ Goto(p, "probe")
    /\ UNCHANGED file /\ Aside

\* _migrate_models_instances_split_if_needed: nothing to do unless the
\* database has the single table; then, is there a backup already?
Probe(p) ==
    /\ proc[p].pc = "probe"
    /\ LET single == Exists("db") /\ At("db").kind = "single"
       IN  Goto(p, IF ~single THEN "open"
                   ELSE IF Exists("pre-rm51.bak") THEN "read" ELSE "copy")
    /\ UNCHANGED <<dir, file>> /\ Aside

\* copy2 truncates or creates the backup, then writes it: not at once.
Copy(p) ==
    /\ proc[p].pc = "copy"
    /\ Exists("pre-rm51.bak") \/ Free # {}
    /\ LET i == IF Exists("pre-rm51.bak") THEN dir["pre-rm51.bak"] ELSE NewFile
       IN  /\ dir' = [dir EXCEPT !["pre-rm51.bak"] = i]
           /\ file' = [file EXCEPT ![i] = [Unused EXCEPT !.kind = "torn"]]
           /\ proc' = [proc EXCEPT ![p].pc = "copied", ![p].open = i, ![p].from = dir["db"]]
    /\ Aside

Copied(p) ==
    /\ proc[p].pc = "copied"
    /\ file' = [file EXCEPT ![proc[p].open] = file[proc[p].from]]
    /\ proc' = [proc EXCEPT ![p].pc = "read", ![p].open = None, ![p].from = None]
    /\ UNCHANGED dir /\ Aside

\* Fault: the temporary file takes the database's name before it is filled.
ReadAndSwap(p) ==
    /\ proc[p].pc = "read"
    /\ At("pre-rm51.bak").kind = "single" /\ Free # {}
    /\ dir' = [dir EXCEPT !["db"] = NewFile]
    /\ file' = [file EXCEPT ![NewFile] = Split({})]
    /\ proc' = [proc EXCEPT ![p].pc = "split temp", ![p].rows = At("pre-rm51.bak").rows]
    /\ Aside

\* The rows come from the backup, never from the database; a backup that is
\* not a whole single-table database cannot be read.
Read(p) ==
    /\ proc[p].pc = "read"
    /\ LET backup == At("pre-rm51.bak")
       IN  IF backup.kind = "single"
           THEN proc' = [proc EXCEPT ![p].pc = "split temp", ![p].rows = backup.rows]
           ELSE Raise(p)
    /\ UNCHANGED <<dir, file>> /\ Aside

\* sqlite3.connect makes the file when there is none; the schema script adds
\* what tables are missing.
Open(p) ==
    /\ proc[p].pc = "open"
    /\ IF Exists("db")
       THEN /\ proc' = [proc EXCEPT ![p].pc = "columns", ![p].open = dir["db"]]
            /\ UNCHANGED <<dir, file>>
       ELSE /\ Free # {}
            /\ dir' = [dir EXCEPT !["db"] = NewFile]
            /\ file' = [file EXCEPT ![NewFile] = Split({})]
            /\ proc' = [proc EXCEPT ![p].pc = "columns", ![p].open = NewFile]
    /\ Aside

\* _backfill_identity_columns: one column at a time is looked for and, when it
\* is missing, added; an ALTER commits by itself.
LookForColumn(p) ==
    /\ proc[p].pc = "columns"
    /\ \E c \in Identity \ file[proc[p].open].cols :
          proc' = [proc EXCEPT ![p].pc = "alter", ![p].column = c]
    /\ UNCHANGED <<dir, file>> /\ Aside

AddColumn(p) ==
    /\ proc[p].pc = "alter"
    /\ IF proc[p].column \in file[proc[p].open].cols
       THEN Raise(p) /\ UNCHANGED file
       ELSE /\ file' = [file EXCEPT ![proc[p].open].cols = @ \cup {proc[p].column}]
            /\ proc' = [proc EXCEPT ![p].pc = "columns", ![p].column = ""]
    /\ UNCHANGED dir /\ Aside

\* With every column there, the fills are one transaction; then _load.
Load(p) ==
    /\ proc[p].pc = "columns"
    /\ file[proc[p].open].cols = Identity
    /\ proc' = [proc EXCEPT ![p].pc = "up", ![p].rows = file[proc[p].open].rows]
    /\ UNCHANGED <<dir, file>> /\ Aside

\* A process is killed, or an operator starts it again after it raised.
Crash(p) ==
    /\ Opening(p) \/ proc[p].raised
    /\ crashes < MaxCrashes
    /\ crashes' = crashes + 1
    /\ proc' = [proc EXCEPT ![p] = Down]
    /\ UNCHANGED <<dir, file, known, overlap, stale>>

\* The upgrade is rolled back for a while: the release of before registers a
\* model in the database it finds.
OlderRelease(m) ==
    /\ \A p \in Processes : proc[p].pc \in {"down", "failed"}
    /\ Exists("db") /\ At("db").kind = "single" /\ m \notin known
    /\ file' = [file EXCEPT ![dir["db"]].rows = @ \cup {m}]
    /\ known' = known \cup {m}
    /\ stale' = (stale \/ Exists("pre-rm51.bak"))
    /\ UNCHANGED <<dir, proc, crashes, overlap>>

Next ==
    \/ \E p \in Processes :
          \/ Boot(p) \/ YamlTemp(p) \/ YamlFill(p) \/ YamlSwap(p) \/ YamlRename(p)
          \/ Probe(p) \/ Copy(p) \/ Copied(p) \/ Read(p)
          \/ SplitTemp(p) \/ SplitFill(p) \/ SplitSwap(p)
          \/ Open(p) \/ LookForColumn(p) \/ AddColumn(p) \/ Load(p) \/ Crash(p)
    \/ \E m \in Later : OlderRelease(m)

Spec == Init /\ [][Next]_vars

-----------------------------------------------------------------------------
(* An upgrade that is cut short anywhere can be taken up again
   (registry.py:926, 968): what a process comes up with is every model that
   was ever registered, and it has the file open that the name leads to; it
   raises only over a backup that a crash tore. Both hold for one process at a
   time. What an older release wrote after a first attempt is not looked at
   (registry.py:1002). Under any interleaving of two processes the models are
   still in some file that is kept; of three, one can truncate the backup while
   another puts the third's empty file in the database's place. *)
Opened ==
    \A p \in Processes :
        proc[p].pc = "up" /\ ~overlap =>
            /\ dir["db"] = proc[p].open
            /\ stale \/ proc[p].rows = known

FailsOnTornBackup ==
    \A p \in Processes :
        proc[p].raised /\ ~overlap => Exists("pre-rm51.bak") /\ At("pre-rm51.bak").kind = "torn"

Recoverable ==
    stale \/ known = {} \/ \E n \in Names \ {"db.tmp"} : Exists(n) /\ known \subseteq At(n).rows

UpgradeSound == Opened /\ FailsOnTornBackup /\ Recoverable
=============================================================================
