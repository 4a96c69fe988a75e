---------------------------- MODULE GatewaySchema ----------------------------
(***************************************************************************)
(* The gateway's database brought to its latest Alembic revision when the  *)
(* process starts (_migrate_to_head in db.py, migrations/versions), on     *)
(* SQLite: DDL commits by itself until the first row is written, which     *)
(* opens the transaction that the end of the start commits. The schema is  *)
(* a set of items <<table, what>>; a column is named if it came after its  *)
(* table, an index if it came after the baseline, and a rewrite of old     *)
(* rows is an item too. The process may be killed between two statements.  *)
(***************************************************************************)
EXTENDS Naturals, Sequences, FiniteSets

CONSTANTS
    Early,      \* the sets of tables that a database without Alembic may have
    MaxBoots

VARIABLES
    disk,       \* what is committed: [items, vtable, version]; version 0 is no row
    work,       \* what the connection of a start sees
    tx,         \* does it have a transaction open?
    pc,         \* where the start is
    op,         \* the statement of the pending revision that is next
    owed,       \* items that only this start would add: their guard looks elsewhere
    lost,       \* history: those that a kill has cut off
    boots

vars == <<disk, work, tx, pc, op, owed, lost, boots>>

-----------------------------------------------------------------------------
Table(t) == <<t, "table">>
Index(t) == <<t, "index">>
Columns(t, cs) == {<<t, c>> : c \in cs}
Elements(q) == {q[i] : i \in DOMAIN q}

\* _USAGE_DAILY_ADDED_COLUMNS, and the rewrites of rows that migrations do.
CostColumns == <<<<"usage_daily", "cost_usd">>, <<"usage_daily", "prompt_cost_usd">>,
                 <<"usage_daily", "completion_cost_usd">>, <<"usage_daily", "image_cost_usd">>>>
Rewrites == {<<"usage_events", "reasons">>, <<"usage_events", "slugs">>,
             <<"usage_daily", "slugs">>}

(* A revision: its statements, and what each is guarded by: nothing, its own
   absence ("each"), that of the first one ("first"), or that and the absence
   of the table ("lenient"). *)
Revision(guard, does) == [guard |-> guard, does |-> does]

Baseline == Revision("none",
    <<Table("circuit_breaker_config"), Table("client_billing_settings"),
      Table("currency_rates"), Table("model_price_config"), Table("rate_limit_config"),
      Table("usage_daily"), Table("usage_events")>>)
Replica == Revision("first", <<<<"usage_events", "instance_id">>>>)
Idempotency == Revision("first", <<Table("idempotency_records")>>)
Interrupted == Revision("first", <<<<"usage_events", "interrupted">>>>)
Reason == Revision("each",
    <<<<"usage_events", "termination_reason">>, <<"usage_events", "reasons">>>>)
Snapshot == Revision("first", <<Table("manager_catalog_snapshot")>>)
RequestId == Revision("each",
    <<<<"usage_events", "request_id">>, <<"usage_events", "cached_prompt_tokens">>>>)
RecordedRequest == Revision("first", <<<<"idempotency_records", "request_id">>>>)
StableId == Revision("each",
    <<<<"usage_events", "model_slug">>, <<"usage_events", "slugs">>,
      <<"usage_daily", "model_slug">>, <<"usage_daily", "slugs">>>>)
DefaultPrice == Revision("lenient", <<<<"model_price_config", "is_default">>>>)

\* Fault: what PRM-157 forgot, that an adopted database has the table already.
AuditUnguarded == Revision("none", <<Table("audit_events"), Index("audit_events")>>)

Audit == Revision("first", <<Table("audit_events"), Index("audit_events")>>)
Splits == Revision("first", <<Table("traffic_splits")>>)
TierTable == Revision("each",
    <<Table("rate_limit_tiers"), <<"client_billing_settings", "tier">>>>)
\* Two of its eleven columns.
Eleven == Revision("each",
    <<<<"rate_limit_config", "rpm_platform">>, <<"rate_limit_config", "tpm_predict">>>>)
EndUser == Revision("first", <<<<"usage_events", "end_user">>, Index("usage_events")>>)
Latency == Revision("each",
    <<<<"usage_events", "duration_ms">>, <<"usage_events", "ttft_ms">>>>)
TierCap == Revision("lenient", <<<<"rate_limit_tiers", "monthly_spend_cap_usd">>>>)

Chain == <<Baseline, Replica, Idempotency, Interrupted, Reason, Snapshot, RequestId,
           RecordedRequest, StableId, DefaultPrice, Audit, Splits, TierTable, Eleven,
           EndUser, Latency, TierCap>>
Latest == Len(Chain)

\* The models of today, by table.
UsageModels ==
    Columns("usage_daily", {"table", "cost_usd", "prompt_cost_usd", "completion_cost_usd",
        "image_cost_usd", "model_slug"})
    \cup Columns("usage_events", {"table", "index", "instance_id", "request_id", "end_user",
        "duration_ms", "ttft_ms", "cached_prompt_tokens", "termination_reason",
        "interrupted", "model_slug"})
    \cup {Table("manager_catalog_snapshot")}
BillingModels ==
    Columns("idempotency_records", {"table", "request_id"})
    \cup Columns("client_billing_settings", {"table", "tier"})
    \cup Columns("rate_limit_tiers", {"table", "monthly_spend_cap_usd"})
    \cup {Table("currency_rates")} \cup Columns("model_price_config", {"table", "is_default"})
ConfigModels ==
    Columns("rate_limit_config", {"table", "rpm_platform", "tpm_predict"})
    \cup {Table("circuit_breaker_config")}
AuditModel == {Table("audit_events"), Index("audit_events")}
SplitModel == {Table("traffic_splits")}
Models == UsageModels \cup BillingModels \cup ConfigModels \cup AuditModel \cup SplitModel

\* The order create_all takes them in.
Sorted == <<"audit_events", "circuit_breaker_config", "client_billing_settings",
    "currency_rates", "idempotency_records", "manager_catalog_snapshot", "model_price_config",
    "rate_limit_config", "rate_limit_tiers", "traffic_splits", "usage_daily", "usage_events">>

\* What a statement adds: a table of the baseline has its columns of then.
Brings(item) ==
    IF item = Table("usage_daily") THEN {item} \cup Elements(CostColumns) ELSE {item}

\* The schema of each revision.
Shape[k \in 0 .. Latest] ==
    IF k = 0 THEN {}
    ELSE Shape[k - 1] \cup UNION {Brings(item) : item \in Elements(Chain[k].does)}

-----------------------------------------------------------------------------
HasTables(d) == d.items # {}

Database(items, version) == [items |-> items, vtable |-> version # 0, version |-> version]

\* A new database, one from before Alembic, one of each revision.
Init ==
    /\ \/ \E k \in 0 .. Latest : disk = Database(Shape[k], k)
       \/ \E S \in Early, n \in 0 .. Len(CostColumns) :
            disk = Database({Table(t) : t \in S} \cup {CostColumns[i] : i \in 1 .. n}, 0)
    /\ work = disk
    /\ tx = FALSE /\ pc = "off" /\ op = 1 /\ owed = {} /\ lost = {} /\ boots = 0

\* A statement of the connection: rows open the transaction, and DDL commits
\* by itself while there is none.
Runs(new, rows) ==
    /\ work' = new
    /\ tx' = (tx \/ rows)
    /\ disk' = IF tx \/ rows THEN disk ELSE new

Makes(items) == Runs([work EXCEPT !.items = @ \cup items], FALSE)

Boot ==
    /\ pc = "off" /\ boots < MaxBoots
    /\ boots' = boots + 1
    /\ pc' = IF HasTables(disk) /\ ~disk.vtable THEN "adopt" ELSE "version"
    /\ op' = 1 /\ owed' = {}
    /\ UNCHANGED <<disk, work, tx, lost>>

\* create_all: the next table that is missing, with today's columns; then its
\* indexes.
MissingTables == {i \in DOMAIN Sorted : Table(Sorted[i]) \notin work.items}

CreateTable ==
    /\ pc = "adopt" /\ owed = {} /\ MissingTables # {}
    /\ LET i == CHOOSE i \in MissingTables : \A j \in MissingTables : i <= j
           t == Sorted[i]
           model == {m \in Models : m[1] = t}
       IN  /\ Makes(model \ {Index(t)})
           /\ owed' = model \cap {Index(t)}
    /\ UNCHANGED <<pc, op, lost, boots>>

CreateIndex ==
    /\ pc = "adopt" /\ owed # {}
    /\ Makes(owed)
    /\ owed' = {}
    /\ UNCHANGED <<pc, op, lost, boots>>

\* _ensure_usage_daily_cost_column.
MissingCosts == {i \in DOMAIN CostColumns : CostColumns[i] \notin work.items}

LiftCosts ==
    /\ pc = "adopt" /\ owed = {} /\ MissingTables = {} /\ MissingCosts # {}
    /\ Makes({CostColumns[CHOOSE i \in MissingCosts : \A j \in MissingCosts : i <= j]})
    /\ UNCHANGED <<pc, op, owed, lost, boots>>

\* The version table is made, by the stamp or by the upgrade.
VersionTable ==
    /\ \/ pc = "version" /\ pc' = "upgrade"
       \/ /\ pc = "adopt" /\ owed = {} /\ MissingTables = {} /\ MissingCosts = {}
          /\ pc' = "stamp"
    /\ Runs([work EXCEPT !.vtable = TRUE], FALSE)
    /\ UNCHANGED <<op, owed, lost, boots>>

Stamp ==
    /\ pc = "stamp"
    /\ Runs([work EXCEPT !.version = 1], TRUE)
    /\ pc' = "upgrade"
    /\ UNCHANGED <<op, owed, lost, boots>>

-----------------------------------------------------------------------------
\* The upgrade: the statements of each pending revision, then its version.
Pending == Chain[work.version + 1]
Upgrading == pc = "upgrade" /\ work.version < Latest
Item == Pending.does[op]

Guarded ==
    \/ /\ Pending.guard = "each" /\ Item \in work.items /\ Item \notin Rewrites
    \/ /\ op = 1 /\ Pending.guard \in {"first", "lenient"} /\ Item \in work.items
    \/ /\ Pending.guard = "lenient" /\ Table(Item[1]) \notin work.items

\* A column or an index needs its table and must be new, a table new; a
\* rewrite may be done again.
Legal ==
    \/ Item \in Rewrites
    \/ Item \notin work.items /\ (Item = Table(Item[1]) \/ Table(Item[1]) \in work.items)

Skip ==
    /\ Upgrading /\ op <= Len(Pending.does) /\ Guarded
    /\ op' = IF Pending.guard = "each" THEN op + 1 ELSE Len(Pending.does) + 1
    /\ UNCHANGED <<disk, work, tx, pc, owed, lost, boots>>

Statement ==
    /\ Upgrading /\ op <= Len(Pending.does) /\ ~Guarded /\ Legal
    /\ Runs([work EXCEPT !.items = @ \cup Brings(Item)], Item \in Rewrites)
    /\ op' = op + 1
    /\ owed' = IF Pending.guard = "first"
               THEN {Pending.does[i] : i \in op + 1 .. Len(Pending.does)} ELSE {}
    /\ UNCHANGED <<pc, lost, boots>>

Raises ==
    /\ Upgrading /\ op <= Len(Pending.does) /\ ~Guarded /\ ~Legal
    /\ pc' = "raised" /\ work' = disk /\ tx' = FALSE /\ op' = 1
    /\ UNCHANGED <<disk, owed, lost, boots>>

Bump ==
    /\ Upgrading /\ op = Len(Pending.does) + 1
    /\ Runs([work EXCEPT !.version = @ + 1], TRUE)
    /\ op' = 1 /\ owed' = {}
    /\ UNCHANGED <<pc, lost, boots>>

\* The connection's block ends: the commit.
Commit ==
    /\ pc = "upgrade" /\ work.version = Latest
    /\ disk' = work /\ tx' = FALSE /\ pc' = "up"
    /\ UNCHANGED <<work, op, owed, lost, boots>>

\* The process is killed, or ends.
Down ==
    /\ pc # "off"
    /\ pc' = "off" /\ work' = disk /\ tx' = FALSE /\ op' = 1 /\ owed' = {}
    /\ lost' = IF tx THEN lost ELSE lost \cup owed
    /\ UNCHANGED <<disk, boots>>

Next ==
    \/ Boot \/ CreateTable \/ CreateIndex \/ LiftCosts \/ VersionTable \/ Stamp
    \/ Skip \/ Statement \/ Raises \/ Bump \/ Commit \/ Down

Spec == Init /\ [][Next]_vars

-----------------------------------------------------------------------------
\* Killed after the version table was made and before its row was committed:
\* every later start runs the unguarded baseline into the tables there are.
Torn(d) == d.vtable /\ d.version = 0 /\ HasTables(d)

(* Whatever release left the database and wherever earlier starts were killed,
   a start raises on no migration, and one that finishes has committed exactly
   what the models of today describe, rewritten rows included. The two
   exceptions: a torn database, and an index lost between a table and its
   index (db.py:535, db.py:548). Between commits a versioned database has all
   that its version says. *)
TablesAtHead ==
    /\ pc = "raised" => Torn(disk)
    /\ pc = "up" => /\ disk.version = Latest
                    /\ disk.items \subseteq Models \cup Rewrites
                    /\ (Models \cup Rewrites) \ disk.items \subseteq lost
    /\ disk.version # 0 => Shape[disk.version] \subseteq disk.items \cup lost
=============================================================================
