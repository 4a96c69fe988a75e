------------------------------- MODULE Ledger -------------------------------
(***************************************************************************)
(* What one model costs, and what one client is billed for it on one day:  *)
(* the price row of model_price_config and the live PricingTable that the  *)
(* gateway keeps beside it (billing_router.py, manager_sync.py), the       *)
(* usage_events and their rollup usage_daily (db.record_usage), and the    *)
(* two scripts that repair history while the gateway runs.                 *)
(*                                                                         *)
(* Every request uses one unit, so it costs its rate. Usage is filed under *)
(* the model's catalogue id, and before PRM-113 was under its slug.        *)
(***************************************************************************)
EXTENDS Integers, Sequences, FiniteSets, Folds

CONSTANTS
    Requests,   \* that may record at a time
    Writers,    \* of prices: admin requests and the catalogue sync
    Jobs,       \* repricings that may run at a time
    Rates,      \* an admin may put, above 0
    Base,       \* the modality's base rate
    FileRate,   \* what pricing.yaml says, or None
    MaxEvents,  \* bound: events
    MaxOps      \* bound: price writes, scripts and restarts

VARIABLES
    row,      \* the price row, or NoRow
    live,     \* PricingTable's own entry, or Absent
    events,   \* usage_events, in order
    daily,    \* usage_daily, by name: NoRow, or the sums
    req,      \* per slot: the request in it
    writer,   \* per slot: the price being written
    job,      \* per slot: the repricing
    writes,   \* of the price row, and by that its clock
    ops,
    legacy,   \* history: per name, what of the rollup predates usage_events
    mixed,    \* history: since the start two writers of the price overlapped
    crossed   \* history: a repricing applied a plan that no longer held

vars == <<row, live, events, daily, req, writer, job, writes, ops, legacy, mixed, crossed>>

books == <<events, daily, legacy, crossed>>
prices == <<row, live, writes, mixed>>

Names == {"id", "slug"}

None == -1    \* NULL
Absent == -2
NoRow == [none |-> TRUE]
Idle == [pc |-> "idle"]

Price(rate, default, at) == [none |-> FALSE, rate |-> rate, default |-> default, at |-> at]

\* Fault: SQL's own sum, a COALESCE forgotten.
NullPlus(a, b) == IF None \in {a, b} THEN None ELSE a + b

\* _accumulate_nullable_cost, and COALESCE(x, 0) + y with a y.
Plus(a, b) ==
    IF a = None /\ b = None THEN None
    ELSE (IF a = None THEN 0 ELSE a) + (IF b = None THEN 0 ELSE b)

Nothing == [n |-> 0, cost |-> None]

\* A row of the rollup; merged: two rows with costs became one.
Sums(n, cost, parts, merged) ==
    [none |-> FALSE, n |-> n, cost |-> cost, parts |-> parts, merged |-> merged]

\* The day may hold an unpriced event of the time of PRM-113's defect, under
\* the slug though its price was in force, and what predates usage_events.
Lost == [key |-> "slug", cost |-> None, at |-> 1, rated |-> None, was |-> Base,
         fixed |-> FALSE, late |-> FALSE, aged |-> FALSE]

Init ==
    /\ row \in {NoRow, Price(Base, TRUE, 1)}
    /\ live = IF row = NoRow THEN Absent ELSE Base
    /\ writes = 1
    /\ events \in IF row = NoRow THEN {<<>>} ELSE {<<>>, <<Lost>>}
    /\ legacy \in [Names -> {Nothing, [n |-> 1, cost |-> 1]}]
    /\ daily = [k \in Names |->
                  LET lost == IF k = "slug" THEN Len(events) ELSE 0
                  IN  IF legacy[k] = Nothing /\ lost = 0 THEN NoRow
                      ELSE Sums(legacy[k].n + lost, legacy[k].cost, legacy[k].cost, FALSE)]
    /\ req = [r \in Requests |-> Idle]
    /\ writer = [w \in Writers |-> Idle]
    /\ job = [j \in Jobs |-> Idle]
    /\ ops = 0
    /\ mixed = FALSE
    /\ crossed = FALSE

-----------------------------------------------------------------------------
(* Requests.                                                               *)

\* get_price and _lookup: by the id, which the table may have, then by the slug.
RateNow == IF live = Absent THEN FileRate ELSE live

\* record_usage, up to its first await.
LookUp(r) ==
    /\ req[r].pc = "idle"
    /\ Len(events) < MaxEvents
    /\ req' = [req EXCEPT ![r] = [pc |-> "commit", rate |-> RateNow]]
    /\ UNCHANGED <<books, prices, writer, job, ops>>

\* _usage_daily_upsert_stmt.
Rollup(day, rate) ==
    IF day.none THEN Sums(1, rate, rate, FALSE)
    ELSE [day EXCEPT !.n = @ + 1, !.cost = Plus(@, rate), !.parts = Plus(@, rate)]

\* The event and the rollup, in one transaction. was, history: the row's rate.
Record(r) ==
    /\ req[r].pc = "commit"
    /\ Len(events) < MaxEvents
    /\ events' = Append(events, [key |-> "id", cost |-> req[r].rate, at |-> writes,
                                 rated |-> req[r].rate,
                                 was |-> IF row = NoRow THEN None ELSE row.rate,
                                 fixed |-> FALSE, late |-> FALSE, aged |-> FALSE])
    /\ daily' = [daily EXCEPT !["id"] = Rollup(@, req[r].rate)]
    /\ req' = [req EXCEPT ![r] = Idle]
    /\ UNCHANGED <<legacy, crossed, prices, writer, job, ops>>

\* The database refuses: nothing is kept.
RecordFails(r) ==
    /\ req[r].pc = "commit"
    /\ req' = [req EXCEPT ![r] = Idle]
    /\ UNCHANGED <<books, prices, writer, job, ops>>

-----------------------------------------------------------------------------
(* Prices.                                                                 *)

Begin(w, step) ==
    /\ writer[w].pc = "idle"
    /\ ops < MaxOps
    /\ ops' = ops + 1
    /\ writer' = [writer EXCEPT ![w] = step]
    /\ UNCHANGED <<books, prices, req, job>>

Put(w, rate) == Begin(w, [pc |-> "upsert", rate |-> rate, default |-> FALSE])

Reset(w) == Begin(w, [pc |-> "delete"])

\* seed_default_prices, from a sync, of which one runs: a model without a row.
Seed(w) ==
    /\ row = NoRow
    /\ \A v \in Writers : writer[v].pc \notin {"insert", "list", "apply"}
    /\ Begin(w, [pc |-> "insert"])

\* The row is written. A writer whose row another overwrites before it has
\* brought the live table up to date may leave the two apart.
Write(w, new, next) ==
    /\ row' = new
    /\ writes' = IF new = row THEN writes ELSE writes + 1
    /\ mixed' = (mixed \/ \E v \in Writers \ {w} :
                             writer[v].pc \in {"set", "remove", "lookup", "list", "apply"})
    /\ writer' = [writer EXCEPT ![w] = next]
    /\ UNCHANGED <<live, books, req, job, ops>>

\* upsert_model_price_config: a row that says the same is not written.
Upsert(w) ==
    LET rate == writer[w].rate
        default == writer[w].default
        same == row # NoRow /\ row.rate = rate /\ row.default = default
    IN  /\ writer[w].pc = "upsert"
        /\ Write(w, IF same THEN row ELSE Price(rate, default, writes + 1),
                 [pc |-> "set", rate |-> rate])

\* delete_model_price_config.
Delete(w) ==
    /\ writer[w].pc = "delete"
    /\ Write(w, NoRow, [pc |-> "remove"])

\* A row that came in between is an error, and nothing is seeded.
Insert(w) ==
    /\ writer[w].pc = "insert"
    /\ IF row = NoRow
       THEN Write(w, Price(Base, TRUE, writes + 1), [pc |-> "list"])
       ELSE Write(w, row, Idle)

\* The sync reads the row it made back, if it is still there.
List(w) ==
    /\ writer[w].pc = "list"
    /\ writer' = [writer EXCEPT ![w] = IF row = NoRow THEN Idle
                                       ELSE [pc |-> "apply", rate |-> row.rate]]
    /\ UNCHANGED <<books, prices, req, job, ops>>

Table(w, entry, next) ==
    /\ live' = entry
    /\ writer' = [writer EXCEPT ![w] = next]
    /\ UNCHANGED <<row, writes, mixed, books, req, job, ops>>

\* set_price.
SetPrice(w) ==
    /\ writer[w].pc \in {"set", "apply"}
    /\ Table(w, writer[w].rate, Idle)

\* remove_price: the file's entry, or none.
RemovePrice(w) ==
    /\ writer[w].pc = "remove"
    /\ Table(w, Absent, [pc |-> "lookup"])

\* _modality_of: the base price is written, or there is none to write.
Restore(w) ==
    /\ writer[w].pc = "lookup"
    /\ \E next \in {Idle, [pc |-> "upsert", rate |-> Base, default |-> TRUE]} :
          writer' = [writer EXCEPT ![w] = next]
    /\ UNCHANGED <<books, prices, req, job, ops>>

\* The gateway restarts: pricing.yaml, and the rows over it.
Restart ==
    /\ ops < MaxOps
    /\ ops' = ops + 1
    /\ live' = IF row = NoRow THEN Absent ELSE row.rate
    /\ mixed' = FALSE
    /\ req' = [r \in Requests |-> Idle]
    /\ writer' = [w \in Writers |-> Idle]
    /\ UNCHANGED <<row, writes, books, job>>

-----------------------------------------------------------------------------
(* scripts/reprice_unpriced_usage.py and reunify_usage_history.py.         *)

\* _prices. ignore_age: the flag --include-usage-older-than-its-price, under
\* which a model without a row is rated at its modality's base price. A row
\* without a rate has the script find nothing to repair.
ReadPrices(j, ignore_age) ==
    /\ job[j].pc = "idle"
    /\ ops < MaxOps
    /\ ops' = ops + 1
    /\ IF row = NoRow THEN ignore_age ELSE row.rate # None
    /\ job' = [job EXCEPT ![j] = [pc |-> "plan", price |-> row, ignore_age |-> ignore_age]]
    /\ UNCHANGED <<books, prices, req, writer>>

\* The price was in force when the usage was recorded.
InForce(e, price) == price # NoRow /\ e.at >= price.at

\* plan: unpriced, and not older than its price unless age is ignored.
Repairable(e, price, ignore_age) ==
    /\ e.cost = None
    /\ ignore_age \/ InForce(e, price)

\* What usage is rated at when its model has this row.
RateOf(price) == IF price = NoRow THEN Base ELSE price.rate

\* late, aged, history: the price was rewritten between the two reads; what is
\* older than the price it would be given.
Plan(j) ==
    /\ job[j].pc = "plan"
    /\ job' = [job EXCEPT ![j] =
                 [pc |-> "apply", price |-> @.price, late |-> @.price # row,
                  aged |-> {i \in DOMAIN events : ~InForce(events[i], @.price)},
                  rows |-> {[at |-> i, key |-> events[i].key] :
                              i \in {n \in DOMAIN events :
                                       Repairable(events[n], @.price, @.ignore_age)}}]]
    /\ UNCHANGED <<books, prices, req, writer, ops>>

\* apply_changes: the events by their id, whatever they cost by now, and what
\* they come to on top of the rollup, where there is one of that name.
Apply(j) ==
    LET rate == RateOf(job[j].price)
        rows == job[j].rows
        Of(k) == {p \in rows : p.key = k}
    IN  /\ job[j].pc = "apply"
        /\ events' = [i \in DOMAIN events |->
                        IF \E p \in rows : p.at = i
                        THEN [events[i] EXCEPT !.cost = rate, !.fixed = TRUE, !.late = job[j].late,
                                               !.aged = i \in job[j].aged]
                        ELSE events[i]]
        /\ daily' = [k \in Names |->
                       IF daily[k].none \/ Of(k) = {} THEN daily[k]
                       ELSE [daily[k] EXCEPT !.cost = Plus(@, rate * Cardinality(Of(k))),
                                             !.parts = Plus(@, rate * Cardinality(Of(k)))]]
        /\ crossed' = (crossed \/ \E p \in rows : \/ events[p.at].cost # None
                                                  \/ events[p.at].key # p.key)
        /\ job' = [job EXCEPT ![j] = Idle]
        /\ UNCHANGED <<legacy, prices, req, writer, ops>>

\* The operator does not go on.
Abandon(j) ==
    /\ job[j].pc # "idle"
    /\ job' = [job EXCEPT ![j] = Idle]
    /\ UNCHANGED <<books, prices, req, writer, ops>>

\* Two rows of a day become one: the counters and the cost are added, the parts
\* of the cost stay those of the row that is kept.
Merge(kept, gone) ==
    Sums(kept.n + gone.n, Plus(kept.cost, gone.cost), kept.parts,
         kept.merged \/ gone.merged \/ gone.cost # None)

\* apply: what is filed under the slug is filed under the id.
Reunify ==
    /\ ops < MaxOps
    /\ ops' = ops + 1
    /\ ~daily["slug"].none
    /\ events' = [i \in DOMAIN events |-> [events[i] EXCEPT !.key = "id"]]
    /\ daily' = [id |-> IF daily["id"].none THEN daily["slug"]
                        ELSE Merge(daily["id"], daily["slug"]),
                 slug |-> NoRow]
    /\ legacy' = [id |-> [n |-> legacy["id"].n + legacy["slug"].n,
                          cost |-> IF {legacy[k].cost : k \in Names} = {None} THEN None
                                   ELSE legacy["id"].n + legacy["slug"].n],
                  slug |-> Nothing]
    /\ UNCHANGED <<crossed, prices, req, writer, job>>

Next ==
    \/ \E r \in Requests : LookUp(r) \/ Record(r) \/ RecordFails(r)
    \/ \E w \in Writers :
          \/ \E rate \in Rates \cup {None} : Put(w, rate)
          \/ Reset(w) \/ Seed(w)
          \/ Upsert(w) \/ Delete(w) \/ Insert(w) \/ List(w)
          \/ SetPrice(w) \/ RemovePrice(w) \/ Restore(w)
    \/ Restart
    \/ \E j \in Jobs : \/ \E ignore_age \in BOOLEAN : ReadPrices(j, ignore_age)
                       \/ Plan(j) \/ Apply(j) \/ Abandon(j)
    \/ Reunify

Spec == Init /\ [][Next]_vars

-----------------------------------------------------------------------------
Add(x, y) == x + y

\* query_model_cost_range: SUM skips NULLs, and is NULL of nothing else.
Billed(k) ==
    LET mine == {i \in DOMAIN events : events[i].key = k}
        priced == {i \in mine : events[i].cost # None}
    IN  [n |-> Cardinality(mine),
         cost |-> IF priced = {} THEN None
                  ELSE MapThenFoldSet(Add, 0, LAMBDA i : events[i].cost,
                                      LAMBDA s : CHOOSE i \in s : TRUE, priced)]

\* The day's rollup is what the events are billed at, and what predates them.
\* Its parts come to its cost, but where reunify_usage_history.py merged rows.
RollupAgrees ==
    \A k \in Names :
        LET billed == Billed(k)
            known == {billed.cost, legacy[k].cost} \ {None}
        IN  IF daily[k].none THEN billed.n + legacy[k].n = 0
            ELSE /\ daily[k].n = billed.n + legacy[k].n
                 /\ IF known = {} THEN daily[k].cost = None
                    ELSE daily[k].cost = (IF billed.cost = None THEN 0 ELSE billed.cost)
                                       + (IF legacy[k].cost = None THEN 0 ELSE legacy[k].cost)
                 /\ ~daily[k].merged => daily[k].parts = daily[k].cost

\* The live table says what a restart would make it say.
PriceInForce ==
    (\A w \in Writers : writer[w].pc = "idle") =>
        live = IF row = NoRow THEN Absent ELSE row.rate

\* RM-60: usage costs the rate in force when it was used, and is never re-rated.
\* A repair gives the rate of the row as it was then, and only to what had no
\* cost. The exception has a flag of its own: usage that is older than its price
\* is given it when the operator says so (reprice_unpriced_usage.py:20).
NeverRerated ==
    \A i \in DOMAIN events :
        LET e == events[i]
        IN  IF e.fixed THEN e.rated = None /\ (e.cost = e.was \/ e.late \/ e.aged)
            ELSE e.cost = e.rated

(* The books agree however price changes, resets, syncs, requests, scripts and
   restarts interleave: the rollup with the events, the live prices with the
   rows, what usage cost with the price that was in force. But not after a
   repricing whose plan another script overtook: it updates by id, without
   looking again (reprice_unpriced_usage.py:134). And not the live table while
   two writers of a price overlapped (billing_router.py:543). *)
LedgerAgrees ==
    /\ crossed \/ (RollupAgrees /\ NeverRerated)
    /\ mixed \/ PriceInForce
=============================================================================
