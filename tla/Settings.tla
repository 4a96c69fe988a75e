------------------------------ MODULE Settings ------------------------------
(***************************************************************************)
(* The settings an operator edits while the gateway serves: the rate       *)
(* limits, the thresholds of the circuit breaker and the traffic splits    *)
(* (admin/router.py). Each is a row in the database and a copy in memory   *)
(* that requests read; without a row, the copy is what .env says. A PUT    *)
(* loads the row, commits the columns that differ from what it loaded, and *)
(* applies what it was sent to the copy; the start of the gateway          *)
(* (main.py, _lifespan) applies the row.                                   *)
(*                                                                         *)
(* A value is 0 for null. The gateway is one process, as its scripts start *)
(* it.                                                                     *)
(***************************************************************************)
EXTENDS Integers, FiniteSets

CONSTANTS
    Kinds,     \* which settings: among "limits", "breaker" and "split"
    Admins,    \* admin requests that may run at a time
    Values,    \* what a field may be set to, above 0
    MinAdmin,  \* MIN_ADMIN_RPM
    MaxOps     \* bound: admin requests made

VARIABLES
    env,    \* what .env said: rate_limit_env_defaults and its like
    row,    \* per kind: the row, or Absent
    live,   \* per kind: Settings, the pool and its breakers, the SplitTable
    admin,  \* per slot: the request in it
    ops,    \* admin requests made
    named,  \* history: the fields of a limits row some PUT named
    races   \* history: the kinds on which two requests overlapped

vars == <<env, row, live, admin, ops, named, races>>

\* One of the optional limits stands for all of them: the admin endpoints' own.
Required(k) == CASE k = "limits" -> {"rpm"} [] k = "breaker" -> {"thresholds"}
                 [] k = "split" -> {"variants"}
Optional(k) == IF k = "limits" THEN {"rpm_admin"} ELSE {}
Fields(k) == Required(k) \cup Optional(k)

Null(k) == [f \in Fields(k) |-> 0]
Absent == [exists |-> FALSE]
Row(values) == [exists |-> TRUE, val |-> values]

Bodies(k) == UNION {[Required(k) \cup some -> Values \cup {0}] : some \in SUBSET Optional(k)}

Free == [pc |-> "idle"]

\* A deployment sets the required fields of each kind; splits have no default.
Init ==
    /\ env \in [Kinds -> UNION {[Fields(k) -> Values \cup {0}] : k \in Kinds}]
    /\ \A k \in Kinds : /\ DOMAIN env[k] = Fields(k)
                        /\ \A f \in Required(k) : (env[k][f] = 0) = (k = "split")
    /\ row = [k \in Kinds |-> Absent]
    /\ live = env
    /\ admin = [a \in Admins |-> Free]
    /\ ops = 0
    /\ named = {}
    /\ races = {}

-----------------------------------------------------------------------------
Busy(k) == {a \in Admins : admin[a].pc # "idle" /\ admin[a].kind = k}

Begins(a, request) ==
    /\ admin[a].pc = "idle"
    /\ ops < MaxOps
    /\ ops' = ops + 1
    /\ admin' = [admin EXCEPT ![a] = request]
    /\ races' = races \cup {k \in {request.kind} : Busy(k) # {}}
    /\ UNCHANGED <<env, row, live, named>>

\* What the gate of the admin endpoints lets through: their own limit, or the
\* global one. The ceilings of the platform, the client and the day apply to
\* them too (rate_limit_middleware.py:432, 611, 692) and are fields like any.
AdminRpm(values) ==
    IF "rpm_admin" \in DOMAIN values /\ values["rpm_admin"] # 0
    THEN values["rpm_admin"] ELSE values["rpm"]

\* Fault: the floor is checked on the field it is named after.
FloorOfField(k, values) ==
    /\ \A f \in Required(k) : values[f] # 0
    /\ k = "limits" /\ "rpm_admin" \in DOMAIN values => values["rpm_admin"] >= MinAdmin

\* What is refused with a 400: a required field that is null, and a limit that
\* leaves the admin endpoints' gate below its floor. No other gate has one.
Acceptable(k, values) ==
    /\ \A f \in Required(k) : values[f] # 0
    /\ k = "limits" => AdminRpm(values) >= MinAdmin

\* put_rate_limits, put_circuit_breaker_settings and put_split, up to the
\* session.get of the upsert.
Put(a, k, values) ==
    /\ Acceptable(k, values)
    /\ Begins(a, [pc |-> "commit", op |-> "put", kind |-> k, saw |-> row[k], values |-> values])

\* reset_rate_limits, reset_circuit_breaker_settings and remove_split alike.
Reset(a, k) ==
    Begins(a, [pc |-> IF row[k].exists THEN "commit" ELSE "apply",
               op |-> "reset", kind |-> k, saw |-> row[k], values |-> env[k]])

\* What the commit leaves of a row: the columns that the PUT changed from what
\* it had loaded, on top of whatever the row holds by now.
Merged(a) ==
    LET k == admin[a].kind
        sent == admin[a].values
        base == IF admin[a].saw.exists THEN row[k].val ELSE Null(k)
        was == IF admin[a].saw.exists THEN admin[a].saw.val ELSE Null(k)
    IN  [f \in Fields(k) |-> IF f \in DOMAIN sent /\ sent[f] # was[f] THEN sent[f] ELSE base[f]]

\* The commit. It fails, with a 500, when the row was deleted or inserted since.
Commit(a) ==
    LET k == admin[a].kind
    IN  /\ admin[a].pc = "commit"
        /\ IF admin[a].op = "put" /\ row[k].exists # admin[a].saw.exists
           THEN /\ admin' = [admin EXCEPT ![a] = Free]
                /\ UNCHANGED <<row, named>>
           ELSE /\ row' = [row EXCEPT ![k] = IF admin[a].op = "put" THEN Row(Merged(a)) ELSE Absent]
                /\ named' = IF k # "limits" THEN named
                            ELSE IF admin[a].op = "put" THEN named \cup DOMAIN admin[a].values
                            ELSE {}
                /\ admin' = [admin EXCEPT ![a].pc = "apply"]
        /\ UNCHANGED <<env, live, ops, races>>

\* apply_limits, update_circuit_breaker_settings or SplitTable.set: what was
\* sent, and for a reset what .env said. A PUT refreshes its row first, which
\* fails if it is gone.
Apply(a) ==
    LET k == admin[a].kind
        sent == admin[a].values
    IN  /\ admin[a].pc = "apply"
        /\ live' = IF admin[a].op = "put" /\ ~row[k].exists THEN live
                   ELSE [live EXCEPT ![k] = [f \in Fields(k) |->
                            IF f \in DOMAIN sent THEN sent[f] ELSE live[k][f]]]
        /\ admin' = [admin EXCEPT ![a] = Free]
        /\ UNCHANGED <<env, row, ops, named, races>>

\* What _lifespan applies: a row replaces every field, those it leaves null too.
Loaded(k) == IF row[k].exists THEN row[k].val ELSE env[k]

\* The gateway restarts: requests under way are gone, the copies are loaded.
Restart ==
    /\ live' = [k \in Kinds |-> Loaded(k)]
    /\ admin' = [a \in Admins |-> Free]
    /\ UNCHANGED <<env, row, ops, named, races>>

Next ==
    \/ \E a \in Admins, k \in Kinds : Reset(a, k) \/ \E values \in Bodies(k) : Put(a, k, values)
    \/ \E a \in Admins : Commit(a) \/ Apply(a)
    \/ Restart

Spec == Init /\ [][Next]_vars

-----------------------------------------------------------------------------
\* Fields of a limits row that no PUT named stay null in it, while requests are
\* still limited by what .env set.
Unnamed(k) == IF k = "limits" /\ row[k].exists THEN Fields(k) \ named ELSE {}

\* A restart changes nothing that requests are subject to.
RestartFaithful ==
    \A k \in Kinds :
        Busy(k) = {} /\ k \notin races =>
            \A f \in Fields(k) : \/ live[k][f] = Loaded(k)[f]
                                 \/ f \in Unnamed(k) /\ live[k][f] = env[k][f]

\* The admin endpoints' own gate stays open: neither the limits that are live
\* nor those a restart loads hold it below the floor, unless .env does. Of the
\* other gates on the way to the page this says nothing: a platform ceiling of
\* one request a minute is accepted, and does lock the operator out.
OwnGateOpen ==
    "limits" \in Kinds /\ "limits" \notin races =>
        \/ AdminRpm(env["limits"]) < MinAdmin
        \/ AdminRpm(live["limits"]) >= MinAdmin /\ AdminRpm(Loaded("limits")) >= MinAdmin

(* What the operator set is what the gateway does, now and after a restart, and
   the admin endpoints' own limit never falls below its floor. Two requests for
   the same settings that overlap may leave the row and the copy apart, and
   merge into a row that neither of them sent; and a PUT that names some limits
   only, which should leave the others as they are (router.py:1494), has a
   restart clear those that .env had set. *)
SettingsHold == RestartFaithful /\ OwnGateOpen
=============================================================================
