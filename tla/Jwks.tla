-------------------------------- MODULE Jwks --------------------------------
(***************************************************************************)
(* The keys with which the gateway verifies a token (auth/jwks.py and      *)
(* _validate_token of auth/middleware.py) while the auth service is        *)
(* restarted with another one. Each worker keeps the keys for L1TTL, all   *)
(* workers share a copy in Redis for L2TTL, and a token no key verifies    *)
(* clears the worker's own copy, at most once in Interval, and retries.    *)
(*                                                                         *)
(* The service publishes one key, so a set of keys is the number of the    *)
(* key it holds. fetch_jwks_keys holds its worker's lock from the lookup   *)
(* to the last write; every action below ends with one of its awaits.      *)
(***************************************************************************)
EXTENDS Integers

CONSTANTS
    Workers,
    Requests,      \* requests under validation at a time
    L1TTL,         \* _L1_CACHE_TTL, in ticks
    L2TTL,         \* _CACHE_TTL
    Interval,      \* _FORCED_REFRESH_MIN_INTERVAL
    Delay,         \* ticks an exchange with the service or with Redis may last
    MaxRotations,  \* bound: keys after the first
    MaxFaults      \* bound: calls that fail

VARIABLES
    key,     \* the key the service signs with and publishes
    since,   \* ticks since it does, up to Settled + 1
    l1,      \* per worker: _cache
    l2,      \* Redis: prometheus:jwks:<url>
    forced,  \* per worker: ticks since _last_forced_refresh, up to Interval
    req,     \* per request: the validation
    faults   \* calls that failed so far

vars == <<key, since, l1, l2, forced, req, faults>>

\* After this long every worker is expected to have the new key.
Settled == L1TTL + L2TTL + Delay

\* A copy of the keys: 0 is no key, age is what its lifetime is counted from.
Nothing == [key |-> 0, age |-> 0]

\* wait: how long the exchange under way lasts; began: since the lookup.
Idle == [pc |-> "idle", worker |-> CHOOSE w \in Workers : TRUE, token |-> 1,
         key |-> 0, wait |-> 0, began |-> 0, retried |-> FALSE]

Init ==
    /\ key = 1
    /\ since = Settled + 1
    /\ l1 = [w \in Workers |-> Nothing]
    /\ l2 = Nothing
    /\ forced = [w \in Workers |-> Interval]
    /\ req = [r \in Requests |-> Idle]
    /\ faults = 0

-----------------------------------------------------------------------------
\* Lifetimes are counted in ticks begun, so a copy may just outlive its own.
Fresh(copy) == copy.key # 0 /\ copy.age <= L1TTL

\* async with _lock: one fetch at a time in a worker.
Locked(w) == \E r \in Requests : req[r].worker = w /\ req[r].pc \in {"shared", "service", "store"}

Goes(r, pc) == [req[r] EXCEPT !.pc = pc, !.wait = 0]

Fail ==
    /\ faults < MaxFaults
    /\ faults' = faults + 1

\* invalidate_jwks_cache, when it may: the second lookup of _validate_token.
Invalidate(r) ==
    /\ forced[req[r].worker] >= Interval
    /\ req' = [req EXCEPT ![r] = [Goes(r, "lookup") EXCEPT !.retried = TRUE]]
    /\ l1' = [l1 EXCEPT ![req[r].worker] = Nothing]
    /\ forced' = [forced EXCEPT ![req[r].worker] = 0]

\* _decode_with_keys over the keys a fetch returned: accepted, retried or
\* refused. copies is the L1 the fetch left.
Decode(r, keys, copies) ==
    LET again == /\ keys # req[r].token /\ ~req[r].retried
                 /\ forced[req[r].worker] >= Interval
    IN  \/ again /\ Invalidate(r)
        \/ /\ ~again
           /\ req' = [req EXCEPT ![r] = Idle]
           /\ l1' = copies
           /\ UNCHANGED forced

Arrive(r, w) ==
    /\ req[r].pc = "idle"
    /\ \E t \in 1 .. key :
          req' = [req EXCEPT ![r] = [Idle EXCEPT !.pc = "lookup", !.worker = w, !.token = t]]
    /\ UNCHANGED <<key, since, l1, l2, forced, faults>>

\* The lock is taken and the worker's own copy is fresh: no await at all.
Lookup(r) ==
    LET w == req[r].worker
    IN  /\ req[r].pc = "lookup" /\ ~Locked(w)
        /\ \/ /\ Fresh(l1[w])
              /\ Decode(r, l1[w].key, l1)
           \/ /\ ~Fresh(l1[w])
              /\ req' = [req EXCEPT ![r] = [Goes(r, "shared") EXCEPT !.began = 0]]
              /\ UNCHANGED <<l1, forced>>
        /\ UNCHANGED <<key, since, l2, faults>>

\* Fault: a hit extends the life of the shared copy.
ReadSharedExtends(r) ==
    LET w == req[r].worker
    IN  /\ req[r].pc = "shared"
        /\ \/ /\ l2.key # 0
              /\ Decode(r, l2.key, [l1 EXCEPT ![w] = [key |-> l2.key, age |-> req[r].began]])
           \/ /\ l2.key = 0
              /\ req' = [req EXCEPT ![r] = Goes(r, "service")]
              /\ UNCHANGED <<l1, forced>>
        /\ l2' = [l2 EXCEPT !.age = 0]
        /\ UNCHANGED <<key, since, faults>>

\* GET of the shared copy: a hit fills L1, a miss or an error goes on.
ReadShared(r) ==
    LET w == req[r].worker
    IN  /\ req[r].pc = "shared"
        /\ \/ /\ l2.key # 0
              /\ Decode(r, l2.key, [l1 EXCEPT ![w] = [key |-> l2.key, age |-> req[r].began]])
              /\ UNCHANGED faults
           \/ /\ (l2.key = 0 /\ UNCHANGED faults) \/ Fail
              /\ req' = [req EXCEPT ![r] = Goes(r, "service")]
              /\ UNCHANGED <<l1, forced>>
        /\ UNCHANGED <<key, since, l2>>

\* The service answers with its key, or the request fails with a 500.
AskService(r) ==
    /\ req[r].pc = "service"
    /\ \/ /\ req' = [req EXCEPT ![r] = [Goes(r, "store") EXCEPT !.key = key]]
          /\ UNCHANGED faults
       \/ /\ Fail
          /\ req' = [req EXCEPT ![r] = Idle]
    /\ UNCHANGED <<key, since, l1, l2, forced>>

\* The answer arrives: L1 is filled, then the shared copy is SET (or is not).
Store(r) ==
    LET w == req[r].worker
        own == [l1 EXCEPT ![w] = [key |-> req[r].key, age |-> req[r].began]]
    IN  /\ req[r].pc = "store"
        /\ \/ l2' = [key |-> req[r].key, age |-> 0] /\ UNCHANGED faults
           \/ UNCHANGED l2 /\ Fail
        /\ Decode(r, req[r].key, own)
        /\ UNCHANGED <<key, since>>

\* The auth service restarts with another signing key; the old one is gone.
Rotate ==
    /\ key <= MaxRotations
    /\ key' = key + 1
    /\ since' = 0
    /\ UNCHANGED <<l1, l2, forced, req, faults>>

\* A worker restarts: its copy, its throttle and its requests are gone.
Restart(w) ==
    /\ Fail
    /\ l1' = [l1 EXCEPT ![w] = Nothing]
    /\ forced' = [forced EXCEPT ![w] = Interval]
    /\ req' = [r \in Requests |-> IF req[r].worker = w THEN Idle ELSE req[r]]
    /\ UNCHANGED <<key, since, l2>>

Older(copy, ttl) ==
    IF copy.key = 0 \/ copy.age >= ttl THEN Nothing ELSE [copy EXCEPT !.age = @ + 1]

Waiting(q) == q.pc \in {"shared", "service", "store"}

\* A tick: copies age and expire; no exchange outlives Delay.
Tick ==
    /\ \A r \in Requests : Waiting(req[r]) => req[r].wait < Delay
    /\ since' = IF since > Settled THEN since ELSE since + 1
    /\ l1' = [w \in Workers |-> Older(l1[w], L1TTL)]
    /\ l2' = Older(l2, L2TTL)
    /\ forced' = [w \in Workers |-> IF forced[w] < Interval THEN forced[w] + 1 ELSE Interval]
    /\ req' = [r \in Requests |->
                 IF Waiting(req[r])
                 THEN [req[r] EXCEPT !.wait = @ + 1, !.began = @ + 1]
                 ELSE req[r]]
    /\ UNCHANGED <<key, faults>>

Next ==
    \/ \E r \in Requests, w \in Workers : Arrive(r, w)
    \/ \E r \in Requests : Lookup(r) \/ ReadShared(r) \/ AskService(r) \/ Store(r)
    \/ \E w \in Workers : Restart(w)
    \/ Rotate
    \/ Tick

Spec == Init /\ [][Next]_vars

-----------------------------------------------------------------------------
(* A rotation settles: once both lifetimes and the exchanges under way when
   it happened are over, no worker, no shared copy and no fetch holds another
   key, so no token of the retired key is accepted and none of the new key
   refused. Until then both happen: a forced refresh clears only the worker's
   own copy and reads the shared one again (jwks.py:156, 88). *)
RotationSettles ==
    since > Settled =>
        /\ \A w \in Workers : Fresh(l1[w]) => l1[w].key = key
        /\ l2.key \in {0, key}
        /\ \A r \in Requests : req[r].pc = "store" => req[r].key = key
=============================================================================
