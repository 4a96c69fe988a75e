-------------------------------- MODULE Tiers --------------------------------
(***************************************************************************)
(* The tiers that give clients their limits and their spend cap: the       *)
(* tables rate_limit_tiers and client_billing_settings, the endpoints that *)
(* edit them (admin/billing_router.py), and the two caches through which   *)
(* requests read them (budget.py), for one client and one process.         *)
(*                                                                         *)
(* A tier is known by its cap, 0 for none. An endpoint is three steps: its *)
(* checks with the load of the row, its commit, and the invalidation that  *)
(* follows. A cached read that misses is two: the query, and the answer    *)
(* that fills the cache.                                                   *)
(***************************************************************************)
EXTENDS Integers

CONSTANTS
    Names,     \* of tiers
    Caps,      \* above 0
    Requests,  \* inference requests that may look at a time
    Admins,    \* admin requests that may run at a time
    MaxOps     \* bound: admin requests made

VARIABLES
    client,  \* the client's settings row: its tier and its own cap
    tiers,   \* rate_limit_tiers, by name: Gone without a row
    cached,  \* per row: the copy in the cache, if it has one
    req,     \* per slot: the request in it
    admin,   \* per slot: the admin request in it
    ops,     \* admin requests made
    moved    \* history: a tier was deleted while it was being assigned

vars == <<client, tiers, cached, req, admin, ops, moved>>

NoTier == "none"
Client == "client"
Gone == -1
Unset == [tier |-> NoTier, cap |-> 0]

Keys == Names \cup {Client}

Miss == [hit |-> FALSE]
Idle == [pc |-> "idle"]

Init ==
    /\ client = Unset
    /\ tiers = [n \in Names |-> Gone]
    /\ cached = [k \in Keys |-> Miss]
    /\ req = [r \in Requests |-> Idle]
    /\ admin = [a \in Admins |-> Idle]
    /\ ops = 0
    /\ moved = FALSE

-----------------------------------------------------------------------------
Stored(k) == IF k = Client THEN client ELSE [cap |-> tiers[k]]

\* resolve_spend_cap: whether the tier decides, and so is looked up next.
TierDecides(settings) == settings.cap = 0 /\ settings.tier # NoTier

\* A lookup through a cache: a hit is known at once, a miss awaits the query.
LooksUp(r, k) ==
    req' = [req EXCEPT ![r] = [pc |-> "query", key |-> k]]

Look(r) ==
    /\ req[r].pc = "idle"
    /\ IF ~cached[Client].hit
       THEN LooksUp(r, Client)
       ELSE /\ TierDecides(cached[Client].row)
            /\ ~cached[cached[Client].row.tier].hit
            /\ LooksUp(r, cached[Client].row.tier)
    /\ UNCHANGED <<client, tiers, cached, admin, ops, moved>>

\* The query runs. overtaken: the row was written after it.
Query(r) ==
    /\ req[r].pc = "query"
    /\ req' = [req EXCEPT ![r] = [pc |-> "fill", key |-> @.key, row |-> Stored(@.key),
                                  overtaken |-> FALSE]]
    /\ UNCHANGED <<client, tiers, cached, admin, ops, moved>>

\* The answer fills the cache, and a client's row may lead to its tier's.
Fill(r) ==
    LET k == req[r].key
        got == req[r].row
    IN  /\ req[r].pc = "fill"
        /\ cached' = [cached EXCEPT ![k] = [hit |-> TRUE, row |-> got, raced |-> req[r].overtaken]]
        /\ IF k = Client /\ TierDecides(got) /\ ~cached[got.tier].hit
           THEN LooksUp(r, got.tier)
           ELSE req' = [req EXCEPT ![r] = Idle]
        /\ UNCHANGED <<client, tiers, admin, ops, moved>>

\* A read that fails is no cap and no tier, and is not cached.
ReadFails(r) ==
    /\ req[r].pc = "query"
    /\ req' = [req EXCEPT ![r] = Idle]
    /\ UNCHANGED <<client, tiers, cached, admin, ops, moved>>

\* _SETTINGS_CACHE_TTL_S.
Expire(k) ==
    /\ cached[k].hit
    /\ cached' = [cached EXCEPT ![k] = Miss]
    /\ UNCHANGED <<client, tiers, req, admin, ops, moved>>

-----------------------------------------------------------------------------
Begin(a, request) ==
    /\ admin[a].pc = "idle"
    /\ ops < MaxOps
    /\ ops' = ops + 1
    /\ admin' = [admin EXCEPT ![a] = request]
    /\ UNCHANGED <<client, tiers, cached, req, moved>>

\* put_billing_settings: a tier has to exist.
Assign(a, tier, cap) ==
    /\ tier # NoTier => tiers[tier] # Gone
    /\ Begin(a, [pc |-> "commit", op |-> "assign", saw |-> client,
                 row |-> [tier |-> tier, cap |-> cap]])

\* put_tier: creates or updates.
PutTier(a, n, cap) ==
    Begin(a, [pc |-> "commit", op |-> "tier", key |-> n, saw |-> tiers[n], row |-> cap])

\* free, history: no client was on the tier then.
Doomed(n) == [pc |-> "commit", op |-> "delete", key |-> n, free |-> client.tier # n]

\* Fault: a tier goes whether or not a client is on it.
DeleteUncounted(a, n) ==
    /\ tiers[n] # Gone
    /\ Begin(a, Doomed(n))

\* delete_tier: 404 for an unknown one, 409 while a client is on it.
DeleteTier(a, n) ==
    /\ tiers[n] # Gone
    /\ client.tier # n
    /\ Begin(a, Doomed(n))

Overtake(k) ==
    [r \in Requests |-> IF req[r].pc = "fill" /\ req[r].key = k
                        THEN [req[r] EXCEPT !.overtaken = TRUE] ELSE req[r]]

\* Each column that differs from what was loaded is written.
CommitAssign(a) ==
    LET saw == admin[a].saw
        sent == admin[a].row
    IN  /\ client' = [tier |-> IF sent.tier = saw.tier THEN client.tier ELSE sent.tier,
                      cap |-> IF sent.cap = saw.cap THEN client.cap ELSE sent.cap]
        /\ req' = Overtake(Client)
        /\ admin' = [admin EXCEPT ![a] = [pc |-> "invalidate", op |-> "assign"]]
        /\ moved' = (moved \/ (client'.tier # NoTier /\ tiers[client'.tier] = Gone))
        /\ UNCHANGED tiers

\* An insert over an insert, and an update of a row that is gone, are a 500.
CommitTier(a) ==
    LET n == admin[a].key
        clash == admin[a].op = "tier" /\ (tiers[n] = Gone) # (admin[a].saw = Gone)
        cap == IF admin[a].op = "delete" THEN Gone
               ELSE IF admin[a].row = admin[a].saw THEN tiers[n] ELSE admin[a].row
    IN  /\ UNCHANGED client
        /\ IF clash
           THEN /\ admin' = [admin EXCEPT ![a] = Idle]
                /\ UNCHANGED <<tiers, req, moved>>
           ELSE /\ tiers' = [tiers EXCEPT ![n] = cap]
                /\ req' = Overtake(n)
                /\ admin' = [admin EXCEPT ![a] = [pc |-> "invalidate", op |-> @.op, key |-> n]]
                /\ moved' = (moved \/ (cap = Gone /\ admin[a].free /\ client.tier = n))

Commit(a) ==
    /\ admin[a].pc = "commit"
    /\ IF admin[a].op = "assign" THEN CommitAssign(a) ELSE CommitTier(a)
    /\ UNCHANGED <<cached, ops>>

\* The tier's copy goes; with a client's, so do those of every tier.
Invalidate(a) ==
    /\ admin[a].pc = "invalidate"
    /\ cached' = IF admin[a].op = "assign" THEN [k \in Keys |-> Miss]
                 ELSE [cached EXCEPT ![admin[a].key] = Miss]
    /\ admin' = [admin EXCEPT ![a] = Idle]
    /\ UNCHANGED <<client, tiers, req, ops, moved>>

\* The gateway restarts, and with it the caches.
Restart ==
    /\ cached' = [k \in Keys |-> Miss]
    /\ req' = [r \in Requests |-> Idle]
    /\ admin' = [a \in Admins |-> Idle]
    /\ UNCHANGED <<client, tiers, ops, moved>>

Next ==
    \/ \E r \in Requests : Look(r) \/ Query(r) \/ Fill(r) \/ ReadFails(r)
    \/ \E k \in Keys : Expire(k)
    \/ \E a \in Admins, n \in Names, c \in Caps \cup {0} :
          Assign(a, n, c) \/ Assign(a, NoTier, c) \/ PutTier(a, n, c)
    \/ \E a \in Admins, n \in Names : DeleteTier(a, n)
    \/ \E a \in Admins : Commit(a) \/ Invalidate(a)
    \/ Restart

Spec == Init /\ [][Next]_vars

-----------------------------------------------------------------------------
\* A copy that a request may use is the row, unless the endpoint that wrote the
\* row has yet to answer, or the copy was read before the write and stored after.
SavedIsSeen ==
    \A k \in Keys :
        cached[k].hit =>
            \/ cached[k].row = Stored(k)
            \/ cached[k].raced
            \/ \E a \in Admins :
                  /\ admin[a].pc = "invalidate"
                  /\ admin[a].op = "assign" \/ k = admin[a].key

(* No client is left on a tier that is gone, where it would silently have the
   limits of the platform, unless the tier was deleted while it was being
   assigned: the check and the write are two statements of the database each
   (billing_router.py:118, 290). And a change that was answered is in force at
   once, but for a copy on its way into a cache (budget.py:136), which lasts
   until it expires. *)
TiersStand ==
    /\ moved \/ client.tier = NoTier \/ tiers[client.tier] # Gone
    /\ SavedIsSeen
=============================================================================
