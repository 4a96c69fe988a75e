----------------------------- MODULE Credentials -----------------------------
(***************************************************************************)
(* One client of the auth service: its row in the database, the revocation *)
(* key that stands for it in Redis, the tokens issued to it, and what the  *)
(* gateway makes of them. The row is changed first and the key after it,   *)
(* by the endpoints of routers/admin.py; a token is issued from a row read *)
(* earlier (routers/oauth2.py).                                            *)
(*                                                                         *)
(* An endpoint is three steps: its select with the checks that follow, its *)
(* commit, and its Redis command. Time is a clock of a few ticks; a key    *)
(* and a token are known by the moment they expire. The gateway lets a     *)
(* token live a little longer than that, to allow for skewed clocks, and   *)
(* the key does not.                                                       *)
(***************************************************************************)
EXTENDS Integers, FiniteSets

CONSTANTS
    Admins,    \* admin requests that may run at a time
    Grants,    \* token requests that may run at a time
    TTLs,      \* token lifetimes an operator may set
    FirstTTL,  \* ttl_for_role of the client's role
    Leeway,    \* jwt_clock_skew_seconds
    End,       \* bound: the clock
    MaxOps,    \* bound: admin requests made
    MaxFaults  \* bound: Redis errors

VARIABLES
    now,     \* the clock
    row,     \* principals: the client's row
    revoked, \* revoked:client:<id>: when the key expires, 0 when absent
    admin,   \* per slot: the admin request in it
    grant,   \* per slot: the token request in it
    tokens,  \* tokens issued: when they expire, and whether they are strays
    ops,     \* admin requests made
    faults,  \* Redis errors so far
    excuse   \* history: why row and key may disagree

vars == <<now, row, revoked, admin, grant, tokens, ops, faults, excuse>>

Row == [exists : BOOLEAN, active : BOOLEAN, ttl : TTLs]

Endpoints == {"deactivate", "delete", "reactivate", "update"}

Init ==
    /\ now = 0
    /\ row = [exists |-> TRUE, active |-> TRUE, ttl |-> FirstTTL]
    /\ revoked = 0
    /\ admin = [a \in Admins |-> [pc |-> "idle", op |-> "update", saw |-> row, ttl |-> FirstTTL]]
    /\ grant = [g \in Grants |-> [pc |-> "idle", saw |-> row]]
    /\ tokens = {}
    /\ ops = 0
    /\ faults = 0
    /\ excuse = {}

-----------------------------------------------------------------------------
Busy == {a \in Admins : admin[a].pc # "idle"}

Ends(a) == admin' = [admin EXCEPT ![a].pc = "idle"]

\* jwt.decode, at the gateway, with its leeway.
Expired(t) == t.exp + Leeway < now

\* _check_client_revocation, with Redis up: the key is absent once it expires.
KeySet == revoked > now

\* JWTAuthMiddleware: the token has not expired and its client is not revoked.
Accepted(t) == ~Expired(t) /\ ~KeySet

\* The select of an endpoint, and the checks that answer 404 or 409.
Begin(a, op, ttl) ==
    /\ admin[a].pc = "idle"
    /\ ops < MaxOps
    /\ ops' = ops + 1
    /\ row.exists
    /\ op = "reactivate" => ~row.active
    /\ admin' = [admin EXCEPT ![a] = [pc |-> "commit", op |-> op, saw |-> row, ttl |-> ttl]]
    /\ excuse' = IF Busy = {} THEN excuse ELSE excuse \cup {"overlap"}
    /\ UNCHANGED <<now, row, revoked, grant, tokens, faults>>

\* The commit writes the attributes that differ from what the select loaded.
Written(saw, active, ttl) ==
    [row EXCEPT !.active = IF saw.active = active THEN @ ELSE active,
                !.ttl = IF saw.ttl = ttl THEN @ ELSE ttl]

Committed(a) ==
    LET saw == admin[a].saw
    IN  CASE admin[a].op = "deactivate" -> Written(saw, FALSE, saw.ttl)
          [] admin[a].op = "reactivate" -> Written(saw, TRUE, saw.ttl)
          [] admin[a].op = "update" -> Written(saw, saw.active, admin[a].ttl)
          [] admin[a].op = "delete" -> [row EXCEPT !.exists = FALSE, !.active = FALSE]

\* update_client ends with its commit. A row deleted meanwhile: a 500.
Commit(a) ==
    /\ admin[a].pc = "commit"
    /\ IF row.exists
       THEN /\ row' = Committed(a)
            /\ admin' = [admin EXCEPT ![a].pc = IF @ = "commit" /\ admin[a].op # "update"
                                                THEN "key" ELSE "idle"]
       ELSE /\ UNCHANGED row
            /\ Ends(a)
    /\ UNCHANGED <<now, revoked, grant, tokens, ops, faults, excuse>>

\* Fault: only a soft deactivation writes the key.
KeyUnlessDeleted(a) ==
    /\ admin[a].pc = "key"
    /\ revoked' = CASE admin[a].op = "deactivate" -> now + admin[a].saw.ttl
                    [] admin[a].op = "reactivate" -> 0
                    [] admin[a].op = "delete" -> revoked
    /\ Ends(a)
    /\ UNCHANGED <<now, row, grant, tokens, ops, faults, excuse>>

\* The Redis command that follows: SET for the lifetime the select loaded, or
\* DEL. A token that lives longer than the key is one of an earlier lifetime.
Key(a) ==
    LET expires == now + admin[a].saw.ttl
        outlive == {t \in tokens : t.exp > expires}
    IN  /\ admin[a].pc = "key"
        /\ revoked' = IF admin[a].op = "reactivate" THEN 0 ELSE expires
        /\ excuse' = IF admin[a].op # "reactivate" /\ outlive # {}
                     THEN excuse \cup {"shortened"} ELSE excuse
        /\ Ends(a)
        /\ UNCHANGED <<now, row, grant, tokens, ops, faults>>

\* The command fails: the error is logged and the answer is the same.
KeyFails(a) ==
    /\ admin[a].pc = "key"
    /\ faults < MaxFaults
    /\ faults' = faults + 1
    /\ excuse' = excuse \cup {"redis"}
    /\ Ends(a)
    /\ UNCHANGED <<now, row, revoked, grant, tokens, ops>>

\* token: the select; an unknown or deactivated client is refused. Everything
\* after it, bcrypt and signing, runs without an await.
Ask(g) ==
    /\ grant[g].pc = "idle"
    /\ row.exists /\ row.active
    /\ grant' = [grant EXCEPT ![g] = [pc |-> "issue", saw |-> row]]
    /\ UNCHANGED <<now, row, revoked, admin, tokens, ops, faults, excuse>>

\* stray: issued from a row that has been deactivated since it was read.
Issue(g) ==
    /\ grant[g].pc = "issue"
    /\ tokens' = tokens \cup {[exp |-> now + grant[g].saw.ttl, stray |-> ~row.active]}
    /\ grant' = [grant EXCEPT ![g].pc = "idle"]
    /\ UNCHANGED <<now, row, revoked, admin, ops, faults, excuse>>

\* A tick. Keys that expire are gone, and tokens that do are forgotten.
Tick ==
    /\ now < End
    /\ now' = now + 1
    /\ revoked' = IF revoked <= now' THEN 0 ELSE revoked
    /\ tokens' = {t \in tokens : t.exp + Leeway >= now'}
    /\ UNCHANGED <<row, admin, grant, ops, faults, excuse>>

Next ==
    \/ \E a \in Admins : Commit(a) \/ Key(a) \/ KeyFails(a)
    \/ \E a \in Admins, op \in Endpoints, ttl \in TTLs :
          (op = "update" \/ ttl = FirstTTL) /\ Begin(a, op, ttl)
    \/ \E g \in Grants : Ask(g) \/ Issue(g)
    \/ Tick

Spec == Init /\ [][Next]_vars

-----------------------------------------------------------------------------
(* Once an answer to a deactivation or a deletion has gone out, the gateway
   accepts no token of the client that is inside its life; once the client is
   active again and no request is under way, it refuses none. The two stores
   disagree only after a Redis error, after two admin requests that
   overlapped, for a token whose lifetime was longer than the client's at the
   time (admin.py:239), or for one issued from a row read before the
   deactivation. And the key lives as long as a token is meant to
   (admin.py:249), not as long as the gateway accepts it (middleware.py:306):
   a token issued less than the leeway before the deactivation is accepted
   again for what is left of its leeway once the key is gone. *)
RevocationHolds ==
    Busy = {} /\ excuse = {} =>
        IF row.exists /\ row.active
        THEN ~KeySet
        ELSE \A t \in tokens : Accepted(t) => t.stray \/ t.exp <= now
=============================================================================
