------------------------------ MODULE RateLimits ------------------------------
(***************************************************************************)
(* The rate limiter of the gateway: the chain of ceilings a request meets  *)
(* (rate_limit_middleware._check_limits and the images gate of router.py), *)
(* the counters they read or raise (rate_limiter.py), and what a finished  *)
(* request adds to them (router._record_usage). A ceiling on requests is   *)
(* counted and then compared, in one command; a ceiling on tokens is only  *)
(* read, and spent when the answer is complete.                            *)
(*                                                                         *)
(* A counter is named by its dimension, who and where; only the counters   *)
(* of the current minute and day are kept, the others are never read       *)
(* again. An action is one Redis command or pipeline; the bucket it names  *)
(* is that of the moment it runs.                                          *)
(***************************************************************************)
EXTENDS Integers, Sequences, FiniteSets

CONSTANTS
    Requests,   \* slots: how many requests run at a time
    Creds,      \* records client, user: a machine is its own user
    Endpoints,  \* endpoint slugs, "images" among them or not
    Deployments, \* by name: its limits, the tiers of clients on one, its requests
    Usage,      \* what an answer may report, as records in, out
    Batch,      \* images a request may ask for
    Day,        \* minutes in a day
    MaxMinute,  \* bound: the clock
    MaxCalls,   \* bound: requests made
    MaxFaults   \* bound: Redis errors

NoLimit == -1
Nobody == "nobody"
Platform == "*platform*"
All == "*"

Optional == Nat \cup {NoLimit}
Dimensions == {"rpm", "tpm", "rpd", "tpd", "in", "out", "ipm"}

\* Of the settings only the global values have to be there.
LimitSets == [rpm : Nat, tpm : Nat,
              rpmOf : [Endpoints -> Optional], tpmOf : [Endpoints -> Optional],
              rpmPlatform : Optional, tpmPlatform : Optional,
              rpmClient : Optional, tpmClient : Optional,
              rpd : Optional, tpd : Optional, in : Optional, out : Optional,
              ipm : Optional, strict : BOOLEAN]

\* No user has the name of a client other than its own; answers have a largest
\* size.
ASSUME LimitsAssumption ==
    /\ IsFiniteSet(Requests)
    /\ IsFiniteSet(Endpoints) /\ Endpoints # {} /\ All \notin Endpoints
    /\ Creds # {}
    /\ \A c \in Creds : c.client \notin {Nobody, Platform} /\ c.user # Platform
    /\ \A c, x \in Creds : x.user = c.client => x.client = c.client
    /\ Usage \subseteq [in : Nat, out : Nat] /\ Batch \subseteq Nat \ {0}
    /\ \E u \in Usage : \A v \in Usage : v.in + v.out <= u.in + u.out
    /\ \E n \in Batch : \A m \in Batch : m <= n
    /\ Day \in Nat \ {0} /\ MaxMinute \in Nat /\ MaxCalls \in Nat
    /\ MaxFaults \in Nat

\* A deployment says which tier a client is on, and who asks for what: images
\* of the route for them, and of no other.
ASSUME DeploymentAssumption ==
    \A n \in DOMAIN Deployments :
        LET d == Deployments[n] IN
        /\ d.limits \in LimitSets
        /\ \A i \in DOMAIN d.tier : d.tier[i] \in [Dimensions -> Optional]
        /\ \A q \in d.requests :
              /\ q.cred \in Creds /\ q.endpoint \in Endpoints
              /\ IF q.endpoint = "images" THEN q.images \in Batch ELSE q.images = 0

VARIABLES
    deployment, \* the one this is
    minute,     \* the clock
    count,      \* the counters of Redis: a function of the keys that exist
    call,       \* per slot: the request in it
    calls,      \* requests made
    faults,     \* Redis errors so far
    seen,       \* history: per key, what each request added to it once
    spent,      \* history: per identity, tokens and images of this minute
    escaped     \* history: requests of this minute let through or not counted

bounds == <<calls, faults>>
history == <<seen, spent, escaped>>
vars == <<deployment, minute, count, call, bounds, history>>

Identities == ({c.client : c \in Creds} \cup {c.user : c \in Creds}) \ {Nobody}

\* The request of a slot: its claims, its route, the gate it is at, or the
\* charge, and what it used. History: the counters of this minute and day that
\* it has raised, and whether it ever raised one that is not the platform's.
Idle == [pc |-> "idle", cred |-> CHOOSE c \in Creds : TRUE,
         endpoint |-> CHOOSE e \in Endpoints : TRUE, images |-> 0,
         at |-> 1, in |-> 0, out |-> 0, hit |-> {}, paid |-> FALSE]

Init ==
    /\ deployment \in DOMAIN Deployments
    /\ minute = 0
    /\ count = [k \in {} |-> 0]
    /\ call = [r \in Requests |-> Idle]
    /\ calls = 0 /\ faults = 0
    /\ seen = [k \in {} |-> 0]
    /\ spent = [i \in Identities |-> [tokens |-> 0, images |-> 0]]
    /\ escaped = 0

-----------------------------------------------------------------------------
(* The ceilings, in the order a request meets them. *)

Get(f, k) == IF k \in DOMAIN f THEN f[k] ELSE 0
Plus(f, k, n) == [j \in DOMAIN f \cup {k} |-> Get(f, j) + IF j = k THEN n ELSE 0]

\* A ceiling that raises its counter, one that reads it, and one that reads it
\* for the headers only. "ask" is what the request is about to add.
Counted(dim, who, where, limit) ==
    [op |-> "count", key |-> <<dim, who, where>>, limit |-> limit, ask |-> 1]
Read(dim, who, where, limit) ==
    [op |-> "read", key |-> <<dim, who, where>>, limit |-> limit, ask |-> 0]

Given(limit, gates) == IF limit = NoLimit THEN <<>> ELSE gates

NoTier == [d \in Dimensions |-> NoLimit]

Or(limit, default) == IF limit = NoLimit THEN default ELSE limit

\* The tier of an identity in deployment d: a user has none of its own.
TierOf(d, i) == IF i \in DOMAIN d.tier THEN d.tier[i] ELSE NoTier

\* The daily loop and the directions do not ask whether client and user are
\* the same.
Each(c) == <<c.client>> \o (IF c.user = Nobody THEN <<>> ELSE <<c.user>>)

\* dict.fromkeys((client_id, user_id)): who a request counts for, once.
Once(c) ==
    <<c.client>> \o (IF c.user \in {Nobody, c.client} THEN <<>> ELSE <<c.user>>)

\* One ceiling, or several, for every identity in turn.
ForAll(ids, Gate(_)) == Gate(ids[1]) \o (IF Len(ids) = 2 THEN Gate(ids[2]) ELSE <<>>)

\* Layer 1, counted whether or not there is a ceiling.
PlatformGates(d) ==
    <<Counted("rpm", Platform, All, d.limits.rpmPlatform)>>
    \o Given(d.limits.tpmPlatform, <<Read("tpm", Platform, All, d.limits.tpmPlatform)>>)

\* endpoint_limits: the override of the route, else the global value.
EndpointRpm(d, e) == Or(d.limits.rpmOf[e], d.limits.rpm)
EndpointTpm(d, e) == Or(d.limits.tpmOf[e], d.limits.tpm)

\* Layer 3. The token ceiling is read and not enforced for a client whose tier
\* has one of its own.
EndpointGates(d, c, e) ==
    LET Rpm(i) == <<Counted("rpm", i, e, EndpointRpm(d, e))>>
        read   == Read("tpm", c.client, e, EndpointTpm(d, e))
    IN  ForAll(Once(c), Rpm)
        \o <<IF TierOf(d, c.client).tpm = NoLimit THEN read
             ELSE [read EXCEPT !.op = "advise"]>>

\* Layer 2's ceilings: the tier's, the setting, or the sum of the routes'.
ClientRpm(d, t) == Or(t.rpm, Or(d.limits.rpmClient, d.limits.rpm * Cardinality(Endpoints)))
ClientTpm(d, t) == Or(t.tpm, Or(d.limits.tpmClient, d.limits.tpm * Cardinality(Endpoints)))

\* Layer 2, for the client and for its user, both by the client's tier.
ClientGates(d, c) ==
    LET t == TierOf(d, c.client)
        Layer(i) ==
            <<Counted("rpm", i, All, ClientRpm(d, t)), Read("tpm", i, All, ClientTpm(d, t))>>
            \o Given(t.rpd, <<Counted("rpd", i, All, t.rpd)>>)
            \o Given(t.tpd, <<Read("tpd", i, All, t.tpd)>>)
            \o Given(t.in, <<Read("in", i, All, t.in)>>)
            \o Given(t.out, <<Read("out", i, All, t.out)>>)
    IN  ForAll(Once(c), Layer)

\* The day of a route, and the directions of its minute.
RouteGates(d, c, e) ==
    LET Daily(i) == Given(d.limits.rpd, <<Counted("rpd", i, e, d.limits.rpd)>>)
                    \o Given(d.limits.tpd, <<Read("tpd", i, e, d.limits.tpd)>>)
        In(i)    == Given(d.limits.in, <<Read("in", i, e, d.limits.in)>>)
        Out(i)   == Given(d.limits.out, <<Read("out", i, e, d.limits.out)>>)
    IN  ForAll(Each(c), Daily) \o ForAll(Each(c), In) \o ForAll(Each(c), Out)

\* The handler's own gate: would the images asked for still fit.
ImageGates(d, c, e, n) ==
    LET t     == TierOf(d, c.client)
        where == IF t.ipm = NoLimit THEN e ELSE All
        limit == Or(t.ipm, d.limits.ipm)
        Fit(i) == <<[Read("ipm", i, where, limit) EXCEPT !.ask = n]>>
    IN  IF e = "images" THEN Given(limit, ForAll(Once(c), Fit)) ELSE <<>>

\* Fault: the client pays first, and the platform refuses afterwards.
NarrowFirst(d, c, e, n) ==
    EndpointGates(d, c, e) \o ClientGates(d, c) \o RouteGates(d, c, e)
    \o PlatformGates(d) \o ImageGates(d, c, e, n)

\* Broadest first; the day's after the minute's.
Chain(d, c, e, n) ==
    PlatformGates(d) \o EndpointGates(d, c, e) \o ClientGates(d, c)
    \o RouteGates(d, c, e) \o ImageGates(d, c, e, n)

Chains ==
    [n \in DOMAIN Deployments |->
        [c \in Creds |-> [e \in Endpoints |-> [k \in Batch \cup {0} |->
            Chain(Deployments[n], c, e, k)]]]]

Gates(q) == Chains[deployment][q.cred][q.endpoint][q.images]

GateOf(r) == Gates(call[r])[call[r].at]

-----------------------------------------------------------------------------
(* A request on its way through them. *)

Arrive(r) ==
    /\ call[r].pc \in {"idle", "refused"} /\ calls < MaxCalls
    /\ calls' = calls + 1
    /\ \E q \in Deployments[deployment].requests :
          call' = [call EXCEPT ![r] =
              [Idle EXCEPT !.pc = "gates", !.cred = q.cred,
                           !.endpoint = q.endpoint, !.images = q.images]]
    /\ UNCHANGED <<deployment, minute, count, faults, history>>

\* A counter takes a request once, however often that raises it.
Seen(r, k) == IF k \in call[r].hit THEN seen ELSE Plus(seen, k, 1)

Passed(r) ==
    LET q == [call[r] EXCEPT !.at = @ + 1]
    IN  IF q.at > Len(Gates(q)) THEN [q EXCEPT !.pc = "serving", !.at = 1] ELSE q

Allowed(g, n) == g.limit = NoLimit \/ n <= g.limit

\* check_and_increment_rpm, _rpd: a refused request has spent its slot too.
Count(r) ==
    LET g == GateOf(r)
        n == Get(count, g.key) + 1
    IN  /\ call[r].pc = "gates" /\ g.op = "count"
        /\ count' = Plus(count, g.key, 1)
        /\ seen' = Seen(r, g.key)
        /\ call' = [call EXCEPT ![r] =
              [(IF Allowed(g, n) THEN Passed(r) ELSE [call[r] EXCEPT !.pc = "refused"])
                 EXCEPT !.hit = @ \cup {g.key}, !.paid = @ \/ g.key[2] # Platform]]
        /\ UNCHANGED <<deployment, minute, bounds, spent, escaped>>

\* check_tpm_budget and the others: a spent ceiling refuses the next request.
Check(r) ==
    LET g == GateOf(r)
    IN  /\ call[r].pc = "gates" /\ g.op # "count"
        /\ call' = [call EXCEPT ![r] =
              IF g.op = "advise" \/ Allowed(g, Get(count, g.key) + g.ask)
              THEN Passed(r) ELSE [call[r] EXCEPT !.pc = "refused"]]
        /\ UNCHANGED <<deployment, minute, count, bounds, history>>

\* A Redis error, before or after the command took effect: fail open, unless
\* the deployment is strict. In the images gate it is the handler's error.
Fault(r) ==
    LET g == GateOf(r)
    IN  /\ call[r].pc = "gates" /\ faults < MaxFaults
        /\ faults' = faults + 1
        /\ \/ UNCHANGED <<count, seen>>
           \/ /\ g.op = "count"
              /\ count' = Plus(count, g.key, 1)
              /\ seen' = Seen(r, g.key)
        /\ IF Deployments[deployment].limits.strict \/ g.key[1] = "ipm"
           THEN /\ call' = [call EXCEPT ![r] = Idle] /\ UNCHANGED escaped
           ELSE /\ call' = [call EXCEPT ![r].pc = "serving", ![r].at = 1]
                /\ escaped' = escaped + 1
        /\ UNCHANGED <<deployment, minute, calls, spent>>

\* The backend answers, with no more images than were asked for, or it fails
\* and nothing is charged.
Complete(r) ==
    /\ call[r].pc = "serving"
    /\ \E u \in Usage, n \in 0 .. call[r].images :
          LET asked  == call[r].images # 0
              tokens == IF asked THEN 0 ELSE u.in + u.out
          IN  /\ asked => u = CHOOSE v \in Usage : TRUE
              /\ spent' = [i \in Identities |->
                    IF i \in {call[r].cred.client, call[r].cred.user}
                    THEN [tokens |-> spent[i].tokens + tokens,
                          images |-> spent[i].images + n]
                    ELSE spent[i]]
              /\ call' = [call EXCEPT ![r] =
                    IF tokens + n = 0 THEN Idle
                    ELSE [@ EXCEPT !.pc = "charging", !.images = n,
                                   !.in = u.in, !.out = u.out]]
    /\ UNCHANGED <<deployment, minute, count, bounds, seen, escaped>>

\* increment_tpm, _tpd, _ipm: what one pipeline adds, as amounts by key.
Tokens(q, who, where) ==
    [k \in {<<d, who, where>> : d \in {"tpm", "in", "out"}} |->
        IF k[1] = "tpm" THEN q.in + q.out ELSE q[k[1]]]
Single(dim, who, where, n) == [k \in {<<dim, who, where>>} |-> n]

\* Fault: the counters of the client as a whole are never written.
ChargesByRoute(q) ==
    LET Of(i) == IF q.endpoint = "images"
                 THEN <<Single("ipm", i, q.endpoint, q.images)>>
                 ELSE <<Tokens(q, i, q.endpoint),
                        Single("tpd", i, q.endpoint, q.in + q.out)>>
    IN  ForAll(Once(q.cred), Of)

\* _record_usage: the pipelines of one request.
Charges(q) ==
    LET tokens == q.in + q.out
        Of(i) == IF q.endpoint = "images"
                 THEN <<Single("ipm", i, q.endpoint, q.images),
                        Single("ipm", i, All, q.images)>>
                 ELSE <<Tokens(q, i, q.endpoint), Single("tpd", i, q.endpoint, tokens),
                        Tokens(q, i, All), Single("tpd", i, All, tokens)>>
    IN  ForAll(Once(q.cred), Of)
        \o (IF q.endpoint = "images" THEN <<>> ELSE <<Tokens(q, Platform, All)>>)

Added(f, adds) == [k \in DOMAIN f \cup DOMAIN adds |-> Get(f, k) + Get(adds, k)]

\* The first n pipelines taken together: no two of them write one counter.
Sum(q, n) ==
    LET runs == {Charges(q)[i] : i \in 1 .. n}
    IN  [k \in UNION {DOMAIN adds : adds \in runs} |->
            (CHOOSE adds \in runs : k \in DOMAIN adds)[k]]

\* They run in a row, and what they add commutes: all are one step, or those
\* before a Redis error, after which the others are given up.
Charge(r, n) ==
    /\ call[r].pc = "charging"
    /\ IF n = Len(Charges(call[r])) THEN UNCHANGED <<faults, escaped>>
       ELSE /\ faults < MaxFaults /\ faults' = faults + 1
            /\ escaped' = escaped + 1
    /\ count' = Added(count, Sum(call[r], n))
    /\ seen' = Added(seen, Sum(call[r], n))
    /\ call' = [call EXCEPT ![r] = Idle]
    /\ UNCHANGED <<deployment, minute, calls, spent>>

\* The clock: a minute's counters have names of that minute, a day's of the day.
Daily(k) == k[1] \in {"rpd", "tpd"}

Lasting(keys) == {k \in keys : Daily(k) /\ (minute + 1) % Day # 0}
Kept(f) == [k \in Lasting(DOMAIN f) |-> f[k]]

Tick ==
    /\ minute < MaxMinute /\ minute' = minute + 1
    /\ count' = Kept(count) /\ seen' = Kept(seen)
    /\ call' = [r \in Requests |-> [call[r] EXCEPT !.hit = Lasting(@)]]
    /\ spent' = [i \in Identities |-> [tokens |-> 0, images |-> 0]]
    /\ escaped' = 0
    /\ UNCHANGED <<deployment, bounds>>

Step(r) ==
    \/ Arrive(r) \/ Count(r) \/ Check(r) \/ Fault(r)
    \/ Complete(r)
    \/ \E n \in 0 .. Len(Charges(call[r])) : Charge(r, n)

Next == Tick \/ \E r \in Requests : Step(r)

Spec == Init /\ [][Next]_vars

-----------------------------------------------------------------------------
(* The live view of the limits page: rate_limits.live_limit_for. *)

\* Fault: the platform's counters pass for a client's.
LayerByRoute(who, where) == IF where = All THEN "client" ELSE "endpoint"

CounterLayer(who, where) ==
    IF who = Platform THEN "platform" ELSE IF where = All THEN "client" ELSE "endpoint"

LiveLimit(d, dim, who, where) ==
    LET layer == CounterLayer(who, where)
        t     == IF layer = "client" THEN TierOf(d, who) ELSE NoTier
    IN  CASE layer = "endpoint" /\ dim = "rpm" -> EndpointRpm(d, where)
          [] layer = "endpoint" /\ dim = "tpm" -> EndpointTpm(d, where)
          [] layer = "client" /\ dim = "rpm"   -> ClientRpm(d, t)
          [] layer = "client" /\ dim = "tpm"   -> ClientTpm(d, t)
          [] layer = "client" /\ dim \notin {"rpm", "tpm"} -> t[dim]
          [] layer = "platform" -> IF dim = "rpm" THEN d.limits.rpmPlatform
                                   ELSE IF dim = "tpm" THEN d.limits.tpmPlatform
                                   ELSE NoLimit
          [] layer = "endpoint" /\ dim \notin {"rpm", "tpm"} -> d.limits[dim]

-----------------------------------------------------------------------------
(* Properties. *)

\* A ceiling refuses only when what it bounds has really come to it, each
\* request taken once (PRM-128, PRM-255): counters that were raised twice for
\* one request would cut a client off at half of what it was promised. They are
\* so for the daily ceiling of a route, when a client is its own user.
Spent(r) ==
    LET g     == GateOf(r)
        twice == g.key[1] = "rpd" /\ g.key[3] # All
        ask   == IF g.op = "count" THEN 0 ELSE g.ask
    IN  g.limit < ask + Get(seen', g.key) * (IF twice THEN 2 ELSE 1)

RefusedIsSpent ==
    [][\A r \in Requests :
         call[r].pc = "gates" /\ call'[r].pc = "refused" => Spent(r)]_vars

\* A meter that is read before and written after lets a client overshoot by
\* what was under way at the time and no more: its tokens of a minute, over all
\* routes, stay within its ceiling and one answer for each request that ran at
\* once, or that a Redis error let through or out of the count. The images of
\* a minute stay within theirs by one request less.
MostTokens == CHOOSE n \in {u.in + u.out : u \in Usage} :
                 \A u \in Usage : u.in + u.out <= n
MostImages == CHOOSE n \in Batch : \A m \in Batch : m <= n

OvershootBounded ==
    \A c \in Creds :
        LET d   == Deployments[deployment]
            t   == TierOf(d, c.client)
            ipm == Or(t.ipm, d.limits.ipm)
            n   == Cardinality(Requests) + escaped
        IN  /\ spent[c.client].tokens <= ClientTpm(d, t) + n * MostTokens
            /\ ipm # NoLimit /\ MostImages <= ipm =>
                  spent[c.client].images <= ipm + (n - 1) * MostImages

\* "No client should spend its own budget on a request the platform was never
\* going to serve": what the platform's ceilings refuse has touched no other
\* counter.
PlatformSpares ==
    \A r \in Requests :
        call[r].pc = "refused" /\ GateOf(r).key[2] = Platform => ~ call[r].paid

\* The page that is to say which ceiling refuses shows, for every counter a
\* request is held against, the limit it is held to. Two rows of it do not:
\* the token ceiling of a route, shown and not enforced for a client whose tier
\* has one, and those of a user, who is held to the tier of its client.
LiveViewAgrees ==
    calls = 0 =>
        \A c \in Creds, e \in Endpoints, n \in Batch :
            LET d     == Deployments[deployment]
                gates == Chains[deployment][c][e][n]
            IN  \A i \in DOMAIN gates :
                   LET key == gates[i].key
                   IN  \/ gates[i].limit = LiveLimit(d, key[1], key[2], key[3])
                       \/ gates[i].op = "advise"
                       \/ key[2] = c.user /\ key[3] = All /\ c.user # c.client
=============================================================================
