-------------------------- MODULE RateLimitsProofs --------------------------
(***************************************************************************)
(* For every deployment, every set of requests and any length of the day:  *)
(* what the page of limits shows is what is enforced, the platform's       *)
(* refusals cost a client nothing, whoever is refused has used up what     *)
(* refuses it, and a meter that is read before and written after is        *)
(* overrun by no more than what was under way.                             *)
(***************************************************************************)
EXTENDS RateLimits, FiniteSetTheorems, SequenceTheorems, TLAPS

-----------------------------------------------------------------------------
(* The chain of gates. Each part of it is a sequence of gates that are     *)
(* shown as they are, and but for the first of gates of the request's own  *)
(* identities.                                                             *)

Owners(c) == {c.client, c.user}
Names == {Platform} \cup UNION {Owners(c) : c \in Creds}
Keys == Dimensions \X Names \X (Endpoints \cup {All})

GateSet == [op : {"count", "read", "advise"}, key : Keys, limit : Optional, ask : Nat]

\* The row of the page for the gate's counter tells its limit, or is one of the
\* two kinds that LiveViewAgrees names.
Shown(d, c, g) ==
    \/ g.limit = LiveLimit(d, g.key[1], g.key[2], g.key[3])
    \/ g.op = "advise"
    \/ g.key[2] = c.user /\ g.key[3] = All /\ c.user # c.client

PlatformsOwn(d, c) == {g \in GateSet : g.key[2] = Platform /\ Shown(d, c, g)}
ClientsOwn(d, c) == {g \in GateSet : g.key[2] \in Owners(c) /\ Shown(d, c, g)}

\* A deployment, a request's claims and its route.
Fits(d, c, e) ==
    /\ d \in {Deployments[n] : n \in DOMAIN Deployments}
    /\ c \in Creds /\ e \in Endpoints

LEMMA FitFacts ==
    ASSUME NEW d, NEW c, NEW e, Fits(d, c, e)
    PROVE  /\ d.limits \in LimitSets
           /\ \A i \in DOMAIN d.tier : d.tier[i] \in [Dimensions -> Optional]
           /\ c.client # Platform /\ c.user # Platform /\ c.client # Nobody
           /\ e # All
           /\ Owners(c) \subseteq Names /\ Platform \in Names
BY DeploymentAssumption, LimitsAssumption DEF Fits, Owners, Names

LEMMA LimitTypes ==
    ASSUME NEW d, NEW c, NEW e, Fits(d, c, e), NEW i
    PROVE  /\ TierOf(d, i) \in [Dimensions -> Optional]
           /\ d.limits.rpmPlatform \in Optional /\ d.limits.tpmPlatform \in Optional
           /\ EndpointRpm(d, e) \in Nat /\ EndpointTpm(d, e) \in Nat
           /\ d.limits.rpd \in Optional /\ d.limits.tpd \in Optional
           /\ d.limits.in \in Optional /\ d.limits.out \in Optional
           /\ d.limits.ipm \in Optional
<1>1. NoTier \in [Dimensions -> Optional]
    BY DEF NoTier, Optional
<1>2. TierOf(d, i) \in [Dimensions -> Optional]
    BY <1>1, FitFacts DEF TierOf
<1>3. d.limits.rpmOf[e] \in Optional /\ d.limits.tpmOf[e] \in Optional
    BY FitFacts DEF Fits, LimitSets
<1>4. EndpointRpm(d, e) \in Nat /\ EndpointTpm(d, e) \in Nat
    BY <1>3, FitFacts DEF EndpointRpm, EndpointTpm, Or, LimitSets, Optional, NoLimit
<1>5. QED
    BY <1>2, <1>4, FitFacts DEF LimitSets

LEMMA ClientLimitTypes ==
    ASSUME NEW d, NEW c, NEW e, Fits(d, c, e), NEW t \in [Dimensions -> Optional]
    PROVE  ClientRpm(d, t) \in Nat /\ ClientTpm(d, t) \in Nat
<1>1. Cardinality(Endpoints) \in Nat
    BY LimitsAssumption, FS_CardinalityType
<1>2. d.limits.rpm \in Nat /\ d.limits.tpm \in Nat
      /\ d.limits.rpmClient \in Optional /\ d.limits.tpmClient \in Optional
    BY FitFacts DEF LimitSets
<1>3. t.rpm \in Optional /\ t.tpm \in Optional
    BY DEF Dimensions
<1>4. d.limits.rpm * Cardinality(Endpoints) \in Nat
      /\ d.limits.tpm * Cardinality(Endpoints) \in Nat
    BY <1>1, <1>2
<1>5. QED
    BY <1>2, <1>3, <1>4 DEF ClientRpm, ClientTpm, Or, Optional, NoLimit

LEMMA PlatformShown ==
    ASSUME NEW d, NEW c, NEW e, Fits(d, c, e)
    PROVE  PlatformGates(d) \in Seq(PlatformsOwn(d, c)) /\ Len(PlatformGates(d)) > 0
<1>1. LiveLimit(d, "rpm", Platform, All) = d.limits.rpmPlatform
    BY DEF LiveLimit, CounterLayer
<1>2. LiveLimit(d, "tpm", Platform, All) = d.limits.tpmPlatform
    BY DEF LiveLimit, CounterLayer
<1>3. Counted("rpm", Platform, All, d.limits.rpmPlatform) \in PlatformsOwn(d, c)
    BY <1>1, FitFacts, LimitTypes
       DEF Counted, PlatformsOwn, GateSet, Keys, Dimensions, Shown
<1>4. Read("tpm", Platform, All, d.limits.tpmPlatform) \in PlatformsOwn(d, c)
    BY <1>2, FitFacts, LimitTypes
       DEF Read, PlatformsOwn, GateSet, Keys, Dimensions, Shown
<1>5. QED
    BY <1>3, <1>4 DEF PlatformGates, Given

LEMMA EndpointShown ==
    ASSUME NEW d, NEW c, NEW e, Fits(d, c, e)
    PROVE  EndpointGates(d, c, e) \in Seq(ClientsOwn(d, c))
<1>1. ASSUME NEW i \in Owners(c), i # Nobody
      PROVE  Counted("rpm", i, e, EndpointRpm(d, e)) \in ClientsOwn(d, c)
    <2>1. LiveLimit(d, "rpm", i, e) = EndpointRpm(d, e)
        BY FitFacts DEF LiveLimit, CounterLayer, Owners
    <2>2. QED
        BY <2>1, FitFacts, LimitTypes
           DEF Counted, ClientsOwn, GateSet, Keys, Dimensions, Shown, Fits, Optional
<1> DEFINE read == Read("tpm", c.client, e, EndpointTpm(d, e))
<1>2. read \in ClientsOwn(d, c) /\ [read EXCEPT !.op = "advise"] \in ClientsOwn(d, c)
    <2>1. LiveLimit(d, "tpm", c.client, e) = EndpointTpm(d, e)
        BY FitFacts DEF LiveLimit, CounterLayer
    <2>2. QED
        BY <2>1, FitFacts, LimitTypes
           DEF Read, ClientsOwn, GateSet, Keys, Dimensions, Shown, Fits, Optional, Owners
<1> HIDE DEF read
<1>3. QED
    BY <1>1, <1>2, FitFacts DEF EndpointGates, ForAll, Once, read, Owners

\* The client's ceilings, by its tier; a user's row of the page has none.
LayerGates(d, c, i) ==
    LET t == TierOf(d, c.client) IN
    <<Counted("rpm", i, All, ClientRpm(d, t)), Read("tpm", i, All, ClientTpm(d, t))>>
    \o Given(t.rpd, <<Counted("rpd", i, All, t.rpd)>>)
    \o Given(t.tpd, <<Read("tpd", i, All, t.tpd)>>)
    \o Given(t.in, <<Read("in", i, All, t.in)>>)
    \o Given(t.out, <<Read("out", i, All, t.out)>>)

LEMMA OnceIs ==
    ASSUME NEW c
    PROVE  /\ c.user \in {Nobody, c.client} => Len(Once(c)) # 2
           /\ c.user \notin {Nobody, c.client} =>
                 /\ Len(Once(c)) = 2 /\ Once(c)[1] = c.client /\ Once(c)[2] = c.user
           /\ Once(c)[1] = c.client
BY DEF Once

LEMMA EachIs ==
    ASSUME NEW c
    PROVE  /\ Each(c)[1] = c.client
           /\ c.user = Nobody => Len(Each(c)) # 2
           /\ c.user # Nobody => Len(Each(c)) = 2 /\ Each(c)[2] = c.user
BY DEF Each

LEMMA ClientGatesAre ==
    ASSUME NEW d, NEW c
    PROVE  ClientGates(d, c) =
               LayerGates(d, c, c.client)
               \o (IF c.user \in {Nobody, c.client} THEN <<>> ELSE LayerGates(d, c, c.user))
<1>1. ClientGates(d, c) =
          LayerGates(d, c, Once(c)[1])
          \o (IF Len(Once(c)) = 2 THEN LayerGates(d, c, Once(c)[2]) ELSE <<>>)
    BY DEF ClientGates, ForAll, LayerGates
<1>2. QED
    BY <1>1, OnceIs

LEMMA LayerShown ==
    ASSUME NEW d, NEW c, NEW e, Fits(d, c, e), NEW i \in Owners(c), i # Nobody
    PROVE  LayerGates(d, c, i) \in Seq(ClientsOwn(d, c))
<1> DEFINE t == TierOf(d, c.client)
<1>1. t \in [Dimensions -> Optional] /\ ClientRpm(d, t) \in Optional /\ ClientTpm(d, t) \in Optional
    BY LimitTypes, ClientLimitTypes DEF Optional
<1>2. i = c.client \/ (i = c.user /\ c.user # c.client)
    BY DEF Owners
<1>3. i # Platform /\ i \in Names
    BY FitFacts DEF Owners
<1>4. Counted("rpm", i, All, ClientRpm(d, t)) \in ClientsOwn(d, c)
    <2>1. LiveLimit(d, "rpm", i, All) = ClientRpm(d, TierOf(d, i))
        BY <1>3 DEF LiveLimit, CounterLayer
    <2>2. QED
        BY <1>1, <1>2, <1>3, <2>1 DEF Counted, ClientsOwn, GateSet, Keys, Dimensions, Shown
<1>5. Read("tpm", i, All, ClientTpm(d, t)) \in ClientsOwn(d, c)
    <2>1. LiveLimit(d, "tpm", i, All) = ClientTpm(d, TierOf(d, i))
        BY <1>3 DEF LiveLimit, CounterLayer
    <2>2. QED
        BY <1>1, <1>2, <1>3, <2>1 DEF Read, ClientsOwn, GateSet, Keys, Dimensions, Shown
<1>6. ASSUME NEW dim \in {"rpd", "tpd", "in", "out"}
      PROVE  /\ Counted(dim, i, All, t[dim]) \in ClientsOwn(d, c)
             /\ Read(dim, i, All, t[dim]) \in ClientsOwn(d, c)
    <2>1. LiveLimit(d, dim, i, All) = TierOf(d, i)[dim]
        BY <1>3, <1>6 DEF LiveLimit, CounterLayer
    <2>2. t[dim] \in Optional /\ dim \in Dimensions
        BY <1>1 DEF Dimensions
    <2>3. QED
        BY <1>2, <1>3, <2>1, <2>2 DEF Counted, Read, ClientsOwn, GateSet, Keys, Shown
<1>7. /\ Counted("rpd", i, All, t.rpd) \in ClientsOwn(d, c)
      /\ Read("tpd", i, All, t.tpd) \in ClientsOwn(d, c)
      /\ Read("in", i, All, t.in) \in ClientsOwn(d, c)
      /\ Read("out", i, All, t.out) \in ClientsOwn(d, c)
    BY <1>6
<1>8. LayerGates(d, c, i) =
          <<Counted("rpm", i, All, ClientRpm(d, t)), Read("tpm", i, All, ClientTpm(d, t))>>
          \o Given(t.rpd, <<Counted("rpd", i, All, t.rpd)>>)
          \o Given(t.tpd, <<Read("tpd", i, All, t.tpd)>>)
          \o Given(t.in, <<Read("in", i, All, t.in)>>)
          \o Given(t.out, <<Read("out", i, All, t.out)>>)
    BY DEF LayerGates
<1> HIDE DEF t
<1>9. QED
    BY <1>4, <1>5, <1>7, <1>8 DEF Given

LEMMA ClientShown ==
    ASSUME NEW d, NEW c, NEW e, Fits(d, c, e)
    PROVE  ClientGates(d, c) \in Seq(ClientsOwn(d, c))
<1>1. LayerGates(d, c, c.client) \in Seq(ClientsOwn(d, c))
    BY FitFacts, LayerShown DEF Owners
<1>2. c.user \notin {Nobody, c.client} => LayerGates(d, c, c.user) \in Seq(ClientsOwn(d, c))
    BY LayerShown DEF Owners
<1>3. (IF c.user \in {Nobody, c.client} THEN <<>> ELSE LayerGates(d, c, c.user))
          \in Seq(ClientsOwn(d, c))
    BY <1>2
<1>4. QED
    BY <1>1, <1>3, ClientGatesAre, ConcatProperties

\* The day of a route, and the directions of its minute.
DailyGates(d, e, i) ==
    Given(d.limits.rpd, <<Counted("rpd", i, e, d.limits.rpd)>>)
    \o Given(d.limits.tpd, <<Read("tpd", i, e, d.limits.tpd)>>)
InGates(d, e, i) == Given(d.limits.in, <<Read("in", i, e, d.limits.in)>>)
OutGates(d, e, i) == Given(d.limits.out, <<Read("out", i, e, d.limits.out)>>)

LEMMA RouteShown ==
    ASSUME NEW d, NEW c, NEW e, Fits(d, c, e), NEW i \in Owners(c), i # Nobody
    PROVE  /\ DailyGates(d, e, i) \in Seq(ClientsOwn(d, c))
           /\ InGates(d, e, i) \in Seq(ClientsOwn(d, c))
           /\ OutGates(d, e, i) \in Seq(ClientsOwn(d, c))
<1>1. i # Platform /\ i \in Names /\ e # All /\ e \in Endpoints
    BY FitFacts DEF Owners, Fits
<1>2. /\ LiveLimit(d, "rpd", i, e) = d.limits.rpd
      /\ LiveLimit(d, "tpd", i, e) = d.limits.tpd
      /\ LiveLimit(d, "in", i, e) = d.limits.in
      /\ LiveLimit(d, "out", i, e) = d.limits.out
    BY <1>1 DEF LiveLimit, CounterLayer
<1>3. Counted("rpd", i, e, d.limits.rpd) \in ClientsOwn(d, c)
    BY <1>1, <1>2, LimitTypes DEF Counted, ClientsOwn, GateSet, Keys, Dimensions, Shown
<1>4. /\ Read("tpd", i, e, d.limits.tpd) \in ClientsOwn(d, c)
      /\ Read("in", i, e, d.limits.in) \in ClientsOwn(d, c)
      /\ Read("out", i, e, d.limits.out) \in ClientsOwn(d, c)
    BY <1>1, <1>2, LimitTypes DEF Read, ClientsOwn, GateSet, Keys, Dimensions, Shown
<1>5. QED
    BY <1>3, <1>4 DEF DailyGates, InGates, OutGates, Given

LEMMA ImagesShown ==
    ASSUME NEW d, NEW c, NEW e, Fits(d, c, e), NEW n \in Nat
    PROVE  ImageGates(d, c, e, n) \in Seq(ClientsOwn(d, c))
<1> DEFINE t == TierOf(d, c.client)
           where == IF t.ipm = NoLimit THEN e ELSE All
           limit == Or(t.ipm, d.limits.ipm)
           gate(i) == [Read("ipm", i, where, limit) EXCEPT !.ask = n]
<1>1. t.ipm \in Optional /\ d.limits.ipm \in Optional
    BY LimitTypes DEF Dimensions
<1>2. ASSUME NEW i \in Owners(c) PROVE gate(i) \in ClientsOwn(d, c)
    <2>1. i # Platform /\ i \in Names /\ e # All /\ e \in Endpoints
        BY FitFacts DEF Owners, Fits
    <2>2. limit \in Optional /\ where \in Endpoints \cup {All}
        BY <1>1, <2>1 DEF Or
    <2>3. LiveLimit(d, "ipm", i, e) = d.limits.ipm /\ LiveLimit(d, "ipm", i, All) = TierOf(d, i).ipm
        BY <2>1 DEF LiveLimit, CounterLayer
    <2>4. limit = LiveLimit(d, "ipm", i, where) \/ (i = c.user /\ where = All /\ c.user # c.client)
        BY <2>1, <2>3 DEF Or, Owners
    <2> HIDE DEF limit, where
    <2>5. gate(i) = [op |-> "read", key |-> <<"ipm", i, where>>, limit |-> limit, ask |-> n]
        BY DEF Read
    <2>6. QED
        BY <2>1, <2>2, <2>4, <2>5 DEF ClientsOwn, GateSet, Keys, Dimensions, Shown
<1>3. ImageGates(d, c, e, n) =
          IF e = "images"
          THEN Given(limit, <<gate(c.client)>>
                            \o (IF c.user \in {Nobody, c.client} THEN <<>> ELSE <<gate(c.user)>>))
          ELSE <<>>
    BY DEF ImageGates, ForAll, Once
<1> HIDE DEF gate, limit
<1>4. gate(c.client) \in ClientsOwn(d, c) /\ gate(c.user) \in ClientsOwn(d, c)
    BY <1>2 DEF Owners
<1>5. QED
    BY <1>3, <1>4 DEF Given

\* All that is after the platform's gates, in two parts; a key that is counted
\* in both is the day of a route, for a client that is its own user.
FirstPart(d, c, e) ==
    EndpointGates(d, c, e) \o ClientGates(d, c) \o DailyGates(d, e, c.client)
SecondPart(d, c, e, n) ==
    (IF c.user = Nobody THEN <<>> ELSE DailyGates(d, e, c.user))
    \o InGates(d, e, c.client) \o (IF c.user = Nobody THEN <<>> ELSE InGates(d, e, c.user))
    \o OutGates(d, e, c.client) \o (IF c.user = Nobody THEN <<>> ELSE OutGates(d, e, c.user))
    \o ImageGates(d, c, e, n)

LEMMA PartsShown ==
    ASSUME NEW d, NEW c, NEW e, Fits(d, c, e), NEW n \in Nat
    PROVE  /\ FirstPart(d, c, e) \in Seq(ClientsOwn(d, c))
           /\ SecondPart(d, c, e, n) \in Seq(ClientsOwn(d, c))
<1>1. c.client \in Owners(c) /\ c.client # Nobody /\ c.user \in Owners(c)
    BY FitFacts DEF Owners
<1>2. FirstPart(d, c, e) \in Seq(ClientsOwn(d, c))
    BY <1>1, EndpointShown, ClientShown, RouteShown DEF FirstPart
<1>3. c.user # Nobody =>
          /\ DailyGates(d, e, c.user) \in Seq(ClientsOwn(d, c))
          /\ InGates(d, e, c.user) \in Seq(ClientsOwn(d, c))
          /\ OutGates(d, e, c.user) \in Seq(ClientsOwn(d, c))
    BY <1>1, RouteShown
<1>4. SecondPart(d, c, e, n) \in Seq(ClientsOwn(d, c))
    BY <1>1, <1>3, RouteShown, ImagesShown DEF SecondPart
<1>5. QED
    BY <1>2, <1>4

LEMMA RouteGatesAre ==
    ASSUME NEW d, NEW c, NEW e
    PROVE  RouteGates(d, c, e) =
               (DailyGates(d, e, c.client)
                \o (IF c.user = Nobody THEN <<>> ELSE DailyGates(d, e, c.user)))
               \o (InGates(d, e, c.client)
                   \o (IF c.user = Nobody THEN <<>> ELSE InGates(d, e, c.user)))
               \o (OutGates(d, e, c.client)
                   \o (IF c.user = Nobody THEN <<>> ELSE OutGates(d, e, c.user)))
<1>1. RouteGates(d, c, e) =
          (DailyGates(d, e, Each(c)[1])
           \o (IF Len(Each(c)) = 2 THEN DailyGates(d, e, Each(c)[2]) ELSE <<>>))
          \o (InGates(d, e, Each(c)[1])
              \o (IF Len(Each(c)) = 2 THEN InGates(d, e, Each(c)[2]) ELSE <<>>))
          \o (OutGates(d, e, Each(c)[1])
              \o (IF Len(Each(c)) = 2 THEN OutGates(d, e, Each(c)[2]) ELSE <<>>))
    BY DEF RouteGates, ForAll, DailyGates, InGates, OutGates
<1>2. QED
    BY <1>1, EachIs

LEMMA AllGates ==
    ASSUME NEW d, NEW c, NEW s, s \in Seq(ClientsOwn(d, c)) \/ s \in Seq(PlatformsOwn(d, c))
    PROVE  s \in Seq(GateSet)
<1>1. ClientsOwn(d, c) \subseteq GateSet /\ PlatformsOwn(d, c) \subseteq GateSet
    BY DEF ClientsOwn, PlatformsOwn
<1>2. /\ s \in Seq(ClientsOwn(d, c)) => \A i \in 1 .. Len(s) : s[i] \in ClientsOwn(d, c)
      /\ s \in Seq(PlatformsOwn(d, c)) => \A i \in 1 .. Len(s) : s[i] \in PlatformsOwn(d, c)
    OBVIOUS
<1>3. \A i \in 1 .. Len(s) : s[i] \in GateSet
    BY <1>1, <1>2
<1>4. Len(s) \in Nat /\ s = [i \in 1 .. Len(s) |-> s[i]]
    OBVIOUS
<1>5. QED
    BY <1>3, <1>4, IsASeq

\* Concatenation behind names of its own: what is needed of it is regrouping.
Join(x, y) == x \o y
Seqs(S) == Seq(S)
LEMMA Joins ==
    ASSUME NEW S
    PROVE  /\ \A x, y \in Seqs(S) : Join(x, y) \in Seqs(S)
           /\ \A x, y, z \in Seqs(S) : Join(Join(x, y), z) = Join(x, Join(y, z))
<1>1. ASSUME NEW x \in Seqs(S), NEW y \in Seqs(S) PROVE Join(x, y) \in Seqs(S)
    BY DEF Seqs, Join
<1>2. ASSUME NEW x \in Seqs(S), NEW y \in Seqs(S), NEW z \in Seqs(S)
      PROVE  Join(Join(x, y), z) = Join(x, Join(y, z))
    BY DEF Seqs, Join
<1>3. QED
    BY <1>1, <1>2

LEMMA RegroupTail ==
    ASSUME NEW S, NEW A \in Seqs(S), NEW B \in Seqs(S), NEW I \in Seqs(S), NEW J \in Seqs(S),
           NEW O \in Seqs(S), NEW U \in Seqs(S)
    PROVE  Join(Join(Join(A, B), Join(I, J)), Join(O, U))
               = Join(A, Join(Join(Join(Join(B, I), J), O), U))
<1>1. \A x, y \in Seqs(S) : Join(x, y) \in Seqs(S)
    BY Joins
<1>2. \A x, y, z \in Seqs(S) : Join(Join(x, y), z) = Join(x, Join(y, z))
    BY Joins
<1> DEFINE K == Join(I, J)
           L == Join(O, U)
<1>3. K \in Seqs(S) /\ L \in Seqs(S)
    BY <1>1
<1>4. Join(Join(Join(Join(B, I), J), O), U) = Join(Join(B, K), L)
    BY <1>1, <1>2
<1> HIDE DEF K, L
<1>5. Join(Join(Join(A, B), K), L) = Join(A, Join(Join(B, K), L))
    BY <1>1, <1>2, <1>3
<1>6. QED
    BY <1>4, <1>5 DEF K, L

LEMMA RegroupAll ==
    ASSUME NEW S, NEW P \in Seqs(S), NEW E \in Seqs(S), NEW C \in Seqs(S), NEW A \in Seqs(S),
           NEW R \in Seqs(S), NEW M \in Seqs(S)
    PROVE  Join(Join(Join(Join(P, E), C), Join(A, R)), M)
               = Join(Join(P, Join(Join(E, C), A)), Join(R, M))
<1>1. \A x, y \in Seqs(S) : Join(x, y) \in Seqs(S)
    BY Joins
<1>2. \A x, y, z \in Seqs(S) : Join(Join(x, y), z) = Join(x, Join(y, z))
    BY Joins
<1> DEFINE Q == Join(Join(P, E), C)
           F == Join(P, Join(Join(E, C), A))
<1>3. Q \in Seqs(S)
    BY <1>1
<1>4. F = Join(Q, A)
    BY <1>1, <1>2
<1>5. F \in Seqs(S)
    BY <1>1
<1> HIDE DEF Q, F
<1>6. Join(Q, Join(A, R)) = Join(Join(Q, A), R)
    BY <1>2, <1>3
<1>7. Join(Join(F, R), M) = Join(F, Join(R, M))
    BY <1>2, <1>5
<1>8. QED
    BY <1>4, <1>6, <1>7 DEF Q, F

LEMMA ChainParts ==
    ASSUME NEW d, NEW c, NEW e, Fits(d, c, e), NEW n \in Nat
    PROVE  Chain(d, c, e, n) = PlatformGates(d) \o FirstPart(d, c, e) \o SecondPart(d, c, e, n)
<1>1. c.client \in Owners(c) /\ c.client # Nobody /\ c.user \in Owners(c)
    BY FitFacts DEF Owners
<1> DEFINE P == PlatformGates(d)
           E == EndpointGates(d, c, e)
           C == ClientGates(d, c)
           M == ImageGates(d, c, e, n)
           A == DailyGates(d, e, c.client)
           B == IF c.user = Nobody THEN <<>> ELSE DailyGates(d, e, c.user)
           I == InGates(d, e, c.client)
           J == IF c.user = Nobody THEN <<>> ELSE InGates(d, e, c.user)
           O == OutGates(d, e, c.client)
           U == IF c.user = Nobody THEN <<>> ELSE OutGates(d, e, c.user)
<1>2. P \in Seq(GateSet) /\ E \in Seq(GateSet) /\ C \in Seq(GateSet) /\ M \in Seq(GateSet)
    BY PlatformShown, EndpointShown, ClientShown, ImagesShown, AllGates
<1>3. A \in Seq(GateSet) /\ I \in Seq(GateSet) /\ O \in Seq(GateSet)
    BY <1>1, RouteShown, AllGates
<1>4. c.user # Nobody =>
          /\ DailyGates(d, e, c.user) \in Seq(GateSet)
          /\ InGates(d, e, c.user) \in Seq(GateSet)
          /\ OutGates(d, e, c.user) \in Seq(GateSet)
    BY <1>1, RouteShown, AllGates
<1>5. B \in Seq(GateSet) /\ J \in Seq(GateSet) /\ U \in Seq(GateSet)
    BY <1>4
<1>6. Chain(d, c, e, n) = P \o E \o C \o ((A \o B) \o (I \o J) \o (O \o U)) \o M
    BY RouteGatesAre DEF Chain
<1>7. FirstPart(d, c, e) = E \o C \o A
    BY DEF FirstPart
<1>8. SecondPart(d, c, e, n) = B \o I \o J \o O \o U \o M
    BY DEF SecondPart
<1> HIDE DEF P, E, C, M, A, B, I, J, O, U
<1>9. A \o (B \o I \o J \o O \o U) = (A \o B) \o (I \o J) \o (O \o U)
    <2>1. A \in Seqs(GateSet) /\ B \in Seqs(GateSet) /\ I \in Seqs(GateSet)
          /\ J \in Seqs(GateSet) /\ O \in Seqs(GateSet) /\ U \in Seqs(GateSet)
        BY <1>3, <1>5 DEF Seqs
    <2>2. Join(Join(Join(A, B), Join(I, J)), Join(O, U))
              = Join(A, Join(Join(Join(Join(B, I), J), O), U))
        BY <2>1, RegroupTail
    <2>3. QED
        BY <2>2 DEF Join
<1> DEFINE R == B \o I \o J \o O \o U
<1>10. R \in Seq(GateSet)
    BY <1>3, <1>5
<1>11. SecondPart(d, c, e, n) = R \o M
    BY <1>8
<1>12. Chain(d, c, e, n) = P \o E \o C \o (A \o R) \o M
    BY <1>6, <1>9
<1> HIDE DEF R
<1>13. P \o E \o C \o (A \o R) \o M = P \o (E \o C \o A) \o (R \o M)
    <2>1. P \in Seqs(GateSet) /\ E \in Seqs(GateSet) /\ C \in Seqs(GateSet)
          /\ A \in Seqs(GateSet) /\ R \in Seqs(GateSet) /\ M \in Seqs(GateSet)
        BY <1>2, <1>3, <1>10 DEF Seqs
    <2>2. Join(Join(Join(Join(P, E), C), Join(A, R)), M)
              = Join(Join(P, Join(Join(E, C), A)), Join(R, M))
        BY <2>1, RegroupAll
    <2>3. QED
        BY <2>2 DEF Join
<1>14. QED
    BY <1>7, <1>11, <1>12, <1>13 DEF P

LEMMA ChainShown ==
    ASSUME NEW d, NEW c, NEW e, Fits(d, c, e), NEW n \in Nat
    PROVE  /\ Chain(d, c, e, n) \in Seq(GateSet) /\ Len(Chain(d, c, e, n)) > 0
           /\ \A i \in 1 .. Len(Chain(d, c, e, n)) : Shown(d, c, Chain(d, c, e, n)[i])
           /\ \A i, j \in 1 .. Len(Chain(d, c, e, n)) :
                 i < j /\ Chain(d, c, e, n)[i].key[2] # Platform
                    => Chain(d, c, e, n)[j].key[2] # Platform
<1> DEFINE P == PlatformGates(d)
           R == FirstPart(d, c, e) \o SecondPart(d, c, e, n)
           g == Chain(d, c, e, n)
<1>1. P \in Seq(PlatformsOwn(d, c)) /\ Len(P) > 0
    BY PlatformShown
<1>2. R \in Seq(ClientsOwn(d, c))
    BY PartsShown
<1>3. P \in Seq(GateSet) /\ R \in Seq(GateSet)
    BY <1>1, <1>2, AllGates
<1>4. g = P \o R
    <2>1. /\ P \in Seqs(GateSet) /\ FirstPart(d, c, e) \in Seqs(GateSet)
          /\ SecondPart(d, c, e, n) \in Seqs(GateSet)
        BY <1>3, PartsShown, AllGates DEF Seqs
    <2>2. Join(Join(P, FirstPart(d, c, e)), SecondPart(d, c, e, n))
              = Join(P, Join(FirstPart(d, c, e), SecondPart(d, c, e, n)))
        BY <2>1, Joins
    <2>3. QED
        BY <2>2, ChainParts DEF Join
<1> HIDE DEF P, R, g
<1>5. g \in Seq(GateSet) /\ Len(g) = Len(P) + Len(R) /\ Len(P) \in Nat /\ Len(R) \in Nat
    BY <1>3, <1>4
<1>6. /\ \A i \in 1 .. Len(P) : g[i] = P[i]
      /\ \A i \in Len(P) + 1 .. Len(g) : i - Len(P) \in 1 .. Len(R) /\ g[i] = R[i - Len(P)]
    BY <1>3, <1>4, <1>5
<1>7. \A i \in 1 .. Len(P) : g[i] \in PlatformsOwn(d, c)
    BY <1>1, <1>6
<1>8. \A i \in Len(P) + 1 .. Len(g) : g[i] \in ClientsOwn(d, c)
    BY <1>2, <1>6
<1>9. \A i \in 1 .. Len(g) : Shown(d, c, g[i])
    BY <1>5, <1>7, <1>8 DEF PlatformsOwn, ClientsOwn
<1>10. /\ \A i \in 1 .. Len(P) : g[i].key[2] = Platform
       /\ \A i \in Len(P) + 1 .. Len(g) : g[i].key[2] # Platform
    BY <1>7, <1>8, FitFacts DEF PlatformsOwn, ClientsOwn, Owners
<1>11. \A i, j \in 1 .. Len(g) :
           i < j /\ g[i].key[2] # Platform => g[j].key[2] # Platform
    BY <1>5, <1>10
<1>12. QED
    BY <1>1, <1>5, <1>9, <1>11 DEF g

\* The gates of a request of deployment n.
Path(n, q) == Chains[n][q.cred][q.endpoint][q.images]

Asks(n, q) ==
    /\ n \in DOMAIN Deployments
    /\ q.cred \in Creds /\ q.endpoint \in Endpoints /\ q.images \in Batch \cup {0}

LEMMA PathIs ==
    ASSUME NEW n, NEW q, Asks(n, q)
    PROVE  /\ Path(n, q) = Chain(Deployments[n], q.cred, q.endpoint, q.images)
           /\ Fits(Deployments[n], q.cred, q.endpoint) /\ q.images \in Nat
<1>1. q.images \in Nat
    <2>1. Batch \cup {0} \subseteq Nat
        BY LimitsAssumption
    <2>2. QED
        BY <2>1 DEF Asks
<1>2. Fits(Deployments[n], q.cred, q.endpoint)
    BY DEF Asks, Fits
<1>4. Path(n, q) = Chain(Deployments[n], q.cred, q.endpoint, q.images)
    BY DEF Asks, Path, Chains
<1>5. QED
    BY <1>1, <1>2, <1>4

LEMMA PathFacts ==
    ASSUME NEW n, NEW q, Asks(n, q)
    PROVE  /\ Path(n, q) \in Seq(GateSet) /\ Len(Path(n, q)) \in Nat \ {0}
           /\ \A i \in 1 .. Len(Path(n, q)) :
                 Path(n, q)[i] \in GateSet /\ Shown(Deployments[n], q.cred, Path(n, q)[i])
           /\ \A i, j \in 1 .. Len(Path(n, q)) :
                 i < j /\ Path(n, q)[i].key[2] # Platform => Path(n, q)[j].key[2] # Platform
<1> DEFINE g == Path(n, q)
<1>1. /\ g \in Seq(GateSet) /\ Len(g) > 0
      /\ \A i \in 1 .. Len(g) : Shown(Deployments[n], q.cred, g[i])
      /\ \A i, j \in 1 .. Len(g) :
            i < j /\ g[i].key[2] # Platform => g[j].key[2] # Platform
    BY PathIs, ChainShown
<1> HIDE DEF g
<1>2. Len(g) \in Nat \ {0} /\ \A i \in 1 .. Len(g) : g[i] \in GateSet
    BY <1>1
<1>3. QED
    BY <1>1, <1>2 DEF g

-----------------------------------------------------------------------------
(* A ceiling that is counted is met once on the way, but for the day of a  *)
(* route, which is met twice by a client that is its own user.             *)

Distinct(s) ==
    \A i, j \in 1 .. Len(s) :
        i < j /\ s[i].op = "count" /\ s[j].op = "count" => s[i].key # s[j].key

\* What s counts: each of it once, and only what is in K.
Tally(s, K) ==
    /\ s \in Seq(GateSet) /\ Distinct(s)
    /\ \A i \in 1 .. Len(s) : s[i].op = "count" => s[i].key \in K

LEMMA TallyBoth ==
    ASSUME NEW s, NEW t, NEW K, NEW L, Tally(s, K), Tally(t, L), K \cap L = {}
    PROVE  Tally(s \o t, K \cup L)
<1> DEFINE u == s \o t
<1>1. s \in Seq(GateSet) /\ t \in Seq(GateSet)
    BY DEF Tally
<1>2. u \in Seq(GateSet) /\ Len(u) = Len(s) + Len(t) /\ Len(s) \in Nat /\ Len(t) \in Nat
    BY <1>1
<1>3. /\ \A i \in 1 .. Len(s) : u[i] = s[i]
      /\ \A i \in Len(s) + 1 .. Len(u) : i - Len(s) \in 1 .. Len(t) /\ u[i] = t[i - Len(s)]
    BY <1>1, <1>2
<1> HIDE DEF u
<1>4. /\ \A i \in 1 .. Len(s) : u[i].op = "count" => u[i].key \in K
      /\ \A i \in Len(s) + 1 .. Len(u) : u[i].op = "count" => u[i].key \in L
    BY <1>3 DEF Tally
<1>5. \A i \in 1 .. Len(u) : u[i].op = "count" => u[i].key \in K \cup L
    BY <1>2, <1>4
<1>6. ASSUME NEW i \in 1 .. Len(u), NEW j \in 1 .. Len(u), i < j,
             u[i].op = "count", u[j].op = "count"
      PROVE  u[i].key # u[j].key
    <2>1. CASE j \in 1 .. Len(s)
        <3>1. i \in 1 .. Len(s)
            BY <1>2, <1>6, <2>1
        <3>2. QED
            BY <1>3, <1>6, <2>1, <3>1 DEF Tally, Distinct
    <2>2. CASE i \in Len(s) + 1 .. Len(u)
        <3>1. j \in Len(s) + 1 .. Len(u)
            BY <1>2, <1>6, <2>2
        <3>2. i - Len(s) < j - Len(s)
            BY <1>2, <1>6
        <3>3. QED
            <4>1. u[i] = t[i - Len(s)] /\ u[j] = t[j - Len(s)]
                BY <1>3, <2>2, <3>1
            <4>2. i - Len(s) \in 1 .. Len(t) /\ j - Len(s) \in 1 .. Len(t)
                BY <1>3, <2>2, <3>1
            <4>3. QED
                BY <1>6, <3>2, <4>1, <4>2 DEF Tally, Distinct
    <2>3. CASE i \in 1 .. Len(s) /\ j \in Len(s) + 1 .. Len(u)
        BY <1>4, <1>6, <2>3
    <2>4. QED
        BY <1>2, <1>6, <2>1, <2>2, <2>3
<1>7. QED
    BY <1>2, <1>5, <1>6 DEF Tally, Distinct, u

LEMMA TallyMore ==
    ASSUME NEW s, NEW K, NEW L, Tally(s, K), K \subseteq L
    PROVE  Tally(s, L)
BY DEF Tally

LEMMA TallyNone ==
    ASSUME NEW K
    PROVE  Tally(<<>>, K)
BY DEF Tally, Distinct

\* A gate on a route or a layer of an identity.
Held(dim, who, where, limit) ==
    dim \in Dimensions /\ who \in Names /\ where \in Endpoints \cup {All} /\ limit \in Optional

LEMMA TallyCounted ==
    ASSUME NEW dim, NEW who, NEW where, NEW limit, Held(dim, who, where, limit)
    PROVE  Tally(<<Counted(dim, who, where, limit)>>, {<<dim, who, where>>})
<1>1. Counted(dim, who, where, limit) \in GateSet
    BY DEF Held, Counted, GateSet, Keys
<1>2. Counted(dim, who, where, limit).key = <<dim, who, where>>
    BY DEF Counted
<1>3. QED
    BY <1>1, <1>2 DEF Tally, Distinct

LEMMA TallyRead ==
    ASSUME NEW dim, NEW who, NEW where, NEW limit, Held(dim, who, where, limit)
    PROVE  Tally(<<Read(dim, who, where, limit)>>, {})
<1>1. Read(dim, who, where, limit) \in GateSet /\ Read(dim, who, where, limit).op # "count"
    BY DEF Held, Read, GateSet, Keys
<1>2. QED
    BY <1>1 DEF Tally, Distinct

LEMMA TallyGiven ==
    ASSUME NEW limit, NEW s, NEW K, Tally(s, K)
    PROVE  Tally(Given(limit, s), K)
BY TallyNone DEF Given

LEMMA TallyEndpoint ==
    ASSUME NEW d, NEW c, NEW e, Fits(d, c, e)
    PROVE  Tally(EndpointGates(d, c, e), {<<"rpm", i, e>> : i \in Owners(c)})
<1> DEFINE read == Read("tpm", c.client, e, EndpointTpm(d, e))
           last == IF TierOf(d, c.client).tpm = NoLimit THEN read ELSE [read EXCEPT !.op = "advise"]
           limit == EndpointRpm(d, e)
           user == IF c.user \in {Nobody, c.client} THEN <<>> ELSE <<Counted("rpm", c.user, e, limit)>>
<1>1. limit \in Optional /\ EndpointTpm(d, e) \in Optional
    BY LimitTypes DEF Optional
<1>2. c.client \in Names /\ c.user \in Names /\ e \in Endpoints
    BY FitFacts DEF Fits, Owners
<1>3. Tally(<<Counted("rpm", c.client, e, limit)>>, {<<"rpm", c.client, e>>})
    BY <1>1, <1>2, TallyCounted DEF Held, Dimensions
<1>4. Tally(user, {<<"rpm", c.user, e>>} \ {<<"rpm", c.client, e>>})
    <2>1. CASE c.user \in {Nobody, c.client}
        BY <2>1, TallyNone
    <2>2. CASE c.user \notin {Nobody, c.client}
        <3>1. Tally(<<Counted("rpm", c.user, e, limit)>>, {<<"rpm", c.user, e>>})
            BY <1>1, <1>2, TallyCounted DEF Held, Dimensions
        <3>2. <<"rpm", c.user, e>> # <<"rpm", c.client, e>>
            BY <2>2
        <3>3. QED
            BY <2>2, <3>1, <3>2, TallyMore
    <2>3. QED
        BY <2>1, <2>2
<1>5. Tally(<<last>>, {})
    <2>1. Tally(<<read>>, {})
        BY <1>1, <1>2, TallyRead DEF Held, Dimensions
    <2>2. read \in GateSet
        BY <2>1 DEF Tally
    <2>3. last \in GateSet /\ last.op # "count"
        BY <2>2 DEF GateSet, Read
    <2> HIDE DEF last
    <2>4. QED
        BY <2>3 DEF Tally, Distinct
<1>6. EndpointGates(d, c, e) = (<<Counted("rpm", c.client, e, limit)>> \o user) \o <<last>>
    <2>1. EndpointGates(d, c, e) =
              (<<Counted("rpm", Once(c)[1], e, limit)>>
               \o (IF Len(Once(c)) = 2 THEN <<Counted("rpm", Once(c)[2], e, limit)>> ELSE <<>>))
              \o <<last>>
        BY DEF EndpointGates, ForAll
    <2>2. QED
        BY <2>1, OnceIs
<1> HIDE DEF user, last, limit
<1>7. Tally(<<Counted("rpm", c.client, e, limit)>> \o user,
            {<<"rpm", c.client, e>>} \cup ({<<"rpm", c.user, e>>} \ {<<"rpm", c.client, e>>}))
    BY <1>3, <1>4, TallyBoth
<1>8. Tally(<<Counted("rpm", c.client, e, limit)>> \o user, {<<"rpm", i, e>> : i \in Owners(c)})
    BY <1>7, TallyMore DEF Owners
<1>9. Tally(EndpointGates(d, c, e), {<<"rpm", i, e>> : i \in Owners(c)} \cup {})
    BY <1>5, <1>6, <1>8, TallyBoth
<1>10. QED
    BY <1>9, TallyMore

LEMMA TallyLayer ==
    ASSUME NEW d, NEW c, NEW e, Fits(d, c, e), NEW i \in Owners(c)
    PROVE  Tally(LayerGates(d, c, i), {<<"rpm", i, All>>, <<"rpd", i, All>>})
<1> DEFINE t == TierOf(d, c.client)
           A == <<Counted("rpm", i, All, ClientRpm(d, t)), Read("tpm", i, All, ClientTpm(d, t))>>
           B == Given(t.rpd, <<Counted("rpd", i, All, t.rpd)>>)
           C == Given(t.tpd, <<Read("tpd", i, All, t.tpd)>>)
           D == Given(t.in, <<Read("in", i, All, t.in)>>)
           E == Given(t.out, <<Read("out", i, All, t.out)>>)
<1>1. /\ t \in [Dimensions -> Optional]
      /\ ClientRpm(d, t) \in Optional /\ ClientTpm(d, t) \in Optional
    BY LimitTypes, ClientLimitTypes DEF Optional
<1>2. t.rpd \in Optional /\ t.tpd \in Optional /\ t.in \in Optional /\ t.out \in Optional
    BY <1>1 DEF Dimensions
<1>3. i \in Names
    BY FitFacts
<1> HIDE DEF t
<1>4. Tally(A, {<<"rpm", i, All>>})
    <2>1. Counted("rpm", i, All, ClientRpm(d, t)) \in GateSet
          /\ Read("tpm", i, All, ClientTpm(d, t)) \in GateSet
        BY <1>1, <1>3 DEF Counted, Read, GateSet, Keys, Dimensions
    <2>2. Counted("rpm", i, All, ClientRpm(d, t)).key = <<"rpm", i, All>>
          /\ Read("tpm", i, All, ClientTpm(d, t)).op # "count"
        BY DEF Counted, Read
    <2>3. QED
        BY <2>1, <2>2 DEF Tally, Distinct
<1>5. Tally(B, {<<"rpd", i, All>>})
    <2>1. Tally(<<Counted("rpd", i, All, t.rpd)>>, {<<"rpd", i, All>>})
        BY <1>2, <1>3, TallyCounted DEF Held, Dimensions
    <2>2. QED
        BY <2>1, TallyGiven
<1>6. Tally(C, {})
    <2>1. Tally(<<Read("tpd", i, All, t.tpd)>>, {})
        BY <1>2, <1>3, TallyRead DEF Held, Dimensions
    <2>2. QED
        BY <2>1, TallyGiven
<1>7. Tally(D, {})
    <2>1. Tally(<<Read("in", i, All, t.in)>>, {})
        BY <1>2, <1>3, TallyRead DEF Held, Dimensions
    <2>2. QED
        BY <2>1, TallyGiven
<1>8. Tally(E, {})
    <2>1. Tally(<<Read("out", i, All, t.out)>>, {})
        BY <1>2, <1>3, TallyRead DEF Held, Dimensions
    <2>2. QED
        BY <2>1, TallyGiven
<1>9. LayerGates(d, c, i) = A \o B \o C \o D \o E
    BY DEF LayerGates, t
<1> DEFINE K == {<<"rpm", i, All>>, <<"rpd", i, All>>}
<1> HIDE DEF A, B, C, D, E
<1>10. Tally(A \o B, {<<"rpm", i, All>>} \cup {<<"rpd", i, All>>})
    <2>1. {<<"rpm", i, All>>} \cap {<<"rpd", i, All>>} = {}
        OBVIOUS
    <2>2. QED
        BY <1>4, <1>5, <2>1, TallyBoth
<1>11. Tally(A \o B, K)
    BY <1>10, TallyMore
<1> HIDE DEF K
<1>12. ASSUME NEW s, NEW u, Tally(s, K), Tally(u, {}) PROVE Tally(s \o u, K)
    <2>1. Tally(s \o u, K \cup {})
        BY <1>12, TallyBoth
    <2>2. QED
        BY <2>1, TallyMore
<1>13. Tally(A \o B \o C \o D \o E, K)
    BY <1>6, <1>7, <1>8, <1>11, <1>12
<1>14. QED
    BY <1>9, <1>13 DEF K

LEMMA TallyClient ==
    ASSUME NEW d, NEW c, NEW e, Fits(d, c, e)
    PROVE  Tally(ClientGates(d, c), {"rpm", "rpd"} \X Owners(c) \X {All})
<1> DEFINE K(i) == {<<"rpm", i, All>>, <<"rpd", i, All>>}
           user == IF c.user \in {Nobody, c.client} THEN <<>> ELSE LayerGates(d, c, c.user)
<1>1. c.client \in Owners(c) /\ c.user \in Owners(c)
    BY DEF Owners
<1>2. Tally(LayerGates(d, c, c.client), K(c.client))
    BY <1>1, TallyLayer
<1>3. Tally(user, K(c.user) \ K(c.client))
    <2>1. CASE c.user \in {Nobody, c.client}
        BY <2>1, TallyNone
    <2>2. CASE c.user \notin {Nobody, c.client}
        <3>1. Tally(LayerGates(d, c, c.user), K(c.user))
            BY <1>1, TallyLayer
        <3>2. K(c.user) \subseteq K(c.user) \ K(c.client)
            BY <2>2
        <3>3. QED
            BY <2>2, <3>1, <3>2, TallyMore
    <2>3. QED
        BY <2>1, <2>2
<1>4. ClientGates(d, c) = LayerGates(d, c, c.client) \o user
    BY ClientGatesAre
<1> HIDE DEF user
<1>5. Tally(ClientGates(d, c), K(c.client) \cup (K(c.user) \ K(c.client)))
    BY <1>2, <1>3, <1>4, TallyBoth
<1>6. K(c.client) \cup (K(c.user) \ K(c.client)) \subseteq {"rpm", "rpd"} \X Owners(c) \X {All}
    BY <1>1
<1>7. QED
    BY <1>5, <1>6, TallyMore

LEMMA TallyRoute ==
    ASSUME NEW d, NEW c, NEW e, Fits(d, c, e), NEW i \in Owners(c)
    PROVE  /\ Tally(DailyGates(d, e, i), {<<"rpd", i, e>>})
           /\ Tally(InGates(d, e, i), {}) /\ Tally(OutGates(d, e, i), {})
<1>1. i \in Names /\ e \in Endpoints
    BY FitFacts DEF Fits
<1>2. /\ d.limits.rpd \in Optional /\ d.limits.tpd \in Optional
      /\ d.limits.in \in Optional /\ d.limits.out \in Optional
    BY LimitTypes
<1>3. Tally(<<Counted("rpd", i, e, d.limits.rpd)>>, {<<"rpd", i, e>>})
    BY <1>1, <1>2, TallyCounted DEF Held, Dimensions
<1>4. Tally(<<Read("tpd", i, e, d.limits.tpd)>>, {})
    BY <1>1, <1>2, TallyRead DEF Held, Dimensions
<1>5. Tally(<<Read("in", i, e, d.limits.in)>>, {}) /\ Tally(<<Read("out", i, e, d.limits.out)>>, {})
    BY <1>1, <1>2, TallyRead DEF Held, Dimensions
<1>6. Tally(InGates(d, e, i), {}) /\ Tally(OutGates(d, e, i), {})
    BY <1>5, TallyGiven DEF InGates, OutGates
<1>7. Tally(DailyGates(d, e, i), {<<"rpd", i, e>>} \cup {})
    <2>1. Tally(Given(d.limits.rpd, <<Counted("rpd", i, e, d.limits.rpd)>>), {<<"rpd", i, e>>})
        BY <1>3, TallyGiven
    <2>2. Tally(Given(d.limits.tpd, <<Read("tpd", i, e, d.limits.tpd)>>), {})
        BY <1>4, TallyGiven
    <2>3. QED
        BY <2>1, <2>2, TallyBoth DEF DailyGates
<1>8. QED
    BY <1>6, <1>7, TallyMore

LEMMA TallyImages ==
    ASSUME NEW d, NEW c, NEW e, Fits(d, c, e), NEW n \in Nat
    PROVE  Tally(ImageGates(d, c, e, n), {})
<1> DEFINE t == TierOf(d, c.client)
           where == IF t.ipm = NoLimit THEN e ELSE All
           limit == Or(t.ipm, d.limits.ipm)
           gate(i) == [Read("ipm", i, where, limit) EXCEPT !.ask = n]
           s == ImageGates(d, c, e, n)
<1>1. s = IF e = "images"
          THEN Given(limit, <<gate(c.client)>>
                            \o (IF c.user \in {Nobody, c.client} THEN <<>> ELSE <<gate(c.user)>>))
          ELSE <<>>
    BY DEF ImageGates, ForAll, Once
<1>2. gate(c.client).op = "read" /\ gate(c.user).op = "read"
    BY DEF Read
<1> HIDE DEF gate, limit, where
<1>3. \A i \in 1 .. Len(s) : s[i].op = "read"
    BY <1>1, <1>2 DEF Given
<1>4. s \in Seq(GateSet)
    BY ImagesShown, AllGates
<1>5. QED
    BY <1>3, <1>4 DEF Tally, Distinct

LEMMA TallyPlatform ==
    ASSUME NEW d, NEW c, NEW e, Fits(d, c, e)
    PROVE  Tally(PlatformGates(d), {<<"rpm", Platform, All>>})
<1>1. d.limits.rpmPlatform \in Optional /\ d.limits.tpmPlatform \in Optional /\ Platform \in Names
    BY LimitTypes, FitFacts
<1>2. Tally(<<Counted("rpm", Platform, All, d.limits.rpmPlatform)>>, {<<"rpm", Platform, All>>})
    BY <1>1, TallyCounted DEF Held, Dimensions
<1>3. Tally(Given(d.limits.tpmPlatform, <<Read("tpm", Platform, All, d.limits.tpmPlatform)>>), {})
    BY <1>1, TallyRead, TallyGiven DEF Held, Dimensions
<1>4. Tally(PlatformGates(d), {<<"rpm", Platform, All>>} \cup {})
    BY <1>2, <1>3, TallyBoth DEF PlatformGates
<1>5. QED
    BY <1>4, TallyMore

LEMMA TallyFirst ==
    ASSUME NEW d, NEW c, NEW e, Fits(d, c, e)
    PROVE  Tally(PlatformGates(d) \o FirstPart(d, c, e), Keys)
<1> DEFINE KP == {<<"rpm", Platform, All>>}
           KE == {<<"rpm", i, e>> : i \in Owners(c)}
           KC == {"rpm", "rpd"} \X Owners(c) \X {All}
           KD == {<<"rpd", c.client, e>>}
<1>1. Tally(PlatformGates(d), KP) /\ Tally(EndpointGates(d, c, e), KE) /\ Tally(ClientGates(d, c), KC)
    BY TallyPlatform, TallyEndpoint, TallyClient
<1>2. Tally(DailyGates(d, e, c.client), KD)
    BY TallyRoute DEF Owners
<1>3. Platform \notin Owners(c) /\ e # All
    BY FitFacts DEF Owners
<1>4. KE \cap KC = {} /\ (KE \cup KC) \cap KD = {} /\ KP \cap (KE \cup KC \cup KD) = {}
    BY <1>3
<1>5. KP \cup (KE \cup KC \cup KD) \subseteq Keys
    BY FitFacts DEF Fits, Owners, Keys, Dimensions
<1> HIDE DEF KP, KE, KC, KD
<1>6. Tally(EndpointGates(d, c, e) \o ClientGates(d, c), KE \cup KC)
    BY <1>1, <1>4, TallyBoth
<1>7. Tally(FirstPart(d, c, e), KE \cup KC \cup KD)
    BY <1>2, <1>4, <1>6, TallyBoth DEF FirstPart
<1>8. Tally(PlatformGates(d) \o FirstPart(d, c, e), KP \cup (KE \cup KC \cup KD))
    BY <1>1, <1>4, <1>7, TallyBoth
<1>9. QED
    BY <1>5, <1>8, TallyMore

LEMMA TallySecond ==
    ASSUME NEW d, NEW c, NEW e, Fits(d, c, e), NEW n \in Nat
    PROVE  Tally(SecondPart(d, c, e, n), {<<"rpd", c.user, e>>})
<1> DEFINE K == {<<"rpd", c.user, e>>}
           B == IF c.user = Nobody THEN <<>> ELSE DailyGates(d, e, c.user)
           I == InGates(d, e, c.client)
           J == IF c.user = Nobody THEN <<>> ELSE InGates(d, e, c.user)
           O == OutGates(d, e, c.client)
           U == IF c.user = Nobody THEN <<>> ELSE OutGates(d, e, c.user)
           M == ImageGates(d, c, e, n)
<1>1. c.client \in Owners(c) /\ c.user \in Owners(c)
    BY DEF Owners
<1>2. Tally(B, K)
    BY <1>1, TallyRoute, TallyNone
<1>3. Tally(I, {}) /\ Tally(J, {}) /\ Tally(O, {}) /\ Tally(U, {}) /\ Tally(M, {})
    BY <1>1, TallyRoute, TallyNone, TallyImages
<1>4. SecondPart(d, c, e, n) = B \o I \o J \o O \o U \o M
    BY DEF SecondPart
<1> HIDE DEF K, B, I, J, O, U, M
<1>5. ASSUME NEW s, NEW u, Tally(s, K), Tally(u, {}) PROVE Tally(s \o u, K)
    <2>1. Tally(s \o u, K \cup {})
        BY <1>5, TallyBoth
    <2>2. QED
        BY <2>1, TallyMore
<1>6. Tally(B \o I, K)
    BY <1>2, <1>3, <1>5
<1>7. Tally(B \o I \o J, K)
    BY <1>3, <1>5, <1>6
<1>8. Tally(B \o I \o J \o O, K)
    BY <1>3, <1>5, <1>7
<1>9. Tally(B \o I \o J \o O \o U, K)
    BY <1>3, <1>5, <1>8
<1>10. Tally(B \o I \o J \o O \o U \o M, K)
    BY <1>3, <1>5, <1>9
<1>11. QED
    BY <1>4, <1>10 DEF K

\* A ceiling that RefusedIsSpent lets be counted twice.
Twice(k) == k[1] = "rpd" /\ k[3] # All

LEMMA Repeats ==
    ASSUME NEW d, NEW c, NEW e, Fits(d, c, e), NEW n \in Nat,
           NEW i \in 1 .. Len(Chain(d, c, e, n)), NEW j \in 1 .. Len(Chain(d, c, e, n)), i < j,
           Chain(d, c, e, n)[i].op = "count", Chain(d, c, e, n)[j].op = "count",
           Chain(d, c, e, n)[i].key = Chain(d, c, e, n)[j].key
    PROVE  /\ Twice(Chain(d, c, e, n)[j].key)
           /\ \A l \in 1 .. Len(Chain(d, c, e, n)) :
                 j < l /\ Chain(d, c, e, n)[l].op = "count"
                    => Chain(d, c, e, n)[l].key # Chain(d, c, e, n)[j].key
<1> DEFINE g == Chain(d, c, e, n)
           s == PlatformGates(d) \o FirstPart(d, c, e)
           t == SecondPart(d, c, e, n)
<1>1. Tally(s, Keys) /\ Tally(t, {<<"rpd", c.user, e>>}) /\ g = s \o t
    BY TallyFirst, TallySecond, ChainParts
<1>2. i \in 1 .. Len(g) /\ j \in 1 .. Len(g) /\ g[i].op = "count" /\ g[j].op = "count"
      /\ g[i].key = g[j].key
    OBVIOUS
<1>3. e # All
    BY FitFacts
<1> HIDE DEF g, s, t
<1>4. s \in Seq(GateSet) /\ t \in Seq(GateSet)
    BY <1>1 DEF Tally
<1>5. Len(g) = Len(s) + Len(t) /\ Len(s) \in Nat /\ Len(t) \in Nat
    BY <1>1, <1>4
<1>6. /\ \A x \in 1 .. Len(s) : g[x] = s[x]
      /\ \A x \in Len(s) + 1 .. Len(g) : x - Len(s) \in 1 .. Len(t) /\ g[x] = t[x - Len(s)]
    BY <1>1, <1>4, <1>5
<1>7. \A x, y \in 1 .. Len(s) :
          x < y /\ g[x].op = "count" /\ g[y].op = "count" => g[x].key # g[y].key
    BY <1>1, <1>6 DEF Tally, Distinct
<1>8. ASSUME NEW x \in Len(s) + 1 .. Len(g), NEW y \in Len(s) + 1 .. Len(g), x < y,
             g[x].op = "count", g[y].op = "count"
      PROVE  FALSE
    <2>1. /\ x - Len(s) \in 1 .. Len(t) /\ y - Len(s) \in 1 .. Len(t) /\ x - Len(s) < y - Len(s)
          /\ g[x] = t[x - Len(s)] /\ g[y] = t[y - Len(s)]
        BY <1>5, <1>6, <1>8
    <2>2. QED
        BY <1>1, <1>8, <2>1 DEF Tally, Distinct
<1>9. j \notin 1 .. Len(s)
    <2>1. ASSUME j \in 1 .. Len(s) PROVE FALSE
        <3>1. i \in 1 .. Len(s)
            BY <1>5, <2>1
        <3>2. QED
            BY <1>2, <1>7, <2>1, <3>1
    <2>2. QED
        BY <2>1
<1>10. j \in Len(s) + 1 .. Len(g)
    BY <1>2, <1>5, <1>9
<1>11. g[j].key = <<"rpd", c.user, e>>
    BY <1>1, <1>2, <1>6, <1>10 DEF Tally
<1>12. Twice(g[j].key)
    BY <1>3, <1>11 DEF Twice
<1>13. ASSUME NEW l \in 1 .. Len(g), j < l, g[l].op = "count" PROVE g[l].key # g[j].key
    <2>1. l \in Len(s) + 1 .. Len(g)
        BY <1>5, <1>10, <1>13
    <2>2. QED
        BY <1>2, <1>8, <1>10, <1>13, <2>1
<1>14. QED
    BY <1>12, <1>13 DEF g

LEMMA PathRepeats ==
    ASSUME NEW n, NEW q, Asks(n, q),
           NEW i \in 1 .. Len(Path(n, q)), NEW j \in 1 .. Len(Path(n, q)), i < j,
           Path(n, q)[i].op = "count", Path(n, q)[j].op = "count",
           Path(n, q)[i].key = Path(n, q)[j].key
    PROVE  /\ Twice(Path(n, q)[j].key)
           /\ \A l \in 1 .. Len(Path(n, q)) :
                 j < l /\ Path(n, q)[l].op = "count" => Path(n, q)[l].key # Path(n, q)[j].key
BY PathIs, Repeats

-----------------------------------------------------------------------------
(* A request on its way. It has marked only what it counted before the     *)
(* gate it is at; and once it has paid, the platform's gates are behind    *)
(* it.                                                                     *)

PCs == {"idle", "gates", "serving", "charging", "refused"}

CallSet ==
    [pc : PCs, cred : Creds, endpoint : Endpoints, images : Nat, at : Nat \ {0},
     in : Nat, out : Nat, hit : SUBSET Keys, paid : BOOLEAN]

OnPath(n, q) ==
    /\ Asks(n, q) /\ q.at \in 1 .. Len(Path(n, q))
    /\ q.paid => Path(n, q)[q.at].key[2] # Platform

Marked(n, q) ==
    \A k \in q.hit :
        \E i \in 1 .. q.at - 1 : Path(n, q)[i].op = "count" /\ Path(n, q)[i].key = k

Sound(n, q) ==
    /\ q \in CallSet
    /\ q.pc \in {"gates", "refused"} => OnPath(n, q)
    /\ q.pc = "gates" => Marked(n, q)

Counting(f) == \A k \in DOMAIN f : f[k] \in Nat

StateInv ==
    /\ deployment \in DOMAIN Deployments
    /\ call \in [Requests -> CallSet]
    /\ \A r \in Requests : Sound(deployment, call[r])
    /\ Counting(count) /\ Counting(seen)

\* It has counted k and will count it again.
Half(n, q, k) ==
    /\ q.pc = "gates" /\ k \in q.hit
    /\ \E i \in q.at .. Len(Path(n, q)) : Path(n, q)[i].op = "count" /\ Path(n, q)[i].key = k

Halves(n, c, k) == {r \in Requests : Half(n, c[r], k)}

\* A counter at x when y requests have been added to it.
Fair(k, x, y) == x <= IF Twice(k) THEN 2 * y ELSE y

\* Who is half way still owes a raise to a counter that allows for two.
FairInv ==
    \A k \in Keys :
        Fair(k, Get(count, k) + Cardinality(Halves(deployment, call, k)), Get(seen, k))

-----------------------------------------------------------------------------
(* What a step makes of a request.                                         *)

\* Past its gate, and raised by it.
Further(n, q) ==
    LET p == [q EXCEPT !.at = @ + 1]
    IN  IF p.at > Len(Path(n, p)) THEN [p EXCEPT !.pc = "serving", !.at = 1] ELSE p

Raised(n, q, ok) ==
    LET g == Path(n, q)[q.at]
    IN  [(IF ok THEN Further(n, q) ELSE [q EXCEPT !.pc = "refused"])
            EXCEPT !.hit = @ \cup {g.key}, !.paid = @ \/ g.key[2] # Platform]

Quiet(n, q, p) == \A k \in Keys : Half(n, p, k) => Half(n, q, k)

\* p is q after raising K.
Raises(n, q, p, K) ==
    /\ \A k \in Keys \ {K} : Half(n, p, k) => Half(n, q, k)
    /\ K \in q.hit => Half(n, q, K) /\ ~ Half(n, p, K)
    /\ K \notin q.hit /\ ~ Twice(K) => ~ Half(n, p, K)

LEMMA SamePath ==
    ASSUME NEW n, NEW q, NEW p, p.cred = q.cred, p.endpoint = q.endpoint, p.images = q.images
    PROVE  Path(n, p) = Path(n, q) /\ (Asks(n, q) => Asks(n, p))
BY DEF Path, Asks

LEMMA StageSet ==
    ASSUME NEW q \in CallSet, NEW x \in PCs, NEW y \in Nat \ {0}
    PROVE  /\ [q EXCEPT !.pc = x, !.at = y] \in CallSet
           /\ [q EXCEPT !.pc = x, !.at = y].pc = x
BY DEF CallSet

LEMMA FurtherIs ==
    ASSUME NEW n, NEW q, Sound(n, q), q.pc = "gates"
    PROVE  LET p == Further(n, q) IN
           /\ p \in CallSet /\ p.hit = q.hit /\ p.paid = q.paid
           /\ p.cred = q.cred /\ p.endpoint = q.endpoint /\ p.images = q.images
           /\ Path(n, p) = Path(n, q) /\ Asks(n, p)
           /\ p.pc \in {"gates", "serving"}
           /\ p.pc = "gates" => p.at = q.at + 1 /\ p.at \in 1 .. Len(Path(n, q))
           /\ p.pc = "serving" => q.at = Len(Path(n, q))
<1> DEFINE s == [q EXCEPT !.at = @ + 1]
           p == Further(n, q)
<1>1. q \in CallSet /\ Asks(n, q) /\ q.at \in 1 .. Len(Path(n, q))
    BY DEF Sound, OnPath
<1>2. Path(n, s) = Path(n, q)
    BY <1>1, SamePath DEF CallSet
<1>3. Len(Path(n, q)) \in Nat
    BY <1>1, PathFacts
<1>4. s \in CallSet /\ s.at = q.at + 1 /\ s.at \in Nat \ {0} /\ s.pc = "gates"
    BY <1>1 DEF CallSet
<1>5. p = IF s.at > Len(Path(n, q)) THEN [s EXCEPT !.pc = "serving", !.at = 1] ELSE s
    BY <1>2 DEF Further
<1>6. /\ p \in CallSet /\ p.hit = q.hit /\ p.paid = q.paid
      /\ p.cred = q.cred /\ p.endpoint = q.endpoint /\ p.images = q.images
      /\ p.pc \in {"gates", "serving"}
    <2> HIDE DEF s, p
    <2>1. CASE s.at > Len(Path(n, q))
        <3>1. p = [s EXCEPT !.pc = "serving", !.at = 1]
            BY <1>5, <2>1
        <3>2. s.hit = q.hit /\ s.paid = q.paid
              /\ s.cred = q.cred /\ s.endpoint = q.endpoint /\ s.images = q.images
            BY <1>1 DEF s, CallSet
        <3>3. p \in CallSet /\ p.pc = "serving"
            <4>1. "serving" \in PCs /\ 1 \in Nat \ {0}
                BY DEF PCs
            <4>2. QED
                BY <1>4, <3>1, <4>1, StageSet
        <3>4. p.hit = s.hit /\ p.paid = s.paid
              /\ p.cred = s.cred /\ p.endpoint = s.endpoint /\ p.images = s.images
            BY <1>4, <3>1 DEF CallSet
        <3>5. QED
            BY <3>2, <3>3, <3>4
    <2>2. CASE ~ (s.at > Len(Path(n, q)))
        <3>1. p = s
            BY <1>5, <2>2
        <3>2. QED
            BY <1>1, <1>4, <3>1 DEF s, CallSet, PCs
    <2>3. QED
        BY <2>1, <2>2
<1>7. /\ p.pc = "gates" => p.at = q.at + 1 /\ p.at \in 1 .. Len(Path(n, q))
      /\ p.pc = "serving" => q.at = Len(Path(n, q))
    BY <1>1, <1>3, <1>4, <1>5 DEF CallSet
<1>8. Path(n, p) = Path(n, q) /\ Asks(n, p)
    BY <1>1, <1>6, SamePath
<1>9. QED
    BY <1>6, <1>7, <1>8

\* The platform's gates are not met again.
LEMMA PaidStays ==
    ASSUME NEW n, NEW q, Sound(n, q), q.pc = "gates", q.at + 1 \in 1 .. Len(Path(n, q)),
           q.paid \/ Path(n, q)[q.at].key[2] # Platform
    PROVE  Path(n, q)[q.at + 1].key[2] # Platform
<1>1. q.at \in 1 .. Len(Path(n, q)) /\ Path(n, q)[q.at].key[2] # Platform /\ Asks(n, q)
    BY DEF Sound, OnPath
<1>2. q.at < q.at + 1
    BY DEF Sound, CallSet
<1>3. QED
    BY <1>1, <1>2, PathFacts

LEMMA FurtherSound ==
    ASSUME NEW n, NEW q, Sound(n, q), q.pc = "gates"
    PROVE  Sound(n, Further(n, q)) /\ Quiet(n, q, Further(n, q))
<1> DEFINE p == Further(n, q)
<1>1. /\ p \in CallSet /\ p.hit = q.hit /\ p.paid = q.paid
      /\ Path(n, p) = Path(n, q) /\ Asks(n, p)
      /\ p.pc \in {"gates", "serving"}
      /\ p.pc = "gates" => p.at = q.at + 1 /\ p.at \in 1 .. Len(Path(n, q))
    BY FurtherIs
<1>2. q \in CallSet /\ Marked(n, q) /\ OnPath(n, q)
    BY DEF Sound
<1>3. q.at \in Nat \ {0} /\ Len(Path(n, q)) \in Nat
    BY <1>2, PathFacts DEF CallSet, OnPath
<1> HIDE DEF p
<1>4. p.pc = "gates" => OnPath(n, p)
    BY <1>1, PaidStays DEF OnPath
<1>5. p.pc = "gates" => Marked(n, p)
    <2>1. ASSUME p.pc = "gates" PROVE 1 .. q.at - 1 \subseteq 1 .. p.at - 1
        BY <1>1, <1>3, <2>1
    <2>2. QED
        BY <1>1, <1>2, <2>1 DEF Marked
<1>6. Sound(n, p)
    BY <1>1, <1>4, <1>5 DEF Sound
<1>7. Quiet(n, q, p)
    <2>1. ASSUME NEW k \in Keys, Half(n, p, k) PROVE Half(n, q, k)
        <3>1. p.at .. Len(Path(n, q)) \subseteq q.at .. Len(Path(n, q))
            BY <1>1, <1>3, <2>1 DEF Half
        <3>2. QED
            BY <1>1, <2>1, <3>1 DEF Half, Sound
    <2>2. QED
        BY <2>1 DEF Quiet
<1>8. QED
    BY <1>6, <1>7 DEF p

\* Anywhere but at the gates a request is half way to nothing.
LEMMA OffPath ==
    ASSUME NEW n, NEW q, NEW p, p.pc # "gates"
    PROVE  Quiet(n, q, p) /\ \A k : ~ Half(n, p, k)
BY DEF Quiet, Half

LEMMA RefusedSound ==
    ASSUME NEW n, NEW q, Sound(n, q), q.pc = "gates"
    PROVE  Sound(n, [q EXCEPT !.pc = "refused"])
<1> DEFINE p == [q EXCEPT !.pc = "refused"]
<1>1. q \in CallSet /\ OnPath(n, q)
    BY DEF Sound
<1>2. p \in CallSet /\ p.pc = "refused" /\ p.at = q.at /\ p.paid = q.paid
      /\ p.cred = q.cred /\ p.endpoint = q.endpoint /\ p.images = q.images
    BY <1>1 DEF CallSet, PCs
<1> HIDE DEF p
<1>3. Path(n, p) = Path(n, q) /\ Asks(n, p)
    BY <1>1, <1>2, SamePath DEF OnPath
<1>4. OnPath(n, p)
    BY <1>1, <1>2, <1>3 DEF OnPath
<1>5. QED
    BY <1>2, <1>4 DEF Sound, p

LEMMA RaisedIs ==
    ASSUME NEW n, NEW q, Sound(n, q), q.pc = "gates", NEW ok \in BOOLEAN
    PROVE  LET p == Raised(n, q, ok)
               g == Path(n, q)[q.at] IN
           /\ p \in CallSet /\ p.hit = q.hit \cup {g.key}
           /\ p.paid <=> q.paid \/ g.key[2] # Platform
           /\ Path(n, p) = Path(n, q) /\ Asks(n, p)
           /\ p.cred = q.cred /\ p.endpoint = q.endpoint /\ p.images = q.images
           /\ p.pc \in {"gates", "serving", "refused"}
           /\ ~ ok => p.pc = "refused" /\ p.at = q.at
           /\ ok => p.pc # "refused"
           /\ p.pc = "gates" => p.at = q.at + 1 /\ p.at \in 1 .. Len(Path(n, q))
           /\ p.pc = "serving" => q.at = Len(Path(n, q))
<1> DEFINE g == Path(n, q)[q.at]
           p == Raised(n, q, ok)
           s == IF ok THEN Further(n, q) ELSE [q EXCEPT !.pc = "refused"]
           b == q.paid \/ g.key[2] # Platform
<1>1. q \in CallSet /\ OnPath(n, q)
    BY DEF Sound
<1>2. g.key \in Keys /\ Asks(n, q) /\ q.at \in 1 .. Len(Path(n, q))
    BY <1>1, PathFacts DEF OnPath, GateSet
<1>3. /\ s \in CallSet /\ s.hit = q.hit /\ s.paid = q.paid
      /\ s.cred = q.cred /\ s.endpoint = q.endpoint /\ s.images = q.images
      /\ s.pc \in {"gates", "serving", "refused"}
      /\ ~ ok => s.pc = "refused" /\ s.at = q.at
      /\ ok => s.pc # "refused"
      /\ s.pc = "gates" => s.at = q.at + 1 /\ s.at \in 1 .. Len(Path(n, q))
      /\ s.pc = "serving" => q.at = Len(Path(n, q))
    <2>1. CASE ok
        BY <2>1, FurtherIs
    <2>2. CASE ~ ok
        BY <1>1, <2>2 DEF CallSet, PCs
    <2>3. QED
        BY <2>1, <2>2
<1>4. p = [s EXCEPT !.hit = s.hit \cup {g.key}, !.paid = s.paid \/ g.key[2] # Platform]
    BY DEF Raised
<1> HIDE DEF s, g
<1>5. /\ p \in CallSet /\ p.hit = q.hit \cup {g.key}
      /\ p.cred = s.cred /\ p.endpoint = s.endpoint /\ p.images = s.images
      /\ p.pc = s.pc /\ p.at = s.at
    <2> DEFINE h == s.hit \cup {g.key}
               v == s.paid \/ g.key[2] # Platform
    <2>1. h \in SUBSET Keys /\ v \in BOOLEAN
        BY <1>2, <1>3 DEF CallSet
    <2>2. p = [s EXCEPT !.hit = h, !.paid = v]
        BY <1>4
    <2> HIDE DEF v, p
    <2>3. QED
        BY <1>3, <2>1, <2>2 DEF CallSet
<1>6. p.paid <=> b
    <2>1. p.paid = (s.paid \/ g.key[2] # Platform)
        BY <1>3, <1>4 DEF CallSet
    <2>2. QED
        BY <1>3, <2>1
<1> HIDE DEF p
<1>7. Path(n, p) = Path(n, q) /\ Asks(n, p)
    BY <1>2, <1>3, <1>5, SamePath
<1>8. QED
    BY <1>3, <1>5, <1>6, <1>7 DEF p, g

LEMMA RaisedSound ==
    ASSUME NEW n, NEW q, Sound(n, q), q.pc = "gates", NEW ok \in BOOLEAN,
           Path(n, q)[q.at].op = "count"
    PROVE  /\ Sound(n, Raised(n, q, ok))
           /\ Raises(n, q, Raised(n, q, ok), Path(n, q)[q.at].key)
<1> DEFINE g == Path(n, q)[q.at]
           p == Raised(n, q, ok)
<1>1. /\ p \in CallSet /\ p.hit = q.hit \cup {g.key}
      /\ p.paid <=> q.paid \/ g.key[2] # Platform
      /\ Path(n, p) = Path(n, q) /\ Asks(n, p)
      /\ p.pc \in {"gates", "serving", "refused"}
      /\ ~ ok => p.pc = "refused" /\ p.at = q.at
      /\ ok => p.pc # "refused"
      /\ p.pc = "gates" => p.at = q.at + 1 /\ p.at \in 1 .. Len(Path(n, q))
    BY RaisedIs
<1>2. q \in CallSet /\ OnPath(n, q) /\ Marked(n, q) /\ Asks(n, q)
    BY DEF Sound, OnPath
<1>3. q.at \in 1 .. Len(Path(n, q)) /\ q.at \in Nat \ {0} /\ Len(Path(n, q)) \in Nat
    BY <1>2, PathFacts DEF OnPath, CallSet
<1>4. g.op = "count"
    OBVIOUS
<1> HIDE DEF p
<1>5. p.pc = "refused" => OnPath(n, p)
    BY <1>1, <1>2, <1>3 DEF OnPath
<1>6. p.pc = "gates" => OnPath(n, p)
    BY <1>1, PaidStays DEF OnPath
<1>7. p.pc = "gates" => Marked(n, p)
    <2>1. ASSUME p.pc = "gates", NEW k \in p.hit
          PROVE  \E i \in 1 .. p.at - 1 : Path(n, p)[i].op = "count" /\ Path(n, p)[i].key = k
        <3>1. 1 .. p.at - 1 = (1 .. q.at - 1) \cup {q.at}
            BY <1>1, <1>3, <2>1
        <3>2. CASE k = g.key
            BY <1>1, <1>4, <3>1, <3>2
        <3>3. CASE k \in q.hit
            BY <1>1, <1>2, <3>1, <3>3 DEF Marked
        <3>4. QED
            BY <1>1, <2>1, <3>2, <3>3
    <2>2. QED
        BY <2>1 DEF Marked
<1>8. Sound(n, p)
    BY <1>1, <1>5, <1>6, <1>7 DEF Sound
<1> DEFINE K == g.key
<1>9. ASSUME NEW k \in Keys \ {K}, Half(n, p, k) PROVE Half(n, q, k)
    <2>1. k \in q.hit /\ p.pc = "gates"
        BY <1>1, <1>9 DEF Half
    <2>2. p.at .. Len(Path(n, q)) \subseteq q.at .. Len(Path(n, q))
        BY <1>1, <1>3, <2>1
    <2>3. QED
        BY <1>1, <1>9, <2>1, <2>2 DEF Half
<1>10. ASSUME Half(n, p, K)
       PROVE  \E j \in 1 .. Len(Path(n, q)) :
                 q.at < j /\ Path(n, q)[j].op = "count" /\ Path(n, q)[j].key = K
    <2>1. p.pc = "gates"
        BY <1>10 DEF Half
    <2>2. PICK j \in p.at .. Len(Path(n, q)) : Path(n, q)[j].op = "count" /\ Path(n, q)[j].key = K
        BY <1>1, <1>10 DEF Half
    <2>3. j \in 1 .. Len(Path(n, q)) /\ q.at < j
        BY <1>1, <1>3, <2>1, <2>2
    <2>4. QED
        BY <2>2, <2>3
<1>11. ASSUME K \in q.hit PROVE Half(n, q, K) /\ ~ Half(n, p, K)
    <2>1. Half(n, q, K)
        BY <1>3, <1>4, <1>11 DEF Half
    <2>2. PICK i \in 1 .. q.at - 1 : Path(n, q)[i].op = "count" /\ Path(n, q)[i].key = K
        BY <1>2, <1>11 DEF Marked
    <2>3. i \in 1 .. Len(Path(n, q)) /\ i < q.at
        BY <1>3, <2>2
    <2>4. \A l \in 1 .. Len(Path(n, q)) :
              q.at < l /\ Path(n, q)[l].op = "count" => Path(n, q)[l].key # K
        BY <1>2, <1>3, <1>4, <2>2, <2>3, PathRepeats
    <2>5. QED
        BY <1>10, <2>1, <2>4
<1>12. ASSUME K \notin q.hit, ~ Twice(K) PROVE ~ Half(n, p, K)
    <2>1. ASSUME NEW j \in 1 .. Len(Path(n, q)), q.at < j,
                 Path(n, q)[j].op = "count", Path(n, q)[j].key = K
          PROVE  Twice(K)
        BY <1>2, <1>3, <1>4, <2>1, PathRepeats
    <2>2. QED
        BY <1>10, <1>12, <2>1
<1>13. Raises(n, q, p, K)
    BY <1>9, <1>11, <1>12 DEF Raises
<1>14. QED
    BY <1>8, <1>13 DEF p

\* Idle is not half way, and sound.
LEMMA IdleSound ==
    ASSUME NEW n
    PROVE  Sound(n, Idle) /\ Idle \in CallSet /\ Idle.pc = "idle"
<1>1. (CHOOSE c \in Creds : TRUE) \in Creds /\ (CHOOSE e \in Endpoints : TRUE) \in Endpoints
    BY LimitsAssumption
<1>2. Idle \in CallSet
    BY <1>1 DEF Idle, CallSet, PCs
<1>3. Idle.pc = "idle"
    BY DEF Idle
<1>4. QED
    BY <1>2, <1>3 DEF Sound

LEMMA LeaveSound ==
    ASSUME NEW n, NEW q \in CallSet
    PROVE  LET p == [q EXCEPT !.pc = "serving", !.at = 1] IN
           Sound(n, p) /\ p.pc = "serving"
<1> DEFINE p == [q EXCEPT !.pc = "serving", !.at = 1]
<1>1. p \in CallSet /\ p.pc = "serving"
    <2>1. "serving" \in PCs /\ 1 \in Nat \ {0}
        BY DEF PCs
    <2>2. p = [q EXCEPT !.pc = "serving", !.at = 1]
        OBVIOUS
    <2> HIDE DEF p
    <2>3. QED
        BY <2>1, <2>2, StageSet
<1>2. QED
    BY <1>1 DEF Sound

\* Leaving the way in the very step that raises K.
LEMMA LeaveRaises ==
    ASSUME NEW n, NEW q, Sound(n, q), q.pc = "gates", NEW p, p.pc # "gates",
           Path(n, q)[q.at].op = "count"
    PROVE  Raises(n, q, p, Path(n, q)[q.at].key)
<1> DEFINE K == Path(n, q)[q.at].key
<1>1. \A k : ~ Half(n, p, k)
    BY OffPath
<1>2. q.at \in q.at .. Len(Path(n, q))
    BY DEF Sound, OnPath
<1>3. K \in q.hit => Half(n, q, K)
    BY <1>2 DEF Half
<1>4. QED
    BY <1>1, <1>3 DEF Raises

-----------------------------------------------------------------------------
(* Counters are natural numbers, and what a request adds to them is too.   *)

LEMMA GetNat ==
    ASSUME NEW f, Counting(f), NEW k
    PROVE  Get(f, k) \in Nat
BY DEF Get, Counting

LEMMA PlusIs ==
    ASSUME NEW f, Counting(f), NEW k, NEW n \in Nat
    PROVE  /\ Counting(Plus(f, k, n))
           /\ \A j : Get(Plus(f, k, n), j) = Get(f, j) + IF j = k THEN n ELSE 0
<1> DEFINE p == Plus(f, k, n)
<1>1. \A j : Get(f, j) \in Nat
    BY GetNat
<1>2. p = [j \in DOMAIN f \cup {k} |-> Get(f, j) + IF j = k THEN n ELSE 0]
    BY DEF Plus
<1> HIDE DEF p
<1>3. DOMAIN p = DOMAIN f \cup {k}
    BY <1>2
<1>4. \A j \in DOMAIN p : p[j] = Get(f, j) + IF j = k THEN n ELSE 0
    BY <1>2, <1>3
<1>5. \A j : j \notin DOMAIN p => Get(f, j) = 0 /\ j # k
    BY <1>3 DEF Get
<1>6. Counting(p)
    BY <1>1, <1>4 DEF Counting
<1>7. ASSUME NEW j PROVE Get(p, j) = Get(f, j) + IF j = k THEN n ELSE 0
    BY <1>4, <1>5 DEF Get
<1>8. QED
    BY <1>6, <1>7 DEF p

LEMMA AddedIs ==
    ASSUME NEW f, NEW a, Counting(f), Counting(a)
    PROVE  /\ Counting(Added(f, a))
           /\ \A j : Get(Added(f, a), j) = Get(f, j) + Get(a, j)
<1> DEFINE p == Added(f, a)
<1>1. \A j : Get(f, j) \in Nat /\ Get(a, j) \in Nat
    BY GetNat
<1>2. p = [j \in DOMAIN f \cup DOMAIN a |-> Get(f, j) + Get(a, j)]
    BY DEF Added
<1> HIDE DEF p
<1>3. DOMAIN p = DOMAIN f \cup DOMAIN a
    BY <1>2
<1>4. \A j \in DOMAIN p : p[j] = Get(f, j) + Get(a, j)
    BY <1>2, <1>3
<1>5. \A j : j \notin DOMAIN p => Get(f, j) = 0 /\ Get(a, j) = 0
    BY <1>3 DEF Get
<1>6. Counting(p)
    BY <1>1, <1>4 DEF Counting
<1>7. ASSUME NEW j PROVE Get(p, j) = Get(f, j) + Get(a, j)
    BY <1>4, <1>5 DEF Get
<1>8. QED
    BY <1>6, <1>7 DEF p

\* The pipelines of one identity.
ChargesOf(q, i) ==
    IF q.endpoint = "images"
    THEN <<Single("ipm", i, q.endpoint, q.images), Single("ipm", i, All, q.images)>>
    ELSE <<Tokens(q, i, q.endpoint), Single("tpd", i, q.endpoint, q.in + q.out),
           Tokens(q, i, All), Single("tpd", i, All, q.in + q.out)>>

LEMMA ChargesAre ==
    ASSUME NEW q
    PROVE  Charges(q) =
               ChargesOf(q, q.cred.client)
               \o (IF q.cred.user \in {Nobody, q.cred.client} THEN <<>> ELSE ChargesOf(q, q.cred.user))
               \o (IF q.endpoint = "images" THEN <<>> ELSE <<Tokens(q, Platform, All)>>)
<1> DEFINE c == q.cred
<1>1. Charges(q) =
          (ChargesOf(q, Once(c)[1])
           \o (IF Len(Once(c)) = 2 THEN ChargesOf(q, Once(c)[2]) ELSE <<>>))
          \o (IF q.endpoint = "images" THEN <<>> ELSE <<Tokens(q, Platform, All)>>)
    BY DEF Charges, ForAll, ChargesOf
<1>2. QED
    BY <1>1, OnceIs

LEMMA PipelineCounts ==
    ASSUME NEW q \in CallSet, NEW who, NEW where
    PROVE  /\ Counting(Tokens(q, who, where))
           /\ \A dim : \A n \in Nat : Counting(Single(dim, who, where, n))
<1>1. q.in \in Nat /\ q.out \in Nat /\ q.in + q.out \in Nat
    BY DEF CallSet
<1>2. Counting(Tokens(q, who, where))
    <2>1. ASSUME NEW k \in DOMAIN Tokens(q, who, where)
          PROVE  Tokens(q, who, where)[k] \in Nat
        <3>1. PICK dim \in {"tpm", "in", "out"} : k = <<dim, who, where>>
            BY DEF Tokens
        <3>2. Tokens(q, who, where)[k] = IF k[1] = "tpm" THEN q.in + q.out ELSE q[k[1]]
            BY DEF Tokens
        <3>3. k[1] = dim
            BY <3>1
        <3>4. QED
            BY <1>1, <3>1, <3>2, <3>3
    <2>2. QED
        BY <2>1 DEF Counting
<1>3. ASSUME NEW dim, NEW n \in Nat PROVE Counting(Single(dim, who, where, n))
    BY DEF Counting, Single
<1>4. QED
    BY <1>2, <1>3

Places == Endpoints \cup {All}

Pipelines(q) ==
    {Tokens(q, w, e) : w \in Names, e \in Places}
    \cup {Single("tpd", w, e, q.in + q.out) : w \in Names, e \in Places}
    \cup {Single("ipm", w, e, q.images) : w \in Names, e \in Places}

LEMMA ChargesType ==
    ASSUME NEW q \in CallSet
    PROVE  Charges(q) \in Seq(Pipelines(q)) /\ \A a \in Pipelines(q) : Counting(a)
<1> DEFINE S == Pipelines(q)
<1>1. /\ q.cred.client \in Names /\ q.cred.user \in Names /\ Platform \in Names
      /\ q.endpoint \in Places /\ All \in Places
      /\ q.images \in Nat /\ q.in + q.out \in Nat
    BY DEF CallSet, Names, Owners, Places
<1>2. ASSUME NEW a \in S PROVE Counting(a)
    <2>1. \/ \E w \in Names, e \in Places : a = Tokens(q, w, e)
          \/ \E w \in Names, e \in Places : a = Single("tpd", w, e, q.in + q.out)
          \/ \E w \in Names, e \in Places : a = Single("ipm", w, e, q.images)
        BY DEF Pipelines
    <2>2. QED
        BY <1>1, <2>1, PipelineCounts
<1>3. ASSUME NEW i \in Names PROVE ChargesOf(q, i) \in Seq(S)
    <2>1. /\ Tokens(q, i, q.endpoint) \in S /\ Tokens(q, i, All) \in S
          /\ Single("tpd", i, q.endpoint, q.in + q.out) \in S
          /\ Single("tpd", i, All, q.in + q.out) \in S
          /\ Single("ipm", i, q.endpoint, q.images) \in S
          /\ Single("ipm", i, All, q.images) \in S
        BY <1>1 DEF Pipelines
    <2> HIDE DEF S
    <2>2. QED
        BY <2>1 DEF ChargesOf
<1>4. Tokens(q, Platform, All) \in S
    BY <1>1 DEF Pipelines
<1> HIDE DEF S
<1>5. (IF q.cred.user \in {Nobody, q.cred.client} THEN <<>> ELSE ChargesOf(q, q.cred.user)) \in Seq(S)
    BY <1>1, <1>3
<1>6. (IF q.endpoint = "images" THEN <<>> ELSE <<Tokens(q, Platform, All)>>) \in Seq(S)
    BY <1>4
<1>7. ChargesOf(q, q.cred.client) \in Seq(S)
    BY <1>1, <1>3
<1>8. Charges(q) \in Seq(S)
    BY <1>5, <1>6, <1>7, ChargesAre, ConcatProperties
<1>9. QED
    BY <1>2, <1>8 DEF S

LEMMA SumCounts ==
    ASSUME NEW q \in CallSet, NEW n \in 0 .. Len(Charges(q))
    PROVE  Counting(Sum(q, n))
<1> DEFINE runs == {Charges(q)[i] : i \in 1 .. n}
<1>1. \A adds \in runs : Counting(adds)
    <2>1. \A i \in 1 .. n : i \in 1 .. Len(Charges(q))
        BY ChargesType
    <2>2. QED
        BY <2>1, ChargesType
<1>2. Sum(q, n) = [k \in UNION {DOMAIN adds : adds \in runs} |->
                      (CHOOSE adds \in runs : k \in DOMAIN adds)[k]]
    BY DEF Sum
<1> HIDE DEF runs
<1>3. ASSUME NEW k \in DOMAIN Sum(q, n) PROVE Sum(q, n)[k] \in Nat
    <2>1. \E adds \in runs : k \in DOMAIN adds
        BY <1>2
    <2> DEFINE adds == CHOOSE adds \in runs : k \in DOMAIN adds
    <2>2. adds \in runs /\ k \in DOMAIN adds
        BY <2>1
    <2>3. Sum(q, n)[k] = adds[k]
        BY <1>2
    <2> HIDE DEF adds
    <2>4. QED
        BY <1>1, <2>2, <2>3 DEF Counting
<1>4. QED
    BY <1>3 DEF Counting

-----------------------------------------------------------------------------
(* How many are half way, when one request changes.                        *)

LEMMA HalvesFinite ==
    ASSUME NEW n, NEW c, NEW k
    PROVE  IsFiniteSet(Halves(n, c, k)) /\ Cardinality(Halves(n, c, k)) \in Nat
BY LimitsAssumption, FS_Subset, FS_CardinalityType DEF Halves

LEMMA HalvesChange ==
    ASSUME NEW n, NEW c \in [Requests -> CallSet], NEW k, NEW r \in Requests, NEW p
    PROVE  LET d == [c EXCEPT ![r] = p]
               x == Cardinality(Halves(n, c, k))
               y == Cardinality(Halves(n, d, k)) IN
           /\ y \in Nat /\ x \in Nat /\ y <= x + 1
           /\ (Half(n, p, k) => Half(n, c[r], k)) => y <= x
           /\ Half(n, c[r], k) /\ ~ Half(n, p, k) => y <= x - 1
<1> DEFINE d == [c EXCEPT ![r] = p]
           H == Halves(n, c, k)
           G == Halves(n, d, k)
<1>1. IsFiniteSet(H) /\ IsFiniteSet(G) /\ Cardinality(H) \in Nat /\ Cardinality(G) \in Nat
    BY HalvesFinite
<1>2. \A q \in Requests : d[q] = IF q = r THEN p ELSE c[q]
    OBVIOUS
<1> HIDE DEF d
<1>3. G \subseteq H \cup {r}
    BY <1>2 DEF Halves
<1>4. (Half(n, p, k) => Half(n, c[r], k)) => G \subseteq H
    BY <1>2 DEF Halves
<1>5. Half(n, c[r], k) /\ ~ Half(n, p, k) => r \in H /\ G \subseteq H \ {r}
    BY <1>2 DEF Halves
<1> HIDE DEF H, G
<1>6. Cardinality(G) <= Cardinality(H) + 1
    <2>1. IsFiniteSet(H \cup {r}) /\ Cardinality(H \cup {r}) <= Cardinality(H) + 1
        <3>1. /\ IsFiniteSet(H \cup {r})
              /\ Cardinality(H \cup {r}) = IF r \in H THEN Cardinality(H) ELSE Cardinality(H) + 1
            BY <1>1, FS_AddElement
        <3>2. Cardinality(H) \in Nat
            BY <1>1, FS_CardinalityType
        <3> HIDE DEF H
        <3>3. QED
            BY <3>1, <3>2
    <2>2. Cardinality(G) <= Cardinality(H \cup {r}) /\ Cardinality(H \cup {r}) \in Nat
        BY <1>3, <2>1, FS_Subset, FS_CardinalityType
    <2>3. QED
        BY <1>1, <2>1, <2>2
<1>7. (Half(n, p, k) => Half(n, c[r], k)) => Cardinality(G) <= Cardinality(H)
    BY <1>1, <1>4, FS_Subset
<1>8. Half(n, c[r], k) /\ ~ Half(n, p, k) => Cardinality(G) <= Cardinality(H) - 1
    <2>1. IsFiniteSet(H \ {r}) /\ (r \in H => Cardinality(H \ {r}) = Cardinality(H) - 1)
        BY <1>1, FS_RemoveElement
    <2>2. G \subseteq H \ {r} => Cardinality(G) <= Cardinality(H \ {r})
        BY <2>1, FS_Subset
    <2>3. QED
        BY <1>5, <2>1, <2>2
<1>9. QED
    BY <1>1, <1>6, <1>7, <1>8 DEF H, G, d

-----------------------------------------------------------------------------
(* A step of a request: it becomes p, and the counters move with what has  *)
(* been added to them, or one of them is raised.                           *)

Adds(n, q, p) ==
    /\ Quiet(n, q, p)
    /\ \/ count' = count /\ seen' = seen
       \/ \E a : Counting(a) /\ count' = Added(count, a) /\ seen' = Added(seen, a)

RaisesOne(n, q, p, K) ==
    /\ K \in Keys /\ Raises(n, q, p, K)
    /\ count' = Plus(count, K, 1)
    /\ seen' = IF K \in q.hit THEN seen ELSE Plus(seen, K, 1)

Becomes(r, p) ==
    /\ deployment' = deployment
    /\ call' = [call EXCEPT ![r] = p]
    /\ Sound(deployment, p)
    /\ Adds(deployment, call[r], p) \/ \E K : RaisesOne(deployment, call[r], p, K)

LEMMA GateIs ==
    ASSUME StateInv, NEW r \in Requests, call[r].pc = "gates"
    PROVE  /\ GateOf(r) = Path(deployment, call[r])[call[r].at]
           /\ GateOf(r) \in GateSet
           /\ Passed(r) = Further(deployment, call[r])
           /\ Sound(deployment, call[r]) /\ call[r] \in CallSet
<1>1. GateOf(r) = Path(deployment, call[r])[call[r].at]
    BY DEF GateOf, Gates, Path
<1>2. Passed(r) = Further(deployment, call[r])
    BY DEF Passed, Further, Gates, Path
<1>3. Sound(deployment, call[r]) /\ OnPath(deployment, call[r]) /\ call[r] \in CallSet
    BY DEF StateInv, Sound
<1>4. GateOf(r) \in GateSet
    BY <1>1, <1>3, PathFacts DEF OnPath
<1>5. QED
    BY <1>1, <1>2, <1>3, <1>4

LEMMA ArriveBecomes ==
    ASSUME StateInv, NEW r \in Requests, Arrive(r)
    PROVE  \E p : Becomes(r, p)
<1>1. PICK q \in Deployments[deployment].requests :
          call' = [call EXCEPT ![r] =
              [Idle EXCEPT !.pc = "gates", !.cred = q.cred,
                           !.endpoint = q.endpoint, !.images = q.images]]
    BY DEF Arrive
<1> DEFINE p == [Idle EXCEPT !.pc = "gates", !.cred = q.cred,
                             !.endpoint = q.endpoint, !.images = q.images]
<1>2. deployment \in DOMAIN Deployments
    BY DEF StateInv
<1>3. q.cred \in Creds /\ q.endpoint \in Endpoints /\ q.images \in Batch \cup {0}
    BY <1>1, <1>2, DeploymentAssumption
<1>4. Batch \cup {0} \subseteq Nat
    BY LimitsAssumption
<1>5. Idle \in CallSet /\ Idle.at = 1 /\ Idle.hit = {} /\ Idle.paid = FALSE
    <2>1. Idle \in CallSet
        BY IdleSound
    <2>2. QED
        BY <2>1 DEF Idle
<1>6. p \in CallSet
    <2>1. "gates" \in PCs
        BY DEF PCs
    <2>2. QED
        BY <1>3, <1>4, <1>5, <2>1 DEF CallSet
<1>7. /\ p.pc = "gates" /\ p.at = 1 /\ p.hit = {} /\ ~ p.paid
      /\ p.cred = q.cred /\ p.endpoint = q.endpoint /\ p.images = q.images
    BY <1>5 DEF CallSet
<1> HIDE DEF p
<1>8. Asks(deployment, p)
    BY <1>2, <1>3, <1>7 DEF Asks
<1>9. OnPath(deployment, p) /\ Marked(deployment, p)
    <2>1. Len(Path(deployment, p)) \in Nat \ {0}
        BY <1>8, PathFacts
    <2>2. QED
        BY <1>7, <1>8, <2>1 DEF OnPath, Marked
<1>10. Sound(deployment, p) /\ Quiet(deployment, call[r], p)
    BY <1>6, <1>7, <1>9 DEF Sound, Quiet, Half
<1>11. deployment' = deployment /\ count' = count /\ seen' = seen
    BY DEF Arrive, history
<1>12. call' = [call EXCEPT ![r] = p]
    BY <1>1 DEF p
<1>13. QED
    BY <1>10, <1>11, <1>12 DEF Becomes, Adds

LEMMA CountBecomes ==
    ASSUME StateInv, NEW r \in Requests, Count(r)
    PROVE  \E p : Becomes(r, p)
<1> DEFINE q == call[r]
           g == GateOf(r)
           ok == Allowed(g, Get(count, g.key) + 1)
           p == Raised(deployment, q, ok)
<1>1. q.pc = "gates" /\ g.op = "count"
    BY DEF Count
<1>2. /\ g = Path(deployment, q)[q.at] /\ g \in GateSet /\ Passed(r) = Further(deployment, q)
      /\ Sound(deployment, q) /\ q \in CallSet
    BY <1>1, GateIs
<1>3. ok \in BOOLEAN
    BY DEF Allowed
<1>4. Sound(deployment, p) /\ Raises(deployment, q, p, g.key) /\ g.key \in Keys
    BY <1>1, <1>2, <1>3, RaisedSound DEF GateSet
<1>5. call' = [call EXCEPT ![r] = p]
    <2>1. call' = [call EXCEPT ![r] =
              [(IF ok THEN Passed(r) ELSE [call[r] EXCEPT !.pc = "refused"])
                 EXCEPT !.hit = @ \cup {g.key}, !.paid = @ \/ g.key[2] # Platform]]
        BY DEF Count
    <2>2. QED
        BY <1>2, <2>1 DEF Raised
<1>6. /\ deployment' = deployment /\ count' = Plus(count, g.key, 1)
      /\ seen' = IF g.key \in q.hit THEN seen ELSE Plus(seen, g.key, 1)
    BY DEF Count, Seen
<1> HIDE DEF p, q, g, ok
<1>7. RaisesOne(deployment, q, p, g.key)
    BY <1>4, <1>6 DEF RaisesOne
<1>8. QED
    BY <1>4, <1>5, <1>6, <1>7 DEF Becomes, q

LEMMA CheckBecomes ==
    ASSUME StateInv, NEW r \in Requests, Check(r)
    PROVE  \E p : Becomes(r, p)
<1> DEFINE q == call[r]
           p == IF GateOf(r).op = "advise"
                   \/ Allowed(GateOf(r), Get(count, GateOf(r).key) + GateOf(r).ask)
                THEN Further(deployment, q) ELSE [q EXCEPT !.pc = "refused"]
<1>1. q.pc = "gates"
    BY DEF Check
<1>2. Passed(r) = Further(deployment, q) /\ Sound(deployment, q) /\ q \in CallSet
    BY <1>1, GateIs
<1>3. call' = [call EXCEPT ![r] = p]
    BY <1>2 DEF Check
<1>4. deployment' = deployment /\ count' = count /\ seen' = seen
    BY DEF Check, history
<1>5. Sound(deployment, Further(deployment, q)) /\ Quiet(deployment, q, Further(deployment, q))
    BY <1>1, <1>2, FurtherSound
<1>6. /\ Sound(deployment, [q EXCEPT !.pc = "refused"])
      /\ Quiet(deployment, q, [q EXCEPT !.pc = "refused"])
    <2>1. [q EXCEPT !.pc = "refused"].pc # "gates"
        BY <1>2 DEF CallSet
    <2>2. QED
        BY <1>1, <1>2, <2>1, RefusedSound, OffPath
<1> HIDE DEF q
<1>7. Sound(deployment, p) /\ Quiet(deployment, q, p)
    BY <1>5, <1>6
<1> HIDE DEF p
<1>8. QED
    BY <1>3, <1>4, <1>7 DEF Becomes, Adds, q

LEMMA FaultBecomes ==
    ASSUME StateInv, NEW r \in Requests, Fault(r)
    PROVE  \E p : Becomes(r, p)
<1> DEFINE q == call[r]
           g == GateOf(r)
           s == [q EXCEPT !.pc = "serving", !.at = 1]
<1>1. q.pc = "gates"
    BY DEF Fault
<1>2. /\ g = Path(deployment, q)[q.at] /\ g \in GateSet
      /\ Sound(deployment, q) /\ q \in CallSet
    BY <1>1, GateIs
<1>3. Sound(deployment, s) /\ s.pc # "gates"
    BY <1>2, LeaveSound
<1>4. Sound(deployment, Idle) /\ Idle.pc # "gates"
    BY IdleSound
<1>5. call' = [call EXCEPT ![r] = Idle] \/ call' = [call EXCEPT ![r] = s]
    <2>1. [call EXCEPT ![r].pc = "serving", ![r].at = 1] = [call EXCEPT ![r] = s]
        BY <1>2 DEF StateInv
    <2>2. QED
        BY <2>1 DEF Fault
<1> HIDE DEF s
<1>6. PICK p \in {Idle, s} : call' = [call EXCEPT ![r] = p]
    BY <1>5
<1>7. Sound(deployment, p) /\ p.pc # "gates"
    BY <1>3, <1>4, <1>6
<1>8. deployment' = deployment
    BY DEF Fault
<1>9. \/ count' = count /\ seen' = seen
      \/ /\ g.op = "count" /\ count' = Plus(count, g.key, 1)
         /\ seen' = IF g.key \in q.hit THEN seen ELSE Plus(seen, g.key, 1)
    BY DEF Fault, Seen
<1> HIDE DEF q, g
<1>10. CASE count' = count /\ seen' = seen
    <2>1. Adds(deployment, q, p)
        BY <1>7, <1>10, OffPath DEF Adds
    <2>2. QED
        BY <1>6, <1>7, <1>8, <2>1 DEF Becomes, q
<1>11. CASE /\ g.op = "count" /\ count' = Plus(count, g.key, 1)
            /\ seen' = IF g.key \in q.hit THEN seen ELSE Plus(seen, g.key, 1)
    <2>1. Raises(deployment, q, p, g.key) /\ g.key \in Keys
        BY <1>1, <1>2, <1>7, <1>11, LeaveRaises DEF GateSet
    <2>2. RaisesOne(deployment, q, p, g.key)
        BY <1>11, <2>1 DEF RaisesOne
    <2>3. QED
        BY <1>6, <1>7, <1>8, <2>2 DEF Becomes, q
<1>12. QED
    BY <1>9, <1>10, <1>11

LEMMA CompleteBecomes ==
    ASSUME StateInv, NEW r \in Requests, Complete(r)
    PROVE  \E p : Becomes(r, p)
<1> DEFINE q == call[r]
<1>1. PICK u \in Usage, n \in 0 .. q.images :
          call' = [call EXCEPT ![r] =
              IF (IF q.images # 0 THEN 0 ELSE u.in + u.out) + n = 0 THEN Idle
              ELSE [@ EXCEPT !.pc = "charging", !.images = n, !.in = u.in, !.out = u.out]]
    BY DEF Complete
<1> DEFINE s == [q EXCEPT !.pc = "charging", !.images = n, !.in = u.in, !.out = u.out]
<1>2. q \in CallSet /\ call \in [Requests -> CallSet]
    BY DEF StateInv
<1>3. u.in \in Nat /\ u.out \in Nat /\ n \in Nat
    BY <1>2, LimitsAssumption DEF CallSet
<1>4. s \in CallSet /\ s.pc = "charging"
    <2>1. "charging" \in PCs
        BY DEF PCs
    <2>2. QED
        BY <1>2, <1>3, <2>1 DEF CallSet
<1>5. \/ call' = [call EXCEPT ![r] = Idle]
      \/ call' = [call EXCEPT ![r] = s]
    BY <1>1, <1>2
<1> HIDE DEF s
<1>6. Sound(deployment, s) /\ s.pc # "gates" /\ Sound(deployment, Idle) /\ Idle.pc # "gates"
    BY <1>4, IdleSound DEF Sound
<1>7. deployment' = deployment /\ count' = count /\ seen' = seen
    BY DEF Complete
<1>8. PICK p \in {Idle, s} : call' = [call EXCEPT ![r] = p]
    BY <1>5
<1>9. QED
    BY <1>6, <1>7, <1>8, OffPath DEF Becomes, Adds

LEMMA ChargeBecomes ==
    ASSUME StateInv, NEW r \in Requests, NEW n \in 0 .. Len(Charges(call[r])), Charge(r, n)
    PROVE  \E p : Becomes(r, p)
<1>1. call[r] \in CallSet
    BY DEF StateInv
<1>2. Counting(Sum(call[r], n))
    BY <1>1, SumCounts
<1>3. /\ deployment' = deployment /\ call' = [call EXCEPT ![r] = Idle]
      /\ count' = Added(count, Sum(call[r], n)) /\ seen' = Added(seen, Sum(call[r], n))
    BY DEF Charge
<1>4. Sound(deployment, Idle) /\ Quiet(deployment, call[r], Idle)
    BY IdleSound, OffPath
<1>5. QED
    BY <1>2, <1>3, <1>4 DEF Becomes, Adds

LEMMA StepBecomes ==
    ASSUME StateInv, NEW r \in Requests, Step(r)
    PROVE  \E p : Becomes(r, p)
BY ArriveBecomes, CountBecomes, CheckBecomes, FaultBecomes, CompleteBecomes, ChargeBecomes
   DEF Step

-----------------------------------------------------------------------------
(* Both invariants.                                                        *)

LEMMA StateInit == Init => StateInv /\ FairInv
<1> SUFFICES ASSUME Init PROVE StateInv /\ FairInv
    OBVIOUS
<1>1. call = [r \in Requests |-> Idle] /\ deployment \in DOMAIN Deployments
    BY DEF Init
<1>2. Counting(count) /\ Counting(seen) /\ \A k : Get(count, k) = 0 /\ Get(seen, k) = 0
    BY DEF Init, Counting, Get
<1>3. StateInv
    BY <1>1, <1>2, IdleSound DEF StateInv
<1>4. ASSUME NEW k \in Keys PROVE Cardinality(Halves(deployment, call, k)) = 0
    <2>1. Halves(deployment, call, k) = {}
        BY <1>1, IdleSound DEF Halves, Half
    <2>2. QED
        BY <2>1, FS_EmptySet
<1>5. FairInv
    BY <1>2, <1>4 DEF FairInv, Fair
<1>6. QED
    BY <1>3, <1>5

LEMMA FairMoves ==
    ASSUME NEW k, NEW a \in Nat, NEW x \in Nat, NEW s \in Nat,
           NEW b \in Nat, NEW y \in Nat, NEW u \in Nat,
           Fair(k, a + x, s), b - a = u - s, b >= a, y <= x
    PROVE  Fair(k, b + y, u)
BY DEF Fair

LEMMA StateStep ==
    ASSUME StateInv, FairInv, NEW r \in Requests, NEW p, Becomes(r, p)
    PROVE  StateInv' /\ FairInv'
<1> DEFINE n == deployment
           d == [call EXCEPT ![r] = p]
<1>1. n \in DOMAIN Deployments /\ call \in [Requests -> CallSet]
      /\ Counting(count) /\ Counting(seen) /\ \A q \in Requests : Sound(n, call[q])
    BY DEF StateInv
<1>2. n' = n /\ call' = d /\ Sound(n, p) /\ p \in CallSet
    BY DEF Becomes, Sound
<1>3. d \in [Requests -> CallSet] /\ \A q \in Requests : Sound(n, d[q])
    BY <1>1, <1>2
<1>4. ASSUME NEW k \in Keys
      PROVE  LET x == Cardinality(Halves(n, call, k))
                 y == Cardinality(Halves(n, d, k)) IN
             /\ y \in Nat /\ x \in Nat /\ y <= x + 1
             /\ (Half(n, p, k) => Half(n, call[r], k)) => y <= x
             /\ Half(n, call[r], k) /\ ~ Half(n, p, k) => y <= x - 1
    BY <1>1, HalvesChange
<1>5. \A k : Get(count, k) \in Nat /\ Get(seen, k) \in Nat
    BY <1>1, GetNat
<1> DEFINE Now(k) == Fair(k, Get(count, k) + Cardinality(Halves(n, call, k)), Get(seen, k))
           Next1(k) == Fair(k, Get(count', k) + Cardinality(Halves(n, d, k)), Get(seen', k))
<1>6. \A k \in Keys : Now(k)
    BY DEF FairInv
<1>7. CASE Adds(n, call[r], p)
    <2>1. Counting(count') /\ Counting(seen')
        BY <1>1, <1>7, AddedIs DEF Adds
    <2>2. ASSUME NEW k \in Keys PROVE Next1(k)
        <3>1. PICK i \in Nat : Get(count', k) = Get(count, k) + i /\ Get(seen', k) = Get(seen, k) + i
            <4>1. CASE count' = count /\ seen' = seen
                BY <1>5, <4>1
            <4>2. CASE \E a : Counting(a) /\ count' = Added(count, a) /\ seen' = Added(seen, a)
                <5>1. PICK a : Counting(a) /\ count' = Added(count, a) /\ seen' = Added(seen, a)
                    BY <4>2
                <5>2. Get(a, k) \in Nat
                    BY <5>1, GetNat
                <5>3. QED
                    BY <1>1, <5>1, <5>2, AddedIs
            <4>3. QED
                BY <1>7, <4>1, <4>2 DEF Adds
        <3>2. Cardinality(Halves(n, d, k)) <= Cardinality(Halves(n, call, k))
            BY <1>4, <1>7 DEF Adds, Quiet
        <3>3. Now(k)
            BY <1>6
        <3>4. QED
            <4> DEFINE x == Cardinality(Halves(n, call, k))
                       y == Cardinality(Halves(n, d, k))
            <4>1. x \in Nat /\ y \in Nat /\ y <= x
                BY <1>4, <3>2
            <4>2. /\ Get(count, k) \in Nat /\ Get(seen, k) \in Nat
                  /\ Get(count', k) \in Nat /\ Get(seen', k) \in Nat
                BY <1>5, <3>1
            <4>3. Get(count', k) - Get(count, k) = Get(seen', k) - Get(seen, k)
                  /\ Get(count', k) >= Get(count, k)
                BY <1>5, <3>1
            <4>4. Fair(k, Get(count, k) + x, Get(seen, k))
                BY <3>3
            <4> HIDE DEF x, y
            <4>5. Fair(k, Get(count', k) + y, Get(seen', k))
                BY <4>1, <4>2, <4>3, <4>4, FairMoves
            <4>6. QED
                BY <4>5 DEF y
    <2> HIDE DEF Next1, d, n
    <2>3. QED
        BY <1>1, <1>2, <1>3, <2>1, <2>2 DEF StateInv, FairInv, Next1, n
<1>8. CASE \E K : RaisesOne(n, call[r], p, K)
    <2>1. PICK K : RaisesOne(n, call[r], p, K)
        BY <1>8
    <2>2. /\ K \in Keys /\ Raises(n, call[r], p, K) /\ count' = Plus(count, K, 1)
          /\ seen' = IF K \in call[r].hit THEN seen ELSE Plus(seen, K, 1)
        BY <2>1 DEF RaisesOne
    <2>3. Counting(count') /\ Counting(seen')
        BY <1>1, <2>2, PlusIs
    <2>4. ASSUME NEW k \in Keys PROVE Next1(k)
        <3>1. /\ Get(count', k) = Get(count, k) + IF k = K THEN 1 ELSE 0
              /\ K \in call[r].hit => Get(seen', k) = Get(seen, k)
              /\ K \notin call[r].hit => Get(seen', k) = Get(seen, k) + IF k = K THEN 1 ELSE 0
            BY <1>1, <2>2, PlusIs
        <3>2. Now(k)
            BY <1>6
        <3>3. CASE k # K
            <4>1. Cardinality(Halves(n, d, k)) <= Cardinality(Halves(n, call, k))
                BY <1>4, <2>2, <3>3 DEF Raises
            <4>2. Get(count', k) = Get(count, k) /\ Get(seen', k) = Get(seen, k)
                BY <1>5, <3>1, <3>3
            <4> DEFINE x == Cardinality(Halves(n, call, k))
                       y == Cardinality(Halves(n, d, k))
            <4>3. x \in Nat /\ y \in Nat /\ y <= x
                BY <1>4, <4>1
            <4>4. /\ Get(count, k) \in Nat /\ Get(seen, k) \in Nat
                  /\ Get(count', k) \in Nat /\ Get(seen', k) \in Nat
                BY <1>5, <4>2
            <4>5. Fair(k, Get(count, k) + x, Get(seen, k))
                BY <3>2
            <4> DEFINE a == Get(count, k)
                       s == Get(seen, k)
                       b == Get(count', k)
                       u == Get(seen', k)
            <4>6. a \in Nat /\ s \in Nat /\ b \in Nat /\ u \in Nat /\ b = a /\ u = s /\ Fair(k, a + x, s)
                BY <4>2, <4>4, <4>5
            <4> HIDE DEF x, y, a, s, b, u
            <4>7. Fair(k, b + y, u)
                BY <4>3, <4>6 DEF Fair
            <4>8. QED
                BY <4>7 DEF y, b, u
        <3>4. CASE k = K /\ K \in call[r].hit
            <4>1. Cardinality(Halves(n, d, k)) <= Cardinality(Halves(n, call, k)) - 1
                BY <1>4, <2>2, <3>4 DEF Raises
            <4>2. Get(count', k) = Get(count, k) + 1 /\ Get(seen', k) = Get(seen, k)
                BY <3>1, <3>4
            <4> DEFINE x == Cardinality(Halves(n, call, k))
                       y == Cardinality(Halves(n, d, k))
            <4>3. x \in Nat /\ y \in Nat /\ y <= x - 1
                BY <1>4, <4>1
            <4>4. /\ Get(count, k) \in Nat /\ Get(seen, k) \in Nat
                  /\ Get(count', k) \in Nat /\ Get(seen', k) \in Nat
                BY <1>5, <4>2
            <4>5. Fair(k, Get(count, k) + x, Get(seen, k))
                BY <3>2
            <4> DEFINE a == Get(count, k)
                       s == Get(seen, k)
                       b == Get(count', k)
                       u == Get(seen', k)
            <4>6. a \in Nat /\ s \in Nat /\ b \in Nat /\ u \in Nat /\ b = a + 1 /\ u = s /\ Fair(k, a + x, s)
                BY <4>2, <4>4, <4>5
            <4> HIDE DEF x, y, a, s, b, u
            <4>7. Fair(k, b + y, u)
                BY <4>3, <4>6 DEF Fair
            <4>8. QED
                BY <4>7 DEF y, b, u
        <3>5. CASE k = K /\ K \notin call[r].hit
            <4>1. ~ Twice(k) => Cardinality(Halves(n, d, k)) <= Cardinality(Halves(n, call, k))
                BY <1>4, <2>2, <3>5 DEF Raises
            <4>2. Get(count', k) = Get(count, k) + 1 /\ Get(seen', k) = Get(seen, k) + 1
                BY <3>1, <3>5
            <4> DEFINE x == Cardinality(Halves(n, call, k))
                       y == Cardinality(Halves(n, d, k))
            <4>3. x \in Nat /\ y \in Nat /\ y <= x + 1 /\ (~ Twice(k) => y <= x)
                BY <1>4, <4>1
            <4>4. /\ Get(count, k) \in Nat /\ Get(seen, k) \in Nat
                  /\ Get(count', k) \in Nat /\ Get(seen', k) \in Nat
                BY <1>5, <4>2
            <4>5. Fair(k, Get(count, k) + x, Get(seen, k))
                BY <3>2
            <4> DEFINE a == Get(count, k)
                       s == Get(seen, k)
                       b == Get(count', k)
                       u == Get(seen', k)
            <4>6. a \in Nat /\ s \in Nat /\ b \in Nat /\ u \in Nat /\ b = a + 1 /\ u = s + 1 /\ Fair(k, a + x, s)
                BY <4>2, <4>4, <4>5
            <4> HIDE DEF x, y, a, s, b, u
            <4>7. Fair(k, b + y, u)
                BY <4>3, <4>6 DEF Fair
            <4>8. QED
                BY <4>7 DEF y, b, u
        <3>6. QED
            BY <3>3, <3>4, <3>5
    <2> HIDE DEF Next1, d, n
    <2>5. QED
        BY <1>1, <1>2, <1>3, <2>3, <2>4 DEF StateInv, FairInv, Next1, n
<1>9. QED
    BY <1>7, <1>8 DEF Becomes

\* A counter that outlives this minute.
Stays(k) == Daily(k) /\ (minute + 1) % Day # 0

LEMMA KeptIs ==
    ASSUME NEW f, Counting(f)
    PROVE  /\ Counting(Kept(f))
           /\ \A k : Get(Kept(f), k) = IF Stays(k) THEN Get(f, k) ELSE 0
<1>1. \A k : k \in Lasting(DOMAIN f) <=> k \in DOMAIN f /\ Stays(k)
    BY DEF Lasting, Stays
<1>2. Kept(f) = [k \in Lasting(DOMAIN f) |-> f[k]]
    BY DEF Kept
<1>3. DOMAIN Kept(f) = Lasting(DOMAIN f) /\ \A k \in Lasting(DOMAIN f) : Kept(f)[k] = f[k]
    BY <1>2
<1>4. Counting(Kept(f))
    BY <1>1, <1>3 DEF Counting
<1>5. ASSUME NEW k PROVE Get(Kept(f), k) = IF Stays(k) THEN Get(f, k) ELSE 0
    BY <1>1, <1>3 DEF Get
<1>6. QED
    BY <1>4, <1>5

LEMMA ForgetSound ==
    ASSUME NEW n, NEW q, Sound(n, q), NEW L \in SUBSET q.hit
    PROVE  LET p == [q EXCEPT !.hit = L] IN
           /\ Sound(n, p) /\ p \in CallSet
           /\ \A k : Half(n, p, k) <=> Half(n, q, k) /\ k \in L
<1> DEFINE p == [q EXCEPT !.hit = L]
<1>1. q \in CallSet
    BY DEF Sound
<1>2. /\ p \in CallSet /\ p.hit = L /\ p.pc = q.pc /\ p.at = q.at /\ p.paid = q.paid
      /\ p.cred = q.cred /\ p.endpoint = q.endpoint /\ p.images = q.images
    BY <1>1 DEF CallSet
<1> HIDE DEF p
<1>3. Path(n, p) = Path(n, q) /\ (Asks(n, q) => Asks(n, p))
    BY <1>2, SamePath
<1>4. Sound(n, p)
    BY <1>2, <1>3 DEF Sound, OnPath, Marked
<1>5. ASSUME NEW k PROVE Half(n, p, k) <=> Half(n, q, k) /\ k \in L
    BY <1>2, <1>3 DEF Half
<1>6. QED
    BY <1>2, <1>4, <1>5 DEF p

LEMMA StateTick ==
    ASSUME StateInv, FairInv, Tick
    PROVE  StateInv' /\ FairInv'
<1> DEFINE n == deployment
           L(r) == Lasting(call[r].hit)
           d == [r \in Requests |-> [call[r] EXCEPT !.hit = L(r)]]
<1>1. n \in DOMAIN Deployments /\ call \in [Requests -> CallSet]
      /\ Counting(count) /\ Counting(seen) /\ \A q \in Requests : Sound(n, call[q])
    BY DEF StateInv
<1>2. n' = n /\ call' = d /\ count' = Kept(count) /\ seen' = Kept(seen)
    BY DEF Tick
<1>3. \A r \in Requests : L(r) \in SUBSET call[r].hit /\ \A k : k \in L(r) <=> k \in call[r].hit /\ Stays(k)
    BY DEF Lasting, Stays
<1> HIDE DEF L
<1>4. \A r \in Requests :
          /\ Sound(n, d[r]) /\ d[r] \in CallSet
          /\ \A k : Half(n, d[r], k) <=> Half(n, call[r], k) /\ k \in L(r)
    BY <1>1, <1>3, ForgetSound
<1>5. d \in [Requests -> CallSet]
    BY <1>4
<1> HIDE DEF d
<1>6. /\ Counting(count') /\ Counting(seen')
      /\ \A k : Get(count', k) = IF Stays(k) THEN Get(count, k) ELSE 0
      /\ \A k : Get(seen', k) = IF Stays(k) THEN Get(seen, k) ELSE 0
    BY <1>1, <1>2, KeptIs
<1>7. ASSUME NEW k \in Keys
      PROVE  Fair(k, Get(count', k) + Cardinality(Halves(n, d, k)), Get(seen', k))
    <2>1. CASE Stays(k)
        <3>1. Halves(n, d, k) = Halves(n, call, k)
            BY <1>3, <1>4, <2>1 DEF Halves, Half
        <3>2. QED
            BY <1>6, <2>1, <3>1 DEF FairInv
    <2>2. CASE ~ Stays(k)
        <3>1. Halves(n, d, k) = {}
            BY <1>3, <1>4, <2>2 DEF Halves
        <3>2. Cardinality(Halves(n, d, k)) = 0
            BY <3>1, FS_EmptySet
        <3>3. QED
            BY <1>6, <2>2, <3>2 DEF Fair
    <2>3. QED
        BY <2>1, <2>2
<1> HIDE DEF n
<1>8. QED
    BY <1>1, <1>2, <1>4, <1>5, <1>6, <1>7 DEF StateInv, FairInv, n

LEMMA StateNext == StateInv /\ FairInv /\ [Next]_vars => StateInv' /\ FairInv'
<1> SUFFICES ASSUME StateInv, FairInv, [Next]_vars PROVE StateInv' /\ FairInv'
    OBVIOUS
<1>1. CASE Tick
    BY <1>1, StateTick
<1>2. ASSUME NEW r \in Requests, Step(r) PROVE StateInv' /\ FairInv'
    <2>1. PICK p : Becomes(r, p)
        BY <1>2, StepBecomes
    <2>2. QED
        BY <2>1, StateStep
<1>3. CASE UNCHANGED vars
    BY <1>3 DEF vars, history, StateInv, FairInv
<1>4. QED
    BY <1>1, <1>2, <1>3 DEF Next

-----------------------------------------------------------------------------
(* The page of limits.                                                     *)

LEMMA ViewAgrees == StateInv => LiveViewAgrees
<1> SUFFICES ASSUME StateInv, NEW c \in Creds, NEW e \in Endpoints, NEW n \in Batch,
                    NEW i \in DOMAIN Chains[deployment][c][e][n]
             PROVE  LET d     == Deployments[deployment]
                        gates == Chains[deployment][c][e][n]
                        key   == gates[i].key
                    IN  \/ gates[i].limit = LiveLimit(d, key[1], key[2], key[3])
                        \/ gates[i].op = "advise"
                        \/ key[2] = c.user /\ key[3] = All /\ c.user # c.client
    BY DEF LiveViewAgrees
<1> DEFINE q == [cred |-> c, endpoint |-> e, images |-> n]
           g == Chains[deployment][c][e][n]
<1>1. Asks(deployment, q) /\ g = Path(deployment, q)
    BY DEF Asks, Path, StateInv
<1>2. g \in Seq(GateSet) /\ \A j \in 1 .. Len(g) : Shown(Deployments[deployment], c, g[j])
    BY <1>1, PathFacts
<1>3. Shown(Deployments[deployment], c, g[i])
    BY <1>2
<1>4. QED
    BY <1>3 DEF Shown

\* In every deployment the live view tells, for every counter a request meets,
\* the limit it is held to, but for the two rows the property names.
THEOREM PageTellsTheLimits == Spec => []LiveViewAgrees
<1>1. Init => StateInv /\ FairInv
    BY StateInit
<1>2. StateInv /\ FairInv /\ [Next]_vars => StateInv' /\ FairInv'
    BY StateNext
<1>3. StateInv => LiveViewAgrees
    BY ViewAgrees
<1>4. QED
    BY <1>1, <1>2, <1>3, PTL DEF Spec

-----------------------------------------------------------------------------
(* A refusal of the platform costs nobody anything.                        *)

LEMMA Spared == StateInv => PlatformSpares
<1> SUFFICES ASSUME StateInv, NEW r \in Requests, call[r].pc = "refused", call[r].paid
             PROVE  GateOf(r).key[2] # Platform
    BY DEF PlatformSpares
<1>1. OnPath(deployment, call[r])
    BY DEF StateInv, Sound
<1>2. GateOf(r) = Path(deployment, call[r])[call[r].at]
    BY DEF GateOf, Gates, Path
<1>3. QED
    BY <1>1, <1>2 DEF OnPath

\* A request that one of the platform's ceilings refuses has raised no counter
\* of its client or user, whatever the deployment and whoever runs beside it.
THEOREM PlatformRefusalsAreFree == Spec => []PlatformSpares
<1>1. Init => StateInv /\ FairInv
    BY StateInit
<1>2. StateInv /\ FairInv /\ [Next]_vars => StateInv' /\ FairInv'
    BY StateNext
<1>3. StateInv => PlatformSpares
    BY Spared
<1>4. QED
    BY <1>1, <1>2, <1>3, PTL DEF Spec

-----------------------------------------------------------------------------
(* Whoever is refused has used up what refuses it.                         *)

LEMMA FairThen ==
    ASSUME NEW k \in Keys, FairInv', StateInv'
    PROVE  Get(count', k) <= Get(seen', k) * (IF Twice(k) THEN 2 ELSE 1)
<1> DEFINE x == Cardinality(Halves(deployment', call', k))
           a == Get(count', k)
           s == Get(seen', k)
<1>1. x \in Nat
    BY HalvesFinite
<1>2. a \in Nat /\ s \in Nat
    BY GetNat DEF StateInv
<1>3. Fair(k, a + x, s)
    BY DEF FairInv
<1> HIDE DEF x, a, s
<1>4. a <= s * (IF Twice(k) THEN 2 ELSE 1)
    BY <1>1, <1>2, <1>3 DEF Fair
<1>5. QED
    BY <1>4 DEF a, s

LEMMA RefusalStep ==
    ASSUME StateInv, FairInv, StateInv', FairInv', [Next]_vars,
           NEW r \in Requests, call[r].pc = "gates", call'[r].pc = "refused"
    PROVE  Spent(r)
<1> DEFINE g == GateOf(r)
           k == g.key
<1>1. /\ g \in GateSet /\ call[r] \in CallSet /\ Sound(deployment, call[r])
      /\ Passed(r) = Further(deployment, call[r])
    BY GateIs
<1>2. k \in Keys /\ g.limit \in Optional /\ g.ask \in Nat
    BY <1>1 DEF GateSet
<1>3. Passed(r).pc # "refused" /\ call \in [Requests -> CallSet]
    BY <1>1, FurtherIs DEF StateInv
<1>4. Get(count, k) \in Nat /\ Get(seen', k) \in Nat /\ Get(count', k) \in Nat
    BY GetNat DEF StateInv
<1>5. Count(r) \/ Check(r)
    <2>1. ASSUME NEW q \in Requests, Step(q) PROVE q = r
        <3>1. \E p : call' = [call EXCEPT ![q] = p]
            BY <2>1, StepBecomes DEF Becomes
        <3>2. QED
            BY <1>3, <3>1
    <2>2. ~ Tick
        <3>1. ASSUME Tick PROVE call'[r].pc = call[r].pc
            BY <1>1, <3>1 DEF Tick, CallSet
        <3>2. QED
            BY <3>1
    <2>3. call' # call
        OBVIOUS
    <2>4. Step(r)
        BY <2>1, <2>2, <2>3 DEF Next, vars
    <2>5. ~ Arrive(r) /\ ~ Complete(r) /\ ~ \E n \in 0 .. Len(Charges(call[r])) : Charge(r, n)
        BY DEF Arrive, Complete, Charge
    <2>6. ~ Fault(r)
        <3>1. ASSUME Fault(r) PROVE call'[r].pc \in {"idle", "serving"}
            BY <1>1, <1>3, <3>1, IdleSound DEF Fault, CallSet
        <3>2. QED
            BY <3>1
    <2>7. QED
        BY <2>4, <2>5, <2>6 DEF Step
<1>6. CASE Count(r)
    <2>1. g.op = "count" /\ count' = Plus(count, k, 1)
        BY <1>6 DEF Count
    <2>2. ~ Allowed(g, Get(count, k) + 1)
        <3>1. ASSUME Allowed(g, Get(count, k) + 1) PROVE call'[r].pc # "refused"
            BY <1>1, <1>3, <1>6, <3>1, FurtherIs DEF Count
        <3>2. QED
            BY <3>1
    <2>3. Get(count', k) = Get(count, k) + 1
        BY <2>1, PlusIs DEF StateInv
    <2>4. g.limit < Get(count', k)
        BY <1>2, <1>4, <2>2, <2>3 DEF Allowed, Optional, NoLimit
    <2>5. Get(count', k) <= Get(seen', k) * (IF Twice(k) THEN 2 ELSE 1)
        BY <1>2, FairThen
    <2>6. QED
        BY <1>2, <1>4, <2>1, <2>4, <2>5 DEF Spent, Twice, Optional, NoLimit
<1>7. CASE Check(r)
    <2>1. g.op # "count" /\ count' = count /\ seen' = seen
        BY <1>7 DEF Check, history
    <2>2. ~ Allowed(g, Get(count, k) + g.ask)
        <3>1. ASSUME Allowed(g, Get(count, k) + g.ask) PROVE call'[r].pc # "refused"
            BY <1>3, <1>7, <3>1 DEF Check
        <3>2. QED
            BY <3>1
    <2>3. g.limit < Get(count', k) + g.ask
        BY <1>2, <1>4, <2>1, <2>2 DEF Allowed, Optional, NoLimit
    <2>4. Get(count', k) <= Get(seen', k) * (IF Twice(k) THEN 2 ELSE 1)
        BY <1>2, FairThen
    <2>5. QED
        BY <1>2, <1>4, <2>1, <2>3, <2>4 DEF Spent, Twice, Optional, NoLimit
<1>8. QED
    BY <1>5, <1>6, <1>7

\* A ceiling refuses only when what it bounds has come to it, each request
\* counted once (the day of a route twice, where a client is its own user).
THEOREM RefusalsAreEarned == Spec => RefusedIsSpent
<1>1. Init => StateInv /\ FairInv
    BY StateInit
<1>2. StateInv /\ FairInv /\ [Next]_vars => StateInv' /\ FairInv'
    BY StateNext
<1>3. StateInv /\ FairInv /\ StateInv' /\ FairInv' /\ [Next]_vars
          => [\A r \in Requests :
                  call[r].pc = "gates" /\ call'[r].pc = "refused" => Spent(r)]_vars
    BY RefusalStep
<1>4. QED
    BY <1>1, <1>2, <1>3, PTL DEF Spec, RefusedIsSpent

-----------------------------------------------------------------------------
(* Adding up over the requests.                                            *)

\* As many things as f adds up to, told apart by whom they are for.
Bag(f) == {x \in Requests \X Nat : x[2] < f[x[1]]}
Size(f) == Cardinality(Bag(f))

Upto(M) == [Requests -> 0 .. M]

LEMMA Below ==
    ASSUME NEW k \in Nat
    PROVE  IsFiniteSet(0 .. k - 1) /\ Cardinality(0 .. k - 1) = k
<1> DEFINE m == k - 1
<1>1. m \in Int /\ 0 \in Int /\ k = m + 1 /\ m >= 0 - 1
    OBVIOUS
<1> HIDE DEF m
<1>2. IsFiniteSet(0 .. m) /\ Cardinality(0 .. m) = IF 0 > m THEN 0 ELSE m - 0 + 1
    BY <1>1, FS_Interval
<1>3. IsFiniteSet(0 .. m) /\ Cardinality(0 .. m) = k
    BY <1>1, <1>2
<1>4. QED
    BY <1>3 DEF m

LEMMA BagFinite ==
    ASSUME NEW M \in Nat, NEW f \in Upto(M)
    PROVE  IsFiniteSet(Bag(f)) /\ Size(f) \in Nat
<1>1. IsFiniteSet(Requests) /\ IsFiniteSet(0 .. M)
    BY LimitsAssumption, FS_Interval
<1>2. IsFiniteSet(Requests \X (0 .. M))
    BY <1>1, FS_Product
<1>3. Bag(f) \subseteq Requests \X (0 .. M)
    BY DEF Bag, Upto
<1>4. QED
    BY <1>2, <1>3, FS_Subset, FS_CardinalityType DEF Size

\* What one request adds to it.
LEMMA BagPart ==
    ASSUME NEW M \in Nat, NEW f \in Upto(M), NEW r \in Requests
    PROVE  LET rest == {x \in Bag(f) : x[1] # r} IN
           IsFiniteSet(rest) /\ Size(f) = Cardinality(rest) + f[r]
<1> DEFINE rest == {x \in Bag(f) : x[1] # r}
           own == {r} \X (0 .. f[r] - 1)
<1>1. f[r] \in 0 .. M
    BY DEF Upto
<1>2. IsFiniteSet(Bag(f))
    BY BagFinite
<1>3. IsFiniteSet(rest)
    <2>1. rest \subseteq Bag(f)
        OBVIOUS
    <2> HIDE DEF rest
    <2>2. QED
        BY <1>2, <2>1, FS_Subset
<1>4. IsFiniteSet(own) /\ Cardinality(own) = f[r]
    <2>1. IsFiniteSet({r}) /\ Cardinality({r}) = 1
        BY FS_Singleton
    <2> DEFINE below == 0 .. f[r] - 1
    <2>2. IsFiniteSet(below) /\ Cardinality(below) = f[r]
        BY <1>1, Below
    <2> HIDE DEF below
    <2>3. IsFiniteSet({r} \X below) /\ Cardinality({r} \X below) = Cardinality({r}) * Cardinality(below)
        BY <2>1, <2>2, FS_Product
    <2>4. QED
        BY <1>1, <2>1, <2>2, <2>3 DEF below
<1>5. Bag(f) = rest \cup own /\ rest \cap own = {}
    <2>1. ASSUME NEW x, x \in Bag(f) PROVE x \in rest \cup own
        <3>1. x \in Requests \X Nat /\ x[2] < f[x[1]]
            BY <2>1 DEF Bag
        <3>2. ASSUME x[1] = r PROVE x \in own
            <4>1. x = <<r, x[2]>> /\ x[2] \in 0 .. f[r] - 1
                BY <1>1, <3>1, <3>2
            <4>2. QED
                BY <4>1
        <3>3. QED
            BY <2>1, <3>2
    <2>2. ASSUME NEW x, x \in own PROVE x \in Bag(f) /\ x[1] = r
        <3>1. PICK k \in 0 .. f[r] - 1 : x = <<r, k>>
            BY <2>2
        <3>2. k \in Nat /\ k < f[r]
            BY <1>1
        <3>3. QED
            BY <3>1, <3>2 DEF Bag
    <2>3. QED
        BY <2>1, <2>2
<1> HIDE DEF rest, own
<1>6. Cardinality(rest \cup own) = Cardinality(rest) + Cardinality(own) - Cardinality(rest \cap own)
    BY <1>3, <1>4, FS_Union
<1>7. Cardinality(rest) \in Nat /\ Cardinality({}) = 0
    BY <1>3, FS_CardinalityType, FS_EmptySet
<1>8. Size(f) = Cardinality(rest) + f[r]
    <2>1. Cardinality(rest \cup own) = Cardinality(rest) + f[r] - 0
        BY <1>4, <1>5, <1>6, <1>7
    <2>2. Cardinality(rest) + f[r] - 0 = Cardinality(rest) + f[r]
        BY <1>1, <1>7
    <2>3. QED
        BY <1>5, <2>1, <2>2 DEF Size
<1>9. QED
    BY <1>3, <1>8 DEF rest

LEMMA BagChange ==
    ASSUME NEW M \in Nat, NEW f \in Upto(M), NEW g \in Upto(M), NEW r \in Requests,
           \A q \in Requests : q # r => f[q] = g[q]
    PROVE  Size(g) + f[r] = Size(f) + g[r]
<1> DEFINE a == {x \in Bag(f) : x[1] # r}
           b == {x \in Bag(g) : x[1] # r}
<1>1. a = b
    BY DEF Bag
<1>2. Size(f) = Cardinality(a) + f[r] /\ Size(g) = Cardinality(b) + g[r]
      /\ IsFiniteSet(a) /\ IsFiniteSet(b)
    BY BagPart
<1> HIDE DEF a, b
<1>3. Cardinality(a) \in Nat
    BY <1>2, FS_CardinalityType
<1>4. f[r] \in Nat /\ g[r] \in Nat
    BY DEF Upto
<1>5. QED
    BY <1>1, <1>2, <1>3, <1>4

LEMMA BagAll ==
    ASSUME NEW M \in Nat, NEW f \in Upto(M)
    PROVE  Size(f) <= Cardinality(Requests) * M
<1> DEFINE below == 0 .. M - 1
<1>1. IsFiniteSet(Requests) /\ IsFiniteSet(below) /\ Cardinality(below) = M
    BY LimitsAssumption, Below
<1>2. Bag(f) \subseteq Requests \X below
    BY DEF Bag, Upto
<1> HIDE DEF below
<1>3. IsFiniteSet(Requests \X below) /\ Cardinality(Requests \X below) = Cardinality(Requests) * M
    BY <1>1, FS_Product
<1>4. QED
    BY <1>2, <1>3, FS_Subset DEF Size

\* Two that nobody is in both of, and r in neither.
LEMMA BagsApart ==
    ASSUME NEW M \in Nat, NEW f \in Upto(M), NEW g \in Upto(M), NEW r \in Requests,
           f[r] = 0, g[r] = 0, \A q \in Requests : f[q] = 0 \/ g[q] = 0
    PROVE  Size(f) + Size(g) + M <= Cardinality(Requests) * M
<1> DEFINE below == 0 .. M - 1
           others == Requests \ {r}
<1>1. IsFiniteSet(Requests) /\ IsFiniteSet(below) /\ Cardinality(below) = M
    BY LimitsAssumption, Below
<1>2. IsFiniteSet(others) /\ Cardinality(others) = Cardinality(Requests) - 1
    BY <1>1, FS_RemoveElement
<1>3. Bag(f) \subseteq others \X below /\ Bag(g) \subseteq others \X below
    <2>1. ASSUME NEW h \in Upto(M), h[r] = 0, NEW x \in Bag(h) PROVE x \in others \X below
        <3>1. x \in Requests \X Nat /\ x[2] < h[x[1]] /\ h[x[1]] \in 0 .. M
            BY DEF Bag, Upto
        <3>2. x[1] # r /\ x[2] \in below
            BY <2>1, <3>1
        <3>3. QED
            BY <3>1, <3>2
    <2>2. QED
        BY <2>1
<1>4. Bag(f) \cap Bag(g) = {}
    <2>1. ASSUME NEW x, x \in Bag(f), x \in Bag(g) PROVE FALSE
        <3>1. x \in Requests \X Nat /\ x[2] < f[x[1]] /\ x[2] < g[x[1]]
            BY <2>1 DEF Bag
        <3>2. QED
            BY <3>1
    <2>2. QED
        BY <2>1
<1>5. IsFiniteSet(Bag(f)) /\ IsFiniteSet(Bag(g)) /\ Size(f) \in Nat /\ Size(g) \in Nat
    BY BagFinite
<1> DEFINE both == Bag(f) \cup Bag(g)
<1>6. both \subseteq others \X below
    BY <1>3
<1>7. Cardinality(both) = Size(f) + Size(g)
    BY <1>4, <1>5, FS_Union, FS_EmptySet DEF Size
<1> HIDE DEF below, others, both
<1>8. IsFiniteSet(others \X below) /\ Cardinality(others \X below) = Cardinality(others) * M
    BY <1>1, <1>2, FS_Product
<1>9. Cardinality(both) <= Cardinality(others) * M
    BY <1>6, <1>8, FS_Subset
<1>10. Cardinality(Requests) \in Nat
    BY <1>1, FS_CardinalityType
<1>11. (Cardinality(Requests) - 1) * M + M = Cardinality(Requests) * M
    BY <1>10
<1>12. (Cardinality(Requests) - 1) * M \in Int
    BY <1>10
<1>13. QED
    BY <1>2, <1>5, <1>7, <1>9, <1>11, <1>12, <1>10


-----------------------------------------------------------------------------
(* The meters, of tokens and of images. What a client has spent is on its  *)
(* counter, or due from a request that is about to charge it, or lost in a *)
(* Redis error; and it leaves room under the ceiling, stretched by what    *)
(* the property allows, for all that is beyond the meter's gate.           *)

Clients == {c.client : c \in Creds}
Meters == {"tokens", "images"}

Most(m) == IF m = "tokens" THEN MostTokens ELSE MostImages
Slack(m) == IF m = "tokens" THEN MostTokens ELSE 0

Key(n, m, i) ==
    IF m = "tokens" THEN <<"tpm", i, All>>
    ELSE <<"ipm", i, IF TierOf(Deployments[n], i).ipm = NoLimit THEN "images" ELSE All>>

Ceiling(n, m, i) ==
    LET d == Deployments[n]
        t == TierOf(d, i)
    IN  IF m = "tokens" THEN ClientTpm(d, t) ELSE Or(t.ipm, d.limits.ipm)

Metered(n, m, i) ==
    m = "images" => Ceiling(n, m, i) # NoLimit /\ MostImages <= Ceiling(n, m, i)

Uses(m, q) == q.endpoint = "images" <=> m = "images"

Amount(m, q) == IF m = "tokens" THEN q.in + q.out ELSE q.images

Due(m, q) == IF q.pc = "charging" /\ Uses(m, q) THEN Amount(m, q) ELSE 0

\* Gate j on the way of q is the meter's, and asks for what q may use.
Meter(n, m, q, j) ==
    LET g == Path(n, q)[j]
    IN  /\ g.op = "read" /\ g.key = Key(n, m, q.cred.client)
        /\ m = "images" => g.ask = q.images

Beyond(n, m, q) ==
    \/ q.pc = "serving"
    \/ q.pc = "gates" /\ \E j \in 1 .. q.at - 1 : Meter(n, m, q, j)

Room(n, m, q) ==
    IF Uses(m, q) /\ Beyond(n, m, q) THEN (IF m = "tokens" THEN MostTokens ELSE q.images) ELSE 0

DueOf(m, i, q) == IF q.cred.client = i THEN Due(m, q) ELSE 0
RoomOf(n, m, i, q) == IF q.cred.client = i THEN Room(n, m, q) ELSE 0

Dues(m, i, c) == [r \in Requests |-> DueOf(m, i, c[r])]
Rooms(n, m, i, c) == [r \in Requests |-> RoomOf(n, m, i, c[r])]

Fit(q) ==
    /\ q.pc \in {"gates", "serving"} =>
           IF q.endpoint = "images" THEN q.images \in Batch ELSE q.images = 0
    /\ q.pc = "charging" =>
           IF q.endpoint = "images" THEN q.images <= MostImages ELSE q.in + q.out <= MostTokens

WorkInv ==
    /\ spent \in [Identities -> [tokens : Nat, images : Nat]] /\ escaped \in Nat
    /\ \A r \in Requests : Fit(call[r])

\* With s spent, k on the counter and e escaped, of the requests c.
Recorded(m, i, c, s, k, e) ==
    s <= k + Size(Dues(m, i, c)) + e * Most(m)

Roomy(n, m, i, c, s, e) ==
    s + Size(Rooms(n, m, i, c)) + Most(m)
        <= Ceiling(n, m, i) + Slack(m) + Cardinality(Requests) * Most(m) + e * Most(m)

MeterInv ==
    \A m \in Meters, i \in Clients :
        Metered(deployment, m, i) =>
            /\ Recorded(m, i, call, spent[i][m], Get(count, Key(deployment, m, i)), escaped)
            /\ Roomy(deployment, m, i, call, spent[i][m], escaped)
-----------------------------------------------------------------------------
(* What the meters are held to.                                            *)

LEMMA MostIs ==
    /\ MostTokens \in Nat /\ \A u \in Usage : u.in + u.out <= MostTokens
    /\ MostImages \in Nat /\ \A n \in Batch : n <= MostImages
    /\ \A m \in Meters : Most(m) \in Nat /\ Slack(m) \in 0 .. Most(m)
<1>1. MostTokens \in Nat /\ \A u \in Usage : u.in + u.out <= MostTokens
    <2> DEFINE S == {u.in + u.out : u \in Usage}
    <2>1. PICK u \in Usage : \A v \in Usage : v.in + v.out <= u.in + u.out
        BY LimitsAssumption
    <2>2. \E n \in S : \A v \in Usage : v.in + v.out <= n
        BY <2>1
    <2>3. MostTokens = CHOOSE n \in S : \A v \in Usage : v.in + v.out <= n
        BY DEF MostTokens
    <2>4. S \subseteq Nat
        BY LimitsAssumption
    <2> HIDE DEF S
    <2>5. MostTokens \in S /\ \A v \in Usage : v.in + v.out <= MostTokens
        BY <2>2, <2>3
    <2>6. QED
        BY <2>4, <2>5
<1>2. MostImages \in Nat /\ \A n \in Batch : n <= MostImages
    <2>1. \E n \in Batch : \A m \in Batch : m <= n
        BY LimitsAssumption
    <2>2. MostImages \in Batch /\ \A m \in Batch : m <= MostImages
        BY <2>1 DEF MostImages
    <2>3. QED
        BY <2>2, LimitsAssumption
<1>3. \A m \in Meters : Most(m) \in Nat /\ Slack(m) \in 0 .. Most(m)
    BY <1>1, <1>2 DEF Meters, Most, Slack
<1>4. QED
    BY <1>1, <1>2, <1>3

LEMMA CeilingIs ==
    ASSUME NEW n \in DOMAIN Deployments, NEW m \in Meters, NEW i \in Clients,
           Metered(n, m, i)
    PROVE  /\ Ceiling(n, m, i) \in Nat
           /\ Most(m) <= Ceiling(n, m, i) + Slack(m)
<1>1. PICK c \in Creds : i = c.client
    BY DEF Clients
<1>2. PICK e : e \in Endpoints
    BY LimitsAssumption
<1>3. Fits(Deployments[n], c, e)
    BY <1>2 DEF Fits
<1> DEFINE d == Deployments[n]
           t == TierOf(d, i)
<1>4. t \in [Dimensions -> Optional] /\ d.limits.ipm \in Optional
    BY <1>3, LimitTypes
<1>5. ClientTpm(d, t) \in Nat
    BY <1>3, <1>4, ClientLimitTypes
<1>6. t.ipm \in Optional
    BY <1>4 DEF Dimensions
<1> HIDE DEF d, t
<1>7. CASE m = "tokens"
    <2>1. Ceiling(n, m, i) = ClientTpm(d, t)
        BY <1>7 DEF Ceiling, d, t
    <2>2. Slack(m) = Most(m) /\ Most(m) \in Nat
        BY <1>7, MostIs DEF Slack, Most
    <2>3. QED
        BY <1>5, <2>1, <2>2
<1>8. CASE m = "images"
    <2>1. Ceiling(n, m, i) = Or(t.ipm, d.limits.ipm)
        BY <1>8 DEF Ceiling, d, t
    <2>2. Ceiling(n, m, i) # NoLimit /\ MostImages <= Ceiling(n, m, i)
        BY <1>8 DEF Metered
    <2>3. Slack(m) = 0 /\ Most(m) = MostImages
        BY <1>8 DEF Slack, Most
    <2>4. Ceiling(n, m, i) \in Nat
        BY <1>4, <1>6, <2>1, <2>2 DEF Or, Optional
    <2>5. QED
        BY <2>2, <2>3, <2>4, MostIs
<1>9. QED
    BY <1>7, <1>8 DEF Meters

\* The meter's gate tells the ceiling of the client.
LEMMA MeterLimit ==
    ASSUME NEW n, NEW m \in Meters, NEW q, Asks(n, q), Uses(m, q),
           NEW j \in 1 .. Len(Path(n, q)), Meter(n, m, q, j)
    PROVE  Path(n, q)[j].limit = Ceiling(n, m, q.cred.client)
<1> DEFINE g == Path(n, q)[j]
           d == Deployments[n]
           i == q.cred.client
<1>1. Shown(d, q.cred, g)
    BY PathFacts
<1>2. g.op = "read" /\ g.key = Key(n, m, i)
    BY DEF Meter
<1>3. g.key[2] = i
    BY <1>2 DEF Key
<1>4. g.limit = LiveLimit(d, g.key[1], g.key[2], g.key[3])
    BY <1>1, <1>2, <1>3 DEF Shown
<1>5. i # Platform /\ q.endpoint # All
    BY FitFacts, PathIs
<1> HIDE DEF g, d
<1>6. CASE m = "tokens"
    <2>1. g.key = <<"tpm", i, All>>
        BY <1>2, <1>6 DEF Key
    <2>2. LiveLimit(d, "tpm", i, All) = ClientTpm(d, TierOf(d, i))
        BY <1>5 DEF LiveLimit, CounterLayer
    <2>3. QED
        BY <1>4, <1>6, <2>1, <2>2 DEF Ceiling, d, g
<1>7. CASE m = "images"
    <2> DEFINE t == TierOf(d, i)
    <2>1. g.key = <<"ipm", i, IF t.ipm = NoLimit THEN "images" ELSE All>>
        BY <1>2, <1>7 DEF Key, d
    <2>2. "images" # All
        BY <1>5, <1>7 DEF Uses
    <2>3. LiveLimit(d, "ipm", i, All) = t.ipm /\ LiveLimit(d, "ipm", i, "images") = d.limits.ipm
        BY <1>5, <2>2 DEF LiveLimit, CounterLayer
    <2>4. Ceiling(n, m, i) = IF t.ipm = NoLimit THEN d.limits.ipm ELSE t.ipm
        BY <1>7 DEF Ceiling, Or, d
    <2> HIDE DEF t
    <2>5. g.limit = Ceiling(n, m, i)
        BY <1>4, <2>1, <2>3, <2>4
    <2>6. QED
        BY <2>5 DEF g
<1>8. QED
    BY <1>6, <1>7 DEF Meters

-----------------------------------------------------------------------------
(* A request meets the meter's gate before it is served.                   *)

Contains(s, g) == \E j \in 1 .. Len(s) : s[j] = g

LEMMA ContainsEither ==
    ASSUME NEW S, NEW s \in Seq(S), NEW t \in Seq(S), NEW g, Contains(s, g) \/ Contains(t, g)
    PROVE  s \o t \in Seq(S) /\ Contains(s \o t, g)
<1>1. /\ s \o t \in Seq(S) /\ Len(s \o t) = Len(s) + Len(t) /\ Len(s) \in Nat /\ Len(t) \in Nat
      /\ \A i \in 1 .. Len(s) : (s \o t)[i] = s[i]
      /\ \A i \in 1 .. Len(t) : (s \o t)[Len(s) + i] = t[i]
    OBVIOUS
<1>2. CASE Contains(s, g)
    BY <1>1, <1>2 DEF Contains
<1>3. CASE Contains(t, g)
    <2>1. PICK i \in 1 .. Len(t) : t[i] = g
        BY <1>3 DEF Contains
    <2>2. Len(s) + i \in 1 .. Len(s) + Len(t) /\ (s \o t)[Len(s) + i] = g
        BY <1>1, <2>1
    <2>3. QED
        BY <1>1, <2>2 DEF Contains
<1>4. QED
    BY <1>1, <1>2, <1>3

LEMMA TokensGate ==
    ASSUME NEW d, NEW c, NEW e, Fits(d, c, e), NEW n \in Nat
    PROVE  Contains(Chain(d, c, e, n), Read("tpm", c.client, All, ClientTpm(d, TierOf(d, c.client))))
<1> DEFINE t == TierOf(d, c.client)
           g == Read("tpm", c.client, All, ClientTpm(d, t))
           S == ClientsOwn(d, c)
           one == <<Counted("rpm", c.client, All, ClientRpm(d, t)), g>>
           more == Given(t.rpd, <<Counted("rpd", c.client, All, t.rpd)>>)
                   \o Given(t.tpd, <<Read("tpd", c.client, All, t.tpd)>>)
                   \o Given(t.in, <<Read("in", c.client, All, t.in)>>)
                   \o Given(t.out, <<Read("out", c.client, All, t.out)>>)
           mine == LayerGates(d, c, c.client)
           users == IF c.user \in {Nobody, c.client} THEN <<>> ELSE LayerGates(d, c, c.user)
<1>1. mine \in Seq(S) /\ users \in Seq(S)
    <2>1. mine \in Seq(S)
        BY FitFacts, LayerShown DEF Owners
    <2>2. c.user \notin {Nobody, c.client} => LayerGates(d, c, c.user) \in Seq(S)
        BY LayerShown DEF Owners
    <2>3. QED
        BY <2>1, <2>2
<1>2. Contains(mine, g)
    <2>1. mine[2] = g /\ Len(mine) >= 2 /\ Len(mine) \in Nat
        BY <1>1 DEF LayerGates, Given
    <2> HIDE DEF mine, g
    <2>2. QED
        BY <2>1 DEF Contains
<1>3. ClientGates(d, c) = mine \o users
    BY ClientGatesAre
<1> HIDE DEF mine, users, g, S
<1>4. Contains(ClientGates(d, c), g) /\ ClientGates(d, c) \in Seq(S)
    BY <1>1, <1>2, <1>3, ContainsEither
<1>5. EndpointGates(d, c, e) \in Seq(S) /\ DailyGates(d, e, c.client) \in Seq(S)
    BY FitFacts, EndpointShown, RouteShown DEF S, Owners
<1>6. Contains(FirstPart(d, c, e), g)
    BY <1>4, <1>5, ContainsEither DEF FirstPart
<1>7. /\ PlatformGates(d) \in Seq(GateSet) /\ FirstPart(d, c, e) \in Seq(GateSet)
      /\ SecondPart(d, c, e, n) \in Seq(GateSet)
    BY PlatformShown, PartsShown, AllGates
<1>8. Contains(PlatformGates(d) \o FirstPart(d, c, e) \o SecondPart(d, c, e, n), g)
    BY <1>6, <1>7, ContainsEither
<1>9. QED
    BY <1>8, ChainParts DEF g

\* The gate of the images asked for.
FitGate(d, c, n) ==
    LET t == TierOf(d, c.client) IN
    [Read("ipm", c.client, IF t.ipm = NoLimit THEN "images" ELSE All, Or(t.ipm, d.limits.ipm))
        EXCEPT !.ask = n]

LEMMA ImagesGate ==
    ASSUME NEW d, NEW c, NEW e, Fits(d, c, e), NEW n \in Nat, e = "images",
           Or(TierOf(d, c.client).ipm, d.limits.ipm) # NoLimit
    PROVE  Contains(Chain(d, c, e, n), FitGate(d, c, n))
<1> DEFINE g == FitGate(d, c, n)
           S == ClientsOwn(d, c)
           images == ImageGates(d, c, e, n)
<1>1. images \in Seq(S)
    BY ImagesShown
<1>2. Contains(images, g)
    <2>1. images[1] = g /\ Len(images) >= 1
        BY DEF ImageGates, Given, ForAll, Once, FitGate
    <2> HIDE DEF images, g
    <2>2. QED
        BY <1>1, <2>1 DEF Contains
<1> DEFINE U(x) == IF c.user = Nobody THEN <<>> ELSE x
<1>3. /\ U(DailyGates(d, e, c.user)) \in Seq(S)
      /\ InGates(d, e, c.client) \in Seq(S) /\ U(InGates(d, e, c.user)) \in Seq(S)
      /\ OutGates(d, e, c.client) \in Seq(S) /\ U(OutGates(d, e, c.user)) \in Seq(S)
    BY FitFacts, RouteShown DEF Owners
<1>4. SecondPart(d, c, e, n) =
          U(DailyGates(d, e, c.user))
          \o InGates(d, e, c.client) \o U(InGates(d, e, c.user))
          \o OutGates(d, e, c.client) \o U(OutGates(d, e, c.user)) \o images
    BY DEF SecondPart
<1> DEFINE before == U(DailyGates(d, e, c.user))
                     \o InGates(d, e, c.client) \o U(InGates(d, e, c.user))
                     \o OutGates(d, e, c.client) \o U(OutGates(d, e, c.user))
<1> HIDE DEF S, images, g, U
<1>5. before \in Seq(S) /\ SecondPart(d, c, e, n) = before \o images
    BY <1>3, <1>4
<1> HIDE DEF before
<1>6. Contains(SecondPart(d, c, e, n), g)
    BY <1>1, <1>2, <1>5, ContainsEither
<1>7. /\ PlatformGates(d) \in Seq(GateSet) /\ FirstPart(d, c, e) \in Seq(GateSet)
      /\ SecondPart(d, c, e, n) \in Seq(GateSet)
    BY PlatformShown, PartsShown, AllGates
<1>8. PlatformGates(d) \o FirstPart(d, c, e) \in Seq(GateSet)
    BY <1>7
<1>9. Contains(PlatformGates(d) \o FirstPart(d, c, e) \o SecondPart(d, c, e, n), g)
    BY <1>6, <1>7, <1>8, ContainsEither
<1>10. QED
    BY <1>9, ChainParts DEF g

LEMMA MeterOnPath ==
    ASSUME NEW n, NEW m \in Meters, NEW q, Asks(n, q), Uses(m, q), Metered(n, m, q.cred.client)
    PROVE  \E j \in 1 .. Len(Path(n, q)) : Meter(n, m, q, j)
<1> DEFINE d == Deployments[n]
           c == q.cred
           e == q.endpoint
           t == TierOf(d, c.client)
<1>1. Path(n, q) = Chain(d, c, e, q.images) /\ Fits(d, c, e) /\ q.images \in Nat
    BY PathIs
<1>2. CASE m = "tokens"
    <2> DEFINE g == Read("tpm", c.client, All, ClientTpm(d, t))
    <2>1. Contains(Path(n, q), g)
        BY <1>1, TokensGate
    <2>2. g.op = "read" /\ g.key = Key(n, m, c.client)
        BY <1>2 DEF Read, Key
    <2> HIDE DEF g
    <2>3. QED
        BY <1>2, <2>1, <2>2 DEF Contains, Meter
<1>3. CASE m = "images"
    <2> DEFINE g == FitGate(d, c, q.images)
    <2>1. e = "images" /\ Or(t.ipm, d.limits.ipm) # NoLimit
        BY <1>3 DEF Uses, Metered, Ceiling
    <2>2. Contains(Path(n, q), g)
        BY <1>1, <2>1, ImagesGate
    <2>3. g.op = "read" /\ g.key = Key(n, m, c.client) /\ g.ask = q.images
        BY <1>3 DEF FitGate, Read, Key
    <2> HIDE DEF g
    <2>4. QED
        BY <2>2, <2>3 DEF Contains, Meter
<1>4. QED
    BY <1>2, <1>3 DEF Meters
-----------------------------------------------------------------------------
(* What a request charges in full is on the counter of the meter.          *)

LEMMA SumIs ==
    ASSUME NEW q \in CallSet, NEW k, NEW v,
           \A a \in Pipelines(q) : k \in DOMAIN a => a[k] = v,
           \E j \in 1 .. Len(Charges(q)) : k \in DOMAIN Charges(q)[j]
    PROVE  Get(Sum(q, Len(Charges(q))), k) = v
<1> DEFINE N == Len(Charges(q))
           runs == {Charges(q)[i] : i \in 1 .. N}
<1>1. runs \subseteq Pipelines(q)
    BY ChargesType
<1>2. Sum(q, N) = [x \in UNION {DOMAIN adds : adds \in runs} |->
                      (CHOOSE adds \in runs : x \in DOMAIN adds)[x]]
    BY DEF Sum
<1>3. \E adds \in runs : k \in DOMAIN adds
    OBVIOUS
<1> HIDE DEF runs, N
<1> DEFINE adds == CHOOSE adds \in runs : k \in DOMAIN adds
<1>4. adds \in runs /\ k \in DOMAIN adds
    BY <1>3
<1>5. k \in DOMAIN Sum(q, N) /\ Sum(q, N)[k] = adds[k]
    BY <1>2, <1>3
<1> HIDE DEF adds
<1>6. adds[k] = v
    BY <1>1, <1>4
<1>7. QED
    BY <1>5, <1>6 DEF Get, N

LEMMA ChargePays ==
    ASSUME NEW n, NEW m \in Meters, NEW q \in CallSet, Uses(m, q)
    PROVE  Get(Sum(q, Len(Charges(q))), Key(n, m, q.cred.client)) = Amount(m, q)
<1> DEFINE i == q.cred.client
           k == Key(n, m, i)
           v == Amount(m, q)
           N == Len(Charges(q))
           own == ChargesOf(q, i)
           rest == (IF q.cred.user \in {Nobody, i} THEN <<>> ELSE ChargesOf(q, q.cred.user))
                   \o (IF q.endpoint = "images" THEN <<>> ELSE <<Tokens(q, Platform, All)>>)
<1>1. ASSUME NEW a \in Pipelines(q), k \in DOMAIN a PROVE a[k] = v
    <2>1. k[1] \in {"tpm", "ipm"} /\ (k[1] = "tpm" <=> m = "tokens")
        BY DEF Key, Meters
    <2>2. ASSUME NEW w, NEW e, a = Tokens(q, w, e) PROVE a[k] = v
        <3>1. a = [x \in {<<d, w, e>> : d \in {"tpm", "in", "out"}} |->
                      IF x[1] = "tpm" THEN q.in + q.out ELSE q[x[1]]]
            BY <2>2 DEF Tokens
        <3>2. k[1] \in {"tpm", "in", "out"}
            BY <1>1, <3>1
        <3>3. k[1] = "tpm" /\ m = "tokens"
            BY <2>1, <3>2
        <3> HIDE DEF k
        <3>4. QED
            BY <1>1, <3>1, <3>3 DEF Amount
    <2>3. ASSUME NEW w, NEW e, a = Single("tpd", w, e, q.in + q.out) PROVE a[k] = v
        <3>1. k[1] = "tpd"
            BY <1>1, <2>3 DEF Single
        <3>2. QED
            BY <2>1, <3>1
    <2>4. ASSUME NEW w, NEW e, a = Single("ipm", w, e, q.images) PROVE a[k] = v
        <3>1. a = [x \in {<<"ipm", w, e>>} |-> q.images]
            BY <2>4 DEF Single
        <3>2. k[1] = "ipm" /\ a[k] = q.images
            BY <1>1, <3>1
        <3>3. m # "tokens"
            BY <2>1, <3>2
        <3>4. QED
            BY <3>2, <3>3 DEF Amount
    <2>5. QED
        BY <2>2, <2>3, <2>4 DEF Pipelines
<1>2. Charges(q) = own \o rest
    <2>1. Charges(q) = own
              \o (IF q.cred.user \in {Nobody, i} THEN <<>> ELSE ChargesOf(q, q.cred.user))
              \o (IF q.endpoint = "images" THEN <<>> ELSE <<Tokens(q, Platform, All)>>)
        BY ChargesAre
    <2>2. QED
        BY <2>1 DEF ChargesOf
<1>3. \E j \in 1 .. N : k \in DOMAIN Charges(q)[j]
    <2>1. CASE m = "tokens"
        <3>1. own = <<Tokens(q, i, q.endpoint), Single("tpd", i, q.endpoint, q.in + q.out),
                      Tokens(q, i, All), Single("tpd", i, All, q.in + q.out)>>
            BY <2>1 DEF ChargesOf, Uses
        <3>2. Len(own) = 4 /\ own[3] = Tokens(q, i, All)
            BY <3>1
        <3>3. k \in DOMAIN Tokens(q, i, All)
            BY <2>1 DEF Key, Tokens
        <3>4. N >= 4 /\ N \in Nat /\ Charges(q)[3] = own[3]
            BY <1>2, <3>1, <3>2 DEF ChargesOf
        <3>5. QED
            BY <3>2, <3>3, <3>4
    <2>2. CASE m = "images"
        <3>1. own = <<Single("ipm", i, q.endpoint, q.images), Single("ipm", i, All, q.images)>>
            BY <2>2 DEF ChargesOf, Uses
        <3>2. Len(own) = 2
            BY <3>1
        <3>3. k \in DOMAIN own[1] \/ k \in DOMAIN own[2]
            BY <2>2, <3>1 DEF Key, Single, Uses
        <3>4. N >= 2 /\ N \in Nat /\ Charges(q)[1] = own[1] /\ Charges(q)[2] = own[2]
            BY <1>2, <3>1, <3>2 DEF ChargesOf
        <3>5. QED
            BY <3>3, <3>4
    <2>3. QED
        BY <2>1, <2>2 DEF Meters
<1> HIDE DEF k, v
<1>4. Get(Sum(q, N), k) = v
    BY <1>1, <1>3, SumIs
<1>5. QED
    BY <1>4 DEF k, v

\* What the counters lose in a step is nothing, and in a charge paid in full
\* they gain it all.
LEMMA CountGrows ==
    ASSUME StateInv, NEW r \in Requests, NEW p, Becomes(r, p), NEW k
    PROVE  Get(count, k) \in Nat /\ Get(count', k) \in Nat /\ Get(count, k) <= Get(count', k)
<1>1. Counting(count)
    BY DEF StateInv
<1>2. Get(count, k) \in Nat
    BY <1>1, GetNat
<1>3. CASE Adds(deployment, call[r], p)
    <2>1. CASE count' = count
        BY <1>2, <2>1
    <2>2. ASSUME NEW a, Counting(a), count' = Added(count, a)
          PROVE  Get(count', k) \in Nat /\ Get(count, k) <= Get(count', k)
        <3>1. Get(count', k) = Get(count, k) + Get(a, k) /\ Get(a, k) \in Nat
            BY <1>1, <2>2, AddedIs, GetNat
        <3>2. QED
            BY <1>2, <3>1
    <2>3. QED
        BY <1>2, <1>3, <2>1, <2>2 DEF Adds
<1>4. ASSUME NEW K, RaisesOne(deployment, call[r], p, K)
      PROVE  Get(count', k) \in Nat /\ Get(count, k) <= Get(count', k)
    <2>1. Get(count', k) = Get(count, k) + IF k = K THEN 1 ELSE 0
        BY <1>1, <1>4, PlusIs DEF RaisesOne
    <2>2. QED
        BY <1>2, <2>1
<1>5. QED
    BY <1>2, <1>3, <1>4 DEF Becomes
-----------------------------------------------------------------------------
(* What one request does to a meter: it uses what room it has and owes it, *)
(* or a Redis error lets it go, or it passes the gate.                     *)

LEMMA Amounts ==
    ASSUME NEW n, NEW m \in Meters, NEW i, NEW q \in CallSet, Fit(q)
    PROVE  /\ DueOf(m, i, q) \in 0 .. Most(m) /\ RoomOf(n, m, i, q) \in 0 .. Most(m)
           /\ DueOf(m, i, q) = 0 \/ RoomOf(n, m, i, q) = 0
<1>1. q.in \in Nat /\ q.out \in Nat /\ q.images \in Nat
    BY DEF CallSet
<1>2. Due(m, q) \in 0 .. Most(m)
    <2>1. ASSUME q.pc = "charging", Uses(m, q) PROVE Amount(m, q) \in 0 .. Most(m)
        BY <1>1, <2>1, MostIs DEF Fit, Uses, Amount, Most, Meters
    <2>2. QED
        BY <2>1, MostIs DEF Due
<1>3. Room(n, m, q) \in 0 .. Most(m)
    <2>1. ASSUME Uses(m, q), Beyond(n, m, q)
          PROVE  (IF m = "tokens" THEN MostTokens ELSE q.images) \in 0 .. Most(m)
        BY <1>1, <2>1, MostIs DEF Fit, Uses, Beyond, Most, Meters
    <2>2. QED
        BY <2>1, MostIs DEF Room
<1>4. Due(m, q) = 0 \/ Room(n, m, q) = 0
    BY DEF Due, Room, Beyond
<1>5. QED
    BY <1>2, <1>3, <1>4, MostIs DEF DueOf, RoomOf

Used(n, m, i, q, p, s, u, k, l, e, f) ==
    /\ f = e
    /\ \E a \in Nat : /\ u = s + a /\ RoomOf(n, m, i, p) + a <= RoomOf(n, m, i, q)
                      /\ k + DueOf(m, i, q) + a <= l + DueOf(m, i, p)

Escapes(n, m, i, q, p, s, u, k, l, e, f) ==
    f = e + 1 /\ u = s /\ k <= l

Admitted(n, m, i, q, p, s, u, k, l, e, f) ==
    /\ f = e /\ u = s /\ k = l
    /\ DueOf(m, i, q) = 0 /\ DueOf(m, i, p) = 0 /\ RoomOf(n, m, i, q) = 0
    /\ k + RoomOf(n, m, i, p) <= Ceiling(n, m, i) + Slack(m)

LEMMA FlowHolds ==
    ASSUME NEW n \in DOMAIN Deployments, NEW m \in Meters, NEW i \in Clients,
           Metered(n, m, i),
           NEW c \in [Requests -> CallSet], \A r \in Requests : Fit(c[r]),
           NEW r \in Requests, NEW p \in CallSet, Fit(p),
           NEW s \in Nat, NEW u \in Nat, NEW k \in Nat, NEW l \in Nat, NEW e \in Nat, NEW f \in Nat,
           \/ Used(n, m, i, c[r], p, s, u, k, l, e, f)
           \/ Escapes(n, m, i, c[r], p, s, u, k, l, e, f)
           \/ Admitted(n, m, i, c[r], p, s, u, k, l, e, f),
           Recorded(m, i, c, s, k, e), Roomy(n, m, i, c, s, e)
    PROVE  LET d == [c EXCEPT ![r] = p] IN
           Recorded(m, i, d, u, l, f) /\ Roomy(n, m, i, d, u, f)
<1> DEFINE d == [c EXCEPT ![r] = p]
           M == Most(m)
           D0 == Dues(m, i, c)
           D1 == Dues(m, i, d)
           R0 == Rooms(n, m, i, c)
           R1 == Rooms(n, m, i, d)
           W0 == [R0 EXCEPT ![r] = 0]
<1>1. M \in Nat /\ Slack(m) \in 0 .. M /\ Ceiling(n, m, i) \in Nat
    BY MostIs, CeilingIs
<1>2. d \in [Requests -> CallSet] /\ (\A q \in Requests : Fit(d[q])) /\ d[r] = p
      /\ \A q \in Requests : q # r => d[q] = c[q]
    OBVIOUS
<1> HIDE DEF d
<1>3. D0 \in Upto(M) /\ D1 \in Upto(M) /\ R0 \in Upto(M) /\ R1 \in Upto(M) /\ W0 \in Upto(M)
    <2>1. D0 \in Upto(M) /\ R0 \in Upto(M)
        BY Amounts DEF Dues, Rooms, Upto
    <2>2. D1 \in Upto(M) /\ R1 \in Upto(M)
        BY <1>2, Amounts DEF Dues, Rooms, Upto
    <2>3. 0 \in 0 .. M
        BY <1>1
    <2>4. QED
        BY <2>1, <2>2, <2>3 DEF Upto
<1>4. /\ D0[r] = DueOf(m, i, c[r]) /\ D1[r] = DueOf(m, i, p)
      /\ R0[r] = RoomOf(n, m, i, c[r]) /\ R1[r] = RoomOf(n, m, i, p) /\ W0[r] = 0
    BY <1>2 DEF Dues, Rooms
<1>5. \A q \in Requests : q # r => D0[q] = D1[q] /\ R0[q] = R1[q] /\ W0[q] = R0[q]
    BY <1>2 DEF Dues, Rooms
<1>6. \A q \in Requests : D0[q] = 0 \/ W0[q] = 0
    <2>1. \A q \in Requests : D0[q] = 0 \/ R0[q] = 0
        BY Amounts DEF Dues, Rooms
    <2>2. QED
        BY <1>4, <1>5, <2>1
<1>7. /\ D0[r] \in 0 .. M /\ D1[r] \in 0 .. M /\ R0[r] \in 0 .. M /\ R1[r] \in 0 .. M
    BY <1>3 DEF Upto
<1>8. Recorded(m, i, c, s, k, e) <=> s <= k + Size(D0) + e * M
    BY DEF Recorded
<1>9. Recorded(m, i, d, u, l, f) <=> u <= l + Size(D1) + f * M
    BY DEF Recorded
<1>10. Roomy(n, m, i, c, s, e) <=>
          s + Size(R0) + M <= Ceiling(n, m, i) + Slack(m) + Cardinality(Requests) * M + e * M
    BY DEF Roomy
<1>11. Roomy(n, m, i, d, u, f) <=>
          u + Size(R1) + M <= Ceiling(n, m, i) + Slack(m) + Cardinality(Requests) * M + f * M
    BY DEF Roomy
<1> HIDE DEF D0, D1, R0, R1, W0
<1>12. Size(D0) \in Nat /\ Size(D1) \in Nat /\ Size(R0) \in Nat /\ Size(R1) \in Nat /\ Size(W0) \in Nat
    BY <1>1, <1>3, BagFinite
<1>13. Size(D1) + D0[r] = Size(D0) + D1[r] /\ Size(R1) + R0[r] = Size(R0) + R1[r]
    BY <1>1, <1>3, <1>5, BagChange
<1>14. Size(W0) + R0[r] = Size(R0) + 0
    BY <1>1, <1>3, <1>4, <1>5, BagChange
<1>15. D0[r] = 0 => Size(D0) + Size(W0) + M <= Cardinality(Requests) * M
    BY <1>1, <1>3, <1>4, <1>6, BagsApart
<1> DEFINE total == Cardinality(Requests) * M
           eM == e * M
           fM == f * M
           C == Ceiling(n, m, i)
           x == DueOf(m, i, c[r])
           y == DueOf(m, i, p)
           v == RoomOf(n, m, i, c[r])
           w == RoomOf(n, m, i, p)
           a0 == Size(D0)
           a1 == Size(D1)
           b0 == Size(R0)
           b1 == Size(R1)
           w0 == Size(W0)
           z == Slack(m)
<1>16. total \in Nat /\ eM \in Nat /\ fM \in Nat /\ (f = e => fM = eM) /\ (f = e + 1 => fM = eM + M)
    <2>1. Cardinality(Requests) \in Nat
        BY LimitsAssumption, FS_CardinalityType
    <2>2. f = e + 1 => fM = eM + M
        BY <1>1
    <2>3. QED
        BY <1>1, <2>1, <2>2
<1>17. /\ x \in 0 .. M /\ y \in 0 .. M /\ v \in 0 .. M /\ w \in 0 .. M
       /\ a0 \in Nat /\ a1 \in Nat /\ b0 \in Nat /\ b1 \in Nat /\ w0 \in Nat
       /\ z \in Nat /\ C \in Nat /\ M \in Nat
    BY <1>1, <1>4, <1>7, <1>12
<1>18. /\ a1 + x = a0 + y /\ b1 + v = b0 + w /\ w0 + v = b0
       /\ x = 0 => a0 + w0 + M <= total
    BY <1>4, <1>12, <1>13, <1>14, <1>15, <1>17
<1>19. s <= k + a0 + eM /\ s + b0 + M <= C + z + total + eM
    BY <1>8, <1>10
<1>20. /\ Recorded(m, i, d, u, l, f) <=> u <= l + a1 + fM
       /\ Roomy(n, m, i, d, u, f) <=> u + b1 + M <= C + z + total + fM
    BY <1>9, <1>11
<1>21. CASE Used(n, m, i, c[r], p, s, u, k, l, e, f)
    <2>1. PICK a \in Nat : u = s + a /\ w + a <= v /\ k + x + a <= l + y
        BY <1>21 DEF Used
    <2>2. fM = eM
        BY <1>16, <1>21 DEF Used
    <2> HIDE DEF total, eM, fM, C, x, y, v, w, a0, a1, b0, b1, w0, z, M
    <2>3. QED
        BY <1>16, <1>17, <1>18, <1>19, <1>20, <2>1, <2>2 DEF d
<1>22. CASE Escapes(n, m, i, c[r], p, s, u, k, l, e, f)
    <2>1. u = s /\ k <= l /\ fM = eM + M
        BY <1>16, <1>22 DEF Escapes
    <2> HIDE DEF total, eM, fM, C, x, y, v, w, a0, a1, b0, b1, w0, z, M
    <2>2. QED
        BY <1>16, <1>17, <1>18, <1>19, <1>20, <2>1 DEF d
<1>23. CASE Admitted(n, m, i, c[r], p, s, u, k, l, e, f)
    <2>1. u = s /\ k = l /\ fM = eM /\ x = 0 /\ y = 0 /\ v = 0 /\ k + w <= C + z
        BY <1>16, <1>23 DEF Admitted
    <2> HIDE DEF total, eM, fM, C, x, y, v, w, a0, a1, b0, b1, w0, z, M
    <2>2. QED
        BY <1>16, <1>17, <1>18, <1>19, <1>20, <2>1 DEF d
<1>24. QED
    BY <1>21, <1>22, <1>23 DEF d
LEMMA Still ==
    ASSUME NEW n, NEW m, NEW i, NEW q, NEW p, NEW s \in Nat, NEW k, NEW l, NEW e,
           RoomOf(n, m, i, p) \in Nat, RoomOf(n, m, i, q) \in Nat,
           RoomOf(n, m, i, p) <= RoomOf(n, m, i, q),
           k \in Nat, l \in Nat, DueOf(m, i, q) \in Nat, DueOf(m, i, p) \in Nat,
           k + DueOf(m, i, q) <= l + DueOf(m, i, p)
    PROVE  Used(n, m, i, q, p, s, s, k, l, e, e)
<1>1. s = s + 0 /\ RoomOf(n, m, i, p) + 0 <= RoomOf(n, m, i, q)
      /\ k + DueOf(m, i, q) + 0 <= l + DueOf(m, i, p) /\ 0 \in Nat
    OBVIOUS
<1>2. QED
    BY <1>1 DEF Used

LEMMA BeyondStep ==
    ASSUME NEW n, NEW m \in Meters, NEW q, NEW p, Sound(n, q), q.pc = "gates",
           Uses(m, q), Metered(n, m, q.cred.client),
           p.cred = q.cred, p.endpoint = q.endpoint, p.images = q.images,
           p.pc = "gates" => p.at = q.at + 1,
           p.pc = "serving" => q.at = Len(Path(n, q)),
           Beyond(n, m, p)
    PROVE  Beyond(n, m, q) \/ Meter(n, m, q, q.at)
<1>1. OnPath(n, q) /\ q \in CallSet
    BY DEF Sound
<1>2. Asks(n, q) /\ q.at \in 1 .. Len(Path(n, q)) /\ Len(Path(n, q)) \in Nat
    BY <1>1, PathFacts DEF OnPath
<1>3. PICK j \in 1 .. q.at : Meter(n, m, q, j)
    <2>1. CASE p.pc = "serving"
        BY <1>2, <2>1, MeterOnPath
    <2>2. CASE p.pc = "gates"
        <3>1. PICK j \in 1 .. p.at - 1 : Meter(n, m, p, j)
            BY <2>2 DEF Beyond
        <3>2. Meter(n, m, q, j)
            BY <3>1, SamePath DEF Meter
        <3>3. j \in 1 .. q.at
            BY <1>2, <2>2
        <3>4. QED
            BY <3>2, <3>3
    <2>3. QED
        BY <2>1, <2>2 DEF Beyond
<1>4. j = q.at \/ j \in 1 .. q.at - 1
    BY <1>2
<1>5. QED
    BY <1>3, <1>4 DEF Beyond

\* A request that does not pass the meter's gate in this step has no more room
\* than it had.
LEMMA RoomStays ==
    ASSUME NEW n, NEW m \in Meters, NEW i, Metered(n, m, i), NEW q, NEW p, Sound(n, q), q.pc = "gates",
           p \in CallSet, Fit(q), Fit(p),
           p.cred = q.cred, p.endpoint = q.endpoint, p.images = q.images,
           p.pc = "gates" => p.at = q.at + 1,
           p.pc = "serving" => q.at = Len(Path(n, q)),
           q.cred.client = i /\ Uses(m, q) => ~ Meter(n, m, q, q.at) \/ Beyond(n, m, q)
    PROVE  RoomOf(n, m, i, p) <= RoomOf(n, m, i, q)
<1>1. RoomOf(n, m, i, q) \in 0 .. Most(m) /\ RoomOf(n, m, i, p) \in 0 .. Most(m) /\ Most(m) \in Nat
    BY Amounts, MostIs DEF Sound
<1>2. Uses(m, p) <=> Uses(m, q)
    BY DEF Uses
<1>3. CASE q.cred.client = i /\ Uses(m, q) /\ Beyond(n, m, p)
    <2>1. Beyond(n, m, q)
        BY <1>3, BeyondStep
    <2>2. RoomOf(n, m, i, p) = RoomOf(n, m, i, q)
        BY <1>2, <1>3, <2>1 DEF RoomOf, Room
    <2>3. QED
        BY <1>1, <2>2
<1>4. CASE ~ (q.cred.client = i /\ Uses(m, q) /\ Beyond(n, m, p))
    <2>1. RoomOf(n, m, i, p) = 0
        BY <1>2, <1>4 DEF RoomOf, Room
    <2>2. QED
        BY <1>1, <2>1
<1>5. QED
    BY <1>3, <1>4

LEMMA NoDue ==
    ASSUME NEW m, NEW i, NEW q, q.pc # "charging"
    PROVE  DueOf(m, i, q) = 0
BY DEF DueOf, Due

LEMMA NoRoom ==
    ASSUME NEW n, NEW m, NEW i, NEW q, q.pc \notin {"gates", "serving"}
    PROVE  RoomOf(n, m, i, q) = 0
BY DEF RoomOf, Room, Beyond

-----------------------------------------------------------------------------
(* Every step is one of the three.                                         *)

Flows(r, m, i) ==
    LET n == deployment
        k == Get(count, Key(n, m, i))
        l == Get(count', Key(n, m, i))
        s == spent[i][m]
        u == spent'[i][m]
    IN  \/ Used(n, m, i, call[r], call'[r], s, u, k, l, escaped, escaped')
        \/ Escapes(n, m, i, call[r], call'[r], s, u, k, l, escaped, escaped')
        \/ Admitted(n, m, i, call[r], call'[r], s, u, k, l, escaped, escaped')

Worked(r) ==
    /\ spent' \in [Identities -> [tokens : Nat, images : Nat]] /\ escaped' \in Nat
    /\ Fit(call'[r])
    /\ \A m \in Meters, i \in Clients : Metered(deployment, m, i) => Flows(r, m, i)

LEMMA SpentNat ==
    ASSUME NEW f \in [Identities -> [tokens : Nat, images : Nat]], NEW m \in Meters, NEW i \in Clients
    PROVE  f[i][m] \in Nat /\ i \in Identities
<1>1. i \in Identities
    BY LimitsAssumption DEF Clients, Identities
<1>2. f[i] \in [tokens : Nat, images : Nat]
    BY <1>1
<1>3. f[i].tokens \in Nat /\ f[i].images \in Nat
    BY <1>2
<1>4. QED
    BY <1>1, <1>3 DEF Meters

\* What holds of any step of a request.
LEMMA Moved ==
    ASSUME StateInv, WorkInv, NEW r \in Requests, Step(r), NEW m \in Meters, NEW i \in Clients
    PROVE  LET n == deployment
               k == Get(count, Key(n, m, i))
               l == Get(count', Key(n, m, i))
           IN  /\ n \in DOMAIN Deployments
               /\ call[r] \in CallSet /\ Sound(n, call[r]) /\ Fit(call[r])
               /\ call'[r] \in CallSet /\ call' = [call EXCEPT ![r] = call'[r]]
               /\ k \in Nat /\ l \in Nat /\ k <= l /\ spent[i][m] \in Nat
               /\ DueOf(m, i, call[r]) \in Nat /\ RoomOf(n, m, i, call[r]) \in Nat
               /\ Fit(call'[r]) => DueOf(m, i, call'[r]) \in Nat /\ RoomOf(n, m, i, call'[r]) \in Nat
<1>1. PICK p : Becomes(r, p)
    BY StepBecomes
<1>2. call'[r] = p /\ call' = [call EXCEPT ![r] = p] /\ p \in CallSet
    BY <1>1 DEF Becomes, Sound, StateInv
<1>3. call[r] \in CallSet /\ Sound(deployment, call[r]) /\ Fit(call[r]) /\ deployment \in DOMAIN Deployments
    BY DEF StateInv, WorkInv
<1>4. spent[i][m] \in Nat
    BY SpentNat DEF WorkInv
<1>5. \A x \in 0 .. Most(m) : x \in Nat
    BY MostIs
<1>6. DueOf(m, i, call[r]) \in Nat /\ RoomOf(deployment, m, i, call[r]) \in Nat
    BY <1>3, <1>5, Amounts
<1>7. Fit(p) => DueOf(m, i, p) \in Nat /\ RoomOf(deployment, m, i, p) \in Nat
    BY <1>2, <1>5, Amounts
<1>8. QED
    BY <1>1, <1>2, <1>3, <1>4, <1>6, <1>7, CountGrows
LEMMA ArriveWorked ==
    ASSUME StateInv, WorkInv, NEW r \in Requests, Arrive(r)
    PROVE  Worked(r)
<1> DEFINE n == deployment
           p == call'[r]
<1>1. PICK q \in Deployments[n].requests :
          call' = [call EXCEPT ![r] =
              [Idle EXCEPT !.pc = "gates", !.cred = q.cred,
                           !.endpoint = q.endpoint, !.images = q.images]]
    BY DEF Arrive
<1>2. Idle \in CallSet /\ Idle.at = 1 /\ call \in [Requests -> CallSet] /\ n \in DOMAIN Deployments
    BY IdleSound DEF Idle, StateInv
<1>3. p = [Idle EXCEPT !.pc = "gates", !.cred = q.cred,
                       !.endpoint = q.endpoint, !.images = q.images]
    BY <1>1, <1>2
<1>4. p.pc = "gates" /\ p.at = 1 /\ p.endpoint = q.endpoint /\ p.images = q.images
    BY <1>2, <1>3 DEF CallSet
<1>5. Fit(p)
    BY <1>2, <1>4, DeploymentAssumption DEF Fit
<1>6. call[r].pc \in {"idle", "refused"} /\ spent' = spent /\ escaped' = escaped /\ count' = count
    BY DEF Arrive, history
<1>7. ASSUME NEW m \in Meters, NEW i \in Clients PROVE Flows(r, m, i)
    <2>1. RoomOf(n, m, i, p) = 0
        BY <1>4 DEF RoomOf, Room, Beyond
    <2>2. DueOf(m, i, p) = 0 /\ DueOf(m, i, call[r]) = 0
        BY <1>4, <1>6, NoDue
    <2>3. Step(r)
        BY DEF Step
    <2> DEFINE k == Get(count, Key(n, m, i))
    <2>4. k \in Nat /\ spent[i][m] \in Nat /\ RoomOf(n, m, i, call[r]) \in Nat
        BY <2>3, Moved
    <2> HIDE DEF k
    <2>5. Used(n, m, i, call[r], p, spent[i][m], spent[i][m], k, k, escaped, escaped)
        BY <2>1, <2>2, <2>4, Still
    <2>6. QED
        BY <1>6, <2>5 DEF Flows, k
<1>8. QED
    BY <1>5, <1>6, <1>7 DEF Worked, WorkInv

LEMMA CountWorked ==
    ASSUME StateInv, WorkInv, NEW r \in Requests, Count(r)
    PROVE  Worked(r)
<1> DEFINE n == deployment
           q == call[r]
           p == call'[r]
           g == GateOf(r)
           ok == Allowed(g, Get(count, g.key) + 1)
<1>1. q.pc = "gates" /\ g.op = "count" /\ spent' = spent /\ escaped' = escaped
    BY DEF Count
<1>2. /\ g = Path(n, q)[q.at] /\ Passed(r) = Further(n, q)
      /\ Sound(n, q) /\ q \in CallSet /\ Fit(q)
    BY <1>1, GateIs DEF WorkInv
<1>3. ok \in BOOLEAN
    BY DEF Allowed
<1>4. p = Raised(n, q, ok)
    <2>1. call \in [Requests -> CallSet]
        BY DEF StateInv
    <2>2. p = [(IF ok THEN Passed(r) ELSE [call[r] EXCEPT !.pc = "refused"])
                 EXCEPT !.hit = @ \cup {g.key}, !.paid = @ \/ g.key[2] # Platform]
        BY <2>1 DEF Count
    <2>3. QED
        BY <1>2, <2>2 DEF Raised
<1> HIDE DEF ok
<1>5. /\ p \in CallSet /\ p.cred = q.cred /\ p.endpoint = q.endpoint /\ p.images = q.images
      /\ p.pc \in {"gates", "serving", "refused"}
      /\ p.pc = "gates" => p.at = q.at + 1
      /\ p.pc = "serving" => q.at = Len(Path(n, q))
    BY <1>1, <1>2, <1>3, <1>4, RaisedIs
<1> HIDE DEF p
<1>6. Fit(p)
    BY <1>1, <1>2, <1>5 DEF Fit
<1>7. ASSUME NEW m \in Meters, NEW i \in Clients, Metered(n, m, i) PROVE Flows(r, m, i)
    <2>1. ~ Meter(n, m, q, q.at)
        BY <1>1, <1>2 DEF Meter
    <2>2. RoomOf(n, m, i, p) <= RoomOf(n, m, i, q)
        BY <1>1, <1>2, <1>5, <1>6, <1>7, <2>1, RoomStays
    <2>3. DueOf(m, i, p) = 0 /\ DueOf(m, i, q) = 0
        BY <1>1, <1>5, NoDue
    <2>4. Step(r)
        BY DEF Step
    <2> DEFINE k == Get(count, Key(n, m, i))
               l == Get(count', Key(n, m, i))
    <2>5. /\ k \in Nat /\ l \in Nat /\ k <= l /\ spent[i][m] \in Nat
          /\ RoomOf(n, m, i, q) \in Nat /\ RoomOf(n, m, i, p) \in Nat
        BY <1>6, <2>4, Moved DEF p
    <2> HIDE DEF k, l, q
    <2>6. Used(n, m, i, q, p, spent[i][m], spent[i][m], k, l, escaped, escaped)
        BY <2>2, <2>3, <2>5, Still
    <2>7. QED
        BY <1>1, <2>6 DEF Flows, k, l, p, q
<1>8. QED
    BY <1>1, <1>6, <1>7 DEF Worked, WorkInv, p

LEMMA CheckWorked ==
    ASSUME StateInv, WorkInv, NEW r \in Requests, Check(r)
    PROVE  Worked(r)
<1> DEFINE n == deployment
           q == call[r]
           p == call'[r]
           g == GateOf(r)
           ok == g.op = "advise" \/ Allowed(g, Get(count, g.key) + g.ask)
<1>1. /\ q.pc = "gates" /\ g.op # "count"
      /\ spent' = spent /\ escaped' = escaped /\ count' = count
    BY DEF Check, history
<1>2. /\ g = Path(n, q)[q.at] /\ g \in GateSet /\ Passed(r) = Further(n, q)
      /\ Sound(n, q) /\ q \in CallSet /\ Fit(q)
    BY <1>1, GateIs DEF WorkInv
<1>3. p = IF ok THEN Further(n, q) ELSE [q EXCEPT !.pc = "refused"]
    <2>1. call \in [Requests -> CallSet]
        BY DEF StateInv
    <2>2. QED
        BY <1>2, <2>1 DEF Check
<1>4. /\ p \in CallSet /\ p.cred = q.cred /\ p.endpoint = q.endpoint /\ p.images = q.images
      /\ p.pc \in {"gates", "serving", "refused"}
      /\ p.pc = "gates" => p.at = q.at + 1
      /\ p.pc = "serving" => q.at = Len(Path(n, q))
      /\ ~ ok => p.pc = "refused"
    <2> HIDE DEF p, ok
    <2>1. CASE ok
        BY <1>1, <1>2, <1>3, <2>1, FurtherIs
    <2>2. CASE ~ ok
        BY <1>2, <1>3, <2>2 DEF CallSet, PCs
    <2>3. QED
        BY <2>1, <2>2
<1> HIDE DEF p
<1>5. Fit(p)
    BY <1>1, <1>2, <1>4 DEF Fit
<1>6. ASSUME NEW m \in Meters, NEW i \in Clients, Metered(n, m, i) PROVE Flows(r, m, i)
    <2> DEFINE k == Get(count, Key(n, m, i))
    <2>1. DueOf(m, i, p) = 0 /\ DueOf(m, i, q) = 0
        BY <1>1, <1>4, NoDue
    <2>2. Step(r)
        BY DEF Step
    <2>3. /\ k \in Nat /\ spent[i][m] \in Nat
          /\ RoomOf(n, m, i, q) \in Nat /\ RoomOf(n, m, i, p) \in Nat
        BY <1>5, <2>2, Moved DEF p
    <2>4. CASE /\ q.cred.client = i /\ Uses(m, q) /\ Meter(n, m, q, q.at)
               /\ ~ Beyond(n, m, q) /\ ok
        <3>1. g.op = "read" /\ g.key = Key(n, m, i) /\ (m = "images" => g.ask = q.images)
            BY <1>2, <2>4 DEF Meter
        <3>2. g.limit = Ceiling(n, m, i)
            <4>1. OnPath(n, q)
                BY <1>1, <1>2 DEF Sound
            <4>2. Asks(n, q) /\ q.at \in 1 .. Len(Path(n, q))
                BY <4>1 DEF OnPath
            <4>3. QED
                BY <1>2, <2>4, <4>2, MeterLimit
        <3>3. n \in DOMAIN Deployments
            BY DEF StateInv
        <3>4. Ceiling(n, m, i) \in Nat /\ g.ask \in Nat
            BY <1>2, <1>6, <3>3, CeilingIs DEF GateSet
        <3>5. k + g.ask <= Ceiling(n, m, i)
            BY <2>4, <3>1, <3>2, <3>4 DEF Allowed, NoLimit
        <3>6. RoomOf(n, m, i, q) = 0
            BY <2>4 DEF RoomOf, Room
        <3>7. k + RoomOf(n, m, i, p) <= Ceiling(n, m, i) + Slack(m)
            <4>1. CASE m = "tokens"
                <5>1. RoomOf(n, m, i, p) \in 0 .. MostTokens /\ Slack(m) = MostTokens /\ MostTokens \in Nat
                    BY <1>4, <1>5, <4>1, Amounts, MostIs DEF Most, Slack
                <5>2. QED
                    BY <2>3, <3>4, <3>5, <5>1
            <4>2. CASE m = "images"
                <5>1. Slack(m) = 0 /\ (RoomOf(n, m, i, p) = q.images \/ RoomOf(n, m, i, p) = 0)
                    BY <1>4, <4>2 DEF Slack, RoomOf, Room
                <5>2. g.ask = q.images
                    BY <3>1, <4>2
                <5>3. QED
                    BY <2>3, <3>4, <3>5, <5>1, <5>2
            <4>3. QED
                BY <4>1, <4>2 DEF Meters
        <3> HIDE DEF k, q
        <3>8. Admitted(n, m, i, q, p, spent[i][m], spent[i][m], k, k, escaped, escaped)
            BY <2>1, <3>6, <3>7 DEF Admitted
        <3>9. QED
            BY <1>1, <3>8 DEF Flows, k, p, q
    <2>5. CASE ~ (/\ q.cred.client = i /\ Uses(m, q) /\ Meter(n, m, q, q.at)
                  /\ ~ Beyond(n, m, q) /\ ok)
        <3>1. RoomOf(n, m, i, p) <= RoomOf(n, m, i, q)
            <4>1. CASE ok
                BY <1>1, <1>2, <1>4, <1>5, <1>6, <2>5, <4>1, RoomStays
            <4>2. CASE ~ ok
                BY <1>4, <2>3, <4>2, NoRoom
            <4>3. QED
                BY <4>1, <4>2
        <3> HIDE DEF k, q
        <3>2. Used(n, m, i, q, p, spent[i][m], spent[i][m], k, k, escaped, escaped)
            BY <2>1, <2>3, <3>1, Still
        <3>3. QED
            BY <1>1, <3>2 DEF Flows, k, p, q
    <2>6. QED
        BY <2>4, <2>5
<1>7. QED
    BY <1>1, <1>5, <1>6 DEF Worked, WorkInv, p

LEMMA FaultWorked ==
    ASSUME StateInv, WorkInv, NEW r \in Requests, Fault(r)
    PROVE  Worked(r)
<1> DEFINE n == deployment
           q == call[r]
           p == call'[r]
<1>1. q.pc = "gates" /\ spent' = spent /\ call \in [Requests -> CallSet]
      /\ Fit(q) /\ q \in CallSet /\ escaped \in Nat
    BY DEF Fault, StateInv, WorkInv
<1>2. Step(r)
    BY DEF Step
<1>3. CASE call' = [call EXCEPT ![r] = Idle] /\ UNCHANGED escaped
    <2>1. p = Idle /\ Idle.pc = "idle"
        BY <1>1, <1>3, IdleSound
    <2>2. Fit(p)
        BY <2>1 DEF Fit
    <2> HIDE DEF p
    <2>3. ASSUME NEW m \in Meters, NEW i \in Clients PROVE Flows(r, m, i)
        <3> DEFINE k == Get(count, Key(n, m, i))
                   l == Get(count', Key(n, m, i))
        <3>1. DueOf(m, i, p) = 0 /\ DueOf(m, i, q) = 0 /\ RoomOf(n, m, i, p) = 0
            BY <1>1, <2>1, NoDue, NoRoom
        <3>2. /\ k \in Nat /\ l \in Nat /\ k <= l /\ spent[i][m] \in Nat
              /\ RoomOf(n, m, i, q) \in Nat
            BY <1>2, Moved
        <3> HIDE DEF k, l, q
        <3>3. Used(n, m, i, q, p, spent[i][m], spent[i][m], k, l, escaped, escaped)
            BY <3>1, <3>2, Still
        <3>4. QED
            BY <1>1, <1>3, <3>3 DEF Flows, k, l, p, q
    <2>4. QED
        BY <1>1, <1>3, <2>2, <2>3 DEF Worked, WorkInv, p
<1>4. CASE call' = [call EXCEPT ![r].pc = "serving", ![r].at = 1] /\ escaped' = escaped + 1
    <2>1. p = [q EXCEPT !.pc = "serving", !.at = 1]
        BY <1>1, <1>4
    <2>2. p.pc = "serving" /\ p.endpoint = q.endpoint /\ p.images = q.images
        BY <1>1, <2>1 DEF CallSet
    <2> HIDE DEF p
    <2>3. Fit(p)
        BY <1>1, <2>2 DEF Fit
    <2>4. ASSUME NEW m \in Meters, NEW i \in Clients PROVE Flows(r, m, i)
        <3> DEFINE k == Get(count, Key(n, m, i))
                   l == Get(count', Key(n, m, i))
        <3>1. k <= l
            BY <1>2, Moved
        <3> HIDE DEF k, l, q
        <3>2. Escapes(n, m, i, q, p, spent[i][m], spent[i][m], k, l, escaped, escaped + 1)
            BY <3>1 DEF Escapes
        <3>3. QED
            BY <1>1, <1>4, <3>2 DEF Flows, k, l, p, q
    <2>5. QED
        BY <1>1, <1>4, <2>3, <2>4 DEF Worked, WorkInv, p
<1>5. QED
    BY <1>3, <1>4 DEF Fault

LEMMA ChargeWorked ==
    ASSUME StateInv, WorkInv, NEW r \in Requests, NEW N \in 0 .. Len(Charges(call[r])), Charge(r, N)
    PROVE  Worked(r)
<1> DEFINE n == deployment
           q == call[r]
           p == call'[r]
<1>1. q.pc = "charging" /\ spent' = spent /\ call \in [Requests -> CallSet]
      /\ Fit(q) /\ q \in CallSet /\ escaped \in Nat /\ Counting(count)
      /\ count' = Added(count, Sum(q, N)) /\ call' = [call EXCEPT ![r] = Idle]
    BY DEF Charge, StateInv, WorkInv
<1>2. Step(r)
    BY DEF Step
<1>3. p = Idle /\ Idle.pc = "idle"
    BY <1>1, IdleSound
<1>4. Fit(p)
    BY <1>3 DEF Fit
<1> HIDE DEF p
<1>5. CASE N = Len(Charges(q))
    <2>1. escaped' = escaped
        BY <1>5 DEF Charge
    <2>2. ASSUME NEW m \in Meters, NEW i \in Clients PROVE Flows(r, m, i)
        <3> DEFINE k == Get(count, Key(n, m, i))
                   l == Get(count', Key(n, m, i))
        <3>1. DueOf(m, i, p) = 0 /\ RoomOf(n, m, i, p) = 0 /\ RoomOf(n, m, i, q) = 0
            BY <1>1, <1>3, NoDue, NoRoom
        <3>2. /\ k \in Nat /\ l \in Nat /\ k <= l /\ spent[i][m] \in Nat
              /\ DueOf(m, i, q) \in Nat
            BY <1>2, Moved
        <3>3. k + DueOf(m, i, q) <= l
            <4>1. CASE q.cred.client = i /\ Uses(m, q)
                <5>1. DueOf(m, i, q) = Amount(m, q)
                    BY <1>1, <4>1 DEF DueOf, Due
                <5>2. Get(Sum(q, N), Key(n, m, i)) = Amount(m, q)
                    BY <1>1, <1>5, <4>1, ChargePays
                <5>3. Counting(Sum(q, N))
                    BY <1>1, SumCounts
                <5>4. l = k + Amount(m, q)
                    BY <1>1, <5>2, <5>3, AddedIs
                <5> HIDE DEF k, l, q
                <5>5. QED
                    BY <3>2, <5>1, <5>4
            <4>2. CASE ~ (q.cred.client = i /\ Uses(m, q))
                <5>1. DueOf(m, i, q) = 0
                    BY <4>2 DEF DueOf, Due
                <5>2. QED
                    BY <3>2, <5>1
            <4>3. QED
                BY <4>1, <4>2
        <3> HIDE DEF k, l, q
        <3>4. Used(n, m, i, q, p, spent[i][m], spent[i][m], k, l, escaped, escaped)
            <4>1. /\ RoomOf(n, m, i, p) <= RoomOf(n, m, i, q)
                  /\ RoomOf(n, m, i, p) \in Nat /\ RoomOf(n, m, i, q) \in Nat
                  /\ DueOf(m, i, p) \in Nat
                BY <3>1
            <4>2. k + DueOf(m, i, q) <= l + DueOf(m, i, p)
                BY <3>1, <3>2, <3>3
            <4>3. QED
                BY <3>2, <4>1, <4>2, Still
        <3>5. QED
            BY <1>1, <2>1, <3>4 DEF Flows, k, l, p, q
    <2>3. QED
        BY <1>1, <1>4, <2>1, <2>2 DEF Worked, WorkInv, p
<1>6. CASE N # Len(Charges(q))
    <2>1. escaped' = escaped + 1
        BY <1>6 DEF Charge
    <2>2. ASSUME NEW m \in Meters, NEW i \in Clients PROVE Flows(r, m, i)
        <3> DEFINE k == Get(count, Key(n, m, i))
                   l == Get(count', Key(n, m, i))
        <3>1. k <= l
            BY <1>2, Moved
        <3> HIDE DEF k, l, q
        <3>2. Escapes(n, m, i, q, p, spent[i][m], spent[i][m], k, l, escaped, escaped + 1)
            BY <3>1 DEF Escapes
        <3>3. QED
            BY <1>1, <2>1, <3>2 DEF Flows, k, l, p, q
    <2>3. QED
        BY <1>1, <1>4, <2>1, <2>2 DEF Worked, WorkInv, p
<1>7. QED
    BY <1>5, <1>6
LEMMA CompleteWorked ==
    ASSUME StateInv, WorkInv, NEW r \in Requests, Complete(r)
    PROVE  Worked(r)
<1> DEFINE n == deployment
           q == call[r]
           p == call'[r]
<1>1. q.pc = "serving" /\ call \in [Requests -> CallSet]
      /\ Fit(q) /\ q \in CallSet /\ escaped' = escaped /\ escaped \in Nat /\ count' = count
      /\ spent \in [Identities -> [tokens : Nat, images : Nat]]
    BY DEF Complete, StateInv, WorkInv
<1> DEFINE asked == q.images # 0
           T(u) == IF asked THEN 0 ELSE u.in + u.out
           mine == {q.cred.client, q.cred.user}
<1>2. PICK u \in Usage, N \in 0 .. q.images :
          /\ spent' = [i \in Identities |->
                IF i \in mine THEN [tokens |-> spent[i].tokens + T(u), images |-> spent[i].images + N]
                ELSE spent[i]]
          /\ call' = [call EXCEPT ![r] =
                IF T(u) + N = 0 THEN Idle
                ELSE [@ EXCEPT !.pc = "charging", !.images = N, !.in = u.in, !.out = u.out]]
    BY DEF Complete
<1> DEFINE tokens == T(u)
           s == [q EXCEPT !.pc = "charging", !.images = N, !.in = u.in, !.out = u.out]
<1>3. u.in \in Nat /\ u.out \in Nat /\ u.in + u.out \in 0 .. MostTokens /\ N \in Nat /\ N <= q.images
      /\ q.images \in Nat /\ tokens \in Nat
    BY <1>1, LimitsAssumption, MostIs DEF CallSet
<1>4. p = IF tokens + N = 0 THEN Idle ELSE s
    BY <1>1, <1>2
<1>5. /\ s.pc = "charging" /\ s.images = N /\ s.in = u.in /\ s.out = u.out
      /\ s.endpoint = q.endpoint /\ s.cred = q.cred
    BY <1>1 DEF CallSet
<1>6. IF q.endpoint = "images" THEN q.images \in Batch /\ q.images # 0 ELSE q.images = 0
    BY <1>1, LimitsAssumption DEF Fit
<1>7. IF q.endpoint = "images" THEN tokens = 0 /\ N <= MostImages
      ELSE N = 0 /\ tokens = u.in + u.out
    BY <1>3, <1>6, MostIs
<1>8. Idle.pc = "idle"
    BY IdleSound
<1> HIDE DEF tokens, s, T, asked
<1>9. Fit(p)
    <2>1. Fit(s)
        BY <1>3, <1>5, <1>7 DEF Fit
    <2>2. Fit(Idle)
        BY <1>8 DEF Fit
    <2>3. QED
        BY <1>4, <2>1, <2>2
<1>10. spent' \in [Identities -> [tokens : Nat, images : Nat]]
    <2>1. ASSUME NEW i \in Identities PROVE spent'[i] \in [tokens : Nat, images : Nat]
        <3>1. spent[i] \in [tokens : Nat, images : Nat]
            BY <1>1, <2>1
        <3>2. spent'[i] = IF i \in mine THEN [tokens |-> spent[i].tokens + tokens, images |-> spent[i].images + N]
                          ELSE spent[i]
            BY <1>2, <2>1 DEF tokens
        <3>3. spent[i].tokens + tokens \in Nat /\ spent[i].images + N \in Nat
            BY <1>3, <3>1
        <3>4. QED
            BY <3>1, <3>2, <3>3
    <2>2. spent' = [i \in Identities |-> spent'[i]]
        BY <1>2
    <2>3. QED
        BY <2>1, <2>2
<1> HIDE DEF p
<1>11. Step(r)
    BY DEF Step
<1>12. ASSUME NEW m \in Meters, NEW i \in Clients, Metered(n, m, i) PROVE Flows(r, m, i)
    <2> DEFINE k == Get(count, Key(n, m, i))
               a == IF q.cred.client = i THEN (IF m = "tokens" THEN tokens ELSE N) ELSE 0
    <2>1. k \in Nat /\ spent[i][m] \in Nat /\ RoomOf(n, m, i, q) \in Nat
        BY <1>11, Moved
    <2>2. a \in Nat
        BY <1>3
    <2>3. spent'[i][m] = spent[i][m] + a
        <3>1. i \in Identities /\ spent[i] \in [tokens : Nat, images : Nat]
            BY <1>1, SpentNat
        <3>2. CASE q.cred.client = i
            <4>1. spent'[i] = [tokens |-> spent[i].tokens + tokens, images |-> spent[i].images + N]
                BY <1>2, <3>1, <3>2 DEF tokens
            <4>2. QED
                BY <3>2, <4>1 DEF Meters
        <3>3. CASE q.cred.client # i
            <4>1. PICK c \in Creds : i = c.client
                BY DEF Clients
            <4>2. q.cred \in Creds
                BY <1>1 DEF CallSet
            <4>3. i \notin mine
                BY <3>3, <4>1, <4>2, LimitsAssumption
            <4>4. spent'[i] = spent[i]
                BY <1>2, <3>1, <4>3
            <4>5. QED
                BY <2>1, <3>3, <4>4
        <3>4. QED
            BY <3>2, <3>3
    <2>4. DueOf(m, i, q) = 0 /\ RoomOf(n, m, i, p) = 0
        BY <1>1, <1>4, <1>5, <1>8, NoDue, NoRoom
    <2>5. a <= RoomOf(n, m, i, q) /\ a <= DueOf(m, i, p)
        <3>1. CASE q.cred.client = i /\ Uses(m, q)
            <4>1. Beyond(n, m, q)
                BY <1>1 DEF Beyond
            <4>2. RoomOf(n, m, i, q) = IF m = "tokens" THEN MostTokens ELSE q.images
                BY <3>1, <4>1 DEF RoomOf, Room
            <4>3. a <= RoomOf(n, m, i, q)
                BY <1>3, <1>7, <3>1, <4>2 DEF Uses, Meters
            <4>4. CASE tokens + N = 0
                <5>1. a = 0 /\ DueOf(m, i, p) = 0
                    BY <1>3, <1>4, <1>8, <4>4, NoDue
                <5>2. QED
                    BY <4>3, <5>1
            <4>5. CASE tokens + N # 0
                <5>1. p = s
                    BY <1>4, <4>5
                <5>2. DueOf(m, i, p) = Amount(m, s)
                    BY <1>5, <3>1, <5>1 DEF DueOf, Due, Uses
                <5>3. Amount(m, s) = a
                    BY <1>5, <1>7, <3>1 DEF Amount, Uses, Meters
                <5>4. QED
                    BY <2>2, <4>3, <5>2, <5>3
            <4>6. QED
                BY <4>4, <4>5
        <3>2. CASE ~ (q.cred.client = i /\ Uses(m, q))
            <4>1. a = 0
                BY <1>7, <3>2 DEF Uses, Meters
            <4>2. DueOf(m, i, p) \in Nat
                BY <1>9, <1>11, Moved DEF p
            <4>3. QED
                BY <2>1, <4>1, <4>2
        <3>3. QED
            BY <3>1, <3>2
    <2>5a. DueOf(m, i, p) \in Nat
        BY <1>9, <1>11, Moved DEF p
    <2> HIDE DEF k, q, a
    <2>6. Used(n, m, i, q, p, spent[i][m], spent'[i][m], k, k, escaped, escaped)
        <3>1. RoomOf(n, m, i, p) + a <= RoomOf(n, m, i, q) /\ k + DueOf(m, i, q) + a <= k + DueOf(m, i, p)
            BY <2>1, <2>2, <2>4, <2>5, <2>5a
        <3>2. QED
            BY <2>2, <2>3, <3>1 DEF Used
    <2>7. QED
        BY <1>1, <2>6 DEF Flows, k, p, q
<1>13. QED
    BY <1>1, <1>9, <1>10, <1>12 DEF Worked, p

LEMMA StepWorked ==
    ASSUME StateInv, WorkInv, NEW r \in Requests, Step(r)
    PROVE  Worked(r)
BY ArriveWorked, CountWorked, CheckWorked, FaultWorked, CompleteWorked, ChargeWorked DEF Step

-----------------------------------------------------------------------------
(* The invariants of the meters.                                           *)

LEMMA EmptyMeters ==
    ASSUME NEW n \in DOMAIN Deployments, NEW m \in Meters, NEW i \in Clients, Metered(n, m, i),
           NEW c \in [Requests -> CallSet], \A r \in Requests : Fit(c[r]), NEW k \in Nat
    PROVE  Recorded(m, i, c, 0, k, 0) /\ Roomy(n, m, i, c, 0, 0)
<1> DEFINE M == Most(m)
           D == Dues(m, i, c)
           R == Rooms(n, m, i, c)
           total == Cardinality(Requests) * M
<1>1. M \in Nat /\ Slack(m) \in 0 .. M /\ Ceiling(n, m, i) \in Nat
      /\ M <= Ceiling(n, m, i) + Slack(m)
    BY MostIs, CeilingIs
<1>2. D \in Upto(M) /\ R \in Upto(M)
    BY Amounts DEF Dues, Rooms, Upto
<1>3. Size(D) \in Nat /\ Size(R) \in Nat /\ Size(R) <= total
    BY <1>1, <1>2, BagFinite, BagAll
<1>4. total \in Nat
    <2>1. Cardinality(Requests) \in Nat
        BY LimitsAssumption, FS_CardinalityType
    <2>2. QED
        BY <1>1, <2>1
<1>5. 0 * M = 0
    BY <1>1
<1>6. Recorded(m, i, c, 0, k, 0) <=> 0 <= k + Size(D) + 0 * M
    BY DEF Recorded
<1>7. Roomy(n, m, i, c, 0, 0) <=> 0 + Size(R) + M <= Ceiling(n, m, i) + Slack(m) + total + 0 * M
    BY DEF Roomy
<1> HIDE DEF D, R, total, M
<1>8. QED
    BY <1>1, <1>3, <1>4, <1>5, <1>6, <1>7

LEMMA MeterStep ==
    ASSUME StateInv, WorkInv, MeterInv, NEW r \in Requests, Step(r), StateInv'
    PROVE  WorkInv' /\ MeterInv'
<1> DEFINE n == deployment
           p == call'[r]
<1>1. Worked(r)
    BY StepWorked
<1>2. PICK x : Becomes(r, x)
    BY StepBecomes
<1>3. call' = [call EXCEPT ![r] = p] /\ p \in CallSet /\ deployment' = n
      /\ call \in [Requests -> CallSet] /\ n \in DOMAIN Deployments
    BY <1>2 DEF Becomes, Sound, StateInv
<1>4. Fit(p) /\ \A q \in Requests : Fit(call[q])
    BY <1>1 DEF Worked, WorkInv
<1>5. WorkInv'
    <2>1. \A q \in Requests : call'[q] = IF q = r THEN p ELSE call[q]
        BY <1>3
    <2> HIDE DEF p
    <2>2. QED
        BY <1>1, <1>4, <2>1 DEF Worked, WorkInv
<1>6. ASSUME NEW m \in Meters, NEW i \in Clients, Metered(n, m, i)
      PROVE  /\ Recorded(m, i, call', spent'[i][m], Get(count', Key(n, m, i)), escaped')
             /\ Roomy(n, m, i, call', spent'[i][m], escaped')
    <2> DEFINE k == Get(count, Key(n, m, i))
               l == Get(count', Key(n, m, i))
               s == spent[i][m]
               u == spent'[i][m]
    <2>1. k \in Nat /\ l \in Nat
        BY <1>2, CountGrows
    <2>2. s \in Nat /\ u \in Nat /\ escaped \in Nat /\ escaped' \in Nat
        BY <1>1, SpentNat DEF Worked, WorkInv
    <2>3. \/ Used(n, m, i, call[r], p, s, u, k, l, escaped, escaped')
          \/ Escapes(n, m, i, call[r], p, s, u, k, l, escaped, escaped')
          \/ Admitted(n, m, i, call[r], p, s, u, k, l, escaped, escaped')
        BY <1>1, <1>6 DEF Worked, Flows
    <2>4. Recorded(m, i, call, s, k, escaped) /\ Roomy(n, m, i, call, s, escaped)
        BY <1>6 DEF MeterInv
    <2> DEFINE d == [call EXCEPT ![r] = p]
    <2> HIDE DEF k, l, s, u, p
    <2>5. Recorded(m, i, d, u, l, escaped') /\ Roomy(n, m, i, d, u, escaped')
        BY <1>3, <1>4, <1>6, <2>1, <2>2, <2>3, <2>4, FlowHolds
    <2>6. call' = d
        BY <1>3
    <2> HIDE DEF d
    <2>7. QED
        BY <2>5, <2>6 DEF l, u
<1>7. MeterInv'
    BY <1>3, <1>6 DEF MeterInv
<1>8. QED
    BY <1>5, <1>7

LEMMA MeterTick ==
    ASSUME StateInv, WorkInv, Tick, StateInv'
    PROVE  WorkInv' /\ MeterInv'
<1>1. deployment' = deployment /\ escaped' = 0
      /\ spent' = [i \in Identities |-> [tokens |-> 0, images |-> 0]]
    BY DEF Tick
<1>2. spent' \in [Identities -> [tokens : Nat, images : Nat]]
    BY <1>1
<1>3. \A r \in Requests : Fit(call'[r])
    <2>1. ASSUME NEW r \in Requests PROVE Fit(call'[r])
        <3>1. Fit(call[r]) /\ call[r] \in CallSet
            BY DEF WorkInv, StateInv
        <3>2. call'[r] = [call[r] EXCEPT !.hit = Lasting(call[r].hit)]
            BY DEF Tick
        <3>3. /\ call'[r].pc = call[r].pc /\ call'[r].endpoint = call[r].endpoint
              /\ call'[r].images = call[r].images /\ call'[r].in = call[r].in /\ call'[r].out = call[r].out
            BY <3>1, <3>2 DEF CallSet
        <3>4. QED
            BY <3>1, <3>3 DEF Fit
    <2>2. QED
        BY <2>1
<1>4. deployment' \in DOMAIN Deployments /\ call' \in [Requests -> CallSet] /\ Counting(count')
    BY DEF StateInv
<1>5. ASSUME NEW m \in Meters, NEW i \in Clients, Metered(deployment', m, i)
      PROVE  /\ Recorded(m, i, call', spent'[i][m], Get(count', Key(deployment', m, i)), escaped')
             /\ Roomy(deployment', m, i, call', spent'[i][m], escaped')
    <2>1. spent'[i][m] = 0
        <3>1. i \in Identities
            BY <1>2, SpentNat
        <3>2. spent'[i] = [tokens |-> 0, images |-> 0]
            BY <1>1, <3>1
        <3>3. QED
            BY <3>2 DEF Meters
    <2>2. Get(count', Key(deployment', m, i)) \in Nat
        BY <1>4, GetNat
    <2>3. QED
        BY <1>1, <1>3, <1>4, <1>5, <2>1, <2>2, EmptyMeters
<1>6. QED
    BY <1>1, <1>2, <1>3, <1>5 DEF WorkInv, MeterInv

LEMMA MeterInit == Init => WorkInv /\ MeterInv
<1> SUFFICES ASSUME Init PROVE WorkInv /\ MeterInv
    OBVIOUS
<1>1. StateInv
    BY StateInit
<1>2. escaped = 0 /\ spent = [i \in Identities |-> [tokens |-> 0, images |-> 0]]
      /\ call = [r \in Requests |-> Idle]
    BY DEF Init
<1>3. \A r \in Requests : Fit(call[r])
    BY <1>2, IdleSound DEF Fit
<1>4. spent \in [Identities -> [tokens : Nat, images : Nat]]
    BY <1>2
<1>5. ASSUME NEW m \in Meters, NEW i \in Clients, Metered(deployment, m, i)
      PROVE  /\ Recorded(m, i, call, spent[i][m], Get(count, Key(deployment, m, i)), escaped)
             /\ Roomy(deployment, m, i, call, spent[i][m], escaped)
    <2>1. spent[i][m] = 0
        <3>1. i \in Identities
            BY <1>4, SpentNat
        <3>2. spent[i] = [tokens |-> 0, images |-> 0]
            BY <1>2, <3>1
        <3>3. QED
            BY <3>2 DEF Meters
    <2>2. deployment \in DOMAIN Deployments /\ call \in [Requests -> CallSet]
          /\ Get(count, Key(deployment, m, i)) \in Nat
        BY <1>1, GetNat DEF StateInv
    <2>3. QED
        BY <1>2, <1>3, <1>5, <2>1, <2>2, EmptyMeters
<1>6. QED
    BY <1>2, <1>3, <1>4, <1>5 DEF WorkInv, MeterInv

AllInv == StateInv /\ FairInv /\ WorkInv /\ MeterInv

LEMMA AllNext == AllInv /\ [Next]_vars => AllInv'
<1> SUFFICES ASSUME AllInv, [Next]_vars PROVE AllInv'
    OBVIOUS
<1>1. StateInv' /\ FairInv'
    BY StateNext DEF AllInv
<1>2. CASE Tick
    BY <1>1, <1>2, MeterTick DEF AllInv
<1>3. ASSUME NEW r \in Requests, Step(r) PROVE AllInv'
    BY <1>1, <1>3, MeterStep DEF AllInv
<1>4. CASE UNCHANGED vars
    <2>1. WorkInv' /\ MeterInv'
        BY <1>4 DEF AllInv, vars, history, WorkInv, MeterInv
    <2>2. QED
        BY <1>1, <2>1 DEF AllInv
<1>5. QED
    BY <1>2, <1>3, <1>4 DEF Next

LEMMA Overshoot == AllInv => OvershootBounded
<1> SUFFICES ASSUME AllInv, NEW c \in Creds
             PROVE  LET d   == Deployments[deployment]
                        t   == TierOf(d, c.client)
                        ipm == Or(t.ipm, d.limits.ipm)
                        n   == Cardinality(Requests) + escaped
                    IN  /\ spent[c.client].tokens <= ClientTpm(d, t) + n * MostTokens
                        /\ ipm # NoLimit /\ MostImages <= ipm =>
                              spent[c.client].images <= ipm + (n - 1) * MostImages
    BY DEF OvershootBounded
<1> DEFINE i == c.client
           d == Deployments[deployment]
           t == TierOf(d, i)
           ipm == Or(t.ipm, d.limits.ipm)
           N == Cardinality(Requests)
<1>1. /\ deployment \in DOMAIN Deployments /\ call \in [Requests -> CallSet] /\ escaped \in Nat
      /\ \A r \in Requests : Fit(call[r])
    BY DEF AllInv, StateInv, WorkInv
<1>2. i \in Clients /\ N \in Nat
    BY LimitsAssumption, FS_CardinalityType DEF Clients
<1>3. \A m \in Meters : spent[i][m] \in Nat
    BY <1>2, SpentNat DEF AllInv, WorkInv
<1>4. ASSUME NEW m \in Meters, Metered(deployment, m, i)
      PROVE  spent[i][m] + Most(m) <= Ceiling(deployment, m, i) + Slack(m) + N * Most(m) + escaped * Most(m)
             /\ Ceiling(deployment, m, i) \in Nat
    <2> DEFINE R == Rooms(deployment, m, i, call)
               A == Ceiling(deployment, m, i) + Slack(m) + N * Most(m) + escaped * Most(m)
    <2>1. Most(m) \in Nat /\ Slack(m) \in Nat
        BY MostIs
    <2>2. R \in Upto(Most(m))
        BY <1>1, Amounts DEF Rooms, Upto
    <2>3. Size(R) \in Nat
        BY <2>1, <2>2, BagFinite
    <2>4. spent[i][m] + Size(R) + Most(m) <= A
        BY <1>2, <1>4 DEF AllInv, MeterInv, Roomy
    <2>5. Ceiling(deployment, m, i) \in Nat
        BY <1>1, <1>2, <1>4, CeilingIs
    <2>6. N * Most(m) \in Nat /\ escaped * Most(m) \in Nat
        BY <1>1, <1>2, <2>1
    <2>7. A \in Nat
        BY <2>1, <2>5, <2>6
    <2> HIDE DEF R, A
    <2>8. spent[i][m] + Most(m) <= A
        BY <1>3, <2>1, <2>3, <2>4, <2>7
    <2>9. QED
        BY <2>5, <2>8 DEF A
<1>5. MostTokens \in Nat /\ MostImages \in Nat
    BY MostIs
<1>6. spent[i].tokens <= ClientTpm(d, t) + (N + escaped) * MostTokens
    <2>1. Metered(deployment, "tokens", i) /\ "tokens" \in Meters
        BY DEF Metered, Meters
    <2>2. /\ spent[i].tokens + MostTokens <= ClientTpm(d, t) + MostTokens + N * MostTokens + escaped * MostTokens
          /\ ClientTpm(d, t) \in Nat /\ spent[i].tokens \in Nat
        BY <1>3, <1>4, <2>1 DEF Most, Slack, Ceiling
    <2>3. (N + escaped) * MostTokens = N * MostTokens + escaped * MostTokens
        BY <1>1, <1>2, <1>5
    <2>4. N * MostTokens \in Nat /\ escaped * MostTokens \in Nat
        BY <1>1, <1>2, <1>5
    <2> HIDE DEF N, t, d, i
    <2>5. QED
        BY <1>5, <2>2, <2>3, <2>4
<1>7. ipm # NoLimit /\ MostImages <= ipm
          => spent[i].images <= ipm + ((N + escaped) - 1) * MostImages
    <2> SUFFICES ASSUME ipm # NoLimit, MostImages <= ipm
                 PROVE  spent[i].images <= ipm + ((N + escaped) - 1) * MostImages
        OBVIOUS
    <2>1. Metered(deployment, "images", i) /\ "images" \in Meters
        BY DEF Metered, Meters, Ceiling
    <2>2. /\ spent[i].images + MostImages <= ipm + 0 + N * MostImages + escaped * MostImages
          /\ ipm \in Nat /\ spent[i].images \in Nat
        BY <1>3, <1>4, <2>1 DEF Most, Slack, Ceiling
    <2>3. ((N + escaped) - 1) * MostImages + MostImages = N * MostImages + escaped * MostImages
        BY <1>1, <1>2, <1>5
    <2>4. /\ N * MostImages \in Nat /\ escaped * MostImages \in Nat
          /\ ((N + escaped) - 1) * MostImages \in Int
        BY <1>1, <1>2, <1>5
    <2> HIDE DEF N, ipm, i
    <2>5. QED
        BY <1>5, <2>2, <2>3, <2>4
<1>8. QED
    BY <1>6, <1>7, Zenon

\* Whatever runs at once and whatever Redis errors do, a client overshoots its
\* ceiling of tokens by no more than the largest answer for each request under
\* way or let through, and that of images by one less.
THEOREM OvershootIsBounded == Spec => []OvershootBounded
<1>1. Init => AllInv
    BY StateInit, MeterInit DEF AllInv
<1>2. AllInv /\ [Next]_vars => AllInv'
    BY AllNext
<1>3. AllInv => OvershootBounded
    BY Overshoot
<1>4. QED
    BY <1>1, <1>2, <1>3, PTL DEF Spec
=============================================================================
