------------------------------ MODULE Services ------------------------------
(***************************************************************************)
(* The components that share no state with one another, side by side. Any  *)
(* two of their steps commute, so a behaviour is one of one component, its *)
(* focus, and the states are the sum of theirs. The component's variables  *)
(* are s1, s2, ...; those it does not have are 0. Where components have a  *)
(* constant of one name it is one constant, unless it is renamed here.     *)
(***************************************************************************)
EXTENDS Integers, Sequences, FiniteSets

CONSTANTS
    \* Jwks
    Workers, Requests, L1TTL, L2TTL, Interval, Delay, MaxRotations, MaxFaults,
    \* Credentials and ShareLinks
    Admins, Grants, TTLs, FirstTTL, Leeway, End, MaxOps, Links, Views, ShareAdmins,
    \* LoginThrottle
    Attempts, Identities, Addresses, MaxOf, Window,
    \* Fleet and Downloads
    Tasks, Urls, TTL, Shards, Chunks, Generations, Checksum,
    \* Settings and Tiers
    Kinds, Values, MinAdmin, TierNames, Caps,
    \* Ledger
    Recorders, Writers, Jobs, Rates, Base, FileRate, MaxEvents, MaxBookings,
    \* RegistryUpgrade
    Processes, Old, Later, Identity, Slots, MaxCrashes,
    \* SchemaChain and GatewaySchema
    Original, AddedColumns, Migrations, MaxBoots, Early, MaxStarts

VARIABLES focus, s1, s2, s3, s4, s5, s6, s7, s8, s9, s10, s11, s12

vars == <<focus, s1, s2, s3, s4, s5, s6, s7, s8, s9, s10, s11, s12>>

Keys == INSTANCE Jwks WITH
    key <- s1, since <- s2, l1 <- s3, l2 <- s4, forced <- s5, req <- s6, faults <- s7

Clients == INSTANCE Credentials WITH
    now <- s1, row <- s2, revoked <- s3, admin <- s4, grant <- s5, tokens <- s6, ops <- s7,
    faults <- s8, excuse <- s9

Shares == INSTANCE ShareLinks WITH
    Admins <- ShareAdmins, link <- s1, view <- s2, admin <- s3, excuse <- s4

Logins == INSTANCE LoginThrottle WITH failures <- s1, attempt <- s2, promise <- s3

Nodes == INSTANCE Fleet WITH
    row <- s1, task <- s2, sweep <- s3, beat <- s4, up <- s5, word <- s6, of <- s7,
    races <- s8, ops <- s9

Files == INSTANCE Downloads WITH
    catalog <- s1, file <- s2, list <- s3, state <- s4, task <- s5, deleting <- s6,
    ops <- s7, excuse <- s8

Config == INSTANCE Settings WITH
    env <- s1, row <- s2, live <- s3, admin <- s4, ops <- s5, named <- s6, races <- s7

Plans == INSTANCE Tiers WITH
    Names <- TierNames,
    client <- s1, tiers <- s2, cached <- s3, req <- s4, admin <- s5, ops <- s6, moved <- s7

Books == INSTANCE Ledger WITH
    Requests <- Recorders, MaxOps <- MaxBookings,
    row <- s1, live <- s2, events <- s3, daily <- s4, req <- s5, writer <- s6, job <- s7,
    writes <- s8, ops <- s9, legacy <- s10, mixed <- s11, crossed <- s12

Upgrade == INSTANCE RegistryUpgrade WITH
    dir <- s1, file <- s2, proc <- s3, crashes <- s4, known <- s5, overlap <- s6, stale <- s7

Chain == INSTANCE SchemaChain WITH
    table <- s1, version <- s2, pc <- s3, had <- s4, boots <- s5, orphan <- s6

Gateway == INSTANCE GatewaySchema WITH
    MaxBoots <- MaxStarts,
    disk <- s1, work <- s2, tx <- s3, pc <- s4, op <- s5, owed <- s6, lost <- s7, boots <- s8

ASSUME ServicesAssumption ==
    /\ Workers # {} /\ {L1TTL, L2TTL, Delay} \subseteq Nat
    /\ TTLs \subseteq Nat /\ FirstTTL \in TTLs /\ Leeway \in Nat
    /\ TTL \in Nat /\ Nodes!None \notin Tasks
    \* A budget of none would have retry_after look for the oldest of no failures.
    /\ IsFiniteSet(Attempts) /\ Window \in Nat \ {0}
    /\ MaxOf \in [Identities \cup Addresses -> Nat \ {0}]
    /\ Kinds \subseteq {"limits", "breaker", "split"} /\ Values \subseteq Nat /\ MinAdmin \in Nat
    /\ Plans!Gone \notin Caps
    \* A download has files, of chunks that are numbered, and a list of their states.
    /\ Shards \in Nat /\ Chunks \in Nat /\ Generations \in Nat \ {0}
    \* No price is below 0.
    /\ Rates \subseteq Nat /\ Base \in Nat /\ FileRate \in Nat \cup {Books!None}
    \* Files are numbered; the first may be there already.
    /\ Slots \subseteq Nat \ {0} /\ 1 \in Slots
    \* A database from before Alembic has tables of the baseline.
    /\ \A S \in Early : \A t \in S : Gateway!Table(t) \in Gateway!Elements(Gateway!Baseline.does)
    \* Each migration is written for the shape that those before it leave, which
    \* has columns, among them those that are added without a migration.
    /\ Migrations \in Seq(Chain!Elements(Migrations))
    /\ AddedColumns \in Seq(Chain!Elements(AddedColumns))
    /\ Original # {}
    /\ \A n \in 0 .. Len(Migrations) :
          /\ Chain!Shape[n] # {} /\ Chain!Elements(AddedColumns) \subseteq Chain!Shape[n]
          /\ n < Len(Migrations) =>
                /\ Migrations[n + 1].drops \subseteq Chain!Shape[n]
                /\ Migrations[n + 1].adds \cap Chain!Shape[n] = {}

Off9 == s10 = 0 /\ s11 = 0 /\ s12 = 0
Off8 == s9 = 0 /\ Off9
Off7 == s8 = 0 /\ Off8
Off4 == s5 = 0 /\ s6 = 0 /\ s7 = 0 /\ Off7
Off3 == s4 = 0 /\ Off4

Init ==
    \/ focus = "keys" /\ Keys!Init /\ Off7
    \/ focus = "clients" /\ Clients!Init /\ Off9
    \/ focus = "shares" /\ Shares!Init /\ Off4
    \/ focus = "logins" /\ Logins!Init /\ Off3
    \/ focus = "nodes" /\ Nodes!Init /\ Off9
    \/ focus = "files" /\ Files!Init /\ Off8
    \/ focus = "config" /\ Config!Init /\ Off7
    \/ focus = "plans" /\ Plans!Init /\ Off7
    \/ focus = "books" /\ Books!Init
    \/ focus = "upgrade" /\ Upgrade!Init /\ Off7
    \/ focus = "chain" /\ Chain!Init /\ s7 = 0 /\ Off7
    \/ focus = "head" /\ Gateway!Init /\ Off8

Same9 == UNCHANGED <<focus, s10, s11, s12>>
Same8 == UNCHANGED s9 /\ Same9
Same7 == UNCHANGED s8 /\ Same8
Same4 == UNCHANGED <<s5, s6, s7>> /\ Same7
Same3 == UNCHANGED s4 /\ Same4

Next ==
    \/ focus = "keys" /\ Keys!Next /\ Same7
    \/ focus = "clients" /\ Clients!Next /\ Same9
    \/ focus = "shares" /\ Shares!Next /\ Same4
    \/ focus = "logins" /\ Logins!Next /\ Same3
    \/ focus = "nodes" /\ Nodes!Next /\ Same9
    \/ focus = "files" /\ Files!Next /\ Same8
    \/ focus = "config" /\ Config!Next /\ Same7
    \/ focus = "plans" /\ Plans!Next /\ Same7
    \/ focus = "books" /\ Books!Next /\ UNCHANGED focus
    \/ focus = "upgrade" /\ Upgrade!Next /\ Same7
    \/ focus = "chain" /\ Chain!Next /\ UNCHANGED s7 /\ Same7
    \/ focus = "head" /\ Gateway!Next /\ Same8

Spec == Init /\ [][Next]_vars

(* Each component's property, which its module states. *)
\* See Jwks: a rotated key is refused by no worker for long (auth/jwks.py).
RotationSettles == focus = "keys" => Keys!RotationSettles
\* See Credentials: a revoked client's tokens are refused (routers/admin.py).
RevocationHolds == focus = "clients" => Clients!RevocationHolds
\* See ShareLinks: a credential is shown once (routers/share.py).
ShownOnce == focus = "shares" => Shares!ShownOnce
\* See LoginThrottle: a budget of failures is kept (login_throttle.py).
BudgetHolds == focus = "logins" => Logins!BudgetHolds
\* See Fleet: what the operator said of a node stands (fleet_routes.py).
OperatorsWord == focus = "nodes" => Nodes!OperatorsWord
\* See Downloads: what is said to be downloaded is whole (discovery.py).
DownloadsSound == focus = "files" => Files!DownloadsSound
\* See Settings: a restart brings back what was saved (admin/router.py).
SettingsHold == focus = "config" => Config!SettingsHold
\* See Tiers: no client is on a tier that is gone (billing_router.py).
TiersStand == focus = "plans" => Plans!TiersStand
\* See Ledger: rollup, events and prices agree (db.record_usage).
LedgerAgrees == focus = "books" => Books!LedgerAgrees
\* See RegistryUpgrade: an interrupted upgrade is taken up again (registry.py).
UpgradeSound == focus = "upgrade" => Upgrade!UpgradeSound
\* See SchemaChain: migrations meet the table they are for (schema.py).
SchemaSound == focus = "chain" => Chain!SchemaSound
\* See GatewaySchema: a start brings the database to head (db.py).
TablesAtHead == focus = "head" => Gateway!TablesAtHead
=============================================================================
