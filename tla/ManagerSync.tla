----------------------------- MODULE ManagerSync -----------------------------
(***************************************************************************)
(* The catalogue of the gateway (models/manager_sync.py): one task asks    *)
(* the fleet coordinator for the nodes and every node for its backends,    *)
(* with a blocking query that the node holds until its registry changes,   *)
(* composes the catalogue, saves it, and goes round again. A node, the     *)
(* coordinator and the auth service may be down; the gateway may restart.  *)
(*                                                                         *)
(* A node's registry is its version; what it serves at a version is a      *)
(* constant. An action is what runs between two awaits.                    *)
(***************************************************************************)
EXTENDS Integers, Sequences, FiniteSets

CONSTANTS
    Nodes,
    Order,      \* the nodes in the order the coordinator lists them
    Ids,        \* instance ids
    Report,     \* per node and version: the ids /v1/backends has
    Local,      \* nodes whose backends are on a loopback or container address
    Old,        \* nodes that may be of a release without X-Registry-Index
    MaxVersion, \* bound: changes at a node
    MaxFaults   \* bound: outages, restarts and changes of the fleet's list

ASSUME SyncAssumption ==
    /\ Order \in Seq(Nodes) /\ \A n \in Nodes : \E k \in DOMAIN Order : Order[k] = n
    \* The id is the primary key of the coordinator's nodes (fleet.py).
    /\ \A k, l \in DOMAIN Order : Order[k] = Order[l] => k = l
    /\ MaxVersion \in Nat /\ MaxFaults \in Nat
    /\ Report \in [Nodes -> [0 .. MaxVersion -> SUBSET Ids]]
    /\ Local \subseteq Nodes /\ Old \subseteq Nodes

VARIABLES
    \* the world
    truth,      \* per node: the version of its registry
    up,         \* the nodes that answer
    fleet,      \* the nodes the coordinator lists
    fleetUp,    \* the coordinator answers
    authUp,     \* the auth service answers
    old,        \* nodes that send no X-Registry-Index
    faults,     \* faults so far
    saved,      \* manager_catalog_snapshot: per node a version, or Unheard
    \* the gateway's process
    pc,         \* where _sync and _poll_loop are
    booting,    \* the first _sync, called by start
    nodes,      \* _nodes
    fetched,    \* _nodes_ever_fetched
    index,      \* _node_index: per node a version, or Unheard
    held,       \* _held_last_request
    blocking,   \* _blocking_supported
    ask,        \* per node: its request in this cycle
    good,       \* _last_good and _raw_last_good, per node
    catalog,    \* registry._models: per id the node and version it comes from
    \* history
    shown,      \* the nodes the catalogue was composed of
    stale,      \* those of them that were not heard this time
    waited,     \* a request of this cycle was held
    excused     \* this cycle had no token, or no node to ask

world == <<truth, up, fleet, fleetUp, authUp, old, faults>>
known == <<nodes, fetched, index, held, blocking>>
served == <<good, catalog, shown, stale>>
cycle == <<ask, waited, excused>>
vars == <<world, saved, pc, booting, known, served, cycle>>

Unheard == -1
Versions == Unheard .. MaxVersion

\* A request that is out carries an index or not; it fails, or brings a version.
Asking(blocks) == [is |-> "asking", blocks |-> blocks, version |-> Unheard]
NotAsked == [is |-> "none", blocks |-> FALSE, version |-> Unheard]
Failed == [is |-> "failed", blocks |-> FALSE, version |-> Unheard]
Answered(v) == [is |-> "answered", blocks |-> FALSE, version |-> v]

\* _last_good of a node: its ids, the version they are of, and whether
\* _to_model_entry trusted its host.
Nothing == [ids |-> {}, version |-> Unheard, trusted |-> FALSE]

TypeOK ==
    /\ truth \in [Nodes -> 0 .. MaxVersion]
    /\ up \subseteq Nodes /\ fleet \subseteq Nodes
    /\ old \subseteq Old
    /\ fleetUp \in BOOLEAN /\ authUp \in BOOLEAN /\ faults \in 0 .. MaxFaults
    /\ saved \in [Nodes -> Versions]
    /\ pc \in {"refresh", "fetch", "save", "pause"}
    /\ booting \in BOOLEAN
    /\ nodes \subseteq Nodes /\ fetched \in BOOLEAN
    /\ index \in [Nodes -> Versions]
    /\ held \in BOOLEAN /\ blocking \in BOOLEAN
    /\ \A n \in Nodes : ask[n] \in
          {Asking(TRUE), Asking(FALSE), NotAsked, Failed}
          \cup {Answered(v) : v \in 0 .. MaxVersion}
    /\ \A n \in Nodes :
          /\ good[n].ids \subseteq Ids /\ good[n].version \in Versions
          /\ good[n].trusted \in BOOLEAN
    /\ DOMAIN catalog \subseteq Ids
    /\ \A i \in DOMAIN catalog :
          /\ catalog[i].node \in Nodes /\ catalog[i].trusted \in BOOLEAN
          /\ catalog[i].version \in 0 .. MaxVersion
    /\ shown \subseteq Nodes /\ stale \subseteq shown
    /\ waited \in BOOLEAN /\ excused \in BOOLEAN

-----------------------------------------------------------------------------
(* The process, and the refresh of the node list. *)

\* A process that has just started, with no catalogue: registry.yaml's models
\* are dropped.
Started ==
    /\ pc' = "refresh" /\ booting' = TRUE
    /\ nodes' = {} /\ fetched' = FALSE
    /\ index' = [n \in Nodes |-> Unheard]
    /\ held' = FALSE /\ blocking' = TRUE
    /\ ask' = [n \in Nodes |-> NotAsked]
    /\ good' = [n \in Nodes |-> Nothing]
    /\ catalog' = [i \in {} |-> {}]
    /\ shown' = {} /\ stale' = {}
    /\ waited' = FALSE /\ excused' = FALSE

Init ==
    /\ truth = [n \in Nodes |-> 0]
    /\ up = Nodes /\ fleet = Nodes /\ fleetUp = TRUE /\ authUp = TRUE
    /\ old \in SUBSET Old
    /\ faults = 0
    /\ saved = [n \in Nodes |-> Unheard]
    /\ pc = "refresh" /\ booting = TRUE
    /\ nodes = {} /\ fetched = FALSE
    /\ index = [n \in Nodes |-> Unheard]
    /\ held = FALSE /\ blocking = TRUE
    /\ ask = [n \in Nodes |-> NotAsked]
    /\ good = [n \in Nodes |-> Nothing]
    /\ catalog = [i \in {} |-> {}]
    /\ shown = {} /\ stale = {}
    /\ waited = FALSE /\ excused = FALSE

Blocks(n) == index[n] # Unheard

\* Every listed node is asked at once, with the index it last gave.
AskAll(listed) ==
    ask' = [n \in Nodes |-> IF n \in listed THEN Asking(Blocks(n)) ELSE NotAsked]

\* _refresh_nodes: the coordinator answered. The gather over no node is over.
RefreshNodes ==
    /\ pc = "refresh" /\ fleetUp
    /\ nodes' = fleet /\ fetched' = TRUE
    /\ AskAll(fleet)
    /\ pc' = "fetch"
    /\ waited' = FALSE /\ excused' = (fleet = {})
    /\ UNCHANGED <<world, saved, booting, index, held, blocking, served>>

\* It did not, or there is no token to ask it with: the list is kept, unless
\* there never was one, and then the catalogue is left as it is.
KeepNodes ==
    /\ pc = "refresh" /\ (~ fleetUp \/ ~ authUp)
    /\ IF fetched
       THEN AskAll(nodes) /\ pc' = "fetch"
       ELSE UNCHANGED ask /\ pc' = "pause"
    /\ waited' = FALSE /\ excused' = (fetched /\ nodes = {})
    /\ UNCHANGED <<world, saved, booting, known, served>>

-----------------------------------------------------------------------------
(* _fetch_node_backends. *)

\* _get_auth_headers is outside the try: a token that cannot be renewed ends
\* the gather, and with it the cycle. The other requests stay out.
NoToken(n) ==
    /\ pc = "fetch" /\ ~ authUp
    /\ ask[n].is = "asking"
    /\ ask' = [ask EXCEPT ![n] = NotAsked]
    /\ pc' = "pause"
    /\ excused' = TRUE
    /\ UNCHANGED <<world, saved, booting, known, served, waited>>

\* Fault: the manager goes by the index alone and forgets the wait.
HeldUntilChange(n) ==
    /\ ask[n].is = "asking" /\ n \in up
    /\ ask[n].blocks => index[n] # truth[n]
    /\ ask' = [ask EXCEPT ![n] = Answered(truth[n])]
    /\ index' = [index EXCEPT ![n] = IF n \in old THEN @ ELSE truth[n]]
    /\ blocking' = (blocking /\ n \notin old)
    /\ held' = (ask[n].blocks /\ blocking')
    /\ waited' = (waited \/ ask[n].blocks)
    /\ UNCHANGED <<world, saved, pc, booting, nodes, fetched, served, excused>>

\* A node answers: at once without an index, else when it has changed or the
\* wait is over. Requests share _held_last_request and _blocking_supported:
\* the last of them to come back decides.
Answer(n) ==
    /\ ask[n].is = "asking" /\ n \in up
    /\ ask' = [ask EXCEPT ![n] = Answered(truth[n])]
    /\ index' = [index EXCEPT ![n] = IF n \in old THEN @ ELSE truth[n]]
    /\ blocking' = (blocking /\ n \notin old)
    /\ held' = (ask[n].blocks /\ blocking')
    /\ waited' = (waited \/ ask[n].blocks)
    /\ UNCHANGED <<world, saved, pc, booting, nodes, fetched, served, excused>>

\* Fault: what held the last request is left as it was.
StillHeld(n) ==
    /\ ask[n].is = "asking" /\ n \notin up
    /\ ask' = [ask EXCEPT ![n] = Failed]
    /\ UNCHANGED <<world, saved, pc, booting, known, served, waited, excused>>

\* It cannot be asked, or breaks off.
Unreachable(n) ==
    /\ ask[n].is = "asking" /\ n \notin up
    /\ ask' = [ask EXCEPT ![n] = Failed]
    /\ held' = FALSE
    /\ UNCHANGED <<world, saved, pc, booting, nodes, fetched, index, blocking,
                   served, waited, excused>>

-----------------------------------------------------------------------------
(* The composition. *)

Before(m, n) ==
    \E k, l \in DOMAIN Order : k < l /\ Order[k] = m /\ Order[l] = n

\* Fault: a node that failed is taken for a node with nothing.
OffersNothing(n) ==
    IF ask[n].is = "answered" THEN Report[n][ask[n].version] ELSE {}

\* What a node brings: what it says now, or what it last brought.
Offers(n) ==
    IF ask[n].is = "answered" THEN Report[n][ask[n].version] ELSE good[n].ids

Silent == {n \in nodes : ask[n].is # "answered"}

\* Of what a node says now, it keeps what no node before it brings.
Fresh(n) == {i \in Offers(n) : \A m \in nodes : Before(m, n) => i \notin Offers(m)}

\* The hosts of registered nodes are trusted, and the local ones always.
Trusted(n) == n \in Local \cup nodes

Heard(n) ==
    [ids |-> Fresh(n), version |-> ask[n].version, trusted |-> Trusted(n)]

\* The node an id is served from: the last silent one that brought it, else
\* the first of those that say it now.
Source(i) ==
    LET kept == {n \in Silent : i \in Offers(n)}
        now  == {n \in nodes \ Silent : i \in Offers(n)}
    IN  IF kept # {} THEN CHOOSE n \in kept : \A m \in kept : ~ Before(n, m)
        ELSE CHOOSE n \in now : \A m \in now : ~ Before(m, n)

Entry(n, g) == [node |-> n, version |-> g.version, trusted |-> g.trusted]

\* The gather is complete, and the catalogue is replaced.
Compose ==
    /\ pc = "fetch" /\ \A n \in nodes : ask[n].is # "asking"
    /\ good' = [n \in Nodes |-> IF n \in nodes \ Silent THEN Heard(n) ELSE good[n]]
    /\ catalog' = [i \in UNION {Offers(n) : n \in nodes} |->
                      Entry(Source(i), good'[Source(i)])]
    /\ shown' = nodes /\ stale' = Silent
    /\ ask' = [n \in Nodes |-> NotAsked]
    /\ pc' = IF Silent = nodes THEN "pause" ELSE "save"
    /\ UNCHANGED <<world, saved, booting, known, waited, excused>>

\* Fault: only the nodes that answered this time are saved.
SavedOf(n) == IF n \in shown \ stale THEN good[n].version ELSE Unheard

\* save_catalog_snapshot: what every node that was ever heard last said.
Snapshot(n) == good[n].version

\* After the prices are seeded: written when some node answered, if it can be.
SaveSnapshot ==
    /\ pc = "save" /\ pc' = "pause"
    /\ \/ saved' = [n \in Nodes |-> Snapshot(n)]
       \/ UNCHANGED saved
    /\ UNCHANGED <<world, booting, known, served, cycle>>

\* start, after the first sync: what the disk has, when there is no catalogue.
RestoreFromSnapshot ==
    /\ pc = "pause" /\ booting /\ booting' = FALSE
    /\ IF DOMAIN catalog = {} /\ \E n \in Nodes : saved[n] # Unheard
       THEN LET stored == {n \in Nodes : saved[n] # Unheard}
                last(n) == [ids |-> Report[n][saved[n]], version |-> saved[n],
                            trusted |-> Trusted(n)]
                from(i) == {n \in stored : i \in last(n).ids}
            IN /\ good' = [n \in Nodes |-> IF n \in stored THEN last(n) ELSE good[n]]
               /\ catalog' \in
                    {c \in [UNION {last(n).ids : n \in stored} ->
                              {Entry(n, last(n)) : n \in stored}] :
                       \A i \in DOMAIN c : c[i].node \in from(i)}
               /\ shown' = stored /\ stale' = stored
       ELSE UNCHANGED served
    /\ UNCHANGED <<world, saved, pc, known, cycle>>

\* _poll_loop: round again at once after a request that was held ...
GoRound ==
    /\ pc = "pause" /\ ~ booting /\ held
    /\ pc' = "refresh"
    /\ UNCHANGED <<world, saved, booting, known, served, cycle>>

\* ... and else after the poll interval.
Sleep ==
    /\ pc = "pause" /\ ~ booting /\ ~ held
    /\ pc' = "refresh"
    /\ UNCHANGED <<world, saved, booting, known, served, cycle>>

-----------------------------------------------------------------------------
(* The world. *)

\* A model is registered, started, stopped or retired at a node.
NodeChanges ==
    /\ \E n \in Nodes :
          truth[n] < MaxVersion /\ truth' = [truth EXCEPT ![n] = @ + 1]
    /\ UNCHANGED <<up, fleet, fleetUp, authUp, old, faults, saved, pc, booting,
                   known, served, cycle>>

\* A node, the coordinator or the auth service stops answering, or the fleet
\* is another.
Outage ==
    /\ faults < MaxFaults /\ faults' = faults + 1
    /\ \/ \E n \in up : up' = up \ {n} /\ UNCHANGED <<fleet, fleetUp, authUp>>
       \/ fleetUp /\ fleetUp' = FALSE /\ UNCHANGED <<up, fleet, authUp>>
       \/ authUp /\ authUp' = FALSE /\ UNCHANGED <<up, fleet, fleetUp>>
       \/ fleet' \in SUBSET Nodes \ {fleet} /\ UNCHANGED <<up, fleetUp, authUp>>
    /\ UNCHANGED <<truth, old, saved, pc, booting, known, served, cycle>>

Recovery ==
    /\ \/ \E n \in Nodes \ up : up' = up \cup {n} /\ UNCHANGED <<fleetUp, authUp>>
       \/ ~ fleetUp /\ fleetUp' = TRUE /\ UNCHANGED <<up, authUp>>
       \/ ~ authUp /\ authUp' = TRUE /\ UNCHANGED <<up, fleetUp>>
    /\ UNCHANGED <<truth, fleet, old, faults, saved, pc, booting, known, served,
                   cycle>>

\* The gateway's process is restarted, wherever it was.
Restart ==
    /\ faults < MaxFaults /\ faults' = faults + 1
    /\ Started
    /\ UNCHANGED <<truth, up, fleet, fleetUp, authUp, old, saved>>

Loop ==
    \/ RefreshNodes \/ KeepNodes \/ Compose \/ SaveSnapshot
    \/ RestoreFromSnapshot \/ GoRound \/ Sleep
    \/ \E n \in Nodes : NoToken(n)

Request(n) == Answer(n) \/ Unreachable(n)

Next ==
    \/ Loop \/ \E n \in Nodes : Request(n)
    \/ NodeChanges \/ Outage \/ Recovery \/ Restart

Spec == Init /\ [][Next]_vars

\* The task runs, and every request ends: a node holds it no longer than the
\* wait it was given, and the read times out after that. Nothing makes a node
\* change, or an outage end.
Fairness == WF_vars(Loop) /\ \A n \in Nodes : WF_vars(Request(n))

FairSpec == Spec /\ Fairness

-----------------------------------------------------------------------------
(* Properties. *)

\* The catalogue the gateway serves is statically stable (RM-98, RM-99): see
\* StaticStability.tla. Nothing is served before start returns: a first sync
\* that found nothing may still give way to the disk.
Served == IF booting THEN {} ELSE shown

Stability == INSTANCE StaticStability WITH
    heard <- [n \in Served |-> good[n].version]

StaysStable == Stability!Spec

\* A node that does not answer takes nothing away: what each node on show
\* last brought is in the catalogue, of whichever node it is served, and of a
\* node that answered it is all the node said.
\* An entry the gateway will not route to is of a node that did not answer the
\* last time: the hosts a composition trusts are those of the list it was made
\* with, and a restored entry is mended by the first answer of its node.
NothingLost ==
    /\ pc = "pause" =>
          \A n \in shown :
             /\ good[n].ids \subseteq DOMAIN catalog
             /\ n \notin stale =>
                   Report[n][good[n].version] \subseteq DOMAIN catalog
    /\ \A i \in DOMAIN catalog : ~ catalog[i].trusted => catalog[i].node \in stale

\* "An outage is exactly when a gateway must not spin": the loop goes round
\* without sleeping only if a request of the cycle was one to be held. Two
\* cycles escape it: one without a token, and one with no node to ask, where
\* _held_last_request is whatever the last request left.
Paced ==
    [][pc = "pause" /\ held /\ pc' = "refresh" /\ ~ booting' => waited \/ excused]_vars

AllUp == up = Nodes /\ fleetUp /\ authUp

\* When everything answers again, the catalogue becomes what the fleet has: one
\* gather waits for the slowest node, and yet every change is taken up.
EventuallyFresh ==
    <>[]AllUp =>
        <>[](/\ shown = fleet
             /\ \A n \in fleet : good[n].version = truth[n])
=============================================================================
