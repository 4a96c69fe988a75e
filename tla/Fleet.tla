-------------------------------- MODULE Fleet --------------------------------
(***************************************************************************)
(* One node in the coordinator's registry: its row in fleet.db             *)
(* (core/fleet.py), the endpoints that read it, probe the node and write   *)
(* the whole row back (api/fleet_routes.py), the sweep that stamps what    *)
(* answered (api/fleet_sweep.py), and the node that reports for itself     *)
(* (api/heartbeat.py).                                                     *)
(*                                                                         *)
(* enabled is the operator's word and last_seen_at the observation. An     *)
(* endpoint that awaits a probe is two steps, any other is one; so is the  *)
(* sweep. last_seen_at is kept as an age in ticks, TTL when too old or     *)
(* never.                                                                  *)
(***************************************************************************)
EXTENDS Integers

CONSTANTS
    Tasks,   \* requests that may wait for a probe at a time
    Urls,    \* where a manager may answer
    TTL,     \* DEFAULT_LIVENESS_TTL_S, in ticks
    MaxOps   \* bound: requests of the operator

VARIABLES
    row,    \* the node's row
    task,   \* per slot: the request in it, and the row it read
    sweep,  \* the URL the sweep is probing, None between sweeps
    beat,   \* whether the node's heartbeat loop runs
    up,     \* the URLs where a manager answers
    word,   \* history: the operator's last word, "in" or "out"
    of,     \* history: what the stamp in row.seen was a sighting of
    races,  \* history: who overwrote what it had not read
    ops     \* requests of the operator so far

vars == <<row, task, sweep, beat, up, word, of, races, ops>>

None == "none"
Beat == "beat"

Absent == [exists |-> FALSE, enabled |-> FALSE, url |-> None, seen |-> TTL]

Idle == [pc |-> "idle", op |-> None, saw |-> Absent, of |-> None, overtaken |-> FALSE]

Init ==
    /\ row = Absent
    /\ task = [t \in Tasks |-> Idle]
    /\ sweep = None
    /\ beat = FALSE
    /\ up \in SUBSET Urls
    /\ word = "in"
    /\ of = None
    /\ races = {}
    /\ ops = 0

-----------------------------------------------------------------------------
\* Node.seen_within and Node.is_active.
Seen == row.seen < TTL
Active == row.exists /\ row.enabled /\ Seen

\* A write to the row overtakes the requests that have read it.
Overtake(but) ==
    [t \in Tasks |-> IF t # but /\ task[t].pc = "probe" /\ task[t].op # "create"
                     THEN [task[t] EXCEPT !.overtaken = TRUE] ELSE task[t]]

Request ==
    /\ ops < MaxOps
    /\ ops' = ops + 1

\* A request reads the row, and waits for the probe of a URL.
Probing(t, op, saw) ==
    /\ task[t].pc = "idle"
    /\ Request
    /\ task' = [task EXCEPT ![t] = [Idle EXCEPT !.pc = "probe", !.op = op,
                                                !.saw = saw, !.of = of]]
    /\ UNCHANGED <<row, sweep, beat, up, word, of, races>>

\* create_node: probes first, and adds the node reachable or not.
Create(t, u) ==
    Probing(t, "create", [exists |-> TRUE, enabled |-> TRUE, url |-> u, seen |-> TTL])

\* update_node with another URL, whose sightings start anew.
Readdress(t, u) ==
    /\ row.exists /\ u # row.url
    /\ Probing(t, "update", [row EXCEPT !.url = u, !.seen = TTL])

Check(t) == row.exists /\ Probing(t, "check", row)

Activate(t) == row.exists /\ Probing(t, "activate", [row EXCEPT !.enabled = TRUE])

\* The probe answers or not, and the row is written back as it was read:
\* FleetRegistry.add for a new node, and update, which matches no row once the
\* node is deleted.
WriteBack(t) ==
    LET answered == task[t].saw.url \in up
        written == [task[t].saw EXCEPT !.seen = IF answered THEN 0 ELSE @]
    IN  /\ task[t].pc = "probe"
        /\ IF (task[t].op = "create") = row.exists
           THEN /\ task' = [task EXCEPT ![t] = Idle]
                /\ UNCHANGED <<row, word, of, races>>
           ELSE /\ row' = written
                /\ word' = IF task[t].op \in {"activate", "create"} THEN "in" ELSE word
                /\ of' = IF answered THEN task[t].saw.url ELSE task[t].of
                /\ races' = IF task[t].overtaken THEN races \cup {"overwritten"} ELSE races
                /\ task' = [Overtake(t) EXCEPT ![t] = Idle]
        /\ UNCHANGED <<sweep, beat, up, ops>>

\* deactivate_node: the cordon, with no await between the read and the write.
Deactivate ==
    /\ Request
    /\ row.exists
    /\ row' = [row EXCEPT !.enabled = FALSE]
    /\ word' = "out"
    /\ task' = Overtake(None)
    /\ UNCHANGED <<sweep, beat, up, of, races>>

Delete ==
    /\ Request
    /\ row.exists
    /\ row' = Absent
    /\ task' = Overtake(None)
    /\ of' = None
    /\ UNCHANGED <<sweep, beat, up, word, races>>

\* Fault: a sighting puts the node back in rotation.
StampActivates(what) ==
    /\ row' = IF row.exists THEN [row EXCEPT !.seen = 0, !.enabled = TRUE] ELSE row
    /\ of' = IF row.exists THEN what ELSE of
    /\ task' = Overtake(None)

\* mark_seen: one UPDATE of the observation, that no row may match.
Stamp(what) ==
    /\ row' = IF row.exists THEN [row EXCEPT !.seen = 0] ELSE row
    /\ of' = IF row.exists THEN what ELSE of
    /\ task' = Overtake(None)

\* NodeHeartbeat, over HTTP or in process.
Heartbeat ==
    /\ beat
    /\ Stamp(Beat)
    /\ UNCHANGED <<sweep, beat, up, word, races, ops>>

\* The node's manager starts its loop, stops, or loses it to an exception that
\* beat_once lets through.
BeatChanges ==
    /\ beat' = ~beat
    /\ UNCHANGED <<row, task, sweep, up, word, of, races, ops>>

\* sweep_once: list, and the probe of the URL it read ...
SweepBegins ==
    /\ sweep = None /\ row.exists
    /\ sweep' = row.url
    /\ UNCHANGED <<row, task, beat, up, word, of, races, ops>>

\* ... whose answer stamps the row, wherever the row says the node is by then.
SweepEnds ==
    /\ sweep # None
    /\ sweep' = None
    /\ IF sweep \in up
       THEN /\ Stamp(sweep)
            /\ races' = IF row.exists /\ row.url # sweep THEN races \cup {"elsewhere"} ELSE races
       ELSE UNCHANGED <<row, of, task, races>>
    /\ UNCHANGED <<beat, up, word, ops>>

\* A manager comes up or goes down.
UpChanges(u) ==
    /\ up' = IF u \in up THEN up \ {u} ELSE up \cup {u}
    /\ UNCHANGED <<row, task, sweep, beat, word, of, races, ops>>

Older(r) == [r EXCEPT !.seen = IF @ < TTL THEN @ + 1 ELSE TTL]

Tick ==
    /\ row' = Older(row)
    /\ task' = [t \in Tasks |-> [task[t] EXCEPT !.saw = Older(@)]]
    /\ UNCHANGED <<sweep, beat, up, word, of, races, ops>>

Next ==
    \/ \E t \in Tasks, u \in Urls : (~row.exists /\ Create(t, u)) \/ Readdress(t, u)
    \/ \E t \in Tasks : Check(t) \/ Activate(t) \/ WriteBack(t)
    \/ Deactivate \/ Delete
    \/ Heartbeat \/ BeatChanges
    \/ SweepBegins \/ SweepEnds
    \/ \E u \in Urls : UpChanges(u)
    \/ Tick

Spec == Init /\ [][Next]_vars

-----------------------------------------------------------------------------
(* Nothing observed writes the operator's half: a node is enabled exactly if
   that was the operator's last word, and one that counts as alive was seen
   where the registry says it is, or reported for itself. The exceptions are
   the write-backs of rows that changed during a probe, which undo a cordon
   made meanwhile (fleet_routes.py:280), and a sweep that probed the address
   the node had before (fleet_sweep.py:88). *)
OperatorsWord ==
    row.exists =>
        /\ "overwritten" \in races \/ row.enabled = (word = "in")
        /\ races # {} \/ (Seen => of \in {row.url, Beat})
=============================================================================
