------------------------------ MODULE Lifecycle ------------------------------
(***************************************************************************)
(* The engine processes of a node: lifecycle.py (start, stop, restart,     *)
(* pause, resume, deregister, retire) over the rows of ModelRegistry, with *)
(* the pid files it leaves, and scanner.py, which finds the processes      *)
(* again. What no operation reads is left out: the error markers and the   *)
(* discovery flags, which are for those who look at the node. The API runs *)
(* each operation in a worker thread of its own (control.py), so they      *)
(* interleave with each other, those on the same instance included, with   *)
(* the engines and with edits of the registry; a crash ends them all and   *)
(* leaves the engines running, each in a session of its own.               *)
(***************************************************************************)
EXTENDS ModelRegistry

CONSTANTS
    Jobs,       \* worker threads
    Does,       \* bound, per job: the operations it may be asked for, and of what
    Pids,       \* processes the node may spawn; a pid is not reused
    Aliased,    \* instances whose engine names them on its command line
    ScanRange,  \* _PORT_SCAN_RANGE
    MaxCrashes  \* bound: crashes of the manager

ASSUME LifecycleAssumption ==
    /\ Does \in [Jobs -> SUBSET ({"start", "stop", "restart", "pause", "resume",
                                  "deregister", "retire"} \X Instances)]
    /\ Aliased \subseteq Instances
    /\ ScanRange \in Nat \ {0}
    /\ MaxCrashes \in Nat
    /\ 0 \notin Pids

VARIABLES
    proc,       \* per pid: whose process it is, its port and what it does
    pidfile,    \* per instance: the pid in {id}.pid, 0 when there is none
    pc,         \* per job: where its operation is
    job,        \* per job: the operation and what it is about
    crashes,    \* crashes so far
    doubled,    \* history: two starts of it had both found nothing running
    overlapped  \* history: a start of it and another operation overlapped

processVars == <<proc, pidfile>>
jobVars == <<pc, job>>
historyVars == <<doubled, overlapped>>
vars == <<registryVars, processVars, jobVars, crashes, historyVars>>

Nobody(does) == [of |-> "", port |-> 0, does |-> does, signal |-> "none"]
NotSpawned == Nobody("nothing")
Dead == Nobody("dead")
Live == {p \in Pids : proc[p] \notin {NotSpawned, Dead}}
LiveOf(i) == {p \in Live : proc[p].of = i}

Ops == {"start", "stop", "restart", "pause", "resume", "deregister", "retire"}
Starting == {"start", "restart"}
Signalling == {"pause", "resume"}

\* An operation, the instance it is at, the process it looks after, and for
\* retire the model and the instances still to go.
NoJob == [op |-> "none", at |-> "", port |-> 0, pid |-> 0, model |-> "",
          todo |-> {}]

TypeOK ==
    /\ RegistryTypeOK
    /\ \A p \in Pids :
          \/ proc[p] \in {NotSpawned, Dead}
          \/ /\ proc[p].of \in Instances /\ proc[p].port \in Nat
             /\ proc[p].does \in {"loads", "serves"}
             /\ proc[p].signal \in {"none", "SIGSTOP", "SIGKILL"}
    /\ pidfile \in [Instances -> Pids \cup {0}]
    /\ pc \in [Jobs -> {"idle", "start", "spawn", "write", "wait", "probe",
                        "look", "kill", "stop", "signal", "exit", "remove",
                        "list", "archive", "pause"}]
    /\ job \in [Jobs -> [op : Ops \cup {"none"}, at : Instances \cup {""},
                         port : Nat, pid : Pids \cup {0},
                         model : Models \cup {""}, todo : SUBSET Instances]]
    /\ \A j \in Jobs :
          /\ pc[j] \in {"write", "wait", "probe", "look", "kill", "signal", "exit"}
                => job[j].pid # 0
          /\ pc[j] \notin {"idle", "list", "archive"} => job[j].at # ""
    /\ crashes \in 0 .. MaxCrashes
    /\ doubled \subseteq Instances /\ overlapped \subseteq Instances

-----------------------------------------------------------------------------
(* What the operations see. *)

\* Fault: pid files only.
NamedByFile(p) == {i \in Instances : pidfile[i] = p}

\* The name a scan gives a process: that of the pid file that holds its pid,
\* else what its command line says.
Alias(p) ==
    LET filed == {i \in Instances : pidfile[i] = p}
    IN  IF filed # {} THEN filed ELSE {proc[p].of} \cap Aliased

\* _find_running: any process of that name, a paused one too.
FindRunning(i) == {p \in Live : i \in Alias(p)}

\* A port is taken while some process has bound it. Nothing holds it for the
\* engine between this test and its own bind.
Taken(port) == \E p \in Live : proc[p].port = port /\ proc[p].does # "loads"

\* SIGKILL: it runs no more, and has yet to be gone.
Killed(p) == [proc EXCEPT ![p].signal = "SIGKILL"]

FindFreePort(preferred) ==
    LET free == {q \in preferred .. preferred + ScanRange - 1 : ~ Taken(q)}
    IN  {q \in free : \A r \in free : q <= r}

\* GET /health on the port: whoever is there answers.
Answers(port) == \E p \in Live : /\ proc[p].port = port /\ proc[p].does = "serves"
                               /\ proc[p].signal = "none"

-----------------------------------------------------------------------------
(* Where an operation goes on. *)

Goto(j, place) == pc' = [pc EXCEPT ![j] = place]
At(j, place) == pc[j] = place

\* A LifecycleError or another exception: a cascade ends with it.
Fails(j) == Goto(j, "idle") /\ job' = [job EXCEPT ![j] = NoJob]

\* The operation is done, or it is the next instance's turn in a cascade.
Proceed(j) ==
    IF job[j].op = "retire"
    THEN IF job[j].todo = {}
         THEN /\ Goto(j, "archive")
              /\ job' = [job EXCEPT ![j].at = ""]
         ELSE /\ Goto(j, "stop")
              /\ \E i \in job[j].todo :
                    job' = [job EXCEPT ![j].at = i, ![j].todo = @ \ {i}]
    ELSE Fails(j)

\* What stop_instance returns to.
Stopped(j) ==
    IF job[j].op \in {"restart", "deregister", "retire"}
    THEN /\ Goto(j, IF job[j].op = "restart" THEN "start" ELSE "remove")
         /\ job' = [job EXCEPT ![j].pid = 0]
    ELSE Fails(j)

-----------------------------------------------------------------------------
(* Histories. Nothing in the code keeps two operations on an instance apart. *)

OperationsAt(i) ==
    {j \in Jobs : pc[j] # "idle" /\ (job[j].at = i \/ i \in job[j].todo)}

\* A start and anything but a signal.
Conflict(op, other) ==
    \/ op \in Starting /\ other \notin Signalling
    \/ other \in Starting /\ op \notin Signalling

\* An operation comes to some instances: which of them have another under way
\* that conflicts with it. An instance with none, and no process, is as new.
Comes(op, to) ==
    overlapped' =
        {i \in to : \E j \in OperationsAt(i) : Conflict(op, job[j].op)}
        \cup {i \in overlapped : i \notin to \/ OperationsAt(i) # {} \/ LiveOf(i) # {}}

-----------------------------------------------------------------------------
(* The handlers, on the event loop. *)

\* The handler validates the id and hands the operation to a thread.
Begin(j, op, i) ==
    /\ LoopIsFree
    /\ At(j, "idle") /\ i \in Registered
    /\ Goto(j, IF op = "start" THEN "start"
               ELSE IF op \in Signalling THEN "pause" ELSE "stop")
    /\ job' = [job EXCEPT ![j] = [NoJob EXCEPT !.op = op, !.at = i]]
    /\ Comes(op, {i})
    /\ UNCHANGED <<registryVars, processVars, crashes, doubled>>

\* retire_model, confirmed.
BeginRetire(j, m) ==
    /\ LoopIsFree
    /\ At(j, "idle") /\ m \in Catalog
    /\ Goto(j, "list")
    /\ job' = [job EXCEPT ![j] = [NoJob EXCEPT !.op = "retire", !.model = m]]
    /\ UNCHANGED <<registryVars, processVars, crashes, historyVars>>

\* deregister_model: the instances are listed once.
ListInstances(j) ==
    LET listed == InstancesOf(job[j].model) IN
    /\ At(j, "list")
    /\ IF listed = {}
       THEN Goto(j, "archive") /\ UNCHANGED job
       ELSE /\ Goto(j, "stop")
            /\ \E i \in listed :
                  job' = [job EXCEPT ![j].at = i, ![j].todo = listed \ {i}]
    /\ Comes("retire", listed)
    /\ UNCHANGED <<registryVars, processVars, crashes, doubled>>

-----------------------------------------------------------------------------
(* start_instance. *)

\* No row, a process of that name, or no free port: LifecycleError.
StartRefused(j) ==
    LET i == job[j].at IN
    /\ At(j, "start")
    /\ \/ i \notin Registered
       \/ FindRunning(i) # {}
       \/ FindFreePort(instances[i].port) = {}
    /\ Fails(j)
    /\ UNCHANGED <<registryVars, processVars, crashes, historyVars>>

\* The port found is saved before the engine is spawned. Until it is, another
\* start finds nothing running either.
StartBegins(j) ==
    LET i == job[j].at IN
    /\ At(j, "start") /\ i \in Registered
    /\ FindRunning(i) = {}
    /\ \E port \in FindFreePort(instances[i].port) :
          /\ Update(i, [instances[i] EXCEPT !.port = port])
          /\ job' = [job EXCEPT ![j].port = port]
    /\ Goto(j, "spawn")
    /\ doubled' = IF \E k \in Jobs : At(k, "spawn") /\ job[k].at = i
                  THEN doubled \cup {i} ELSE doubled \ {i}
    /\ UNCHANGED <<models, edit, edits, overtaken, processVars, crashes, overlapped>>

\* Popen, with the port found whatever the row says by now.
Spawn(j) ==
    /\ At(j, "spawn")
    /\ \E p \in Pids :
          /\ proc[p] = NotSpawned
          /\ \A q \in Pids : q < p => proc[q] # NotSpawned
          /\ proc' = [proc EXCEPT ![p] =
                [of |-> job[j].at, port |-> job[j].port,
                 does |-> "loads", signal |-> "none"]]
          /\ job' = [job EXCEPT ![j].pid = p, ![j].port = 0]
    /\ Goto(j, "write")
    /\ UNCHANGED <<registryVars, pidfile, crashes, historyVars>>

\* The binary is missing, or may not be run.
SpawnFails(j) ==
    /\ At(j, "spawn") /\ Fails(j)
    /\ UNCHANGED <<registryVars, processVars, crashes, historyVars>>

WritePidFile(j) ==
    /\ At(j, "write") /\ Goto(j, "wait")
    /\ pidfile' = [pidfile EXCEPT ![job[j].at] = job[j].pid]
    /\ UNCHANGED <<registryVars, proc, job, crashes, historyVars>>

\* The loop, once a second: the process has exited ...
SeesExit(j) ==
    LET i == job[j].at IN
    /\ At(j, "wait") /\ job[j].pid \notin Live
    /\ pidfile' = [pidfile EXCEPT ![i] = 0]
    /\ Fails(j)
    /\ UNCHANGED <<registryVars, proc, crashes, historyVars>>

\* ... or its port answers ...
SeesHealth(j) ==
    /\ At(j, "wait") /\ job[j].pid \in Live
    /\ Answers(proc[job[j].pid].port)
    /\ Goto(j, "probe")
    /\ UNCHANGED <<registryVars, processVars, job, crashes, historyVars>>

\* ... or the deadline has passed.
TimesOut(j) ==
    /\ At(j, "wait") /\ job[j].pid \in Live
    /\ Goto(j, "kill")
    /\ UNCHANGED <<registryVars, processVars, job, crashes, historyVars>>

\* readiness.check has an answer, or has no probe for the modality: the
\* instance is offered. Its row may have gone: KeyError, and the process stays.
Ready(j) ==
    /\ At(j, "probe")
    /\ IF job[j].at \in Registered THEN Goto(j, "look") /\ UNCHANGED job
       ELSE Fails(j)
    /\ UNCHANGED <<registryVars, processVars, crashes, historyVars>>

\* Three attempts failed: left running, and marked.
NotReady(j) ==
    /\ At(j, "probe") /\ Goto(j, "look")
    /\ UNCHANGED <<registryVars, processVars, job, crashes, historyVars>>

\* The live state is returned; a process that has gone meanwhile is treated
\* as one that timed out.
Look(j) ==
    /\ At(j, "look")
    /\ IF job[j].pid \in Live THEN Fails(j)
       ELSE Goto(j, "kill") /\ UNCHANGED job
    /\ UNCHANGED <<registryVars, processVars, crashes, historyVars>>

\* terminate, and five seconds. A process that has not exited is killed, and its
\* end is not waited for.
Kill(j) ==
    LET i == job[j].at
        p == job[j].pid
    IN  /\ At(j, "kill")
        /\ proc' = IF p \in Live THEN Killed(p) ELSE proc
        /\ pidfile' = [pidfile EXCEPT ![i] = 0]
        /\ Fails(j)
        /\ UNCHANGED <<registryVars, crashes, historyVars>>

-----------------------------------------------------------------------------
(* stop_instance, and what it is part of. *)

\* Nothing of that name runs: an error for a stop, as good as stopped for the
\* operations it is part of. Discovery is left as it was.
StopNothing(j) ==
    LET i == job[j].at IN
    /\ At(j, "stop") /\ FindRunning(i) = {}
    /\ Stopped(j)
    /\ UNCHANGED <<registryVars, processVars, crashes, historyVars>>

\* _verify_pid_file: a pid file that names another process stops the stop.
StopFinds(j) ==
    LET i == job[j].at IN
    /\ At(j, "stop")
    /\ \E p \in FindRunning(i) :
          IF pidfile[i] \in {0, p}
          THEN Goto(j, "signal") /\ job' = [job EXCEPT ![j].pid = p]
          ELSE Fails(j)
    /\ UNCHANGED <<registryVars, processVars, crashes, historyVars>>

\* SIGTERM, and SIGKILL later; or NoSuchProcess, and the files are removed.
StopSignals(j) ==
    LET i == job[j].at IN
    /\ At(j, "signal")
    /\ IF job[j].pid \in Live
       THEN Goto(j, "exit") /\ UNCHANGED <<job, pidfile>>
       ELSE /\ pidfile' = [pidfile EXCEPT ![i] = 0]
            /\ Stopped(j)
    /\ UNCHANGED <<registryVars, proc, crashes, historyVars>>

\* _wait_for_exit: it has exited, reaped or not. No longer offered.
StopEnds(j) ==
    LET i == job[j].at IN
    /\ At(j, "exit") /\ job[j].pid \notin Live
    /\ pidfile' = [pidfile EXCEPT ![i] = 0]
    /\ Stopped(j)
    /\ UNCHANGED <<registryVars, proc, crashes, historyVars>>

\* Fault: a process that does not heed SIGTERM is taken to be gone.
StuckIgnored(j) ==
    /\ At(j, "exit") /\ job[j].pid \in Live
    /\ Stopped(j)
    /\ UNCHANGED <<registryVars, processVars, crashes, historyVars>>

\* It has not, not even after SIGKILL: LifecycleError.
StopStuck(j) ==
    /\ At(j, "exit") /\ job[j].pid \in Live
    /\ proc' = Killed(job[j].pid)
    /\ Fails(j)
    /\ UNCHANGED <<registryVars, pidfile, crashes, historyVars>>

\* deregister_instance: the row, when it is still there.
RemoveRow(j) ==
    /\ At(j, "remove") /\ job[j].at \in Registered
    /\ Remove(job[j].at)
    /\ Proceed(j)
    /\ UNCHANGED <<models, edit, edits, overtaken, processVars, crashes, historyVars>>

\* Another operation has removed it: before the look at it, or between the look
\* and the removal, which is a KeyError.
RowIsGone(j) ==
    /\ At(j, "remove") /\ job[j].at \notin Registered
    /\ Proceed(j) \/ Fails(j)
    /\ UNCHANGED <<registryVars, processVars, crashes, historyVars>>

\* deregister_model: an instance registered since the list was made refuses it.
Archive(j) ==
    /\ At(j, "archive")
    /\ \/ job[j].model \in Catalog /\ ArchiveCatalog(job[j].model)
       \/ /\ \/ job[j].model \notin Catalog
             \/ InstancesOf(job[j].model) # {}
          /\ UNCHANGED <<models, overtaken>>
    /\ Fails(j)
    /\ UNCHANGED <<instances, edit, edits, processVars, crashes, historyVars>>

\* SIGSTOP and SIGCONT to what a scan finds, or an error.
PauseOrResume(j) ==
    LET i == job[j].at IN
    /\ At(j, "pause") /\ Fails(j)
    /\ \/ FindRunning(i) = {} /\ UNCHANGED proc
       \/ \E p \in FindRunning(i) :
             proc' = [proc EXCEPT ![p].signal =
                         IF @ = "SIGKILL" THEN @
                         ELSE IF job[j].op = "pause" THEN "SIGSTOP" ELSE "none"]
    /\ UNCHANGED <<registryVars, pidfile, crashes, historyVars>>

-----------------------------------------------------------------------------
(* The engines, and the manager's end. *)

\* The engine binds its port, or exits when it cannot.
Bind(p) ==
    /\ p \in Live /\ proc[p].does = "loads" /\ proc[p].signal = "none"
    /\ proc' = [proc EXCEPT ![p] = IF Taken(@.port) THEN Dead
                                    ELSE [@ EXCEPT !.does = "serves"]]
    /\ UNCHANGED <<registryVars, pidfile, jobVars, crashes, historyVars>>

\* It exits, by itself or for a signal.
Exits(p) ==
    /\ p \in Live
    /\ proc' = [proc EXCEPT ![p] = Dead]
    /\ UNCHANGED <<registryVars, pidfile, jobVars, crashes, historyVars>>

ManagerCrashes ==
    /\ crashes < MaxCrashes /\ crashes' = crashes + 1
    /\ pc' = [j \in Jobs |-> "idle"]
    /\ job' = [j \in Jobs |-> NoJob]
    /\ edit' = NoEdit
    /\ UNCHANGED <<models, instances, edits, overtaken, processVars, historyVars>>

-----------------------------------------------------------------------------
Step(j) ==
    \/ StartRefused(j) \/ StartBegins(j) \/ Spawn(j) \/ SpawnFails(j)
    \/ WritePidFile(j) \/ SeesExit(j) \/ SeesHealth(j) \/ TimesOut(j)
    \/ Ready(j) \/ NotReady(j) \/ Look(j) \/ Kill(j)
    \/ StopNothing(j) \/ StopFinds(j) \/ StopSignals(j) \/ StopEnds(j)
    \/ StopStuck(j) \/ RemoveRow(j) \/ RowIsGone(j) \/ PauseOrResume(j)
    \/ ListInstances(j) \/ Archive(j)

Operate(j) ==
    \/ \E i \in Instances, op \in Ops \ {"retire"} :
          <<op, i>> \in Does[j] /\ Begin(j, op, i)
    \/ \E m \in Models : <<"retire", m>> \in Does[j] /\ BeginRetire(j, m)

EditRegistry ==
    /\ \/ \E i \in Instances : EditInstance(i)
       \/ \E m \in Models : EditModel(m)
       \/ WriteEdit
    /\ UNCHANGED <<processVars, jobVars, crashes, historyVars>>

Next ==
    \/ \E j \in Jobs : Operate(j) \/ Step(j)
    \/ \E p \in Pids : Bind(p) \/ Exits(p)
    \/ EditRegistry
    \/ ManagerCrashes

\* An operator has registered every model, under the name that is its id, and
\* given it its first instance.
Init ==
    /\ models = [m \in Models |-> [slug |-> m, status |-> "live"]]
    /\ \E port \in Ports : instances =
          [i \in Instances |-> IF i \in Models THEN Row(i, port) ELSE NoRow]
    /\ edit = NoEdit /\ edits = 0 /\ overtaken = {}
    /\ proc = [p \in Pids |-> NotSpawned]
    /\ pidfile = [i \in Instances |-> 0]
    /\ pc = [j \in Jobs |-> "idle"]
    /\ job = [j \in Jobs |-> NoJob]
    /\ crashes = 0
    /\ doubled = {} /\ overlapped = {}

Spec == Init /\ [][Next]_vars

-----------------------------------------------------------------------------
(* Properties. *)

\* A pid the manager lost between Popen and the pid file, with a command line
\* that does not name the instance either.
Lost(p) == crashes > 0 /\ proc[p].of \notin Aliased

\* _find_running: an instance has two processes only once two starts of it had
\* both looked before either spawned its engine; no other order of starts,
\* restarts, removals, registrations, timeouts and crashes gives it a second.
OneProcess == \A i \in Aliased \ doubled : Cardinality(LiveOf(i)) <= 1

\* Every process can be found, to be stopped, under the name of an instance
\* that is registered: no failed start, stop or removal leaves one behind but
\* one that has been killed. A start and another operation that overlap on an
\* instance may: one removes the pid file the other wrote, or the row.
Accounted ==
    \A p \in Live \ {job[j].pid : j \in {k \in Jobs : At(k, "write")}} :
        \/ proc[p].of \in Alias(p) /\ proc[p].of \in Registered
        \/ proc[p].signal = "SIGKILL"
        \/ Lost(p) \/ proc[p].of \in overlapped
=============================================================================
