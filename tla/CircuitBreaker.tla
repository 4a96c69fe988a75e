--------------------------- MODULE CircuitBreaker ---------------------------
(***************************************************************************)
(* The circuit breaker of one backend, shared by the gateway's worker      *)
(* processes: circuit_breaker.py, entered from _healthy_members (router.py)*)
(* and from BackendPool.forward (models/backends.py).                      *)
(*                                                                         *)
(* Redis holds the circuit: its state, the failure counter, the time it    *)
(* opened and a probe lock with a time to live. Each worker keeps a cached *)
(* snapshot (the L1 entry) and a success counter of its own. A coroutine   *)
(* loses control at every `await self._redis...`, so an action runs from   *)
(* the reply of one Redis command to the effect of the next one; the reply *)
(* a coroutine has in hand is its program counter and its `view`.          *)
(*                                                                         *)
(* Time is counted in ticks. Tick waits for the Redis commands under way:  *)
(* a round trip is taken to be shorter than a tick (the L1 lives 2 s).     *)
(***************************************************************************)
EXTENDS Integers

CONSTANTS
    Workers,        \* gateway worker processes
    Requests,       \* concurrent requests; each is reused when it has ended
    WorkerOf,       \* the worker that serves a request
    Settings,       \* thresholds and timeouts an administrator may set
    RetryMax,       \* retries of one backend by BackendPool.forward
    L1TTL,          \* lifetime of an L1 snapshot, in ticks
    AgeCap,         \* bound: ages and time to live saturate here
    FailureCap,     \* bound: the failure and success counters saturate here
    MaxFaults       \* bound: Redis outages and worker restarts

ASSUME CircuitAssumption ==
    /\ WorkerOf \in [Requests -> Workers]
    /\ RetryMax \in Nat
    /\ L1TTL \in Nat \ {0}
    /\ AgeCap \in Nat /\ L1TTL <= AgeCap
    /\ FailureCap \in Nat
    /\ MaxFaults \in Nat
    /\ Settings # {}
    /\ Settings \subseteq [failure_threshold : 1 .. FailureCap,
                           recovery_timeout  : 1 .. AgeCap,
                           success_threshold : 1 .. FailureCap]

VARIABLES
    rstate,    \* Redis: circuit state ("closed" when the key is missing)
    failures,  \* Redis: consecutive failures
    opened,    \* Redis: ticks since opened_at, NoTime when the key is missing
    lock,      \* Redis: ticks the probe lock still lives, 0 when it is gone
    up,        \* Redis answers
    faults,    \* outages and restarts so far
    changed,   \* history: ticks since the circuit last left or became closed
    cut,       \* history: the caller of a record_failure hung up before it
               \* opened the circuit, and no failure has been counted since
    saved,     \* database: the circuit breaker settings an administrator saved
    settings,  \* per worker: the breaker's settings
    l1,        \* per worker: the cached snapshot and its age
    successes, \* per worker: _half_open_successes
    pc,        \* per request: where its coroutine is
    view,      \* per request: the CircuitState get_state gave it
    count,     \* per request: the reply to its INCR
    attempt    \* per request: retries already made

redisVars   == <<rstate, failures, opened, lock, changed, cut>>
workerVars  == <<saved, settings, l1, successes>>
requestVars == <<pc, view, count, attempt>>
vars == <<redisVars, up, faults, workerVars, requestVars>>

NoTime == -1
States == {"closed", "open", "half-open"}
Views  == [state : States, recovery_at : NoTime .. AgeCap]

ClosedView == [state |-> "closed", recovery_at |-> NoTime]
NoEntry    == [view |-> ClosedView, age |-> L1TTL]

\* A coroutine that is suspended on Redis, in admission ...
Admitting == {"get", "judge", "probe", "won"}
\* ... in record_success, and in record_failure.
Succeeding == {"s.get", "s.judge", "s.zero", "s.drop", "s.close", "s.closed"}
Failing    == {"f.count", "f.state", "f.open", "f.drop"}
\* ... between the INCR and the command that opens the circuit ...
Opening    == {"f.count", "f.state", "f.open"}
Resting    == {"idle", "call"}

TypeOK ==
    /\ rstate \in States
    /\ failures \in 0 .. FailureCap
    /\ opened \in NoTime .. AgeCap
    /\ lock \in 0 .. AgeCap
    /\ up \in BOOLEAN
    /\ faults \in 0 .. MaxFaults
    /\ changed \in 0 .. L1TTL
    /\ cut \in BOOLEAN
    /\ saved \in Settings
    /\ settings \in [Workers -> Settings]
    /\ l1 \in [Workers -> [view : Views, age : 0 .. L1TTL]]
    /\ successes \in [Workers -> 0 .. FailureCap]
    /\ pc \in [Requests -> Resting \cup Admitting \cup Succeeding \cup Failing]
    /\ view \in [Requests -> Views]
    /\ count \in [Requests -> 0 .. FailureCap]
    /\ attempt \in [Requests -> 0 .. RetryMax]

Init ==
    /\ rstate = "closed" /\ failures = 0 /\ opened = NoTime /\ lock = 0
    /\ up = TRUE /\ faults = 0 /\ changed = L1TTL /\ cut = FALSE
    /\ saved \in Settings
    /\ settings = [w \in Workers |-> saved]
    /\ l1 = [w \in Workers |-> NoEntry]
    /\ successes = [w \in Workers |-> 0]
    /\ pc = [r \in Requests |-> "idle"]
    /\ view = [r \in Requests |-> ClosedView]
    /\ count = [r \in Requests |-> 0]
    /\ attempt = [r \in Requests |-> 0]

-----------------------------------------------------------------------------
(* Helpers. *)

Capped(n, cap) == IF n > cap THEN cap ELSE n
Minus(a, b)  == IF a > b THEN a - b ELSE 0

\* The worker of a request and what it is configured with.
Mine(r) == settings[WorkerOf[r]]

Goto(r, where) == pc' = [pc EXCEPT ![r] = where]

\* A request that has ended keeps nothing.
Forget(r) ==
    /\ Goto(r, "idle")
    /\ view' = [view EXCEPT ![r] = ClosedView]
    /\ count' = [count EXCEPT ![r] = 0]
    /\ attempt' = [attempt EXCEPT ![r] = 0]

\* The request is forwarded; what it knew of the circuit is forgotten.
Forward(r) ==
    /\ Goto(r, "call")
    /\ view' = [view EXCEPT ![r] = ClosedView]
    /\ UNCHANGED <<count, attempt>>

\* After a recorded failure forward() tries the same backend again, or gives up.
NextAttempt(r) ==
    IF attempt[r] < RetryMax
    THEN /\ Goto(r, "call")
         /\ attempt' = [attempt EXCEPT ![r] = @ + 1]
         /\ count' = [count EXCEPT ![r] = 0]
         /\ UNCHANGED view
    ELSE Forget(r)

\* CircuitState as the three keys read now give it, with recovery_at as the
\* time still to go under the settings of the reading worker.
Reply(w) ==
    [state       |-> rstate,
     recovery_at |-> IF opened = NoTime THEN NoTime
                     ELSE Minus(settings[w].recovery_timeout, opened)]

Fresh(w) == l1[w].age < L1TTL

InvalidateL1(w) == l1' = [l1 EXCEPT ![w] = NoEntry]

\* Redis leaves, or comes back to, the closed state: the age of the change.
SetState(s) ==
    /\ rstate' = s
    /\ changed' = IF (s = "closed") # (rstate = "closed") THEN 0 ELSE changed

-----------------------------------------------------------------------------
(* get_state: a fresh L1 snapshot, else MGET; a failed MGET fails open.    *)

GetState(r, got, judge, failedOpen) ==
    /\ \/ /\ Fresh(WorkerOf[r])
          /\ Goto(r, judge)
          /\ view' = [view EXCEPT ![r] = l1[WorkerOf[r]].view]
       \/ /\ ~ Fresh(WorkerOf[r]) /\ up
          /\ Goto(r, got)
          /\ view' = [view EXCEPT ![r] = Reply(WorkerOf[r])]
       \/ /\ ~ Fresh(WorkerOf[r]) /\ ~ up
          /\ Goto(r, failedOpen)
          /\ UNCHANGED view
    /\ UNCHANGED <<redisVars, up, faults, workerVars, count, attempt>>

\* The MGET reply becomes the L1 snapshot, however old it is by now.
KeepReply(r, got, judge) ==
    /\ pc[r] = got
    /\ l1' = [l1 EXCEPT ![WorkerOf[r]] = [view |-> view[r], age |-> 0]]
    /\ Goto(r, judge)
    /\ UNCHANGED <<redisVars, up, faults, saved, settings, successes, view,
                   count, attempt>>

-----------------------------------------------------------------------------
(* allow_request, as _healthy_members calls it for the only candidate.     *)

Arrive(r) == pc[r] = "idle" /\ GetState(r, "get", "judge", "call")

KeepAdmission(r) == KeepReply(r, "get", "judge")

AdmitClosed(r) ==
    /\ pc[r] = "judge" /\ view[r].state = "closed"
    /\ Forward(r)
    /\ UNCHANGED <<redisVars, up, faults, workerVars>>

\* Open and not yet due for a probe: 503.
RefuseOpen(r) ==
    /\ pc[r] = "judge" /\ view[r].state = "open" /\ view[r].recovery_at # 0
    /\ Forget(r)
    /\ UNCHANGED <<redisVars, up, faults, workerVars>>

\* Fault: the recovery timeout is not waited for.
AcquireProbeEarly(r) ==
    /\ pc[r] = "judge" /\ view[r].state = "open" /\ up /\ lock = 0
    /\ lock' = Mine(r).recovery_timeout
    /\ Goto(r, "probe")
    /\ UNCHANGED <<rstate, failures, opened, changed, cut, up, faults, workerVars,
                   view, count, attempt>>

\* SET probe_lock NX EX recovery_timeout.
AcquireProbe(r) ==
    /\ pc[r] = "judge" /\ view[r].state = "open" /\ view[r].recovery_at = 0
    /\ IF up /\ lock = 0
       THEN /\ lock' = Mine(r).recovery_timeout
            /\ Goto(r, "probe")
            /\ UNCHANGED <<view, count, attempt>>
       ELSE Forget(r) /\ UNCHANGED lock
    /\ UNCHANGED <<rstate, failures, opened, changed, cut, up, faults, workerVars>>

\* SET state half-open; an error is swallowed.
SetHalfOpen(r) ==
    /\ pc[r] = "probe"
    /\ IF up THEN SetState("half-open") ELSE UNCHANGED <<rstate, changed>>
    /\ Goto(r, "won")
    /\ UNCHANGED <<failures, opened, lock, cut, up, faults, workerVars, view,
                   count, attempt>>

StartProbe(r) ==
    /\ pc[r] = "won"
    /\ InvalidateL1(WorkerOf[r])
    /\ successes' = [successes EXCEPT ![WorkerOf[r]] = 0]
    /\ Forward(r)
    /\ UNCHANGED <<redisVars, up, faults, saved, settings>>

\* Half-open: admitted for as long as the probe lock exists.
JoinProbe(r) ==
    /\ pc[r] = "judge" /\ view[r].state = "half-open"
    /\ IF up /\ lock > 0 THEN Forward(r) ELSE Forget(r)
    /\ UNCHANGED <<redisVars, up, faults, workerVars>>

-----------------------------------------------------------------------------
(* What becomes of a request that was let through. A read timeout, a       *)
(* client that left, or a refusal after admission (402) records nothing.   *)

EndUnrecorded(r) ==
    /\ pc[r] = "call"
    /\ Forget(r)
    /\ UNCHANGED <<redisVars, up, faults, workerVars>>

\* The caller hangs up while the outcome is being recorded: the task that
\* forwards is cancelled where it waits for Redis. The command it had sent
\* has its effect; the rest of record_success or record_failure does not run.
HangUp(r) ==
    /\ pc[r] \in Succeeding \cup Failing
    /\ Forget(r)
    /\ cut' = (cut \/ pc[r] \in Opening)
    /\ UNCHANGED <<rstate, failures, opened, lock, changed, up, faults,
                   workerVars>>

\* record_success
Succeed(r) == pc[r] = "call" /\ GetState(r, "s.get", "s.judge", "s.zero")

KeepSuccess(r) == KeepReply(r, "s.get", "s.judge")

SkipOpen(r) ==
    /\ pc[r] = "s.judge" /\ view[r].state = "open"
    /\ Forget(r)
    /\ UNCHANGED <<redisVars, up, faults, workerVars>>

CountSuccess(r) ==
    /\ pc[r] = "s.judge" /\ view[r].state = "half-open"
    /\ LET n == Capped(successes[WorkerOf[r]] + 1, FailureCap) IN
       /\ successes' = [successes EXCEPT ![WorkerOf[r]] = n]
       /\ IF n >= Mine(r).success_threshold
          THEN Goto(r, "s.close") /\ UNCHANGED <<view, count, attempt>>
          ELSE Forget(r)
    /\ UNCHANGED <<redisVars, up, faults, saved, settings, l1>>

\* Closed, or Redis could not say: SET failures 0.
ZeroFailures(r) ==
    /\ \/ pc[r] = "s.zero"
       \/ pc[r] = "s.judge" /\ view[r].state = "closed"
    /\ IF up
       THEN /\ failures' = 0 /\ cut' = FALSE
            /\ Goto(r, "s.drop")
            /\ UNCHANGED <<view, count, attempt>>
       ELSE Forget(r) /\ UNCHANGED <<failures, cut>>
    /\ UNCHANGED <<rstate, opened, lock, changed, up, faults, workerVars>>

DropSnapshot(r) ==
    /\ pc[r] = "s.drop"
    /\ InvalidateL1(WorkerOf[r])
    /\ Forget(r)
    /\ UNCHANGED <<redisVars, up, faults, saved, settings, successes>>

\* _close_circuit: the four keys go in one MULTI.
CloseCircuit(r) ==
    /\ pc[r] = "s.close"
    /\ IF up
       THEN /\ SetState("closed")
            /\ failures' = 0 /\ opened' = NoTime /\ lock' = 0 /\ cut' = FALSE
            /\ Goto(r, "s.closed")
            /\ UNCHANGED <<view, count, attempt>>
       ELSE Forget(r) /\ UNCHANGED redisVars
    /\ UNCHANGED <<up, faults, workerVars>>

AfterClose(r) ==
    /\ pc[r] = "s.closed"
    /\ InvalidateL1(WorkerOf[r])
    /\ successes' = [successes EXCEPT ![WorkerOf[r]] = 0]
    /\ Forget(r)
    /\ UNCHANGED <<redisVars, up, faults, saved, settings>>

-----------------------------------------------------------------------------
(* record_failure, and forward()'s next attempt at the same backend.       *)

\* INCR failures.
Fail(r) ==
    /\ pc[r] = "call"
    /\ IF up
       THEN /\ failures' = Capped(failures + 1, FailureCap)
            /\ count' = [count EXCEPT ![r] = failures']
            /\ Goto(r, "f.count")
            /\ cut' = FALSE
            /\ UNCHANGED <<view, attempt>>
       ELSE NextAttempt(r) /\ UNCHANGED <<failures, cut>>
    /\ UNCHANGED <<rstate, opened, lock, changed, up, faults, workerVars>>

\* Fault: the circuit opens one failure late.
CheckThresholdLate(r) ==
    /\ pc[r] = "f.count"
    /\ InvalidateL1(WorkerOf[r])
    /\ IF count[r] > Mine(r).failure_threshold
       THEN Goto(r, "f.state") /\ UNCHANGED <<view, count, attempt>>
       ELSE NextAttempt(r)
    /\ UNCHANGED <<redisVars, up, faults, saved, settings, successes>>

CheckThreshold(r) ==
    /\ pc[r] = "f.count"
    /\ InvalidateL1(WorkerOf[r])
    /\ IF count[r] >= Mine(r).failure_threshold
       THEN Goto(r, "f.state") /\ UNCHANGED <<view, count, attempt>>
       ELSE NextAttempt(r)
    /\ UNCHANGED <<redisVars, up, faults, saved, settings, successes>>

\* GET state: an open circuit is not opened again.
ReadState(r) ==
    /\ pc[r] = "f.state"
    /\ IF up /\ rstate # "open"
       THEN Goto(r, "f.open") /\ UNCHANGED <<view, count, attempt>>
       ELSE NextAttempt(r)
    /\ UNCHANGED <<redisVars, up, faults, workerVars>>

\* Fault: the circuit opens without opened_at.
OpenCircuitUntimed(r) ==
    /\ pc[r] = "f.open"
    /\ SetState("open") /\ lock' = 0
    /\ Goto(r, "f.drop")
    /\ UNCHANGED <<failures, opened, cut, view, count, attempt, up, faults,
                   workerVars>>

\* SET state open, SET opened_at now, DEL probe_lock in one MULTI.
OpenCircuit(r) ==
    /\ pc[r] = "f.open"
    /\ IF up
       THEN /\ SetState("open")
            /\ opened' = 0 /\ lock' = 0
            /\ Goto(r, "f.drop")
            /\ UNCHANGED <<failures, cut, view, count, attempt>>
       ELSE NextAttempt(r) /\ UNCHANGED redisVars
    /\ UNCHANGED <<up, faults, workerVars>>

AfterOpen(r) ==
    /\ pc[r] = "f.drop"
    /\ InvalidateL1(WorkerOf[r])
    /\ NextAttempt(r)
    /\ UNCHANGED <<redisVars, up, faults, saved, settings, successes>>

-----------------------------------------------------------------------------
(* The environment: administrators, restarts, Redis outages and time.      *)

\* The admin endpoint saves the settings and tells its own worker's pool.
UpdateSettings(w) ==
    /\ saved' \in Settings
    /\ settings' = [settings EXCEPT ![w] = saved']
    /\ <<saved, settings>>' # <<saved, settings>>
    /\ UNCHANGED <<redisVars, up, faults, l1, successes, requestVars>>

\* A worker dies with its coroutines and starts from the saved settings.
RestartWorker(w) ==
    /\ faults < MaxFaults /\ faults' = faults + 1
    /\ settings' = [settings EXCEPT ![w] = saved]
    /\ InvalidateL1(w)
    /\ successes' = [successes EXCEPT ![w] = 0]
    /\ LET gone == {r \in Requests : WorkerOf[r] = w} IN
       /\ pc' = [r \in Requests |-> IF r \in gone THEN "idle" ELSE pc[r]]
       /\ view' = [r \in Requests |-> IF r \in gone THEN ClosedView ELSE view[r]]
       /\ count' = [r \in Requests |-> IF r \in gone THEN 0 ELSE count[r]]
       /\ attempt' = [r \in Requests |-> IF r \in gone THEN 0 ELSE attempt[r]]
    /\ UNCHANGED <<redisVars, up, saved>>

\* Redis keeps its keys through an outage, and answers nobody.
RedisFails ==
    /\ up /\ faults < MaxFaults
    /\ up' = FALSE /\ faults' = faults + 1
    /\ UNCHANGED <<redisVars, workerVars, requestVars>>

RedisReturns ==
    /\ ~ up /\ up' = TRUE
    /\ UNCHANGED <<redisVars, faults, workerVars, requestVars>>

\* Fault: the age of a snapshot is renewed on every read.
AgedNever(entry) == entry

Aged(entry) ==
    [view |-> [state |-> entry.view.state,
               recovery_at |-> IF entry.view.recovery_at = NoTime THEN NoTime
                               ELSE Minus(entry.view.recovery_at, 1)],
     age  |-> entry.age + 1]

Tick ==
    /\ \A r \in Requests : pc[r] \in Resting
    /\ opened' = IF opened = NoTime THEN NoTime ELSE Capped(opened + 1, AgeCap)
    /\ lock' = Minus(lock, 1)
    /\ changed' = Capped(changed + 1, L1TTL)
    /\ l1' = [w \in Workers |-> IF l1[w].age + 1 < L1TTL THEN Aged(l1[w])
                                ELSE NoEntry]
    /\ UNCHANGED <<rstate, failures, cut, up, faults, saved, settings,
                   successes, requestVars>>

-----------------------------------------------------------------------------
Admission(r) == \/ Arrive(r) \/ KeepAdmission(r) \/ AdmitClosed(r)
                \/ RefuseOpen(r) \/ AcquireProbe(r) \/ SetHalfOpen(r)
                \/ StartProbe(r) \/ JoinProbe(r)

Success(r) == \/ Succeed(r) \/ KeepSuccess(r) \/ SkipOpen(r)
              \/ CountSuccess(r) \/ ZeroFailures(r) \/ DropSnapshot(r)
              \/ CloseCircuit(r) \/ AfterClose(r)

Failure(r) == \/ Fail(r) \/ CheckThreshold(r) \/ ReadState(r)
              \/ OpenCircuit(r) \/ AfterOpen(r)

Request(r) == \/ Admission(r) \/ EndUnrecorded(r) \/ HangUp(r)
              \/ Success(r) \/ Failure(r)

Worker(w) == UpdateSettings(w) \/ RestartWorker(w)

Next == \/ \E r \in Requests : Request(r)
        \/ \E w \in Workers : Worker(w)
        \/ RedisFails \/ RedisReturns \/ Tick

Spec == Init /\ [][Next]_vars

(* Clients keep calling, a call ends within the HTTP timeout, an outage of *)
(* Redis ends, and time passes however often clients call.                 *)
Fairness == /\ \A r \in Requests : WF_vars(Request(r))
            /\ WF_vars(RedisReturns)
            /\ []<><<Tick>>_vars

FairSpec == Spec /\ Fairness

-----------------------------------------------------------------------------
(* Properties. *)

(* No worker acts on a picture of the circuit older than the L1 lifetime:  *)
(* when get_state has answered a coroutine that the circuit is closed and  *)
(* it is not, or the other way round, the change is younger than L1TTL.    *)
(* (The cached snapshot may have been stored after the change, from a      *)
(* reply read before it.) Redis errors fail open and are not covered.      *)
BoundedStaleness ==
    \A r \in Requests : pc[r] \in {"judge", "s.judge"} =>
        \/ (view[r].state = "closed") = (rstate = "closed")
        \/ changed < L1TTL

(* A failure counter over every configured threshold does not leave the    *)
(* circuit closed: until Redis or a worker fails, some record_failure is   *)
(* still on its way to opening it, whatever the others reset meanwhile. A  *)
(* caller that hangs up takes its record_failure with it; what that leaves *)
(* behind lasts until the next failure is counted, by whichever worker.    *)
OpenerInFlight ==
    faults = 0 /\ ~ cut /\ rstate = "closed"
        /\ (\A s \in Settings : failures >= s.failure_threshold)
    => \E r \in Requests : \/ pc[r] = "f.count" /\ count[r] >= failures
                           \/ pc[r] \in {"f.state", "f.open"}

(* An open circuit is kept until its recovery timeout has passed, and then *)
(* becomes half-open; a closed one does not become half-open at all. The   *)
(* exceptions are the work of snapshots a transition has outdated, and a   *)
(* transition outdates none for longer than the L1 lifetime.               *)
TimelyTransitions ==
    [][/\ rstate = "closed" /\ rstate' = "half-open" => changed < L1TTL
       /\ rstate = "open" /\ rstate' # "open" =>
             \/ opened < L1TTL
             \/ /\ rstate' = "half-open"
                /\ \E s \in Settings : opened >= s.recovery_timeout]_vars

(* An open circuit does not stay open: while clients keep calling, one of  *)
(* them takes the probe once the recovery timeout has passed.              *)
OpenIsProbed == rstate = "open" ~> rstate # "open"

(* A half-open circuit is decided: the probes close it or open it again.   *)
HalfOpenIsLeft == rstate = "half-open" ~> rstate # "half-open"
=============================================================================
