------------------------ MODULE CircuitBreakerProofs ------------------------
(***************************************************************************)
(* What holds of the circuit breaker for every set of workers, requests    *)
(* and settings: its types, the bound on stale views, that a counter over  *)
(* the threshold always has somebody opening the circuit, and that the     *)
(* circuit is left open for as long as it is meant to be.                  *)
(***************************************************************************)
EXTENDS CircuitBreaker, TLAPS

USE DEF NoTime

-----------------------------------------------------------------------------
(* The arithmetic of saturating counters. *)

\* What CircuitAssumption says, apart: the provers need a line of it at a time.
LEMMA Constants ==
    /\ RetryMax \in Nat /\ L1TTL \in Nat /\ AgeCap \in Nat
    /\ FailureCap \in Nat /\ MaxFaults \in Nat
    /\ L1TTL > 0 /\ L1TTL <= AgeCap
BY CircuitAssumption

LEMMA Workplace == ASSUME NEW r \in Requests PROVE WorkerOf[r] \in Workers
BY CircuitAssumption

LEMMA SettingTypes ==
    ASSUME NEW s \in Settings
    PROVE  /\ s.failure_threshold \in Nat /\ s.failure_threshold > 0
           /\ s.recovery_timeout \in 0 .. AgeCap
           /\ s.success_threshold \in Nat
BY CircuitAssumption

\* What get_state builds from the keys is a view.
LEMMA ReplyType ==
    ASSUME TypeOK, NEW w \in Workers
    PROVE  Reply(w) \in Views
<1>1. settings[w] \in Settings
  BY DEF TypeOK
<1>2. settings[w].recovery_timeout \in 0 .. AgeCap
  BY <1>1, SettingTypes
<1>3. opened # NoTime => Minus(settings[w].recovery_timeout, opened) \in 0 .. AgeCap
  BY <1>2, Constants DEF Minus, TypeOK
<1> QED
  BY <1>3 DEF Reply, Views, TypeOK

LEMMA EntryTypes ==
    /\ ClosedView \in Views
    /\ NoEntry \in [view : Views, age : 0 .. L1TTL]
BY CircuitAssumption DEF ClosedView, NoEntry, Views, States

-----------------------------------------------------------------------------
(* Type correctness. *)

\* The parts of requests: an action that moves one coroutine keeps them typed.
RequestTypes ==
    /\ pc \in [Requests -> Resting \cup Admitting \cup Succeeding \cup Failing]
    /\ view \in [Requests -> Views]
    /\ count \in [Requests -> 0 .. FailureCap]
    /\ attempt \in [Requests -> 0 .. RetryMax]

LEMMA ForgetTypes ==
    ASSUME TypeOK, NEW r \in Requests, Forget(r)
    PROVE  RequestTypes'
BY EntryTypes, Constants DEF TypeOK, RequestTypes, Forget, Goto, Resting

LEMMA ForwardTypes ==
    ASSUME TypeOK, NEW r \in Requests, Forward(r)
    PROVE  RequestTypes'
BY EntryTypes DEF TypeOK, RequestTypes, Forward, Goto, Resting

LEMMA NextAttemptTypes ==
    ASSUME TypeOK, NEW r \in Requests, NextAttempt(r)
    PROVE  RequestTypes'
<1>1. CASE attempt[r] < RetryMax
  <2>1. attempt[r] + 1 \in 0 .. RetryMax /\ 0 \in 0 .. FailureCap
    BY <1>1, Constants DEF TypeOK
  <2> QED
    BY <1>1, <2>1 DEF TypeOK, RequestTypes, NextAttempt, Goto, Resting
<1>2. CASE ~ (attempt[r] < RetryMax)
  BY <1>2, ForgetTypes DEF NextAttempt
<1> QED BY <1>1, <1>2

LEMMA GotoTypes ==
    ASSUME TypeOK, NEW r \in Requests,
           NEW where \in Resting \cup Admitting \cup Succeeding \cup Failing,
           Goto(r, where), UNCHANGED <<view, count, attempt>>
    PROVE  RequestTypes'
BY DEF TypeOK, RequestTypes, Goto

LEMMA GetStateTypes ==
    ASSUME TypeOK, NEW r \in Requests,
           NEW got \in Resting \cup Admitting \cup Succeeding \cup Failing,
           NEW judge \in Resting \cup Admitting \cup Succeeding \cup Failing,
           NEW failedOpen \in Resting \cup Admitting \cup Succeeding \cup Failing,
           GetState(r, got, judge, failedOpen)
    PROVE  TypeOK'
<1>1. WorkerOf[r] \in Workers
  BY Workplace
<1>2. l1[WorkerOf[r]].view \in Views /\ Reply(WorkerOf[r]) \in Views
  BY <1>1, ReplyType DEF TypeOK
<1> QED
  BY <1>1, <1>2 DEF TypeOK, GetState, Goto, redisVars, workerVars

LEMMA KeepReplyTypes ==
    ASSUME TypeOK, NEW r \in Requests, NEW got,
           NEW judge \in Resting \cup Admitting \cup Succeeding \cup Failing,
           KeepReply(r, got, judge)
    PROVE  TypeOK'
<1>1. [view |-> view[r], age |-> 0] \in [view : Views, age : 0 .. L1TTL]
  BY Constants DEF TypeOK
<1>2. l1' \in [Workers -> [view : Views, age : 0 .. L1TTL]]
  BY <1>1, Workplace DEF TypeOK, KeepReply
<1> QED
  BY <1>2 DEF TypeOK, KeepReply, Goto, redisVars

LEMMA InvalidateTypes ==
    ASSUME TypeOK, NEW w \in Workers, InvalidateL1(w)
    PROVE  l1' \in [Workers -> [view : Views, age : 0 .. L1TTL]]
BY EntryTypes DEF TypeOK, InvalidateL1

LEMMA SetStateTypes ==
    ASSUME TypeOK, NEW s \in States, SetState(s)
    PROVE  rstate' \in States /\ changed' \in 0 .. L1TTL
BY Constants DEF TypeOK, SetState

LEMMA TypeInit == Init => TypeOK
<1> SUFFICES ASSUME Init PROVE TypeOK
  OBVIOUS
<1>1. l1 \in [Workers -> [view : Views, age : 0 .. L1TTL]]
  BY EntryTypes DEF Init
<1>2. \A s \in Settings : [w \in Workers |-> s] \in [Workers -> Settings]
  OBVIOUS
<1>3. Init => cut \in BOOLEAN
  BY DEF Init
<1> QED
  BY <1>1, <1>2, <1>3, EntryTypes, Constants DEF Init, TypeOK, States, Resting

LEMMA TypeNext == TypeOK /\ [Next]_vars => TypeOK'
<1> SUFFICES ASSUME TypeOK, [Next]_vars PROVE TypeOK'
  OBVIOUS
<1> DEFINE Places == Resting \cup Admitting \cup Succeeding \cup Failing
<1>p. {"idle", "call", "get", "judge", "probe", "won", "s.get", "s.judge", "s.zero",
       "s.drop", "s.close", "s.closed", "f.count", "f.state", "f.open", "f.drop"}
      \subseteq Places
  BY DEF Resting, Admitting, Succeeding, Failing
<1> HIDE DEF Places
<1>r. ASSUME NEW r \in Requests, Request(r) PROVE TypeOK'
  <2>w. WorkerOf[r] \in Workers
    BY Workplace
  <2>s. Mine(r) \in Settings
    BY <2>w DEF Mine, TypeOK
  <2>1. CASE Arrive(r)
    BY <2>1, <1>p, GetStateTypes DEF Arrive, Places
  <2>2. CASE KeepAdmission(r)
    BY <2>2, <1>p, KeepReplyTypes DEF KeepAdmission, Places
  <2>3. CASE AdmitClosed(r)
    BY <2>3, ForwardTypes DEF AdmitClosed, TypeOK, RequestTypes, redisVars, workerVars
  <2>4. CASE RefuseOpen(r)
    BY <2>4, ForgetTypes DEF RefuseOpen, TypeOK, RequestTypes, redisVars, workerVars
  <2>5. CASE AcquireProbe(r)
    <3>1. RequestTypes'
      BY <2>5, <1>p, ForgetTypes, GotoTypes DEF AcquireProbe, Places
    <3>2. lock' \in 0 .. AgeCap
      BY <2>5, <2>s, SettingTypes, Constants DEF AcquireProbe, TypeOK
    <3> QED
      BY <2>5, <3>1, <3>2 DEF AcquireProbe, TypeOK, RequestTypes, workerVars
  <2>6. CASE SetHalfOpen(r)
    <3>1. RequestTypes'
      BY <2>6, <1>p, GotoTypes DEF SetHalfOpen, Places
    <3>2. rstate' \in States /\ changed' \in 0 .. L1TTL
      BY <2>6, SetStateTypes DEF SetHalfOpen, States, TypeOK
    <3> QED
      BY <2>6, <3>1, <3>2 DEF SetHalfOpen, TypeOK, RequestTypes, workerVars
  <2>7. CASE StartProbe(r)
    <3>1. RequestTypes' /\ l1' \in [Workers -> [view : Views, age : 0 .. L1TTL]]
      BY <2>7, <2>w, ForwardTypes, InvalidateTypes DEF StartProbe
    <3>2. successes' \in [Workers -> 0 .. FailureCap]
      BY <2>7, <2>w, Constants DEF StartProbe, TypeOK
    <3> QED
      BY <2>7, <3>1, <3>2 DEF StartProbe, TypeOK, RequestTypes, redisVars
  <2>8. CASE JoinProbe(r)
    BY <2>8, ForwardTypes, ForgetTypes
       DEF JoinProbe, TypeOK, RequestTypes, redisVars, workerVars
  <2>9. CASE EndUnrecorded(r)
    BY <2>9, ForgetTypes DEF EndUnrecorded, TypeOK, RequestTypes, redisVars, workerVars
  <2>23. CASE HangUp(r)
    <3>1. cut' \in BOOLEAN
      BY <2>23 DEF HangUp
    <3> QED
      BY <2>23, <3>1, ForgetTypes DEF HangUp, TypeOK, RequestTypes, workerVars
  <2>10. CASE Succeed(r)
    BY <2>10, <1>p, GetStateTypes DEF Succeed, Places
  <2>11. CASE KeepSuccess(r)
    BY <2>11, <1>p, KeepReplyTypes DEF KeepSuccess, Places
  <2>12. CASE SkipOpen(r)
    BY <2>12, ForgetTypes DEF SkipOpen, TypeOK, RequestTypes, redisVars, workerVars
  <2>13. CASE CountSuccess(r)
    <3>1. RequestTypes'
      BY <2>13, <1>p, ForgetTypes, GotoTypes DEF CountSuccess, Places
    <3>2. Capped(successes[WorkerOf[r]] + 1, FailureCap) \in 0 .. FailureCap
      BY <2>w, Constants DEF Capped, TypeOK
    <3> QED
      BY <2>13, <3>1, <3>2 DEF CountSuccess, TypeOK, RequestTypes, redisVars
  <2>14. CASE ZeroFailures(r)
    <3>1. RequestTypes'
      BY <2>14, <1>p, ForgetTypes, GotoTypes DEF ZeroFailures, Places
    <3>2. cut' \in BOOLEAN
      BY <2>14 DEF ZeroFailures, TypeOK
    <3> QED
      BY <2>14, <3>1, <3>2, Constants DEF ZeroFailures, TypeOK, RequestTypes, workerVars
  <2>15. CASE DropSnapshot(r)
    BY <2>15, <2>w, ForgetTypes, InvalidateTypes
       DEF DropSnapshot, TypeOK, RequestTypes, redisVars
  <2>16. CASE CloseCircuit(r)
    <3>1. RequestTypes'
      BY <2>16, <1>p, ForgetTypes, GotoTypes DEF CloseCircuit, Places
    <3>2. rstate' \in States /\ changed' \in 0 .. L1TTL
      BY <2>16, SetStateTypes DEF CloseCircuit, States, TypeOK, redisVars
    <3>3. cut' \in BOOLEAN
      BY <2>16 DEF CloseCircuit, TypeOK, redisVars
    <3> QED
      BY <2>16, <3>1, <3>2, <3>3, Constants
         DEF CloseCircuit, TypeOK, RequestTypes, workerVars, redisVars
  <2>17. CASE AfterClose(r)
    <3>1. RequestTypes' /\ l1' \in [Workers -> [view : Views, age : 0 .. L1TTL]]
      BY <2>17, <2>w, ForgetTypes, InvalidateTypes DEF AfterClose
    <3>2. successes' \in [Workers -> 0 .. FailureCap]
      BY <2>17, <2>w, Constants DEF AfterClose, TypeOK
    <3> QED
      BY <2>17, <3>1, <3>2 DEF AfterClose, TypeOK, RequestTypes, redisVars
  <2>18. CASE Fail(r)
    <3>1. Capped(failures + 1, FailureCap) \in 0 .. FailureCap
      BY Constants DEF Capped, TypeOK
    <3>2. CASE up
      BY <2>18, <3>1, <3>2, <1>p DEF Fail, TypeOK, Goto, Places, workerVars
    <3>3. CASE ~ up
      BY <2>18, <3>3, NextAttemptTypes DEF Fail, TypeOK, RequestTypes, workerVars
    <3> QED BY <3>2, <3>3
  <2>19. CASE CheckThreshold(r)
    <3>1. RequestTypes' /\ l1' \in [Workers -> [view : Views, age : 0 .. L1TTL]]
      BY <2>19, <2>w, <1>p, NextAttemptTypes, GotoTypes, InvalidateTypes
         DEF CheckThreshold, Places
    <3> QED
      BY <2>19, <3>1 DEF CheckThreshold, TypeOK, RequestTypes, redisVars
  <2>20. CASE ReadState(r)
    <3>1. RequestTypes'
      BY <2>20, <1>p, NextAttemptTypes, GotoTypes DEF ReadState, Places
    <3> QED
      BY <2>20, <3>1 DEF ReadState, TypeOK, RequestTypes, redisVars, workerVars
  <2>21. CASE OpenCircuit(r)
    <3>1. RequestTypes'
      BY <2>21, <1>p, NextAttemptTypes, GotoTypes DEF OpenCircuit, Places
    <3>2. rstate' \in States /\ changed' \in 0 .. L1TTL
      BY <2>21, SetStateTypes DEF OpenCircuit, States, TypeOK, redisVars
    <3> QED
      BY <2>21, <3>1, <3>2, Constants
         DEF OpenCircuit, TypeOK, RequestTypes, workerVars, redisVars
  <2>22. CASE AfterOpen(r)
    BY <2>22, <2>w, NextAttemptTypes, InvalidateTypes
       DEF AfterOpen, TypeOK, RequestTypes, redisVars
  <2> QED
    BY <1>r, <2>1, <2>2, <2>3, <2>4, <2>5, <2>6, <2>7, <2>8, <2>9, <2>10, <2>11,
       <2>12, <2>13, <2>14, <2>15, <2>16, <2>17, <2>18, <2>19, <2>20, <2>21, <2>22,
       <2>23
       DEF Request, Admission, Success, Failure
<1>u. ASSUME NEW w \in Workers, UpdateSettings(w) PROVE TypeOK'
  BY <1>u DEF UpdateSettings, TypeOK, redisVars, requestVars
<1>w. ASSUME NEW w \in Workers, RestartWorker(w) PROVE TypeOK'
  <2>1. l1' \in [Workers -> [view : Views, age : 0 .. L1TTL]]
    BY <1>w, InvalidateTypes DEF RestartWorker
  <2>2. RequestTypes'
    BY <1>w, <1>p, EntryTypes, Constants
       DEF RestartWorker, RequestTypes, TypeOK, Places
  <2>3. settings' \in [Workers -> Settings] /\ faults' \in 0 .. MaxFaults
        /\ successes' \in [Workers -> 0 .. FailureCap]
    BY <1>w, Constants DEF RestartWorker, TypeOK
  <2> QED
    BY <1>w, <2>1, <2>2, <2>3 DEF RestartWorker, TypeOK, RequestTypes, redisVars
<1>f. ASSUME RedisFails \/ RedisReturns PROVE TypeOK'
  <2>1. faults' \in 0 .. MaxFaults
    BY <1>f, Constants DEF RedisFails, RedisReturns, TypeOK
  <2>2. up' \in BOOLEAN
    BY <1>f DEF RedisFails, RedisReturns
  <2> QED
    BY <1>f, <2>1, <2>2
       DEF RedisFails, RedisReturns, TypeOK, redisVars, workerVars, requestVars
<1>t. ASSUME Tick PROVE TypeOK'
  <2>1. opened' \in NoTime .. AgeCap /\ lock' \in 0 .. AgeCap /\ changed' \in 0 .. L1TTL
    BY <1>t, Constants DEF Tick, TypeOK, Capped, Minus
  <2>2. ASSUME NEW w \in Workers, l1[w].age + 1 < L1TTL
        PROVE  Aged(l1[w]) \in [view : Views, age : 0 .. L1TTL]
    <3>1. l1[w] \in [view : Views, age : 0 .. L1TTL]
      BY DEF TypeOK
    <3>2. l1[w].view.recovery_at # NoTime =>
            Minus(l1[w].view.recovery_at, 1) \in 0 .. AgeCap
      BY <3>1, Constants DEF Minus, Views
    <3> QED
      BY <2>2, <3>1, <3>2, Constants DEF Aged, Views
  <2>3. l1' \in [Workers -> [view : Views, age : 0 .. L1TTL]]
    BY <1>t, <2>2, EntryTypes DEF Tick
  <2> QED
    BY <1>t, <2>1, <2>3 DEF Tick, TypeOK, requestVars
<1>v. CASE UNCHANGED vars
  BY <1>v DEF TypeOK, vars, redisVars, workerVars, requestVars
<1> QED
  BY <1>r, <1>u, <1>w, <1>f, <1>t, <1>v DEF Next, Worker

\* The circuit breaker is correctly typed (TypeOK of the runs).
THEOREM TypeCorrect == Spec => []TypeOK
BY TypeInit, TypeNext, PTL DEF Spec

-----------------------------------------------------------------------------
(* Bounded staleness. A picture of the circuit is outdated when it says    *)
(* closed and the circuit is not, or the other way round. No cached        *)
(* snapshot is older than the transition that outdated it, and a reply in  *)
(* hand was outdated, if at all, in the present tick.                      *)

Outdated(v) == (v.state = "closed") # (rstate = "closed")

StaleInv ==
    /\ \A w \in Workers : Outdated(l1[w].view) => changed <= l1[w].age
    /\ \A r \in Requests : pc[r] \in {"get", "s.get"} /\ Outdated(view[r])
                           => changed = 0
    /\ \A r \in Requests : pc[r] \in {"judge", "s.judge"} /\ Outdated(view[r])
                           => changed < L1TTL

Informed == {"get", "s.get", "judge", "s.judge"}

\* No request is given a view by the step.
NothingLearned ==
    \A r \in Requests : \/ pc'[r] = pc[r] /\ view'[r] = view[r]
                        \/ pc'[r] \notin Informed

\* A snapshot is kept or dropped.
NothingCached ==
    \A w \in Workers : l1'[w] = l1[w] \/ l1'[w] = NoEntry

\* Steps that leave the circuit closed, or not closed, as it was.
LEMMA StaleQuiet ==
    ASSUME TypeOK, StaleInv, UNCHANGED <<rstate, changed>>,
           NothingLearned, NothingCached
    PROVE  StaleInv'
<1>1. changed <= L1TTL
  BY Constants DEF TypeOK
<1>2. ASSUME NEW w \in Workers, Outdated(l1[w].view)'
      PROVE  changed' <= l1'[w].age
  BY <1>1, <1>2 DEF StaleInv, NothingCached, Outdated, NoEntry
<1>3. ASSUME NEW r \in Requests, pc'[r] \in Informed
      PROVE  pc'[r] = pc[r] /\ view'[r] = view[r]
  BY <1>3 DEF NothingLearned
<1> QED
  BY <1>2, <1>3 DEF StaleInv, Informed, Outdated

\* Steps that write the state: after a transition nothing is older than it.
LEMMA StaleTransition ==
    ASSUME TypeOK, StaleInv, NEW s, SetState(s), NothingLearned, UNCHANGED l1
    PROVE  StaleInv'
<1>1. CASE (s = "closed") # (rstate = "closed")
  <2>1. changed' = 0
    BY <1>1 DEF SetState
  <2>2. \A w \in Workers : 0 <= l1[w].age
    BY DEF TypeOK
  <2> QED
    BY <2>1, <2>2, Constants DEF StaleInv
<1>2. CASE (s = "closed") = (rstate = "closed")
  <2>1. changed' = changed /\ (rstate' = "closed") = (rstate = "closed")
    BY <1>2 DEF SetState
  <2>2. ASSUME NEW r \in Requests, pc'[r] \in Informed
        PROVE  pc'[r] = pc[r] /\ view'[r] = view[r]
    BY <2>2 DEF NothingLearned
  <2> QED
    BY <2>1, <2>2 DEF StaleInv, Informed, Outdated
<1> QED BY <1>1, <1>2

LEMMA StaleGetState ==
    ASSUME TypeOK, StaleInv, NEW r \in Requests, NEW got, NEW judge, NEW failedOpen,
           got \in {"get", "s.get"}, judge \in {"judge", "s.judge"},
           failedOpen \notin Informed, GetState(r, got, judge, failedOpen)
    PROVE  StaleInv'
<1>1. UNCHANGED <<rstate, changed, l1>>
  BY DEF GetState, redisVars, workerVars
<1>2. pc'[r] \in {"judge", "s.judge"} => view'[r] = l1[WorkerOf[r]].view
                                        /\ l1[WorkerOf[r]].age < L1TTL
  BY DEF GetState, Goto, Fresh, TypeOK, Informed
<1>3. pc'[r] \in {"get", "s.get"} => view'[r].state = rstate
  BY DEF GetState, Goto, TypeOK, Informed, Reply
<1>4. \A q \in Requests \ {r} : pc'[q] = pc[q] /\ view'[q] = view[q]
  BY DEF GetState, Goto, TypeOK
<1>5. ASSUME NEW q \in Requests, pc'[q] \in {"get", "s.get"}, Outdated(view[q])'
      PROVE  changed' = 0
  BY <1>1, <1>3, <1>4, <1>5 DEF StaleInv, Outdated
<1>6. ASSUME NEW q \in Requests, pc'[q] \in {"judge", "s.judge"}, Outdated(view[q])'
      PROVE  changed' < L1TTL
  <2>1. CASE q = r
    <3>1. Outdated(l1[WorkerOf[r]].view) /\ l1[WorkerOf[r]].age < L1TTL
      BY <1>1, <1>2, <1>6, <2>1 DEF Outdated
    <3>2. changed <= l1[WorkerOf[r]].age
      BY <3>1, Workplace DEF StaleInv
    <3>3. l1[WorkerOf[r]].age \in Nat /\ changed \in Nat
      BY Workplace, Constants DEF TypeOK
    <3> QED
      BY <1>1, <3>1, <3>2, <3>3, Constants
  <2>2. CASE q # r
    BY <1>1, <1>4, <1>6, <2>2 DEF StaleInv, Outdated
  <2> QED BY <2>1, <2>2
<1> QED
  BY <1>1, <1>5, <1>6 DEF StaleInv, Outdated

LEMMA StaleKeepReply ==
    ASSUME TypeOK, StaleInv, NEW r \in Requests, NEW got, NEW judge,
           got \in {"get", "s.get"}, judge \in {"judge", "s.judge"},
           KeepReply(r, got, judge)
    PROVE  StaleInv'
<1>1. UNCHANGED <<rstate, changed, view>>
  BY DEF KeepReply, redisVars
<1>2. Outdated(view[r]) => changed = 0
  BY DEF KeepReply, StaleInv
<1>3. l1'[WorkerOf[r]] = [view |-> view[r], age |-> 0]
      /\ \A w \in Workers \ {WorkerOf[r]} : l1'[w] = l1[w]
  BY Workplace DEF KeepReply, TypeOK
<1>4. pc'[r] = judge /\ \A q \in Requests \ {r} : pc'[q] = pc[q]
  BY DEF KeepReply, Goto, TypeOK
<1>5. ASSUME NEW w \in Workers, Outdated(l1[w].view)' PROVE changed' <= l1'[w].age
  <2>1. CASE w = WorkerOf[r]
    BY <1>1, <1>2, <1>3, <1>5, <2>1 DEF Outdated
  <2>2. CASE w # WorkerOf[r]
    BY <1>1, <1>3, <1>5, <2>2 DEF StaleInv, Outdated
  <2> QED BY <2>1, <2>2
<1>6. ASSUME NEW q \in Requests, Outdated(view[q])'
      PROVE  /\ pc'[q] \in {"get", "s.get"} => changed' = 0
             /\ pc'[q] \in {"judge", "s.judge"} => changed' < L1TTL
  <2>1. CASE q = r
    BY <1>1, <1>2, <1>4, <1>6, <2>1, Constants DEF Outdated
  <2>2. CASE q # r
    BY <1>1, <1>4, <1>6, <2>2 DEF StaleInv, Outdated
  <2> QED BY <2>1, <2>2
<1> QED
  BY <1>5, <1>6 DEF StaleInv

LEMMA StaleTick == ASSUME TypeOK, StaleInv, Tick PROVE StaleInv'
<1>1. rstate' = rstate /\ changed' = Capped(changed + 1, L1TTL)
  BY DEF Tick
<1>2. \A r \in Requests : pc'[r] \notin Informed
  BY DEF Tick, requestVars, Resting, Informed
<1>3. ASSUME NEW w \in Workers, Outdated(l1[w].view)' PROVE changed' <= l1'[w].age
  <2>1. changed \in Nat /\ l1[w].age \in Nat
    BY Constants DEF TypeOK
  <2>2. CASE l1[w].age + 1 < L1TTL
    <3>1. l1'[w] = Aged(l1[w])
      BY <2>2 DEF Tick
    <3>2. l1'[w].age = l1[w].age + 1 /\ Outdated(l1[w].view)
      BY <1>1, <1>3, <3>1 DEF Aged, Outdated
    <3>3. changed <= l1[w].age
      BY <3>2 DEF StaleInv
    <3> QED
      BY <1>1, <2>1, <3>2, <3>3, Constants DEF Capped
  <2>3. CASE ~ (l1[w].age + 1 < L1TTL)
    <3>1. l1'[w].age = L1TTL
      BY <2>3 DEF Tick, NoEntry
    <3> QED
      BY <1>1, <2>1, <3>1, Constants DEF Capped
  <2> QED BY <2>2, <2>3
<1> QED
  BY <1>2, <1>3 DEF StaleInv, Informed

LEMMA StaleInit == Init => StaleInv
BY Constants DEF Init, StaleInv, Outdated, NoEntry, ClosedView

\* Every way a request has of leaving a place gives it no view.
LEMMA NothingLearnedBy ==
    ASSUME TypeOK, NEW r \in Requests,
           \/ Forget(r) \/ Forward(r) \/ NextAttempt(r)
           \/ \E where : where \notin Informed /\ Goto(r, where) /\ UNCHANGED view
    PROVE  NothingLearned
BY DEF TypeOK, NothingLearned, Informed, Forget, Forward, NextAttempt, Goto

LEMMA NothingCachedBy ==
    ASSUME TypeOK, NEW w \in Workers, InvalidateL1(w) \/ UNCHANGED l1
    PROVE  NothingCached
BY DEF TypeOK, NothingCached, InvalidateL1

LEMMA StaleNext == TypeOK /\ StaleInv /\ [Next]_vars => StaleInv'
<1> SUFFICES ASSUME TypeOK, StaleInv, [Next]_vars PROVE StaleInv'
  OBVIOUS
<1> DEFINE Elsewhere == {"idle", "call", "probe", "won", "s.zero", "s.drop", "s.close",
                         "s.closed", "f.count", "f.state", "f.open", "f.drop"}
<1>e. \A where \in Elsewhere : where \notin Informed
  BY DEF Informed
<1>r. ASSUME NEW r \in Requests, Request(r) PROVE StaleInv'
  <2>w. WorkerOf[r] \in Workers
    BY Workplace
  <2>1. CASE Arrive(r)
    BY <2>1, StaleGetState DEF Arrive, Informed
  <2>2. CASE Succeed(r)
    BY <2>2, StaleGetState DEF Succeed, Informed
  <2>3. CASE KeepAdmission(r)
    BY <2>3, StaleKeepReply DEF KeepAdmission
  <2>4. CASE KeepSuccess(r)
    BY <2>4, StaleKeepReply DEF KeepSuccess
  <2>5. CASE SetHalfOpen(r)
    <3>1. NothingLearned
      BY <2>5, <1>e, NothingLearnedBy DEF SetHalfOpen
    <3>2. NothingCached /\ UNCHANGED l1
      BY <2>5, <2>w, NothingCachedBy DEF SetHalfOpen, workerVars
    <3> QED
      BY <2>5, <3>1, <3>2, StaleTransition, StaleQuiet DEF SetHalfOpen
  <2>6. CASE CloseCircuit(r)
    <3>1. NothingLearned
      BY <2>6, <1>e, NothingLearnedBy DEF CloseCircuit
    <3>2. NothingCached /\ UNCHANGED l1
      BY <2>6, <2>w, NothingCachedBy DEF CloseCircuit, workerVars
    <3> QED
      BY <2>6, <3>1, <3>2, StaleTransition, StaleQuiet DEF CloseCircuit, redisVars
  <2>7. CASE OpenCircuit(r)
    <3>1. NothingLearned
      BY <2>7, <1>e, NothingLearnedBy DEF OpenCircuit
    <3>2. NothingCached /\ UNCHANGED l1
      BY <2>7, <2>w, NothingCachedBy DEF OpenCircuit, workerVars
    <3> QED
      BY <2>7, <3>1, <3>2, StaleTransition, StaleQuiet DEF OpenCircuit, redisVars
  <2>8. CASE AdmitClosed(r) \/ RefuseOpen(r) \/ JoinProbe(r) \/ EndUnrecorded(r)
             \/ HangUp(r) \/ SkipOpen(r)
    BY <2>8, <2>w, NothingLearnedBy, NothingCachedBy, StaleQuiet
       DEF AdmitClosed, RefuseOpen, JoinProbe, EndUnrecorded, HangUp, SkipOpen,
           redisVars, workerVars
  <2>9. CASE AcquireProbe(r) \/ ZeroFailures(r) \/ ReadState(r) \/ CountSuccess(r)
    <3>1. NothingLearned
      BY <2>9, <1>e, NothingLearnedBy
         DEF AcquireProbe, ZeroFailures, ReadState, CountSuccess
    <3>2. NothingCached /\ UNCHANGED <<rstate, changed>>
      BY <2>9, <2>w, NothingCachedBy
         DEF AcquireProbe, ZeroFailures, ReadState, CountSuccess, redisVars, workerVars
    <3> QED
      BY <3>1, <3>2, StaleQuiet
  <2>10. CASE Fail(r) \/ CheckThreshold(r)
    <3>1. NothingLearned
      BY <2>10, <1>e, NothingLearnedBy DEF Fail, CheckThreshold
    <3>2. NothingCached /\ UNCHANGED <<rstate, changed>>
      BY <2>10, <2>w, NothingCachedBy DEF Fail, CheckThreshold, redisVars, workerVars
    <3> QED
      BY <3>1, <3>2, StaleQuiet
  <2>11. CASE StartProbe(r) \/ DropSnapshot(r) \/ AfterClose(r) \/ AfterOpen(r)
    <3>1. NothingLearned
      BY <2>11, NothingLearnedBy DEF StartProbe, DropSnapshot, AfterClose, AfterOpen
    <3>2. NothingCached /\ UNCHANGED <<rstate, changed>>
      BY <2>11, <2>w, NothingCachedBy
         DEF StartProbe, DropSnapshot, AfterClose, AfterOpen, redisVars
    <3> QED
      BY <3>1, <3>2, StaleQuiet
  <2> QED
    BY <1>r, <2>1, <2>2, <2>3, <2>4, <2>5, <2>6, <2>7, <2>8, <2>9, <2>10, <2>11
       DEF Request, Admission, Success, Failure
<1>w. ASSUME NEW w \in Workers, RestartWorker(w) PROVE StaleInv'
  <2>1. NothingLearned
    BY <1>w DEF RestartWorker, NothingLearned, Informed
  <2>2. NothingCached /\ UNCHANGED <<rstate, changed>>
    BY <1>w, NothingCachedBy DEF RestartWorker, redisVars
  <2> QED
    BY <2>1, <2>2, StaleQuiet
<1>o. ASSUME \/ \E w \in Workers : UpdateSettings(w)
             \/ RedisFails \/ RedisReturns \/ UNCHANGED vars
      PROVE  StaleInv'
  <2>1. UNCHANGED <<rstate, changed, l1, pc, view>>
    BY <1>o DEF UpdateSettings, RedisFails, RedisReturns, vars, redisVars,
                workerVars, requestVars
  <2> QED
    BY <2>1, StaleQuiet DEF NothingLearned, NothingCached
<1> QED
  BY <1>r, <1>w, <1>o, StaleTick DEF Next, Worker

\* No worker acts on a picture of the circuit that a transition at least as
\* old as the L1 lifetime has outdated, whatever the interleaving, the
\* outages and the restarts.
THEOREM StalenessBounded == Spec => []BoundedStaleness
<1>1. Init => TypeOK /\ StaleInv
  BY TypeInit, StaleInit
<1>2. TypeOK /\ StaleInv /\ [Next]_vars => (TypeOK /\ StaleInv)'
  BY TypeNext, StaleNext
<1>3. TypeOK /\ StaleInv => BoundedStaleness
  BY DEF StaleInv, BoundedStaleness, Outdated
<1> QED
  BY <1>1, <1>2, <1>3, PTL DEF Spec

-----------------------------------------------------------------------------
(* An opener in flight. *)

Over == /\ faults = 0 /\ ~ cut /\ rstate = "closed"
        /\ \A s \in Settings : failures >= s.failure_threshold

Opener(r) == \/ pc[r] = "f.count" /\ count[r] >= failures
             \/ pc[r] \in {"f.state", "f.open"}

OpenerInv == /\ faults = 0 => up
             /\ Over => \E r \in Requests : Opener(r)

\* Only the coroutine of r moves.
Alone(r) == \A q \in Requests \ {r} : pc'[q] = pc[q] /\ count'[q] = count[q]

\* A counter that was zeroed is over no threshold.
LEMMA ZeroIsNotOver == failures = 0 => ~ Over
<1> SUFFICES ASSUME failures = 0, Over PROVE FALSE
  OBVIOUS
<1>1. PICK s \in Settings : TRUE
  BY CircuitAssumption
<1> QED
  BY <1>1, SettingTypes DEF Over

\* A step of one coroutine that writes neither the state nor the counter
\* disturbs the invariant only where it takes the opener away.
LEMMA OpenerKept ==
    ASSUME OpenerInv, NEW r \in Requests, Alone(r),
           UNCHANGED <<faults, up, rstate, failures, cut>>,
           ~ Opener(r) \/ Opener(r)' \/ ~ Over
    PROVE  OpenerInv'
<1>1. Over' = Over
  BY DEF Over
<1>2. \A q \in Requests \ {r} : Opener(q) => Opener(q)'
  BY DEF Alone, Opener
<1> QED
  BY <1>1, <1>2 DEF OpenerInv

\* After a step that leaves the circuit not closed, or zeroes the counter,
\* nobody has anything to open.
LEMMA NothingToOpen ==
    ASSUME OpenerInv, UNCHANGED <<faults, up>>, rstate' # "closed" \/ failures' = 0
    PROVE  OpenerInv'
<1>1. (failures = 0 => ~ Over)'
  BY ZeroIsNotOver, CircuitAssumption, SettingTypes DEF Over
<1> QED
  BY <1>1 DEF OpenerInv, Over

LEMMA AloneBy ==
    ASSUME TypeOK, NEW r \in Requests,
           \/ Forget(r) \/ Forward(r) \/ NextAttempt(r)
           \/ \E where : Goto(r, where) /\ UNCHANGED count
    PROVE  Alone(r)
BY DEF TypeOK, Alone, Forget, Forward, NextAttempt, Goto

LEMMA OpenerInit == Init => OpenerInv
BY ZeroIsNotOver DEF Init, OpenerInv

LEMMA OpenerNext == TypeOK /\ OpenerInv /\ [Next]_vars => OpenerInv'
<1> SUFFICES ASSUME TypeOK, OpenerInv, [Next]_vars PROVE OpenerInv'
  OBVIOUS
<1>r. ASSUME NEW r \in Requests, Request(r) PROVE OpenerInv'
  <2>1. CASE Admission(r) /\ ~ SetHalfOpen(r)
    <3>1. ~ Opener(r)
      BY <2>1 DEF Admission, Opener, Arrive, KeepAdmission, KeepReply, AdmitClosed,
                  RefuseOpen, AcquireProbe, StartProbe, JoinProbe
    <3>2. Alone(r)
      BY <2>1, AloneBy
         DEF Admission, Arrive, GetState, KeepAdmission, KeepReply, AdmitClosed,
             RefuseOpen, AcquireProbe, StartProbe, JoinProbe
    <3>3. UNCHANGED <<faults, up, rstate, failures, cut>>
      BY <2>1 DEF Admission, Arrive, GetState, KeepAdmission, KeepReply, AdmitClosed,
                  RefuseOpen, AcquireProbe, StartProbe, JoinProbe, redisVars
    <3> QED
      BY <3>1, <3>2, <3>3, OpenerKept
  <2>2. CASE SetHalfOpen(r)
    <3>1. CASE up
      <4>1. rstate' # "closed" /\ UNCHANGED <<faults, up>>
        BY <2>2, <3>1 DEF SetHalfOpen, SetState
      <4> QED
        BY <4>1, NothingToOpen
    <3>2. CASE ~ up
      BY <2>2, <3>2, AloneBy, OpenerKept DEF SetHalfOpen, Opener
    <3> QED BY <3>1, <3>2
  <2>3. CASE EndUnrecorded(r)
    BY <2>3, AloneBy, OpenerKept DEF EndUnrecorded, Opener, redisVars
  <2>12. CASE HangUp(r)
    <3>1. CASE pc[r] \in Opening
      BY <2>12, <3>1 DEF HangUp, OpenerInv, Over
    <3>2. CASE pc[r] \notin Opening
      <4>1. UNCHANGED <<faults, up, rstate, failures>> /\ Alone(r)
        BY <2>12, AloneBy DEF HangUp
      <4>2. cut' = cut
        BY <2>12, <3>2 DEF HangUp, TypeOK
      <4>3. ~ Opener(r)
        BY <3>2 DEF Opener, Opening
      <4> QED
        BY <4>1, <4>2, <4>3, OpenerKept
    <3> QED BY <3>1, <3>2
  <2>4. CASE Success(r) /\ ~ ZeroFailures(r) /\ ~ CloseCircuit(r)
    <3>1. ~ Opener(r)
      BY <2>4 DEF Success, Opener, Succeed, KeepSuccess, KeepReply, SkipOpen,
                  CountSuccess, DropSnapshot, AfterClose
    <3>2. Alone(r)
      BY <2>4, AloneBy
         DEF Success, Succeed, GetState, KeepSuccess, KeepReply, SkipOpen,
             CountSuccess, DropSnapshot, AfterClose
    <3>3. UNCHANGED <<faults, up, rstate, failures, cut>>
      BY <2>4 DEF Success, Succeed, GetState, KeepSuccess, KeepReply, SkipOpen,
                  CountSuccess, DropSnapshot, AfterClose, redisVars
    <3> QED
      BY <3>1, <3>2, <3>3, OpenerKept
  <2>5. CASE ZeroFailures(r)
    <3>1. CASE up
      BY <2>5, <3>1, NothingToOpen DEF ZeroFailures
    <3>2. CASE ~ up
      BY <2>5, <3>2, AloneBy, OpenerKept DEF ZeroFailures, Opener
    <3> QED BY <3>1, <3>2
  <2>6. CASE CloseCircuit(r)
    <3>1. CASE up
      BY <2>6, <3>1, NothingToOpen DEF CloseCircuit
    <3>2. CASE ~ up
      BY <2>6, <3>2, AloneBy, OpenerKept DEF CloseCircuit, Opener, redisVars
    <3> QED BY <3>1, <3>2
  <2>7. CASE Fail(r)
    <3>1. CASE up
      <4>1. count'[r] = failures' /\ pc'[r] = "f.count" /\ UNCHANGED <<faults, up>>
        BY <2>7, <3>1 DEF Fail, Goto, TypeOK
      <4>2. failures' \in Nat
        BY TypeNext, Constants DEF TypeOK
      <4>3. Opener(r)'
        BY <4>1, <4>2 DEF Opener
      <4> QED
        BY <4>1, <4>3 DEF OpenerInv
    <3>2. CASE ~ up
      BY <2>7, <3>2, AloneBy, OpenerKept DEF Fail, Opener
    <3> QED BY <3>1, <3>2
  <2>8. CASE CheckThreshold(r)
    <3>1. UNCHANGED <<faults, up, rstate, failures, cut>>
      BY <2>8 DEF CheckThreshold, redisVars
    <3>2. Alone(r)
      BY <2>8, AloneBy DEF CheckThreshold
    <3>3. ASSUME Opener(r), Over PROVE Opener(r)'
      <4>1. Mine(r) \in Settings
        BY Workplace DEF Mine, TypeOK
      <4>2. count[r] >= failures /\ failures >= Mine(r).failure_threshold
        BY <2>8, <3>3, <4>1 DEF CheckThreshold, Opener, Over
      <4>3. /\ count[r] \in Nat /\ failures \in Nat
            /\ Mine(r).failure_threshold \in Nat
        BY <4>1, SettingTypes, Constants DEF TypeOK
      <4>4. pc'[r] = "f.state"
        BY <2>8, <4>2, <4>3 DEF CheckThreshold, Goto, TypeOK
      <4> QED
        BY <4>4 DEF Opener
    <3> QED
      BY <3>1, <3>2, <3>3, OpenerKept
  <2>9. CASE ReadState(r)
    <3>1. UNCHANGED <<faults, up, rstate, failures, cut>>
      BY <2>9 DEF ReadState, redisVars
    <3>2. Alone(r)
      BY <2>9, AloneBy DEF ReadState
    <3>3. ASSUME Over PROVE Opener(r)'
      BY <2>9, <3>3 DEF ReadState, Over, OpenerInv, Opener, Goto, TypeOK
    <3> QED
      BY <3>1, <3>2, <3>3, OpenerKept
  <2>10. CASE OpenCircuit(r)
    <3>1. CASE up
      <4>1. rstate' # "closed" /\ UNCHANGED <<faults, up>>
        BY <2>10, <3>1 DEF OpenCircuit, SetState
      <4> QED
        BY <4>1, NothingToOpen
    <3>2. CASE ~ up
      BY <2>10, <3>2, AloneBy, OpenerKept DEF OpenCircuit, OpenerInv, Over, redisVars
    <3> QED BY <3>1, <3>2
  <2>11. CASE AfterOpen(r)
    BY <2>11, AloneBy, OpenerKept DEF AfterOpen, Opener, redisVars
  <2> QED
    BY <1>r, <2>1, <2>2, <2>3, <2>4, <2>5, <2>6, <2>7, <2>8, <2>9, <2>10, <2>11,
       <2>12 DEF Request, Success, Failure
<1>f. ASSUME (\E w \in Workers : RestartWorker(w)) \/ RedisFails PROVE OpenerInv'
  <2>1. faults' # 0
    BY <1>f DEF RestartWorker, RedisFails, TypeOK
  <2> QED
    BY <2>1 DEF OpenerInv, Over
<1>b. ASSUME RedisReturns PROVE OpenerInv'
  BY <1>b DEF RedisReturns, OpenerInv, Over, Opener, redisVars, requestVars
<1>o. ASSUME (\E w \in Workers : UpdateSettings(w)) \/ Tick \/ UNCHANGED vars
      PROVE  OpenerInv'
  BY <1>o DEF UpdateSettings, Tick, vars, OpenerInv, Over, Opener,
              redisVars, requestVars
<1> QED
  BY <1>r, <1>f, <1>b, <1>o DEF Next, Worker

\* Until the first outage or restart, a failure counter over every threshold
\* never leaves the circuit closed with nobody opening it, however many
\* coroutines record successes and failures at once; where a caller hung up
\* and took the opener with it, from the next failure counted onwards.
THEOREM OpenerIsInFlight == Spec => []OpenerInFlight
<1>1. Init => TypeOK /\ OpenerInv
  BY TypeInit, OpenerInit
<1>2. TypeOK /\ OpenerInv /\ [Next]_vars => (TypeOK /\ OpenerInv)'
  BY TypeNext, OpenerNext
<1>3. OpenerInv => OpenerInFlight
  BY DEF OpenerInv, OpenerInFlight, Over, Opener
<1> QED
  BY <1>1, <1>2, <1>3, PTL DEF Spec

-----------------------------------------------------------------------------
(* Timely transitions. What a snapshot says of the time to the probe stays *)
(* true while it ages with the circuit; it goes wrong when the circuit     *)
(* opens again, and then it is older than the opening. A coroutine that    *)
(* acts on a snapshot does so in the tick it was given it.                 *)

\* The recovery timeout of some settings has passed when v says so.
Due(v) ==
    \/ v.recovery_at = NoTime
    \/ \E s \in Settings : opened + v.recovery_at >= s.recovery_timeout

\* A snapshot of that age knows of every opening older than itself.
Current(v, age) ==
    /\ Due(v) \/ opened <= age
    /\ v.state = "half-open" /\ rstate = "open" => opened <= age

Acting == {"judge", "s.judge", "probe", "s.close"}
Holding == {"get", "s.get"} \cup Acting

InHand(r) ==
    /\ pc[r] \in {"get", "s.get"} => Current(view[r], 0)
    /\ pc[r] \in Acting => Current(view[r], L1TTL - 1)
    /\ pc[r] = "probe" => /\ view[r].state = "open" /\ view[r].recovery_at = 0
                          /\ rstate = "closed" => changed < L1TTL
    /\ pc[r] = "s.close" => view[r].state = "half-open"

Cached == \A w \in Workers : Current(l1[w].view, l1[w].age)

TimelyInv == Cached /\ \A r \in Requests : InHand(r)

\* No request takes up a view by the step.
NothingTaken ==
    \A r \in Requests : \/ pc'[r] = pc[r] /\ view'[r] = view[r]
                        \/ pc'[r] \notin Holding

LEMMA NoEntryIsDue == NoEntry.view.recovery_at = NoTime /\ NoEntry.view.state # "half-open"
BY DEF NoEntry, ClosedView

LEMMA NothingTakenBy ==
    ASSUME TypeOK, NEW r \in Requests,
           \/ Forget(r) \/ Forward(r) \/ NextAttempt(r)
           \/ \E where : where \notin Holding /\ Goto(r, where) /\ UNCHANGED view
    PROVE  NothingTaken
BY DEF TypeOK, NothingTaken, Holding, Acting, Forget, Forward, NextAttempt, Goto

LEMMA CachedKept ==
    ASSUME Cached, UNCHANGED <<rstate, opened>>, NothingCached
    PROVE  Cached'
BY NoEntryIsDue DEF Cached, NothingCached, Current, Due

\* Steps that leave the circuit as it was.
LEMMA TimelyQuiet ==
    ASSUME TimelyInv, UNCHANGED <<rstate, opened, changed>>,
           NothingTaken, NothingCached
    PROVE  TimelyInv'
<1>1. Cached'
  BY CachedKept DEF TimelyInv
<1>2. ASSUME NEW r \in Requests PROVE InHand(r)'
  <2>1. CASE pc'[r] = pc[r] /\ view'[r] = view[r]
    BY <2>1 DEF TimelyInv, InHand, Current, Due
  <2>2. CASE pc'[r] \notin Holding
    BY <2>2 DEF InHand, Holding, Acting
  <2> QED BY <2>1, <2>2 DEF NothingTaken
<1> QED
  BY <1>1, <1>2 DEF TimelyInv

\* Steps that open or close it: every snapshot is older, and nobody has won a
\* probe that the transition does not precede in the same tick.
LEMMA TimelyTransition ==
    ASSUME TypeOK, TimelyInv, NEW s, SetState(s), opened' \in {0, NoTime},
           NothingTaken, UNCHANGED l1
    PROVE  TimelyInv'
<1>1. opened' <= 0 /\ 0 <= L1TTL - 1
  BY Constants
<1>2. \A w \in Workers : opened' <= l1'[w].age
  BY <1>1, Constants DEF TypeOK
<1>3. Cached'
  BY <1>2 DEF Cached, Current
<1>4. rstate' = "closed" => changed' = 0 \/ (rstate = "closed" /\ changed' = changed)
  <2>1. CASE (s = "closed") # (rstate = "closed")
    BY <2>1 DEF SetState
  <2>2. CASE (s = "closed") = (rstate = "closed")
    BY <2>2 DEF SetState
  <2> QED BY <2>1, <2>2
<1>5. ASSUME NEW r \in Requests PROVE InHand(r)'
  <2>1. CASE pc'[r] = pc[r] /\ view'[r] = view[r]
    <3>1. Current(view[r], 0)'
      BY <1>1 DEF Current
    <3>2. Current(view[r], L1TTL - 1)'
      BY <1>1, Constants DEF Current
    <3>3. pc[r] = "probe" => /\ view[r].state = "open" /\ view[r].recovery_at = 0
                             /\ rstate' = "closed" => changed' < L1TTL
      BY <1>4, Constants DEF TimelyInv, InHand
    <3>4. pc[r] = "s.close" => view[r].state = "half-open"
      BY DEF TimelyInv, InHand
    <3> QED
      BY <2>1, <3>1, <3>2, <3>3, <3>4 DEF InHand
  <2>2. CASE pc'[r] \notin Holding
    BY <2>2 DEF InHand, Holding, Acting
  <2> QED BY <2>1, <2>2 DEF NothingTaken
<1> QED
  BY <1>3, <1>5 DEF TimelyInv

\* The circuit becomes half-open: no snapshot is outdated by that.
LEMMA TimelyHalfOpen ==
    ASSUME TypeOK, TimelyInv, SetState("half-open"), UNCHANGED <<opened, l1>>,
           NothingTaken
    PROVE  TimelyInv'
<1>1. rstate' = "half-open"
  BY DEF SetState
<1>2. Cached'
  BY <1>1 DEF TimelyInv, Cached, Current, Due
<1>3. ASSUME NEW r \in Requests PROVE InHand(r)'
  <2>1. CASE pc'[r] = pc[r] /\ view'[r] = view[r]
    BY <1>1, <2>1 DEF TimelyInv, InHand, Current, Due
  <2>2. CASE pc'[r] \notin Holding
    BY <2>2 DEF InHand, Holding, Acting
  <2> QED BY <2>1, <2>2 DEF NothingTaken
<1> QED
  BY <1>2, <1>3 DEF TimelyInv

LEMMA TimelyGetState ==
    ASSUME TypeOK, TimelyInv, NEW r \in Requests, NEW got, NEW judge, NEW failedOpen,
           got \in {"get", "s.get"}, judge \in {"judge", "s.judge"},
           failedOpen \notin Holding, GetState(r, got, judge, failedOpen)
    PROVE  TimelyInv'
<1>w. WorkerOf[r] \in Workers
  BY Workplace
<1>1. UNCHANGED <<rstate, opened, changed, l1>>
  BY DEF GetState, redisVars, workerVars
<1>2. Cached'
  BY <1>1 DEF TimelyInv, Cached, Current, Due
<1>3. CASE Fresh(WorkerOf[r]) /\ Goto(r, judge)
           /\ view' = [view EXCEPT ![r] = l1[WorkerOf[r]].view]
  <2>1. pc'[r] \in {"judge", "s.judge"} /\ view'[r] = l1[WorkerOf[r]].view
    BY <1>3 DEF Goto, TypeOK
  <2>2. l1[WorkerOf[r]].age < L1TTL /\ l1[WorkerOf[r]].age \in Nat /\ opened \in Int
    BY <1>3, <1>w, Constants DEF Fresh, TypeOK
  <2>3. Current(l1[WorkerOf[r]].view, l1[WorkerOf[r]].age)
    BY <1>w DEF TimelyInv, Cached
  <2>4. Current(l1[WorkerOf[r]].view, L1TTL - 1)
    BY <2>2, <2>3, Constants DEF Current
  <2>5. InHand(r)'
    BY <1>1, <2>1, <2>4 DEF InHand, Current, Due, Acting
  <2>6. ASSUME NEW q \in Requests \ {r} PROVE InHand(q)'
    <3>1. pc'[q] = pc[q] /\ view'[q] = view[q]
      BY <1>3 DEF Goto, TypeOK
    <3> QED
      BY <1>1, <3>1 DEF TimelyInv, InHand, Current, Due
  <2> QED
    BY <1>2, <2>5, <2>6 DEF TimelyInv
<1>4. CASE Goto(r, got) /\ view' = [view EXCEPT ![r] = Reply(WorkerOf[r])]
  <2>1. pc'[r] \in {"get", "s.get"} /\ view'[r] = Reply(WorkerOf[r])
    BY <1>4 DEF Goto, TypeOK
  <2>2. settings[WorkerOf[r]] \in Settings
    BY <1>w DEF TypeOK
  <2>3. settings[WorkerOf[r]].recovery_timeout \in Nat /\ opened \in Int
    BY <2>2, SettingTypes, Constants DEF TypeOK
  <2>4. Current(Reply(WorkerOf[r]), 0)
    <3>1. CASE opened = NoTime
      BY <3>1 DEF Current, Due, Reply
    <3>2. CASE opened # NoTime
      <4>1. Reply(WorkerOf[r]).recovery_at
              = Minus(settings[WorkerOf[r]].recovery_timeout, opened)
        BY <3>2 DEF Reply
      <4>2. opened + Reply(WorkerOf[r]).recovery_at
              >= settings[WorkerOf[r]].recovery_timeout
        BY <2>3, <4>1 DEF Minus
      <4>3. Due(Reply(WorkerOf[r]))
        BY <2>2, <4>2 DEF Due
      <4>4. Reply(WorkerOf[r]).state = rstate
        BY DEF Reply
      <4> QED BY <4>3, <4>4 DEF Current
    <3> QED BY <3>1, <3>2
  <2>5. InHand(r)'
    BY <1>1, <2>1, <2>4 DEF InHand, Current, Due, Acting
  <2>6. ASSUME NEW q \in Requests \ {r} PROVE InHand(q)'
    <3>1. pc'[q] = pc[q] /\ view'[q] = view[q]
      BY <1>4 DEF Goto, TypeOK
    <3> QED
      BY <1>1, <3>1 DEF TimelyInv, InHand, Current, Due
  <2> QED
    BY <1>2, <2>5, <2>6 DEF TimelyInv
<1>5. CASE Goto(r, failedOpen) /\ UNCHANGED view
  <2>1. NothingTaken
    BY <1>5, NothingTakenBy
  <2>2. NothingCached
    BY <1>1 DEF NothingCached
  <2> QED
    BY <1>1, <2>1, <2>2, TimelyQuiet
<1> QED
  BY <1>3, <1>4, <1>5 DEF GetState

LEMMA TimelyKeepReply ==
    ASSUME TypeOK, TimelyInv, NEW r \in Requests, NEW got, NEW judge,
           got \in {"get", "s.get"}, judge \in {"judge", "s.judge"},
           KeepReply(r, got, judge)
    PROVE  TimelyInv'
<1>1. UNCHANGED <<rstate, opened, changed, view>>
  BY DEF KeepReply, redisVars
<1>2. Current(view[r], 0) /\ opened \in Int
  BY Constants DEF KeepReply, TimelyInv, InHand, TypeOK
<1>3. l1'[WorkerOf[r]] = [view |-> view[r], age |-> 0]
      /\ \A w \in Workers \ {WorkerOf[r]} : l1'[w] = l1[w]
  BY Workplace DEF KeepReply, TypeOK
<1>4. pc'[r] = judge /\ \A q \in Requests \ {r} : pc'[q] = pc[q]
  BY DEF KeepReply, Goto, TypeOK
<1>5. ASSUME NEW w \in Workers PROVE Current(l1[w].view, l1[w].age)'
  <2>1. CASE w = WorkerOf[r]
    <3>1. l1'[w].view = view[r] /\ l1'[w].age = 0
      BY <1>3, <2>1
    <3> QED
      BY <1>1, <1>2, <3>1 DEF Current, Due
  <2>2. CASE w # WorkerOf[r]
    BY <1>1, <1>3, <2>2 DEF TimelyInv, Cached, Current, Due
  <2> QED BY <2>1, <2>2
<1>6. InHand(r)'
  <2>1. Current(view[r], L1TTL - 1)
    BY <1>2, Constants DEF Current
  <2> QED
    BY <1>1, <1>4, <2>1 DEF InHand, Current, Due, Acting
<1>7. ASSUME NEW q \in Requests \ {r} PROVE InHand(q)'
  BY <1>1, <1>4 DEF TimelyInv, InHand, Current, Due
<1> QED
  BY <1>5, <1>6, <1>7 DEF TimelyInv, Cached

\* A coroutine that has judged its view goes on with it.
LEMMA TimelyTake ==
    ASSUME TypeOK, TimelyInv, NEW r \in Requests, NEW where \in {"probe", "s.close"},
           pc[r] \in Acting, Goto(r, where), UNCHANGED <<rstate, opened, changed, l1, view>>,
           where = "probe" => /\ view[r].state = "open" /\ view[r].recovery_at = 0
                              /\ rstate = "closed" => changed < L1TTL,
           where = "s.close" => view[r].state = "half-open"
    PROVE  TimelyInv'
<1>1. pc'[r] = where /\ \A q \in Requests \ {r} : pc'[q] = pc[q]
  BY DEF Goto, TypeOK
<1>2. Cached'
  BY DEF TimelyInv, Cached, Current, Due
<1>3. InHand(r)'
  BY <1>1 DEF TimelyInv, InHand, Current, Due, Acting
<1>4. ASSUME NEW q \in Requests \ {r} PROVE InHand(q)'
  BY <1>1 DEF TimelyInv, InHand, Current, Due
<1> QED
  BY <1>2, <1>3, <1>4 DEF TimelyInv

LEMMA TimelyTick == ASSUME TypeOK, TimelyInv, Tick PROVE TimelyInv'
<1>1. UNCHANGED <<rstate, pc, view>>
      /\ opened' = IF opened = NoTime THEN NoTime ELSE Capped(opened + 1, AgeCap)
  BY DEF Tick, requestVars
<1>2. \A r \in Requests : pc'[r] \notin Holding
  BY <1>1 DEF Tick, Resting, Holding, Acting
<1>3. ASSUME NEW w \in Workers PROVE Current(l1[w].view, l1[w].age)'
  <2>1. /\ l1[w].age \in Nat /\ opened \in NoTime .. AgeCap
        /\ l1[w].view.recovery_at \in NoTime .. AgeCap
    BY Constants DEF TypeOK, Views
  <2>2. CASE l1[w].age + 1 < L1TTL
    <3>1. l1'[w] = Aged(l1[w])
      BY <2>2 DEF Tick
    <3>2. /\ l1'[w].age = l1[w].age + 1
          /\ l1'[w].view.state = l1[w].view.state
          /\ l1'[w].view.recovery_at = IF l1[w].view.recovery_at = NoTime THEN NoTime
                                       ELSE Minus(l1[w].view.recovery_at, 1)
      BY <3>1 DEF Aged
    <3>3. opened <= l1[w].age => opened' <= l1'[w].age
      BY <1>1, <2>1, <3>2, Constants DEF Capped
    <3>4. ASSUME Due(l1[w].view), ~ (opened <= l1[w].age)
          PROVE  Due(l1[w].view)'
      <4>1. CASE l1[w].view.recovery_at = NoTime
        BY <3>2, <4>1 DEF Due
      <4>2. CASE l1[w].view.recovery_at # NoTime
        <5>1. PICK s \in Settings : opened + l1[w].view.recovery_at >= s.recovery_timeout
          BY <3>4, <4>2 DEF Due
        <5>2. s.recovery_timeout \in 0 .. AgeCap /\ AgeCap \in Nat
          BY SettingTypes, Constants
        <5>3. opened # NoTime
          BY <2>1, <3>4
        <5>4. opened' + l1'[w].view.recovery_at >= s.recovery_timeout
          BY <1>1, <2>1, <3>2, <4>2, <5>1, <5>2, <5>3 DEF Capped, Minus
        <5> QED
          BY <5>4 DEF Due
      <4> QED BY <4>1, <4>2
    <3>5. Due(l1[w].view)' \/ opened' <= l1'[w].age
      BY <3>3, <3>4 DEF TimelyInv, Cached, Current
    <3> QED
      BY <1>1, <3>2, <3>3, <3>5 DEF TimelyInv, Cached, Current
  <2>3. CASE ~ (l1[w].age + 1 < L1TTL)
    <3>1. l1'[w] = NoEntry
      BY <2>3 DEF Tick
    <3> QED
      BY <3>1, NoEntryIsDue DEF Current, Due
  <2> QED BY <2>2, <2>3
<1> QED
  BY <1>2, <1>3 DEF TimelyInv, Cached, InHand, Holding, Acting

LEMMA TimelyInit == Init => TimelyInv
<1> SUFFICES ASSUME Init PROVE TimelyInv
  OBVIOUS
<1>1. Cached
  BY NoEntryIsDue DEF Init, Cached, Current, Due
<1> QED
  BY <1>1 DEF Init, TimelyInv, InHand, Acting

LEMMA TimelyNext == TypeOK /\ StaleInv /\ TimelyInv /\ [Next]_vars => TimelyInv'
<1> SUFFICES ASSUME TypeOK, StaleInv, TimelyInv, [Next]_vars PROVE TimelyInv'
  OBVIOUS
<1> DEFINE Elsewhere == {"idle", "call", "won", "s.zero", "s.drop", "s.closed",
                         "f.count", "f.state", "f.open", "f.drop"}
<1>e. \A where \in Elsewhere : where \notin Holding
  BY DEF Holding, Acting
<1>r. ASSUME NEW r \in Requests, Request(r) PROVE TimelyInv'
  <2>w. WorkerOf[r] \in Workers
    BY Workplace
  <2>1. CASE Arrive(r)
    BY <2>1, <1>e, TimelyGetState DEF Arrive
  <2>2. CASE Succeed(r)
    BY <2>2, <1>e, TimelyGetState DEF Succeed
  <2>3. CASE KeepAdmission(r)
    BY <2>3, TimelyKeepReply DEF KeepAdmission
  <2>4. CASE KeepSuccess(r)
    BY <2>4, TimelyKeepReply DEF KeepSuccess
  <2>5. CASE SetHalfOpen(r)
    <3>1. NothingTaken
      BY <2>5, <1>e, NothingTakenBy DEF SetHalfOpen
    <3>2. NothingCached /\ UNCHANGED <<l1, opened>>
      BY <2>5, <2>w, NothingCachedBy DEF SetHalfOpen, workerVars
    <3> QED
      BY <2>5, <3>1, <3>2, TimelyHalfOpen, TimelyQuiet DEF SetHalfOpen
  <2>6. CASE CloseCircuit(r)
    <3>1. NothingTaken
      BY <2>6, <1>e, NothingTakenBy DEF CloseCircuit
    <3>2. NothingCached /\ UNCHANGED l1
      BY <2>6, <2>w, NothingCachedBy DEF CloseCircuit, workerVars
    <3> QED
      BY <2>6, <3>1, <3>2, TimelyTransition, TimelyQuiet DEF CloseCircuit, redisVars
  <2>7. CASE OpenCircuit(r)
    <3>1. NothingTaken
      BY <2>7, <1>e, NothingTakenBy DEF OpenCircuit
    <3>2. NothingCached /\ UNCHANGED l1
      BY <2>7, <2>w, NothingCachedBy DEF OpenCircuit, workerVars
    <3> QED
      BY <2>7, <3>1, <3>2, TimelyTransition, TimelyQuiet DEF OpenCircuit, redisVars
  <2>8. CASE AdmitClosed(r) \/ RefuseOpen(r) \/ JoinProbe(r) \/ EndUnrecorded(r)
             \/ HangUp(r) \/ SkipOpen(r)
    BY <2>8, <2>w, NothingTakenBy, NothingCachedBy, TimelyQuiet
       DEF AdmitClosed, RefuseOpen, JoinProbe, EndUnrecorded, HangUp, SkipOpen,
           redisVars, workerVars
  <2>9. CASE ZeroFailures(r) \/ ReadState(r) \/ Fail(r) \/ CheckThreshold(r)
    <3>1. NothingTaken
      BY <2>9, <1>e, NothingTakenBy DEF ZeroFailures, ReadState, Fail, CheckThreshold
    <3>2. NothingCached /\ UNCHANGED <<rstate, opened, changed>>
      BY <2>9, <2>w, NothingCachedBy
         DEF ZeroFailures, ReadState, Fail, CheckThreshold, redisVars, workerVars
    <3> QED
      BY <3>1, <3>2, TimelyQuiet
  <2>10. CASE StartProbe(r) \/ DropSnapshot(r) \/ AfterClose(r) \/ AfterOpen(r)
    <3>1. NothingTaken
      BY <2>10, NothingTakenBy DEF StartProbe, DropSnapshot, AfterClose, AfterOpen
    <3>2. NothingCached /\ UNCHANGED <<rstate, opened, changed>>
      BY <2>10, <2>w, NothingCachedBy
         DEF StartProbe, DropSnapshot, AfterClose, AfterOpen, redisVars
    <3> QED
      BY <3>1, <3>2, TimelyQuiet
  <2>11. CASE AcquireProbe(r)
    <3>1. UNCHANGED <<rstate, opened, changed, l1>>
      BY <2>11 DEF AcquireProbe, workerVars
    <3>2. CASE Goto(r, "probe") /\ UNCHANGED view
      <4>1. pc[r] = "judge" /\ view[r].state = "open" /\ view[r].recovery_at = 0
        BY <2>11 DEF AcquireProbe
      <4>2. rstate = "closed" => changed < L1TTL
        BY <4>1 DEF StaleInv, Outdated
      <4> QED
        BY <3>1, <3>2, <4>1, <4>2, TimelyTake DEF Acting
    <3>3. CASE Forget(r)
      BY <3>1, <3>3, <2>w, NothingTakenBy, NothingCachedBy, TimelyQuiet
    <3> QED
      BY <2>11, <3>2, <3>3 DEF AcquireProbe
  <2>12. CASE CountSuccess(r)
    <3>1. UNCHANGED <<rstate, opened, changed, l1>>
      BY <2>12 DEF CountSuccess, redisVars
    <3>2. CASE Goto(r, "s.close") /\ UNCHANGED view
      <4>1. pc[r] = "s.judge" /\ view[r].state = "half-open"
        BY <2>12 DEF CountSuccess
      <4> QED
        BY <3>1, <3>2, <4>1, TimelyTake DEF Acting
    <3>3. CASE Forget(r)
      BY <3>1, <3>3, <2>w, NothingTakenBy, NothingCachedBy, TimelyQuiet
    <3> QED
      BY <2>12, <3>2, <3>3 DEF CountSuccess
  <2> QED
    BY <1>r, <2>1, <2>2, <2>3, <2>4, <2>5, <2>6, <2>7, <2>8, <2>9, <2>10, <2>11,
       <2>12 DEF Request, Admission, Success, Failure
<1>w. ASSUME NEW w \in Workers, RestartWorker(w) PROVE TimelyInv'
  <2>1. NothingTaken
    BY <1>w DEF RestartWorker, NothingTaken, Holding, Acting
  <2>2. NothingCached /\ UNCHANGED <<rstate, opened, changed>>
    BY <1>w, NothingCachedBy DEF RestartWorker, redisVars
  <2> QED
    BY <2>1, <2>2, TimelyQuiet
<1>o. ASSUME \/ \E w \in Workers : UpdateSettings(w)
             \/ RedisFails \/ RedisReturns \/ UNCHANGED vars
      PROVE  TimelyInv'
  <2>1. UNCHANGED <<rstate, opened, changed, l1, pc, view>>
    BY <1>o DEF UpdateSettings, RedisFails, RedisReturns, vars, redisVars,
                workerVars, requestVars
  <2> QED
    BY <2>1, TimelyQuiet DEF NothingTaken, NothingCached
<1> QED
  BY <1>r, <1>w, <1>o, TimelyTick DEF Next, Worker

\* Only three steps write the state of the circuit.
LEMMA StateWriters ==
    ASSUME [Next]_vars, rstate' # rstate
    PROVE  \E r \in Requests :
              \/ pc[r] = "probe" /\ rstate' = "half-open"
              \/ pc[r] = "s.close" /\ rstate' = "closed"
              \/ rstate' = "open"
<1>1. \E r \in Requests : SetHalfOpen(r) \/ CloseCircuit(r) \/ OpenCircuit(r)
  <2> SUFFICES ASSUME ~ \E r \in Requests : \/ SetHalfOpen(r) \/ CloseCircuit(r)
                                            \/ OpenCircuit(r)
               PROVE  FALSE
    OBVIOUS
  <2>1. ASSUME NEW r \in Requests, Admission(r) PROVE rstate' = rstate
    BY <2>1 DEF Admission, Arrive, GetState, KeepAdmission, KeepReply, AdmitClosed,
                RefuseOpen, AcquireProbe, StartProbe, JoinProbe, redisVars
  <2>2. ASSUME NEW r \in Requests, Success(r) PROVE rstate' = rstate
    BY <2>2 DEF Success, Succeed, GetState, KeepSuccess, KeepReply, SkipOpen,
                CountSuccess, ZeroFailures, DropSnapshot, AfterClose, redisVars
  <2>3. ASSUME NEW r \in Requests, Failure(r) \/ EndUnrecorded(r) \/ HangUp(r)
       PROVE  rstate' = rstate
    BY <2>3 DEF Failure, Fail, CheckThreshold, ReadState, AfterOpen, EndUnrecorded,
                HangUp, redisVars
  <2> QED
    BY <2>1, <2>2, <2>3
       DEF Next, Request, Worker, UpdateSettings, RestartWorker, RedisFails,
           RedisReturns, Tick, vars, redisVars
<1> QED
  BY <1>1 DEF SetHalfOpen, CloseCircuit, OpenCircuit, SetState, redisVars

LEMMA TransitionsAreTimely ==
    ASSUME TypeOK, TimelyInv, [Next]_vars
    PROVE  /\ rstate = "closed" /\ rstate' = "half-open" => changed < L1TTL
           /\ rstate = "open" /\ rstate' # "open" =>
                 \/ opened < L1TTL
                 \/ /\ rstate' = "half-open"
                    /\ \E s \in Settings : opened >= s.recovery_timeout
<1> SUFFICES ASSUME rstate' # rstate, rstate' # "open"
             PROVE  /\ rstate = "closed" /\ rstate' = "half-open" => changed < L1TTL
                    /\ rstate = "open" =>
                          \/ opened < L1TTL
                          \/ /\ rstate' = "half-open"
                             /\ \E s \in Settings : opened >= s.recovery_timeout
  OBVIOUS
<1>1. opened \in Int
  BY Constants DEF TypeOK
<1>2. PICK r \in Requests : \/ pc[r] = "probe" /\ rstate' = "half-open"
                            \/ pc[r] = "s.close" /\ rstate' = "closed"
  BY StateWriters
<1>3. InHand(r) /\ Current(view[r], L1TTL - 1)
  BY <1>2 DEF TimelyInv, InHand, Acting
<1>4. CASE pc[r] = "probe" /\ rstate' = "half-open"
  <2>1. view[r].recovery_at = 0 /\ (rstate = "closed" => changed < L1TTL)
    BY <1>3, <1>4 DEF InHand
  <2>2. opened <= L1TTL - 1 \/ \E s \in Settings : opened + 0 >= s.recovery_timeout
    BY <1>3, <2>1 DEF Current, Due
  <2>3. opened <= L1TTL - 1 => opened < L1TTL
    BY <1>1, Constants
  <2>4. opened + 0 = opened
    BY <1>1
  <2> QED
    BY <1>4, <2>1, <2>2, <2>3, <2>4
<1>5. CASE pc[r] = "s.close" /\ rstate' = "closed"
  <2>1. view[r].state = "half-open"
    BY <1>3, <1>5 DEF InHand
  <2>2. rstate = "open" => opened <= L1TTL - 1
    BY <1>3, <2>1 DEF Current
  <2> QED
    BY <1>1, <1>5, <2>2, Constants
<1> QED BY <1>2, <1>4, <1>5

\* An open circuit is probed when the recovery timeout of some settings has
\* passed and not before, a closed one is not probed, and an open one is not
\* closed without a probe, but for the L1 lifetime after a transition.
THEOREM TransitionsTakeTheirTime == Spec => TimelyTransitions
<1>1. Init => TypeOK /\ StaleInv /\ TimelyInv
  BY TypeInit, StaleInit, TimelyInit
<1>2. TypeOK /\ StaleInv /\ TimelyInv /\ [Next]_vars => (TypeOK /\ StaleInv /\ TimelyInv)'
  BY TypeNext, StaleNext, TimelyNext
<1>3. TypeOK /\ TimelyInv /\ [Next]_vars =>
        [/\ rstate = "closed" /\ rstate' = "half-open" => changed < L1TTL
         /\ rstate = "open" /\ rstate' # "open" =>
               \/ opened < L1TTL
               \/ /\ rstate' = "half-open"
                  /\ \E s \in Settings : opened >= s.recovery_timeout]_vars
  BY TransitionsAreTimely
<1> QED
  BY <1>1, <1>2, <1>3, PTL DEF Spec, TimelyTransitions
=============================================================================
