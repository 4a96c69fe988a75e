------------------------------ MODULE SpendCap ------------------------------
(***************************************************************************)
(* The monthly spend cap of one client: BudgetTracker (budget.py) and its  *)
(* callers in router.py. A request reserves its worst-case cost in Redis   *)
(* before it is forwarded and settles the real cost when it is answered;   *)
(* alert thresholds are announced as they are crossed.                     *)
(*                                                                         *)
(* Each action ends with the effect of one Redis command. Amounts are      *)
(* integers, the micro-dollars the code converts to. Requests run          *)
(* concurrently, in any number of workers: the keys are the only state     *)
(* they share, besides the settings a worker may have cached.              *)
(***************************************************************************)
EXTENDS Integers, FiniteSets

CONSTANTS
    Requests,    \* concurrent requests; each is reused when it has ended
    Estimates,   \* worst-case costs a request may reserve
    Actuals,     \* real costs: 0 is an abandoned image, above the estimate
                 \* is a prompt the token approximation underestimated
    Caps,        \* caps an administrator may set
    Thresholds,  \* alert thresholds, in percent of the cap
    MaxMonth,    \* bound: months the calendar goes through
    MaxDeaths    \* bound: requests that end between two steps

Months == 1 .. MaxMonth

\* What Spending assumes of them.
SpendAssumption ==
    /\ Estimates \subseteq Nat
    /\ Actuals \subseteq Nat
    /\ Caps \subseteq Nat /\ Caps # {}
    /\ Thresholds \subseteq Nat
    /\ MaxMonth \in Nat \ {0} /\ MaxDeaths \in Nat
    /\ IsFiniteSet(Requests)

VARIABLES
    month,     \* what _current_period() returns
    spend,     \* Redis: the spend counter of each month
    notified,  \* Redis: the thresholds announced in each month
    cap,       \* database: the client's cap
    cached,    \* earlier caps that some worker's settings cache still holds
    pc,        \* per request: where its coroutine is
    est,       \* per request: what it reserved
    limit,     \* per request: the cap it was admitted under
    key,       \* per request: the month its last command was addressed to
    made,      \* per request: the month of its reservation
    todo,      \* per request: thresholds reached, not yet SADDed
    crossed,   \* per request: thresholds it was the first to SADD
    sent,      \* history: thresholds whose alert was dispatched, by month
    cost,      \* history: real cost of the requests reserved in each month
    lost,      \* history: reservations of each month nobody will settle
    over,      \* history: cost above the estimate, by month of reservation
    misplaced, \* history: credit given to a month by an earlier one
    deaths     \* history: requests that ended between two steps

requestVars == <<pc, est, limit, key, made, todo, crossed>>
historyVars == <<sent, cost, lost, over, misplaced, deaths>>
vars == <<month, spend, notified, cap, cached, requestVars, historyVars>>

Places == {"idle", "rollback", "notify", "held", "s.notify"}

\* Places where the counter still holds what the request reserved.
Counted == {"rollback", "notify", "held"}

TypeOK ==
    /\ month \in Months
    /\ spend \in [Months -> Int]
    /\ notified \in [Months -> SUBSET Thresholds]
    /\ cap \in Caps
    /\ cached \subseteq Caps
    /\ pc \in [Requests -> Places]
    /\ est \in [Requests -> Nat]
    /\ limit \in [Requests -> Nat]
    /\ key \in [Requests -> Months]
    /\ made \in [Requests -> Months]
    /\ todo \in [Requests -> SUBSET Thresholds]
    /\ crossed \in [Requests -> SUBSET Thresholds]
    /\ sent \in [Months -> SUBSET Thresholds]
    /\ cost \in [Months -> Nat] /\ lost \in [Months -> Nat]
    /\ over \in [Months -> Nat] /\ misplaced \in [Months -> Nat]
    /\ deaths \in 0 .. MaxDeaths

Init ==
    /\ month = 1
    /\ spend = [m \in Months |-> 0]
    /\ notified = [m \in Months |-> {}]
    /\ cap \in Caps /\ cached = {}
    /\ pc = [r \in Requests |-> "idle"]
    /\ est = [r \in Requests |-> 0]
    /\ limit = [r \in Requests |-> 0]
    /\ key = [r \in Requests |-> 1]
    /\ made = [r \in Requests |-> 1]
    /\ todo = [r \in Requests |-> {}]
    /\ crossed = [r \in Requests |-> {}]
    /\ sent = [m \in Months |-> {}]
    /\ cost = [m \in Months |-> 0] /\ lost = [m \in Months |-> 0]
    /\ over = [m \in Months |-> 0] /\ misplaced = [m \in Months |-> 0]
    /\ deaths = 0

-----------------------------------------------------------------------------
(* Helpers. *)

Add(f, m, n) == [f EXCEPT ![m] = @ + n]

Excess(a, b) == IF a > b THEN a - b ELSE 0

\* The thresholds a total has reached; a cap of zero has none.
Reached(total, c) == {t \in Thresholds : c > 0 /\ total * 100 >= t * c}

\* The request ends, whatever it was doing.
Clear(r) ==
    /\ pc' = [pc EXCEPT ![r] = "idle"]
    /\ est' = [est EXCEPT ![r] = 0]
    /\ limit' = [limit EXCEPT ![r] = 0]
    /\ key' = [key EXCEPT ![r] = 1]
    /\ made' = [made EXCEPT ![r] = 1]
    /\ todo' = [todo EXCEPT ![r] = {}]
    /\ crossed' = [crossed EXCEPT ![r] = {}]

-----------------------------------------------------------------------------
(* reserve *)

\* Fault: the cap is compared with the spend read before the reservation.
ReserveStale(r, e, c) ==
    /\ pc[r] = "idle"
    /\ spend' = Add(spend, month, e)
    /\ est' = [est EXCEPT ![r] = e]
    /\ limit' = [limit EXCEPT ![r] = c]
    /\ key' = [key EXCEPT ![r] = month]
    /\ made' = [made EXCEPT ![r] = month]
    /\ pc' = [pc EXCEPT ![r] = IF spend[month] > c THEN "rollback" ELSE "notify"]
    /\ todo' = [todo EXCEPT ![r] = IF spend[month] > c THEN {}
                                   ELSE Reached(spend[month] + e, c)]
    /\ UNCHANGED <<month, notified, cap, cached, crossed, historyVars>>

\* INCRBY of the estimate on the current month, under a cap that may come
\* from a cache; the reply decides between 402 and going on.
Reserve(r, e, c) ==
    /\ pc[r] = "idle"
    /\ LET total == spend[month] + e IN
       /\ spend' = Add(spend, month, e)
       /\ est' = [est EXCEPT ![r] = e]
       /\ limit' = [limit EXCEPT ![r] = c]
       /\ key' = [key EXCEPT ![r] = month]
       /\ made' = [made EXCEPT ![r] = month]
       /\ pc' = [pc EXCEPT ![r] = IF total > c THEN "rollback" ELSE "notify"]
       /\ todo' = [todo EXCEPT ![r] = IF total > c THEN {} ELSE Reached(total, c)]
    /\ UNCHANGED <<month, notified, cap, cached, crossed, historyVars>>

\* Fault: a refused request leaves its estimate on the counter.
RollbackForgotten(r) ==
    /\ pc[r] = "rollback"
    /\ Clear(r)
    /\ UNCHANGED <<month, spend, notified, cap, cached, historyVars>>

\* Refused: INCRBY of minus the estimate, on the same month's key.
Rollback(r) ==
    /\ pc[r] = "rollback"
    /\ spend' = Add(spend, made[r], - est[r])
    /\ Clear(r)
    /\ UNCHANGED <<month, notified, cap, cached, historyVars>>

-----------------------------------------------------------------------------
(* _check_thresholds, in ascending order, and _dispatch_threshold_alerts.  *)

\* Fault: what SADD answers is ignored.
NotifyAlways(r, t) ==
    /\ pc[r] \in {"notify", "s.notify"}
    /\ t \in todo[r] /\ \A u \in todo[r] : t <= u
    /\ notified' = [notified EXCEPT ![key[r]] = @ \cup {t}]
    /\ crossed' = [crossed EXCEPT ![r] = @ \cup {t}]
    /\ todo' = [todo EXCEPT ![r] = @ \ {t}]
    /\ UNCHANGED <<month, spend, cap, cached, pc, est, limit, key, made, historyVars>>

\* SADD: only the first to add a threshold has crossed it.
Notify(r, t) ==
    /\ pc[r] \in {"notify", "s.notify"}
    /\ t \in todo[r] /\ \A u \in todo[r] : t <= u
    /\ notified' = [notified EXCEPT ![key[r]] = @ \cup {t}]
    /\ crossed' = [crossed EXCEPT ![r] = IF t \in notified[key[r]] THEN @ ELSE @ \cup {t}]
    /\ todo' = [todo EXCEPT ![r] = @ \ {t}]
    /\ UNCHANGED <<month, spend, cap, cached, pc, est, limit, key, made, historyVars>>

\* The alerts go out; then the request is forwarded, or has been answered.
Dispatch(r) ==
    /\ pc[r] \in {"notify", "s.notify"} /\ todo[r] = {}
    /\ sent' = [sent EXCEPT ![key[r]] = @ \cup crossed[r]]
    /\ IF pc[r] = "notify"
       THEN /\ pc' = [pc EXCEPT ![r] = "held"]
            /\ crossed' = [crossed EXCEPT ![r] = {}]
            /\ UNCHANGED <<est, limit, key, made, todo>>
       ELSE Clear(r)
    /\ UNCHANGED <<month, spend, notified, cap, cached, cost, lost, over, misplaced,
                   deaths>>

-----------------------------------------------------------------------------
(* settle, and the ways a reservation is never settled.                    *)

\* Fault: settling does not look at the thresholds.
SettleQuietly(r, a) ==
    /\ pc[r] = "held"
    /\ spend' = Add(spend, month, a - est[r])
    /\ key' = [key EXCEPT ![r] = month]
    /\ pc' = [pc EXCEPT ![r] = "s.notify"]
    /\ cost' = Add(cost, made[r], a)
    /\ over' = Add(over, made[r], Excess(a, est[r]))
    /\ misplaced' = IF month = made[r] THEN misplaced
                    ELSE Add(misplaced, month, Excess(est[r], a))
    /\ UNCHANGED <<month, notified, cap, cached, est, limit, made, todo, crossed, sent,
                   lost, deaths>>

\* The difference goes to the counter of the month it is now (a difference of
\* zero only reads it). An image whose client left is settled at zero.
Settle(r, a) ==
    /\ pc[r] = "held"
    /\ LET delta == a - est[r] IN
       /\ spend' = Add(spend, month, delta)
       /\ key' = [key EXCEPT ![r] = month]
       /\ todo' = [todo EXCEPT ![r] = Reached(spend[month] + delta, limit[r])]
       /\ pc' = [pc EXCEPT ![r] = "s.notify"]
       /\ cost' = Add(cost, made[r], a)
       /\ over' = Add(over, made[r], Excess(a, est[r]))
       /\ misplaced' = IF month = made[r] THEN misplaced
                       ELSE Add(misplaced, month, Excess(est[r], a))
    /\ UNCHANGED <<month, notified, cap, cached, est, limit, made, crossed, sent, lost,
                   deaths>>

\* The backend refused or was gone, a chat client left, or the model has no
\* price: the reservation is left to expire with the period.
Abandon(r) ==
    /\ pc[r] = "held"
    /\ lost' = Add(lost, made[r], est[r])
    /\ Clear(r)
    /\ UNCHANGED <<month, spend, notified, cap, cached, sent, cost, over, misplaced,
                   deaths>>

\* A cancelled task, a Redis error or a worker that dies ends the request
\* between two commands.
Die(r) ==
    /\ pc[r] # "idle"
    /\ deaths < MaxDeaths /\ deaths' = deaths + 1
    /\ lost' = IF pc[r] \in Counted THEN Add(lost, made[r], est[r]) ELSE lost
    /\ Clear(r)
    /\ UNCHANGED <<month, spend, notified, cap, cached, sent, cost, over, misplaced>>

-----------------------------------------------------------------------------
(* The environment. *)

\* An administrator saves a cap: the workers that cached the old one serve it
\* until their entry is 30 s old.
SaveCap ==
    /\ cap' \in Caps \ {cap}
    /\ cached' = cached \cup {cap}
    /\ UNCHANGED <<month, spend, notified, requestVars, historyVars>>

CachesExpire ==
    /\ cached # {} /\ cached' = {}
    /\ UNCHANGED <<month, spend, notified, cap, requestVars, historyVars>>

NextMonth ==
    /\ month < MaxMonth /\ month' = month + 1
    /\ UNCHANGED <<spend, notified, cap, cached, requestVars, historyVars>>

-----------------------------------------------------------------------------
Step(r) == \/ \E e \in Estimates, c \in {cap} \cup cached : Reserve(r, e, c)
           \/ Rollback(r)
           \/ \E t \in Thresholds : Notify(r, t)
           \/ Dispatch(r)
           \/ \E a \in Actuals : Settle(r, a)
           \/ Abandon(r)
           \/ Die(r)

Next == \/ \E r \in Requests : Step(r)
        \/ SaveCap \/ CachesExpire \/ NextMonth

Spec == Init /\ [][Next]_vars

-----------------------------------------------------------------------------
(* Properties. *)

EXT == INSTANCE FiniteSetsExt

Sum(f, S) == EXT!MapThenSumSet(LAMBDA x : f[x], S)

\* What the requests of R have reserved, and what a history has over all months.
Reserved(R) == Sum(est, R)
Total(f)    == Sum(f, Months)

(* No micro-dollar is lost or made up: over all months the counters hold   *)
(* the reservations of requests under way, the real cost of those settled  *)
(* and the reservations that nobody will settle, and nothing else, however *)
(* reservations, rollbacks and settlements interleave or stop half-way.    *)
SpendConserved ==
    Total(spend) = Total(cost) + Total(lost)
                 + Reserved({r \in Requests : pc[r] \in Counted})

\* What a month is committed to: admitted reservations, and real costs.
Committed(m) ==
    cost[m] + Reserved({r \in Requests : pc[r] \in {"notify", "held"} /\ made[r] = m})

(* Concurrent reservations never commit a month beyond the cap, except for *)
(* what a request cost above its own estimate and for credit that requests *)
(* reserved in an earlier month gave this month's counter.                 *)
CapHolds ==
    \E c \in Caps : \A m \in Months :
        Committed(m) <= c + over[m] + misplaced[m]

(* The cap is monthly and hard: with estimates that are never exceeded, no *)
(* month is committed to more than the cap.                                *)
HardMonthlyCap ==
    \E c \in Caps : \A m \in Months : Committed(m) <= c + over[m]

\* What a month's counter holds apart from reservations about to be undone.
Firm(m) ==
    spend[m] - Reserved({r \in Requests : pc[r] = "rollback" /\ made[r] = m})

(* A threshold the spend has reached under every cap is announced, or is   *)
(* being announced by the request that reached it: no interleaving of      *)
(* reserve, rollback and settle slips past it. (A threshold of zero, which *)
(* parse_thresholds lets through, is reached before anything is spent.)    *)
CrossingNoticed ==
    deaths = 0 => \A m \in Months, t \in Thresholds \ {0} :
        (\A c \in Caps : t \in Reached(Firm(m), c))
        => \/ t \in notified[m]
           \/ \E r \in Requests : key[r] = m /\ t \in todo[r]

(* Each threshold of each month is alerted once: exactly one request is    *)
(* the one that crossed it, and unless it dies the alert goes out.         *)
AlertedOnce ==
    /\ \A r \in Requests : crossed[r] \cap sent[key[r]] = {}
    /\ \A r, q \in Requests : r # q /\ key[r] = key[q]
          => crossed[r] \cap crossed[q] = {}
    /\ deaths = 0 => \A m \in Months :
          notified[m] = sent[m] \cup
                        UNION {crossed[r] : r \in {q \in Requests : key[q] = m}}
=============================================================================
