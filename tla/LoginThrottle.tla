---------------------------- MODULE LoginThrottle ----------------------------
(***************************************************************************)
(* The budget of failed sign-ins of one worker of the auth service: the    *)
(* sliding windows of login_throttle.py, by identity and by address, and   *)
(* the token endpoint (routers/oauth2.py) that checks both before it reads *)
(* the database and charges both, or clears them, after.                   *)
(***************************************************************************)
EXTENDS Integers, Sequences, FiniteSets

CONSTANTS
    Attempts,    \* sign-ins that may run at a time
    Identities,
    Addresses,
    MaxOf,       \* per identity or address: failures allowed in the window
    Window       \* ticks a failure counts for

VARIABLES
    failures,  \* per key: the ages of its failures, oldest first
    attempt,   \* per slot: the sign-in in it
    promise    \* history: per key, ticks until a refused caller was told to
               \* come back; 0 when that time has come, None when void

vars == <<failures, attempt, promise>>

Keys == Identities \cup Addresses
None == -1

Init ==
    /\ failures = [k \in Keys |-> <<>>]
    /\ attempt = [a \in Attempts |-> [pc |-> "idle", keys |-> {}]]
    /\ promise = [k \in Keys |-> None]

-----------------------------------------------------------------------------
\* Fault: one failure more than there is budget.
SpentLate(k) == Len(failures[k]) > MaxOf[k]

\* _recent: failures older than the window are dropped as the clock moves.
Spent(k) == Len(failures[k]) >= MaxOf[k]

\* retry_after: until the oldest failure leaves the window.
RetryAfter(k) == Window - Head(failures[k])

\* A caller is owed the time it was told only if nothing else was charged to
\* the key, then or since: a budget overdrawn by concurrent attempts is still
\* spent when its oldest failure leaves.
Owed(k) == Len(failures[k]) = MaxOf[k]

\* _too_many_attempts: 429 with the longest of the two waits.
Refuse(keys) ==
    /\ \E k \in keys : Spent(k)
    /\ promise' = [k \in Keys |->
                     IF k \in keys /\ Spent(k) /\ Owed(k) /\ promise[k] = None
                     THEN RetryAfter(k) ELSE promise[k]]
    /\ UNCHANGED <<failures, attempt>>

\* Both budgets have room: the attempt goes on to the database.
Admit(a, keys) ==
    /\ attempt[a].pc = "idle"
    /\ \A k \in keys : ~Spent(k)
    /\ attempt' = [attempt EXCEPT ![a] = [pc |-> "select", keys |-> keys]]
    /\ UNCHANGED <<failures, promise>>

Ends(a) == attempt' = [attempt EXCEPT ![a] = [pc |-> "idle", keys |-> {}]]

\* record_failure: unknown, of the other kind, or a credential that differs.
Fails(a) ==
    /\ attempt[a].pc = "select"
    /\ failures' = [k \in Keys |->
                      IF k \in attempt[a].keys THEN Append(failures[k], 0) ELSE failures[k]]
    /\ promise' = [k \in Keys |-> IF k \in attempt[a].keys THEN None ELSE promise[k]]
    /\ Ends(a)

\* The credential is right: both budgets are cleared, the address's too.
Succeeds(a) ==
    /\ attempt[a].pc = "select"
    /\ failures' = [k \in Keys |-> IF k \in attempt[a].keys THEN <<>> ELSE failures[k]]
    /\ Ends(a)
    /\ UNCHANGED promise

\* An unknown grant, a deactivated client, or an error: neither.
Leaves(a) ==
    /\ attempt[a].pc = "select"
    /\ Ends(a)
    /\ UNCHANGED <<failures, promise>>

\* What a tick leaves of a key's failures: popleft while the oldest is out.
Recent(ages) ==
    LET older == [i \in DOMAIN ages |-> ages[i] + 1]
        gone == {i \in DOMAIN ages : older[i] >= Window}
    IN  SubSeq(older, Cardinality(gone) + 1, Len(older))

\* A tick: every failure is older, and those of the window's age are dropped.
Tick ==
    /\ failures' = [k \in Keys |-> Recent(failures[k])]
    /\ promise' = [k \in Keys |->
                     CASE promise[k] = None -> None
                       [] promise[k] = 0 -> None
                       [] OTHER -> promise[k] - 1]
    /\ UNCHANGED attempt

Next ==
    \/ \E a \in Attempts, i \in Identities, d \in Addresses : Admit(a, {i, d})
    \/ \E i \in Identities, d \in Addresses : Refuse({i, d})
    \/ \E a \in Attempts : Fails(a) \/ Succeeds(a) \/ Leaves(a)
    \/ Tick

Spec == Init /\ [][Next]_vars

-----------------------------------------------------------------------------
(* A budget is overdrawn only by attempts that were let in before it was
   spent (oauth2.py:107): the failures of a window exceed it by at most the
   attempts that run at a time, less one. And a caller that waits as long as
   it was told finds its key with budget, unless another attempt was charged
   to it meanwhile, or the budget was overdrawn when it was told. *)
BudgetHolds ==
    \A k \in Keys :
        /\ Len(failures[k]) < MaxOf[k] + Cardinality(Attempts)
        /\ promise[k] = 0 => ~Spent(k)
=============================================================================
