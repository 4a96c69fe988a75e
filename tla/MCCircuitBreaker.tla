-------------------------- MODULE MCCircuitBreaker --------------------------
(* Small instances of CircuitBreaker for TLC. *)
EXTENDS CircuitBreaker, TLC

CONSTANTS w1, w2, r1, r2

OneWorker == {w1}
TwoWorkers == {w1, w2}
TwoRequests == {r1, r2}

\* One worker serves both requests, or each has a worker of its own.
Alone == [r \in {r1, r2} |-> w1]
Apart == (r1 :> w1) @@ (r2 :> w2)

Tuned(f, t, s) ==
    [failure_threshold |-> f, recovery_timeout |-> t, success_threshold |-> s]

Default == {Tuned(2, 3, 2)}
Retuned == {Tuned(1, 2, 1), Tuned(2, 3, 1)}
Quick   == {Tuned(2, 2, 2)}
=============================================================================
