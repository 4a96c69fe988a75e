----------------------------- MODULE MCSpendCap -----------------------------
(* Small instances of SpendCap for TLC. *)
EXTENDS Spending, TLC

CONSTANTS r1, r2, r3

TwoRequests == {r1, r2}
ThreeRequests == {r1, r2, r3}
Interchangeable == Permutations(Spenders)
=============================================================================
