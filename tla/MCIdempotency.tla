---------------------------- MODULE MCIdempotency ----------------------------
(* Small instances of Idempotency for TLC. *)
EXTENDS Idempotency

CONSTANTS r1, r2, f1, f2

TwoRequests == {r1, r2}
TwoFingerprints == {f1, f2}
BothKinds == {"plain", "stream"}
Streams == {"stream"}
=============================================================================
