----------------------------- MODULE MCInference -----------------------------
(* Small instances of Inference for TLC. *)
EXTENDS Inference, TLC

CONSTANTS r1, r2, r3, b1, b2

TwoRequests == {r1, r2}
ThreeRequests == {r1, r2, r3}
TwoReplicas == <<b1, b2>>
OneReplica == <<b1>>

\* Between them two requests call every endpoint.
Shared == (r1 :> {"chat", "images", "embeddings"})
          @@ (r2 :> {"stream", "rerank", "predict"})

\* One replica reports a slot, the other reports none.
Uneven == [b \in {b1, b2} |-> IF b = b1 THEN 1 ELSE 0]
OneSlot == [b \in {b1} |-> 1]

Interchangeable == Permutations({r1, r2, r3})
=============================================================================
