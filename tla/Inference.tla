------------------------------ MODULE Inference ------------------------------
(***************************************************************************)
(* The five forwarding handlers of the gateway's router.py in one worker,  *)
(* from the choice of a replica to the last entry in the books, with the   *)
(* worker's BackendPool (models/backends.py) and its health monitor.       *)
(*                                                                         *)
(* Coroutines of one event loop: an action is what runs between two        *)
(* awaits. The circuit breaker, the spend cap and the idempotency key have *)
(* modules of their own; here a breaker answers anything, a reservation is *)
(* made or refused, and what counts is what the handlers do with that.     *)
(***************************************************************************)
EXTENDS Integers, Sequences, FiniteSets

CONSTANTS
    Requests,
    Members,    \* the replicas of the model, a sequence in registry order
    Calls,      \* per request: the endpoints it may call
    Pins,       \* what a pinning header may name, a replica or not
    Slots,      \* per replica: the slots its engine reports, 0 for none
    Headroom,   \* admission_headroom; 0 turns admission control off
    Flaky,      \* the replicas a probe may find dead
    MaxLost,    \* bound: requests whose books an error may reach
    Reports     \* what an engine may report as busy

Backends == {Members[i] : i \in DOMAIN Members}
None == "none"

Endpoints == {"chat", "stream", "embeddings", "rerank", "predict", "images"}

ASSUME InferenceAssumption ==
    /\ Members \in Seq(Backends) /\ IsFiniteSet(Backends)
    /\ None \notin Backends
    /\ Calls \in [Requests -> SUBSET Endpoints]
    /\ None \notin Pins /\ IsFiniteSet(Pins) /\ Flaky \subseteq Backends
    /\ Slots \in [Backends -> Nat]
    /\ Headroom \in Nat /\ MaxLost \in Nat
    /\ Reports \subseteq Nat
    /\ IsFiniteSet(Requests)

VARIABLES
    inflight,    \* pool._in_flight, per replica
    busy,        \* pool._reported_busy, per replica: 0 too when not reported
    unreachable, \* monitor._unreachable
    pc,          \* per request: where its handler is, or how it ended
    endpoint,    \* per request: the endpoint it calls
    pinned,      \* per request: the replica its header names, or None
    queue,       \* per request: members to check, then candidates to try
    usable,      \* per request: members found able to take it
    at,          \* per request: the replica it is counted at, or None
    book,        \* per request: what is still to be recorded
    made,        \* history, per request: the engine generated for it
    rows,        \* history, per request: usage rows written, up to two
    reserved,    \* per request: it holds an allowed BudgetReservation
    settles,     \* history, per request: times that was settled, up to two
    lost         \* history, per request: what failed to be recorded

pool == <<inflight, busy, unreachable>>
choice == <<endpoint, pinned, queue, usable>>
ledger == <<book, made, rows, reserved, settles, lost>>
vars == <<pool, pc, choice, at, ledger>>

Ends == {"served", "declined", "refused", "failed", "abandoned",
         "unreadable", "torn"}
Places == {"idle", "health", "gate", "reserve", "forward", "backend",
           "opened", "streaming", "terminal"} \cup Ends

\* Places where a request is counted against the replica it is at.
Holding == {"backend", "opened", "streaming", "terminal"}

TypeOK ==
    /\ inflight \in [Backends -> 0 .. Cardinality(Requests)]
    /\ busy \in [Backends -> Nat]
    /\ unreachable \subseteq Backends
    /\ pc \in [Requests -> Places]
    /\ endpoint \in [Requests -> Endpoints \cup {None}]
    /\ pinned \in [Requests -> Pins \cup {None}]
    /\ queue \in [Requests -> Seq(Backends)]
    /\ usable \in [Requests -> Seq(Backends)]
    /\ at \in [Requests -> Backends \cup {None}]
    /\ book \in [Requests -> {"nothing", "usage", "settle", "refund"}]
    /\ made \in [Requests -> BOOLEAN]
    /\ rows \in [Requests -> 0 .. 2]
    /\ reserved \in [Requests -> BOOLEAN]
    /\ settles \in [Requests -> 0 .. 2]
    /\ lost \in [Requests -> SUBSET {"row", "settlement"}]

Init ==
    /\ inflight = [b \in Backends |-> 0]
    /\ busy = [b \in Backends |-> 0]
    /\ unreachable = {}
    /\ pc = [r \in Requests |-> "idle"]
    /\ endpoint = [r \in Requests |-> None]
    /\ pinned = [r \in Requests |-> None]
    /\ queue = [r \in Requests |-> <<>>]
    /\ usable = [r \in Requests |-> <<>>]
    /\ at = [r \in Requests |-> None]
    /\ book = [r \in Requests |-> "nothing"]
    /\ made = [r \in Requests |-> FALSE]
    /\ rows = [r \in Requests |-> 0]
    /\ reserved = [r \in Requests |-> FALSE]
    /\ settles = [r \in Requests |-> 0]
    /\ lost = [r \in Requests |-> {}]

-----------------------------------------------------------------------------
(* The pool's view of a replica. *)

\* The larger of what this worker sent and what the engine says it is doing.
Active(b) == IF busy[b] > inflight[b] THEN busy[b] ELSE inflight[b]

\* load_ratio divides by the slots; without them it is the raw count.
Per(b) == IF Slots[b] = 0 THEN 1 ELSE Slots[b]

Saturated(b) ==
    Headroom > 0 /\ Slots[b] > 0 /\ Active(b) >= Headroom * Slots[b]

Place(b) == CHOOSE i \in DOMAIN Members : Members[i] = b

LessLoaded(a, b) ==
    LET x == Active(a) * Per(b)
        y == Active(b) * Per(a)
    IN  x < y \/ (x = y /\ Place(a) < Place(b))

\* Least loaded first, ties in registry order.
ByLoad(S) ==
    CHOOSE q \in [1 .. Cardinality(S) -> S] :
        \A i, j \in DOMAIN q : i < j => LessLoaded(q[i], q[j])

Elements(q) == {q[i] : i \in DOMAIN q}

Goto(r, place) == pc' = [pc EXCEPT ![r] = place]

\* acquire, and release with its floor at zero.
Claim(b, c) == [c EXCEPT ![b] = @ + 1]
Release(b, c) == [c EXCEPT ![b] = IF @ > 1 THEN @ - 1 ELSE 0]

-----------------------------------------------------------------------------
(* Choosing a replica. *)

\* A handler has validated, authorised and resolved its request, and has its
\* key if it asked for one: it sorts the members by load. A request refused
\* earlier changes nothing here.
Admit(r, e, b) ==
    /\ pc[r] = "idle" /\ e \in Calls[r]
    /\ endpoint' = [endpoint EXCEPT ![r] = e]
    /\ pinned' = [pinned EXCEPT ![r] = b]
    /\ queue' = [queue EXCEPT ![r] = ByLoad(Backends)]
    /\ Goto(r, "health")
    /\ UNCHANGED <<pool, usable, at, ledger>>

Chat(r)       == \E b \in Pins \cup {None} :
                     Admit(r, "chat", b) \/ Admit(r, "stream", b)
Embeddings(r) == \E b \in Pins \cup {None} : Admit(r, "embeddings", b)
Rerank(r)     == \E b \in Pins \cup {None} : Admit(r, "rerank", b)
Images(r)     == \E b \in Pins \cup {None} : Admit(r, "images", b)
Predict(r)    == Admit(r, "predict", None)     \* this route takes no pin

\* The circuit of b as the breaker tells it; "unknown" when Redis is down or
\* absent. An open or half-open one that grants a probe counts as usable.
Admitted(r, b, circuit) ==
    \/ circuit \in {"closed", "unknown"}
    \/ circuit = "probe" /\ usable[r] = <<>>

\* One round of _healthy_members. Reachability and load are read as they are
\* now, though the order was fixed when the loop began.
CheckMember(r) ==
    /\ pc[r] = "health" /\ queue[r] # <<>>
    /\ LET b == Head(queue[r]) IN
       \E circuit \in {"closed", "unknown", "probe", "open"} :
          LET takes == /\ b \notin unreachable /\ ~ Saturated(b)
                       /\ Admitted(r, b, circuit)
          IN
          usable' = IF takes THEN [usable EXCEPT ![r] = Append(@, b)] ELSE usable
    /\ queue' = [queue EXCEPT ![r] = Tail(@)]
    /\ UNCHANGED <<pool, pc, endpoint, pinned, at, ledger>>

\* The header names no replica of this model: _pin_to_instance is False.
UnknownPin(r) == pinned[r] \notin Backends \cup {None}

\* Nobody can take it: _no_replica_available, or the pinned one cannot.
NoReplica(r) ==
    /\ pc[r] = "health" /\ queue[r] = <<>>
    /\ \/ usable[r] = <<>>
       \/ UnknownPin(r)
       \/ pinned[r] # None /\ pinned[r] \notin Elements(usable[r])
    /\ Goto(r, "declined")
    /\ usable' = [usable EXCEPT ![r] = <<>>]
    /\ UNCHANGED <<pool, endpoint, pinned, queue, at, ledger>>

\* Fault: a pin is preferred, and the others stay candidates.
PreferPinned(r) ==
    /\ pc[r] = "health" /\ queue[r] = <<>> /\ usable[r] # <<>>
    /\ pinned[r] \in Elements(usable[r]) \cup {None}
    /\ Goto(r, IF endpoint[r] = "predict" THEN "forward" ELSE "gate")
    /\ UNCHANGED <<pool, choice, at, ledger>>

ChooseReplicas(r) ==
    /\ pc[r] = "health" /\ queue[r] = <<>> /\ usable[r] # <<>>
    /\ pinned[r] \in Elements(usable[r]) \cup {None}
    /\ usable' = IF pinned[r] = None THEN usable
                 ELSE [usable EXCEPT ![r] = <<pinned[r]>>]
    /\ Goto(r, IF endpoint[r] = "predict" THEN "forward" ELSE "gate")
    /\ UNCHANGED <<pool, endpoint, pinned, queue, at, ledger>>

\* The handlers write the pin out, each for itself.
ChatPicks(r)       == endpoint[r] \in {"chat", "stream"} /\ ChooseReplicas(r)
EmbeddingsPicks(r) == endpoint[r] = "embeddings" /\ ChooseReplicas(r)
RerankPicks(r)     == endpoint[r] = "rerank" /\ ChooseReplicas(r)
ImagesPicks(r)     == endpoint[r] = "images" /\ ChooseReplicas(r)
PredictPicks(r)    == endpoint[r] = "predict" /\ ChooseReplicas(r)

\* rerank: engines whose request shapes are unknown or differ, or raw_scores
\* refused. images: more images than are left of the minute.
RerankGate(r) == endpoint[r] = "rerank" /\ Goto(r, "declined")
ImagesGate(r) == endpoint[r] = "images" /\ Goto(r, "declined")

Gate(r) ==
    /\ pc[r] = "gate"
    /\ RerankGate(r) \/ ImagesGate(r) \/ Goto(r, "reserve")
    /\ UNCHANGED <<pool, choice, at, ledger>>

\* No cap or no price: nothing to reserve. A refusal rolls itself back.
Reserve(r) ==
    /\ pc[r] = "reserve"
    /\ \/ Goto(r, "forward") /\ UNCHANGED reserved
       \/ Goto(r, "forward") /\ reserved' = [reserved EXCEPT ![r] = TRUE]
       \/ Goto(r, "declined") /\ UNCHANGED reserved
    /\ UNCHANGED <<pool, choice, at, book, made, rows, settles, lost>>

\* Their estimates differ (prompt and max_tokens, the inputs, query and
\* documents, the images asked for), and which of them predict has: none.
ChatReserves(r)       == endpoint[r] \in {"chat", "stream"} /\ Reserve(r)
EmbeddingsReserves(r) == endpoint[r] = "embeddings" /\ Reserve(r)
RerankReserves(r)     == endpoint[r] = "rerank" /\ Reserve(r)
ImagesReserves(r)     == endpoint[r] = "images" /\ Reserve(r)

-----------------------------------------------------------------------------
(* Forwarding, the buffered way. *)

Buffered(r) == endpoint[r] # "stream"

\* forward_with_failover sorts again, by the load of this moment, and counts
\* the request against the first candidate with no await in between.
Forward(r) ==
    /\ pc[r] = "forward" /\ Buffered(r)
    /\ LET q == ByLoad(Elements(usable[r])) IN
       /\ at' = [at EXCEPT ![r] = Head(q)]
       /\ queue' = [queue EXCEPT ![r] = Tail(q)]
       /\ inflight' = Claim(Head(q), inflight)
    /\ usable' = [usable EXCEPT ![r] = <<>>]
    /\ Goto(r, "backend")
    /\ UNCHANGED <<busy, unreachable, endpoint, pinned, ledger>>

ChatSends(r)       == endpoint[r] = "chat" /\ Forward(r)
EmbeddingsSends(r) == endpoint[r] = "embeddings" /\ Forward(r)
RerankSends(r)     == endpoint[r] = "rerank" /\ Forward(r)
ImagesSends(r)     == endpoint[r] = "images" /\ Forward(r)
PredictSends(r)    == endpoint[r] = "predict" /\ Forward(r)

\* Fault: the failed replica goes back to the end of the line.
FailOverForever(r) ==
    /\ pc[r] = "backend" /\ queue[r] # <<>>
    /\ at' = [at EXCEPT ![r] = Head(queue[r])]
    /\ queue' = [queue EXCEPT ![r] = Append(Tail(@), at[r])]
    /\ inflight' = Claim(Head(queue[r]), Release(at[r], inflight))
    /\ UNCHANGED <<busy, unreachable, pc, endpoint, pinned, usable, ledger>>

\* The replica is gone after its retries: the next candidate, in the order of
\* the beginning. Nothing can run between the release and the next claim.
FailOver(r) ==
    /\ pc[r] = "backend" /\ queue[r] # <<>>
    /\ at' = [at EXCEPT ![r] = Head(queue[r])]
    /\ queue' = [queue EXCEPT ![r] = Tail(@)]
    /\ inflight' = Claim(Head(queue[r]), Release(at[r], inflight))
    /\ UNCHANGED <<busy, unreachable, pc, endpoint, pinned, usable, ledger>>

\* The request leaves its replica, with this left to record.
Leave(r, place, todo, generated) ==
    /\ pc[r] = "backend" /\ Goto(r, place)
    /\ inflight' = Release(at[r], inflight)
    /\ book' = [book EXCEPT ![r] = todo]
    /\ made' = [made EXCEPT ![r] = generated]
    /\ queue' = [queue EXCEPT ![r] = <<>>]
    /\ at' = [at EXCEPT ![r] = None]
    /\ UNCHANGED <<busy, unreachable, endpoint, pinned, usable, rows, reserved,
                   settles, lost>>

\* Answered; what the engine reports as generated, if anything, is recorded.
Served(r) == \E g \in BOOLEAN : Leave(r, "served", IF g THEN "usage" ELSE "settle", g)

ChatAnswered(r)       == endpoint[r] = "chat" /\ Served(r)
EmbeddingsAnswered(r) == endpoint[r] = "embeddings" /\ Served(r)
PredictAnswered(r)    == endpoint[r] = "predict" /\ Served(r)
ImagesAnswered(r)     == endpoint[r] = "images" /\ Served(r)
\* A ranking in a shape that cannot be read is a 502, and nothing is recorded.
RerankAnswered(r)     ==
    /\ endpoint[r] = "rerank"
    /\ Served(r) \/ Leave(r, "unreadable", "nothing", TRUE)

\* The replica itself refused: its answer is passed on, nothing is recorded.
BackendRefused(r) == Leave(r, "refused", "nothing", FALSE)

\* The last candidate is gone, or an error that is not tried elsewhere; no
\* except clause touches the reservation.
Unreachable(r) == queue[r] = <<>> /\ Leave(r, "failed", "nothing", FALSE)
UpstreamError(r) == Leave(r, "failed", "nothing", FALSE)
Fails(r) == Unreachable(r) \/ UpstreamError(r)

ChatFails(r)       == endpoint[r] = "chat" /\ Fails(r)
EmbeddingsFails(r) == endpoint[r] = "embeddings" /\ Fails(r)
RerankFails(r)     == endpoint[r] = "rerank" /\ Fails(r)
ImagesFails(r)     == endpoint[r] = "images" /\ Fails(r)
PredictFails(r)    == endpoint[r] = "predict" /\ Fails(r)

\* _forward_or_abandon: the listener was first, so the work is cancelled and
\* waited for, which releases its slot, and ClientGone is raised.
ClientGone(r, todo) == \E g \in BOOLEAN : Leave(r, "abandoned", todo, g)

\* chat leaves metrics alone; images gives the whole reservation back.
ChatGone(r) == endpoint[r] = "chat" /\ ClientGone(r, "nothing")
ImagesGone(r) ==
    /\ endpoint[r] = "images"
    /\ ClientGone(r, IF reserved[r] THEN "refund" ELSE "nothing")

-----------------------------------------------------------------------------
(* Forwarding, streamed: to the first usable member and nowhere else. *)

\* A failed or refused opening is answered like a buffered one.
StreamRefused(r) ==
    /\ pc[r] = "forward" /\ endpoint[r] = "stream"
    /\ usable' = [usable EXCEPT ![r] = <<>>]
    /\ Goto(r, "failed") \/ Goto(r, "refused")
    /\ UNCHANGED <<pool, endpoint, pinned, queue, at, ledger>>

\* The headers have arrived: the slot is claimed, and the response returned
\* whose generator has not run yet.
StreamOpened(r) ==
    /\ pc[r] = "forward" /\ endpoint[r] = "stream"
    /\ usable' = [usable EXCEPT ![r] = <<>>]
    /\ at' = [at EXCEPT ![r] = Head(usable[r])]
    /\ inflight' = Claim(Head(usable[r]), inflight)
    /\ Goto(r, "opened")
    /\ UNCHANGED <<busy, unreachable, endpoint, pinned, queue, ledger>>

StreamStarts(r) ==
    /\ pc[r] = "opened" /\ Goto(r, "streaming")
    /\ UNCHANGED <<pool, choice, at, ledger>>

\* The caller hangs up before the generator runs: no finally of it ever does.
StreamTorn(r) ==
    /\ pc[r] = "opened" /\ Goto(r, "torn")
    /\ UNCHANGED <<pool, choice, at, ledger>>

\* The engine finished or broke: the books are detached before the terminal
\* frame is handed over. A stream that carried no token is not recorded.
StreamEnds(r) ==
    /\ pc[r] = "streaming" /\ Goto(r, "terminal")
    /\ \E g \in BOOLEAN :
          /\ made' = [made EXCEPT ![r] = g]
          /\ book' = [book EXCEPT ![r] = IF g THEN "usage" ELSE "settle"]
    /\ UNCHANGED <<pool, choice, at, rows, reserved, settles, lost>>

\* The caller hangs up while it streams: the same books, and finally releases.
StreamLeft(r) ==
    /\ pc[r] = "streaming" /\ Goto(r, "abandoned")
    /\ at' = [at EXCEPT ![r] = None]
    /\ inflight' = Release(at[r], inflight)
    /\ \E g \in BOOLEAN :
          /\ made' = [made EXCEPT ![r] = g]
          /\ book' = [book EXCEPT ![r] = IF g THEN "usage" ELSE "settle"]
    /\ UNCHANGED <<busy, unreachable, choice, rows, reserved, settles,
                   lost>>

\* Fault: finally releases whether or not the terminal frame already did.
StreamReleasedTwice(r) ==
    /\ pc[r] = "terminal" /\ Goto(r, "served")
    /\ at' = [at EXCEPT ![r] = None]
    /\ inflight' = Release(at[r], Release(at[r], inflight))
    /\ UNCHANGED <<busy, unreachable, choice, ledger>>

\* The key is settled and the slot released, once, before the frame is read;
\* a caller gone by then changes nothing.
StreamReleased(r) ==
    /\ pc[r] = "terminal" /\ Goto(r, "served")
    /\ at' = [at EXCEPT ![r] = None]
    /\ inflight' = Release(at[r], inflight)
    /\ UNCHANGED <<busy, unreachable, choice, ledger>>

-----------------------------------------------------------------------------
(* The books. *)

MayLose == Cardinality({r \in Requests : lost[r] # {}}) < MaxLost

More(n) == IF n < 2 THEN n + 1 ELSE 2

\* Fault: the row is written again by the settling step.
SettleAndRecord(r) ==
    /\ book[r] \in {"settle", "refund"}
    /\ book' = [book EXCEPT ![r] = "nothing"]
    /\ rows' = [rows EXCEPT ![r] = More(@)]
    /\ settles' = IF reserved[r] THEN [settles EXCEPT ![r] = More(@)] ELSE settles
    /\ UNCHANGED <<pool, pc, choice, at, made, reserved, lost>>

\* _record_usage; a database error is logged and the row is lost.
RecordUsage(r) ==
    /\ book[r] = "usage"
    /\ book' = [book EXCEPT ![r] = "settle"]
    /\ \/ rows' = [rows EXCEPT ![r] = More(@)] /\ UNCHANGED lost
       \/ MayLose /\ lost' = [lost EXCEPT ![r] = @ \cup {"row"}] /\ UNCHANGED rows
    /\ UNCHANGED <<pool, pc, choice, at, made, reserved, settles>>

\* settle corrects the reservation, if there is one; it is lost to an error of
\* Redis or to a price that has gone since.
Settle(r) ==
    /\ book[r] \in {"settle", "refund"}
    /\ book' = [book EXCEPT ![r] = "nothing"]
    /\ \/ ~ reserved[r] /\ UNCHANGED <<settles, lost>>
       \/ /\ reserved[r]
          /\ \/ settles' = [settles EXCEPT ![r] = More(@)] /\ UNCHANGED lost
             \/ MayLose /\ lost' = [lost EXCEPT ![r] = @ \cup {"settlement"}] /\ UNCHANGED settles
    /\ UNCHANGED <<pool, pc, choice, at, made, rows, reserved>>

-----------------------------------------------------------------------------
(* The health monitor. *)

\* probe_once: a replica that answers no probe is unreachable and keeps what
\* it last reported; the others report how busy they are.
ProbeOnce ==
    \E dead \in SUBSET Flaky :
        /\ unreachable' = dead
        /\ busy' \in [Backends -> Reports]
        /\ \A b \in Backends : Slots[b] = 0 => busy'[b] = 0
        /\ \A b \in dead : busy'[b] = busy[b]
        /\ UNCHANGED <<inflight, pc, choice, at, ledger>>

-----------------------------------------------------------------------------
(* The specification. *)

Picks(r) ==
    \/ ChatPicks(r) \/ EmbeddingsPicks(r) \/ RerankPicks(r) \/ ImagesPicks(r)
    \/ PredictPicks(r)

Reserves(r) ==
    \/ ChatReserves(r) \/ EmbeddingsReserves(r) \/ RerankReserves(r)
    \/ ImagesReserves(r)

Sends(r) ==
    \/ ChatSends(r) \/ EmbeddingsSends(r) \/ RerankSends(r) \/ ImagesSends(r)
    \/ PredictSends(r) \/ StreamRefused(r) \/ StreamOpened(r)

Route(r) ==
    CheckMember(r) \/ NoReplica(r) \/ Picks(r) \/ Gate(r) \/ Reserves(r) \/ Sends(r)

Answered(r) ==
    \/ ChatAnswered(r) \/ EmbeddingsAnswered(r) \/ PredictAnswered(r)
    \/ ImagesAnswered(r) \/ RerankAnswered(r)

Failed(r) ==
    \/ ChatFails(r) \/ EmbeddingsFails(r) \/ RerankFails(r) \/ ImagesFails(r)
    \/ PredictFails(r)

\* What the engine does, within its timeout.
Engine(r) ==
    \/ Answered(r) \/ BackendRefused(r) \/ FailOver(r) \/ Failed(r)
    \/ StreamStarts(r) \/ StreamEnds(r) \/ StreamReleased(r)

Books(r) == RecordUsage(r) \/ Settle(r)

Call(r) == Chat(r) \/ Embeddings(r) \/ Rerank(r) \/ Images(r) \/ Predict(r)
HangUp(r) == ChatGone(r) \/ ImagesGone(r) \/ StreamTorn(r) \/ StreamLeft(r)

Next ==
    \/ \E r \in Requests :
          Call(r) \/ Route(r) \/ Engine(r) \/ Books(r) \/ HangUp(r)
    \/ ProbeOnce

Spec == Init /\ [][Next]_vars

\* The event loop runs every coroutine that can go on, detached ones too, and
\* every backend answers or times out. Nobody has to call or to hang up.
Fairness ==
    \A r \in Requests : WF_vars(Route(r)) /\ WF_vars(Engine(r)) /\ WF_vars(Books(r))

FairSpec == Spec /\ Fairness

-----------------------------------------------------------------------------
(* Properties. *)

Ended(r) == pc[r] \in Ends
Closed(r) == Ended(r) /\ book[r] = "nothing"

\* track, acquire and release: the count least-loaded routing and admission
\* decide by is exactly the requests at the replica, whatever way each of
\* them left it, but for those torn off between the claim and the generator.
SlotsAccounted ==
    \A b \in Backends :
        inflight[b] = Cardinality({r \in Requests :
                          at[r] = b /\ pc[r] \in Holding \cup {"torn"}})

\* _record_usage: whoever generated has one usage row, or is one of the named
\* exceptions, and nobody else has any: refusals and failures cost nothing.
MeteredOnce ==
    \A r \in Requests :
        /\ rows[r] <= (IF made[r] THEN 1 ELSE 0)
        /\ Closed(r) /\ made[r] /\ rows[r] = 0 =>
              \/ "row" \in lost[r]
              \/ pc[r] = "unreadable"
              \/ pc[r] = "abandoned" /\ Buffered(r)

\* A reservation is settled at most once, and it is settled after every answer
\* and by every stream that ran or image request that was left. Those who stay
\* reserved for the month: no answer, nothing readable, a chat hung up on.
SettledOnce ==
    \A r \in Requests :
        /\ settles[r] <= (IF reserved[r] THEN 1 ELSE 0)
        /\ Closed(r) /\ reserved[r] /\ settles[r] = 0 =>
              \/ "settlement" \in lost[r]
              \/ pc[r] \in {"refused", "failed", "unreadable", "torn"}
              \/ pc[r] = "abandoned" /\ endpoint[r] = "chat"

\* The books of a request: its work and its reservation.
BooksKept == MeteredOnce /\ SettledOnce

\* X-Prometheus-Instance: a pinned request is never sent to another replica,
\* not by failover either.
PinHonoured ==
    \A r \in Requests : pinned[r] # None => at[r] \in {pinned[r], None}

\* Every request that was let in ends, and its books are closed.
RequestsEnd == \A r \in Requests : pc[r] = "health" ~> Closed(r)
=============================================================================
