----------------------------- MODULE Idempotency -----------------------------
(***************************************************************************)
(* One Idempotency-Key of one client: the record that idempotency.py keeps *)
(* in the gateway's database, and the requests that carry the key.         *)
(*                                                                         *)
(* begin, complete and release each read the record with one statement and *)
(* change it by primary key with a later one, so every action below ends   *)
(* with one statement or commit. Requests run concurrently, in any number  *)
(* of workers; they share nothing but the record.                          *)
(***************************************************************************)
EXTENDS Integers

CONSTANTS
    Requests,      \* concurrent requests; each is reused when it has ended
    Fingerprints,  \* what a request may ask for, as fingerprint() tells apart
    Kinds          \* {"plain", "stream"}, or one of them

None == "none"
Unretained == "unretained"   \* response_body is NULL: too large to keep

ASSUME KeyAssumption ==
    /\ None \notin Requests
    /\ None \notin Fingerprints /\ Unretained \notin Fingerprints
    /\ Kinds \subseteq {"plain", "stream"}

VARIABLES
    row,     \* database: the record; row.by is history, the request that
             \* inserted it and still runs (None when that one died)
    pc,      \* per request: where its coroutine is
    want,    \* per request: the fingerprint it computed
    kind,    \* per request: whether the answer is streamed
    result,  \* per request: the answer to store, once the backend finished
    bills,   \* history: complete answers metered in this window, up to two
    events   \* history: what went wrong with the key, see Mishaps

vars == <<row, pc, want, kind, result, bills, events>>

Absent == [state |-> "absent", fp |-> None, body |-> None, by |-> None,
           expired |-> FALSE]

Records == [state   : {"absent", "in_progress", "completed"},
            fp      : Fingerprints \cup {None},
            body    : Fingerprints \cup {None, Unretained},
            by      : Requests \cup {None},
            expired : BOOLEAN]

\* Places of a request that holds a Claim.
Running == {"generate", "complete", "store", "overwrite", "release", "delete"}
Places  == {"idle", "discard", "insert"} \cup Running

\* "stolen": a record inside its window was deleted as an expired one.
\* "returned": the key was given back after a complete answer was metered.
\* "wrong answer": a replay carried the answer to a different request.
Mishaps == {"stolen", "returned", "wrong answer"}

TypeOK ==
    /\ row \in Records
    /\ pc \in [Requests -> Places]
    /\ want \in [Requests -> Fingerprints \cup {None}]
    /\ kind \in [Requests -> {"plain", "stream"}]
    /\ result \in [Requests -> Fingerprints \cup {None, Unretained}]
    /\ bills \in 0 .. 2
    /\ events \subseteq Mishaps

Init ==
    /\ row = Absent
    /\ pc = [r \in Requests |-> "idle"]
    /\ want = [r \in Requests |-> None]
    /\ kind = [r \in Requests |-> "plain"]
    /\ result = [r \in Requests |-> None]
    /\ bills = 0
    /\ events = {}

-----------------------------------------------------------------------------
(* Helpers. *)

Present == row.state # "absent"

Goto(r, place) == pc' = [pc EXCEPT ![r] = place]

\* The request ends.
Finish(r) ==
    /\ Goto(r, "idle")
    /\ want' = [want EXCEPT ![r] = None]
    /\ kind' = [kind EXCEPT ![r] = "plain"]
    /\ result' = [result EXCEPT ![r] = None]

\* Fault: the fingerprint is not compared.
ReplayableToAnyone(f) == row.state = "completed" /\ row.body # Unretained

\* begin answers the request f with the stored body.
Replayable(f) ==
    row.state = "completed" /\ row.body # Unretained /\ row.fp = f

-----------------------------------------------------------------------------
(* begin *)

Start(r, f, k, place) ==
    /\ pc[r] = "idle" /\ Goto(r, place)
    /\ want' = [want EXCEPT ![r] = f]
    /\ kind' = [kind EXCEPT ![r] = k]
    /\ UNCHANGED <<row, result, bills, events>>

ReadAbsent(r, f, k) == ~ Present /\ Start(r, f, k, "insert")

\* Fault: only a stored answer expires, a claim never does.
ReadExpiredAnswer(r, f, k) ==
    /\ Present /\ row.expired /\ row.state = "completed"
    /\ Start(r, f, k, "discard")

\* Past the window the key means nothing.
ReadExpired(r, f, k) == Present /\ row.expired /\ Start(r, f, k, "discard")

\* Inside the window the record decides at once: another request's key, still
\* running, too large to replay, or a replay. Only what a replay carries matters.
Answer(r, f) ==
    /\ pc[r] = "idle" /\ Present /\ ~ row.expired
    /\ events' = IF Replayable(f) /\ row.body # f
                 THEN events \cup {"wrong answer"} ELSE events
    /\ UNCHANGED <<row, pc, want, kind, result, bills>>

\* DELETE by primary key: whichever record is there by now.
Discard(r) ==
    /\ pc[r] = "discard" /\ Goto(r, "insert")
    /\ row' = Absent
    /\ events' = IF Present /\ ~ row.expired THEN events \cup {"stolen"} ELSE events
    /\ bills' = IF Present /\ row.expired THEN 0 ELSE bills
    /\ UNCHANGED <<want, kind, result>>

\* Fault: the record is written over, as an upsert would.
InsertOrReplace(r) ==
    /\ pc[r] = "insert" /\ Goto(r, "generate")
    /\ row' = [state |-> "in_progress", fp |-> want[r], body |-> None, by |-> r,
               expired |-> FALSE]
    /\ UNCHANGED <<want, kind, result, bills, events>>

\* INSERT: the primary key lets one claim through and refuses the others.
Insert(r) ==
    /\ pc[r] = "insert"
    /\ IF Present
       THEN Finish(r) /\ UNCHANGED row
       ELSE /\ Goto(r, "generate")
            /\ row' = [state |-> "in_progress", fp |-> want[r], body |-> None,
                       by |-> r, expired |-> FALSE]
            /\ UNCHANGED <<want, kind, result>>
    /\ UNCHANGED <<bills, events>>

-----------------------------------------------------------------------------
(* The handler that holds the claim, and the middleware or the stream's    *)
(* generator that settles it.                                              *)

\* The backend's answer is complete, and its usage is recorded.
Produce(r) ==
    /\ pc[r] = "generate" /\ Goto(r, "complete")
    /\ result' \in {[result EXCEPT ![r] = body] : body \in {want[r], Unretained}}
    /\ bills' = IF bills < 2 THEN bills + 1 ELSE bills
    /\ UNCHANGED <<row, want, kind, events>>

\* Fault: an exception leaves the claim unsettled.
FailUnsettled(r) ==
    /\ pc[r] = "generate" /\ Finish(r)
    /\ UNCHANGED <<row, bills, events>>

\* Refused before or by the backend, an exception, a client that left, or a
\* stream that broke off: nothing worth storing.
Fail(r) ==
    /\ pc[r] = "generate" /\ Goto(r, "release")
    /\ UNCHANGED <<row, want, kind, result, bills, events>>

\* The answer was metered and is given up all the same: an exception between
\* the usage row and the return turns a plain one into a 502, and a stream
\* cancelled while it stores its answer settles again as an unclean one.
Spoil(r) ==
    /\ pc[r] \in (IF kind[r] = "plain" THEN {"complete"}
                                        ELSE {"complete", "store", "overwrite"})
    /\ Goto(r, "release")
    /\ UNCHANGED <<row, want, kind, result, bills, events>>

\* complete reads the record by key, whoever inserted it.
LoadToStore(r) ==
    /\ pc[r] = "complete"
    /\ CASE row.state = "absent"      -> Finish(r)
         [] row.state = "in_progress" -> Goto(r, "store") /\ UNCHANGED <<want, kind, result>>
         [] row.state = "completed"   -> Goto(r, "overwrite") /\ UNCHANGED <<want, kind, result>>
    /\ UNCHANGED <<row, bills, events>>

\* Fault: no record is kept of an answer too large to store.
StoreDropsOversized(r) ==
    /\ pc[r] = "store" /\ Present
    /\ row' = IF result[r] = Unretained THEN Absent
              ELSE [row EXCEPT !.state = "completed", !.body = result[r]]
    /\ Finish(r)
    /\ UNCHANGED <<bills, events>>

\* UPDATE by primary key of the columns that changed since they were read. It
\* fails when the record is gone: the middleware logs that, a stream's
\* generator is torn down by it and gives the key back.
Store(r) ==
    /\ pc[r] \in {"store", "overwrite"}
    /\ row' = IF Present
              THEN [row EXCEPT !.state = IF pc[r] = "store" THEN "completed" ELSE @,
                               !.body = result[r]]
              ELSE row
    /\ IF Present \/ kind[r] = "plain"
       THEN Finish(r)
       ELSE Goto(r, "release") /\ UNCHANGED <<want, kind, result>>
    /\ UNCHANGED <<bills, events>>

\* release reads the record by key, and leaves a completed one alone.
LoadToRelease(r) ==
    /\ pc[r] = "release"
    /\ IF row.state = "in_progress"
       THEN Goto(r, "delete") /\ UNCHANGED <<want, kind, result>>
       ELSE Finish(r)
    /\ UNCHANGED <<row, bills, events>>

\* DELETE by primary key.
Delete(r) ==
    /\ pc[r] = "delete" /\ Finish(r)
    /\ row' = Absent
    /\ events' = IF result[r] # None THEN events \cup {"returned"} ELSE events
    /\ UNCHANGED bills

-----------------------------------------------------------------------------
(* The environment. *)

\* A database error, a cancelled task or a worker that dies ends the request
\* between two statements; the record stays as it is.
Die(r) ==
    /\ pc[r] # "idle" /\ Finish(r)
    /\ row' = IF row.by = r THEN [row EXCEPT !.by = None] ELSE row
    /\ UNCHANGED <<bills, events>>

\* A day goes by. A request is over long before the record it inserted is a
\* day old.
Expire ==
    /\ Present /\ ~ row.expired
    /\ \A r \in Requests : row.by = r => pc[r] \notin Running
    /\ row' = [row EXCEPT !.expired = TRUE]
    /\ UNCHANGED <<pc, want, kind, result, bills, events>>

-----------------------------------------------------------------------------
Begin(r) == \E f \in Fingerprints, k \in Kinds :
                ReadAbsent(r, f, k) \/ ReadExpired(r, f, k)

Proceed(r) == \/ Discard(r) \/ Insert(r)
              \/ Produce(r) \/ Fail(r)
              \/ LoadToStore(r) \/ Store(r)
              \/ LoadToRelease(r) \/ Delete(r)

Step(r) == \/ Begin(r) \/ Proceed(r)
           \/ \E f \in Fingerprints : Answer(r, f)
           \/ Spoil(r) \/ Die(r)

Next == Expire \/ \E r \in Requests : Step(r)

Spec == Init /\ [][Next]_vars

\* Requests under way proceed (the backend call has a timeout), days go by,
\* and clients retry with the key.
FairSpec == /\ Spec /\ WF_vars(Expire)
            /\ \A r \in Requests : WF_vars(Proceed(r)) /\ WF_vars(Begin(r))

-----------------------------------------------------------------------------
(* Properties. *)

(* Two requests never generate under the same key at once, however their   *)
(* reads, deletes and inserts interleave, as long as no record inside its  *)
(* window was deleted as an expired one.                                   *)
OneGeneration ==
    "stolen" \notin events =>
        \A r, q \in Requests : pc[r] \in Running /\ pc[q] \in Running => r = q

(* A replay carries the answer to the request that is being replayed, with *)
(* the same exception: complete and release trust the key alone.           *)
ReplayFaithful == "wrong answer" \in events => "stolen" \in events

(* A complete answer is metered once in the window of a key. The two ways  *)
(* out are named: a stolen record, and a key that was given back after its *)
(* answer had been metered.                                                *)
BilledOnceUnlessReturned ==
    events \cap {"stolen", "returned"} = {} => bills <= 1

(* A key is refused as still running only while the request that claimed   *)
(* it runs, or after that request died: no exit leaves it held.            *)
HeldWhileRunning ==
    \A r \in Requests :
        row.state = "in_progress" /\ row.by = r => pc[r] \in Running

(* A held key does not stay held, even when the request that claimed it    *)
(* died, and whoever's record a late complete or release then finds,       *)
(* unless requests keep dying for ever.                                    *)
HeldKeyIsFreed == \/ []<><<\E r \in Requests : Die(r)>>_vars
                  \/ row.state = "in_progress" ~> row.state # "in_progress"

(* What the table is for: a complete answer is never generated and billed  *)
(* twice in the window of a key.                                           *)
BilledOnce == bills <= 1
=============================================================================
