-------------------------- MODULE IdempotencyProofs --------------------------
(* Proofs about Idempotency, for any requests and any fingerprints.         *)
EXTENDS Idempotency, TLAPS

-----------------------------------------------------------------------------
(* The inductive invariant, in parts.                                       *)

\* What a request has at hand at each of its places.
Equipped ==
    \A r \in Requests :
        /\ pc[r] # "idle" => want[r] \in Fingerprints
        /\ pc[r] \in {"complete", "store", "overwrite"} => result[r] # None

\* Until a record is stolen, the record of a running request is its own.
Owner ==
    "stolen" \notin events =>
        \A r \in Requests : pc[r] \in Running =>
            /\ row.state = "in_progress" /\ row.by = r /\ row.fp = want[r]
            /\ ~ row.expired
            /\ pc[r] # "overwrite"

\* Until then, what is stored, or about to be, answers the request it is for.
Faithful ==
    "stolen" \notin events =>
        /\ row.state = "completed" => row.body \in {row.fp, Unretained}
        /\ \A r \in Requests : pc[r] \in {"complete", "store"} =>
              result[r] \in {want[r], Unretained}
        /\ "wrong answer" \notin events

\* Nothing has been metered while the key is free or its claim has no answer.
Unmetered ==
    events \cap {"stolen", "returned"} = {} =>
        /\ bills <= 1
        /\ row.state = "absent" => bills = 0
        /\ \A r \in Requests :
              \/ pc[r] = "generate"
              \/ pc[r] \in {"release", "delete"} /\ result[r] = None
              => bills = 0

\* A claim belongs to a running request, which has not read it as completed.
Holding ==
    /\ HeldWhileRunning
    /\ \A r \in Requests : pc[r] = "overwrite" => ~ (row.state = "in_progress" /\ row.by = r)

IInv == TypeOK /\ Equipped /\ Owner /\ Faithful /\ Unmetered /\ Holding
-----------------------------------------------------------------------------
(* One lemma per part, one step per action.                                 *)

(* Types are preserved by every step. *)
LEMMA TypeStep ==
    TypeOK /\ [Next]_vars => TypeOK'
<1> SUFFICES ASSUME TypeOK, [Next]_vars PROVE TypeOK'
    OBVIOUS
<1>1. ASSUME NEW r \in Requests, NEW f \in Fingerprints, NEW k \in Kinds,
             ReadAbsent(r, f, k)
      PROVE TypeOK'
    BY <1>1, KeyAssumption
    DEF TypeOK, Records, Places, Running, Mishaps, Present, ReadAbsent,
        Start, Goto
<1>2. ASSUME NEW r \in Requests, NEW f \in Fingerprints, NEW k \in Kinds,
             ReadExpired(r, f, k)
      PROVE TypeOK'
    BY <1>2, KeyAssumption
    DEF TypeOK, Records, Places, Running, Mishaps, Present, ReadExpired,
        Start, Goto
<1>3. ASSUME NEW r \in Requests, NEW f \in Fingerprints, Answer(r, f) PROVE TypeOK'
    BY <1>3
    DEF TypeOK, Records, Places, Running, Mishaps, Present, Answer,
        Replayable
<1>4. ASSUME NEW r \in Requests, Discard(r) PROVE TypeOK'
  <2>1. row' \in Records
    BY <1>4 DEF Discard, Absent, Records
  <2>2. pc' \in [Requests -> Places]
    BY <1>4 DEF TypeOK, Discard, Goto, Places
  <2>3. events' \subseteq Mishaps
    BY <1>4 DEF TypeOK, Discard, Mishaps
  <2>4. bills' \in 0 .. 2
    <3>1. bills' \in {0, bills}
      BY <1>4 DEF Discard
    <3> QED
      BY <3>1 DEF TypeOK
  <2> QED
    BY <1>4, <2>1, <2>2, <2>3, <2>4 DEF TypeOK, Discard
<1>5. ASSUME NEW r \in Requests, Insert(r) PROVE TypeOK'
  <2>1. CASE Present
    BY <1>5, <2>1 DEF TypeOK, Insert, Finish, Goto, Places
  <2>2. CASE ~ Present
    <3>1. row' \in Records
      <4>1. want[r] \in Fingerprints \cup {None}
        BY DEF TypeOK
      <4>2. row' = [state |-> "in_progress", fp |-> want[r], body |-> None, by |-> r,
                    expired |-> FALSE]
        BY <1>5, <2>2 DEF Insert
      <4> QED
        BY <4>1, <4>2 DEF Records
    <3>2. pc' \in [Requests -> Places]
      BY <1>5, <2>2 DEF TypeOK, Insert, Goto, Places, Running
    <3> QED
      BY <1>5, <2>2, <3>1, <3>2 DEF TypeOK, Insert
  <2> QED
    BY <2>1, <2>2
<1>6. ASSUME NEW r \in Requests, Produce(r) PROVE TypeOK'
  <2>1. PICK body \in {want[r], Unretained} : result' = [result EXCEPT ![r] = body]
    BY <1>6 DEF Produce
  <2>2. bills' \in 0 .. 2 /\ pc' \in [Requests -> Places]
    BY <1>6 DEF TypeOK, Produce, Goto, Places, Running
  <2> QED
    BY <1>6, <2>1, <2>2 DEF TypeOK, Produce
<1>7. ASSUME NEW r \in Requests, Fail(r) PROVE TypeOK'
    BY <1>7
    DEF TypeOK, Records, Places, Running, Mishaps, Present, Fail, Goto
<1>8. ASSUME NEW r \in Requests, Spoil(r) PROVE TypeOK'
    BY <1>8
    DEF TypeOK, Records, Places, Running, Mishaps, Present, Spoil, Goto
<1>9. ASSUME NEW r \in Requests, LoadToStore(r) PROVE TypeOK'
    BY <1>9
    DEF TypeOK, Records, Places, Running, Mishaps, Present, LoadToStore,
        Finish, Goto
<1>10. ASSUME NEW r \in Requests, Store(r) PROVE TypeOK'
    BY <1>10
    DEF TypeOK, Records, Places, Running, Mishaps, Present, Store, Finish,
        Goto
<1>11. ASSUME NEW r \in Requests, LoadToRelease(r) PROVE TypeOK'
    BY <1>11
    DEF TypeOK, Records, Places, Running, Mishaps, Present, LoadToRelease,
        Finish, Goto
<1>12. ASSUME NEW r \in Requests, Delete(r) PROVE TypeOK'
    BY <1>12
    DEF TypeOK, Records, Places, Running, Mishaps, Present, Delete, Finish,
        Goto, Absent, None
<1>13. ASSUME NEW r \in Requests, Die(r) PROVE TypeOK'
    BY <1>13
    DEF TypeOK, Records, Places, Running, Mishaps, Present, Die, Finish,
        Goto
<1>14. CASE Expire
    BY <1>14
    DEF TypeOK, Records, Places, Running, Mishaps, Present, Expire
<1>15. CASE UNCHANGED vars
    BY <1>15 DEF TypeOK, Records, Places, Running, Mishaps, Present, vars
<1> QED
    BY <1>1, <1>2, <1>3, <1>4, <1>5, <1>6, <1>7, <1>8, <1>9, <1>10, <1>11,
       <1>12, <1>13, <1>14, <1>15
    DEF Next, Step, Begin, Proceed

(* A request keeps what it needs until it ends. *)
LEMMA EquippedStep ==
    TypeOK /\ Equipped /\ [Next]_vars => Equipped'
<1> SUFFICES ASSUME TypeOK /\ Equipped, [Next]_vars PROVE Equipped'
    OBVIOUS
<1>1. ASSUME NEW r \in Requests, NEW f \in Fingerprints, NEW k \in Kinds,
             ReadAbsent(r, f, k)
      PROVE Equipped'
    BY <1>1
    DEF TypeOK, Equipped, Records, Places, Running, None, Unretained,
        ReadAbsent, Start, Goto
<1>2. ASSUME NEW r \in Requests, NEW f \in Fingerprints, NEW k \in Kinds,
             ReadExpired(r, f, k)
      PROVE Equipped'
    BY <1>2
    DEF TypeOK, Equipped, Records, Places, Running, None, Unretained,
        ReadExpired, Start, Goto
<1>3. ASSUME NEW r \in Requests, NEW f \in Fingerprints, Answer(r, f)
      PROVE Equipped'
    BY <1>3
    DEF TypeOK, Equipped, Records, Places, Running, None, Unretained,
        Answer, Replayable
<1>4. ASSUME NEW r \in Requests, Discard(r) PROVE Equipped'
    BY <1>4
    DEF TypeOK, Equipped, Records, Places, Running, None, Unretained,
        Discard, Goto, Absent
<1>5. ASSUME NEW r \in Requests, Insert(r) PROVE Equipped'
    BY <1>5
    DEF TypeOK, Equipped, Records, Places, Running, None, Unretained,
        Insert, Finish, Goto
<1>6. ASSUME NEW r \in Requests, Produce(r) PROVE Equipped'
  <2>1. PICK body \in {want[r], Unretained} : result' = [result EXCEPT ![r] = body]
    BY <1>6 DEF Produce
  <2>2. body # None
    BY <1>6, KeyAssumption DEF Equipped, Produce, None, Unretained
  <2> QED
    BY <1>6, <2>1, <2>2 DEF TypeOK, Equipped, Produce, Goto
<1>7. ASSUME NEW r \in Requests, Fail(r) PROVE Equipped'
    BY <1>7
    DEF TypeOK, Equipped, Records, Places, Running, None, Unretained, Fail,
        Goto
<1>8. ASSUME NEW r \in Requests, Spoil(r) PROVE Equipped'
    BY <1>8
    DEF TypeOK, Equipped, Records, Places, Running, None, Unretained, Spoil,
        Goto
<1>9. ASSUME NEW r \in Requests, LoadToStore(r) PROVE Equipped'
  <2>1. pc[r] = "complete" /\ row.state \in {"absent", "in_progress", "completed"}
    BY <1>9 DEF TypeOK, Records, LoadToStore
  <2>2. CASE row.state = "absent"
    BY <1>9, <2>2 DEF TypeOK, Equipped, LoadToStore, Finish, Goto
  <2>3. CASE row.state = "in_progress"
    BY <1>9, <2>1, <2>3 DEF TypeOK, Equipped, LoadToStore, Goto
  <2>4. CASE row.state = "completed"
    BY <1>9, <2>1, <2>4 DEF TypeOK, Equipped, LoadToStore, Goto
  <2> QED
    BY <2>1, <2>2, <2>3, <2>4
<1>10. ASSUME NEW r \in Requests, Store(r) PROVE Equipped'
    BY <1>10
    DEF TypeOK, Equipped, Records, Places, Running, None, Unretained, Store,
        Finish, Goto
<1>11. ASSUME NEW r \in Requests, LoadToRelease(r) PROVE Equipped'
    BY <1>11
    DEF TypeOK, Equipped, Records, Places, Running, None, Unretained,
        LoadToRelease, Finish, Goto
<1>12. ASSUME NEW r \in Requests, Delete(r) PROVE Equipped'
    BY <1>12
    DEF TypeOK, Equipped, Records, Places, Running, None, Unretained,
        Delete, Finish, Goto, Absent
<1>13. ASSUME NEW r \in Requests, Die(r) PROVE Equipped'
    BY <1>13
    DEF TypeOK, Equipped, Records, Places, Running, None, Unretained, Die,
        Finish, Goto
<1>14. CASE Expire
    BY <1>14
    DEF TypeOK, Equipped, Records, Places, Running, None, Unretained, Expire
<1>15. CASE UNCHANGED vars
    BY <1>15 DEF TypeOK, Equipped, Records, Places, Running, None, Unretained, vars
<1> QED
    BY <1>1, <1>2, <1>3, <1>4, <1>5, <1>6, <1>7, <1>8, <1>9, <1>10, <1>11,
       <1>12, <1>13, <1>14, <1>15
    DEF Next, Step, Begin, Proceed

(* Only a theft lets a running request lose its record. *)
LEMMA OwnerStep ==
    TypeOK /\ Owner /\ [Next]_vars => Owner'
<1> SUFFICES ASSUME TypeOK /\ Owner, [Next]_vars PROVE Owner'
    OBVIOUS
<1>1. ASSUME NEW r \in Requests, NEW f \in Fingerprints, NEW k \in Kinds,
             ReadAbsent(r, f, k)
      PROVE Owner'
    BY <1>1
    DEF TypeOK, Owner, Running, Present, ReadAbsent, Start, Goto
<1>2. ASSUME NEW r \in Requests, NEW f \in Fingerprints, NEW k \in Kinds,
             ReadExpired(r, f, k)
      PROVE Owner'
    BY <1>2
    DEF TypeOK, Owner, Running, Present, ReadExpired, Start, Goto
<1>3. ASSUME NEW r \in Requests, NEW f \in Fingerprints, Answer(r, f) PROVE Owner'
    BY <1>3, KeyAssumption DEF TypeOK, Owner, Running, Present, Answer, Replayable
<1>4. ASSUME NEW r \in Requests, Discard(r) PROVE Owner'
    BY <1>4
    DEF TypeOK, Owner, Running, Present, Discard, Goto, Absent, None
<1>5. ASSUME NEW r \in Requests, Insert(r) PROVE Owner'
    BY <1>5, KeyAssumption DEF TypeOK, Owner, Running, Present, Insert, Finish, Goto
<1>6. ASSUME NEW r \in Requests, Produce(r) PROVE Owner'
    BY <1>6, KeyAssumption DEF TypeOK, Owner, Running, Present, Produce, Goto
<1>7. ASSUME NEW r \in Requests, Fail(r) PROVE Owner'
    BY <1>7, KeyAssumption DEF TypeOK, Owner, Running, Present, Fail, Goto
<1>8. ASSUME NEW r \in Requests, Spoil(r) PROVE Owner'
    BY <1>8, KeyAssumption DEF TypeOK, Owner, Running, Present, Spoil, Goto
<1>9. ASSUME NEW r \in Requests, LoadToStore(r) PROVE Owner'
    BY <1>9
    DEF TypeOK, Owner, Running, Present, LoadToStore, Finish, Goto
<1>10. ASSUME NEW r \in Requests, Store(r) PROVE Owner'
    BY <1>10, KeyAssumption DEF TypeOK, Owner, Running, Present, Store, Finish, Goto
<1>11. ASSUME NEW r \in Requests, LoadToRelease(r) PROVE Owner'
    BY <1>11
    DEF TypeOK, Owner, Running, Present, LoadToRelease, Finish, Goto
<1>12. ASSUME NEW r \in Requests, Delete(r) PROVE Owner'
    BY <1>12
    DEF TypeOK, Owner, Running, Present, Delete, Finish, Goto, Absent, None
<1>13. ASSUME NEW r \in Requests, Die(r) PROVE Owner'
    BY <1>13, KeyAssumption DEF TypeOK, Owner, Running, Present, Die, Finish, Goto
<1>14. CASE Expire
    BY <1>14, KeyAssumption DEF TypeOK, Owner, Running, Present, Expire
<1>15. CASE UNCHANGED vars
    BY <1>15 DEF TypeOK, Owner, Running, Present, vars
<1> QED
    BY <1>1, <1>2, <1>3, <1>4, <1>5, <1>6, <1>7, <1>8, <1>9, <1>10, <1>11,
       <1>12, <1>13, <1>14, <1>15
    DEF Next, Step, Begin, Proceed

(* Without a theft every stored answer fits its record. *)
LEMMA FaithfulStep ==
    TypeOK /\ Equipped /\ Owner /\ Faithful /\ [Next]_vars => Faithful'
<1> SUFFICES ASSUME TypeOK /\ Equipped /\ Owner /\ Faithful, [Next]_vars
      PROVE Faithful'
    OBVIOUS
<1>1. ASSUME NEW r \in Requests, NEW f \in Fingerprints, NEW k \in Kinds,
             ReadAbsent(r, f, k)
      PROVE Faithful'
    BY <1>1
    DEF TypeOK, Records, Equipped, Owner, Faithful, Running, Present,
        Unretained, None, ReadAbsent, Start, Goto
<1>2. ASSUME NEW r \in Requests, NEW f \in Fingerprints, NEW k \in Kinds,
             ReadExpired(r, f, k)
      PROVE Faithful'
    BY <1>2
    DEF TypeOK, Records, Equipped, Owner, Faithful, Running, Present,
        Unretained, None, ReadExpired, Start, Goto
<1>3. ASSUME NEW r \in Requests, NEW f \in Fingerprints, Answer(r, f)
      PROVE Faithful'
    BY <1>3
    DEF TypeOK, Records, Equipped, Owner, Faithful, Running, Present,
        Unretained, None, Answer, Replayable
<1>4. ASSUME NEW r \in Requests, Discard(r) PROVE Faithful'
    BY <1>4
    DEF TypeOK, Records, Equipped, Owner, Faithful, Running, Present,
        Unretained, None, Discard, Goto, Absent
<1>5. ASSUME NEW r \in Requests, Insert(r) PROVE Faithful'
  <2>1. CASE Present
    BY <1>5, <2>1 DEF TypeOK, Faithful, Insert, Finish, Goto
  <2>2. CASE ~ Present
    <3>1. row' = [state |-> "in_progress", fp |-> want[r], body |-> None, by |-> r,
                  expired |-> FALSE]
      BY <1>5, <2>2 DEF Insert
    <3>2. row'.state # "completed"
      BY <3>1
    <3>3. pc' = [pc EXCEPT ![r] = "generate"] /\ UNCHANGED <<want, result, events>>
      BY <1>5, <2>2 DEF Insert, Goto
    <3> QED
      BY <3>2, <3>3 DEF TypeOK, Faithful
  <2> QED
    BY <2>1, <2>2
<1>6. ASSUME NEW r \in Requests, Produce(r) PROVE Faithful'
  <2>1. PICK body \in {want[r], Unretained} : result' = [result EXCEPT ![r] = body]
    BY <1>6 DEF Produce
  <2> QED
    BY <1>6, <2>1 DEF TypeOK, Faithful, Produce, Goto
<1>7. ASSUME NEW r \in Requests, Fail(r) PROVE Faithful'
    BY <1>7
    DEF TypeOK, Records, Equipped, Owner, Faithful, Running, Present,
        Unretained, None, Fail, Goto
<1>8. ASSUME NEW r \in Requests, Spoil(r) PROVE Faithful'
    BY <1>8
    DEF TypeOK, Records, Equipped, Owner, Faithful, Running, Present,
        Unretained, None, Spoil, Goto
<1>9. ASSUME NEW r \in Requests, LoadToStore(r) PROVE Faithful'
    BY <1>9
    DEF TypeOK, Records, Equipped, Owner, Faithful, Running, Present,
        Unretained, None, LoadToStore, Finish, Goto
<1>10. ASSUME NEW r \in Requests, Store(r) PROVE Faithful'
  <2>1. CASE "stolen" \in events
    BY <1>10, <2>1 DEF Store, Faithful
  <2>2. CASE "stolen" \notin events
    <3>1. pc[r] = "store" /\ row.fp = want[r] /\ Present
      BY <1>10, <2>2 DEF Store, Owner, Running, Present
    <3>2. row' = [row EXCEPT !.state = "completed", !.body = result[r]]
      BY <1>10, <3>1 DEF Store
    <3>3. row'.body \in {row'.fp, Unretained}
      BY <2>2, <3>1, <3>2 DEF TypeOK, Records, Faithful
    <3> QED
      BY <1>10, <2>2, <3>1, <3>3 DEF TypeOK, Faithful, Store, Finish, Goto
  <2> QED
    BY <2>1, <2>2
<1>11. ASSUME NEW r \in Requests, LoadToRelease(r) PROVE Faithful'
    BY <1>11
    DEF TypeOK, Records, Equipped, Owner, Faithful, Running, Present,
        Unretained, None, LoadToRelease, Finish, Goto
<1>12. ASSUME NEW r \in Requests, Delete(r) PROVE Faithful'
    BY <1>12
    DEF TypeOK, Records, Equipped, Owner, Faithful, Running, Present,
        Unretained, None, Delete, Finish, Goto, Absent
<1>13. ASSUME NEW r \in Requests, Die(r) PROVE Faithful'
    BY <1>13
    DEF TypeOK, Records, Equipped, Owner, Faithful, Running, Present,
        Unretained, None, Die, Finish, Goto
<1>14. CASE Expire
    BY <1>14
    DEF TypeOK, Records, Equipped, Owner, Faithful, Running, Present,
        Unretained, None, Expire
<1>15. CASE UNCHANGED vars
    BY <1>15
    DEF TypeOK, Records, Equipped, Owner, Faithful, Running, Present,
        Unretained, None, vars
<1> QED
    BY <1>1, <1>2, <1>3, <1>4, <1>5, <1>6, <1>7, <1>8, <1>9, <1>10, <1>11,
       <1>12, <1>13, <1>14, <1>15
    DEF Next, Step, Begin, Proceed

(* A free key has no metered answer behind it. *)
LEMMA UnmeteredStep ==
    TypeOK /\ Equipped /\ Owner /\ Unmetered /\ [Next]_vars => Unmetered'
<1> SUFFICES ASSUME TypeOK /\ Equipped /\ Owner /\ Unmetered, [Next]_vars
      PROVE Unmetered'
    OBVIOUS
<1>1. ASSUME NEW r \in Requests, NEW f \in Fingerprints, NEW k \in Kinds,
             ReadAbsent(r, f, k)
      PROVE Unmetered'
    BY <1>1
    DEF TypeOK, Equipped, Owner, Unmetered, Running, Present, Unretained,
        None, ReadAbsent, Start, Goto
<1>2. ASSUME NEW r \in Requests, NEW f \in Fingerprints, NEW k \in Kinds,
             ReadExpired(r, f, k)
      PROVE Unmetered'
    BY <1>2
    DEF TypeOK, Equipped, Owner, Unmetered, Running, Present, Unretained,
        None, ReadExpired, Start, Goto
<1>3. ASSUME NEW r \in Requests, NEW f \in Fingerprints, Answer(r, f)
      PROVE Unmetered'
    BY <1>3
    DEF TypeOK, Equipped, Owner, Unmetered, Running, Present, Unretained,
        None, Answer, Replayable
<1>4. ASSUME NEW r \in Requests, Discard(r) PROVE Unmetered'
    BY <1>4
    DEF TypeOK, Equipped, Owner, Unmetered, Running, Present, Unretained,
        None, Discard, Goto, Absent
<1>5. ASSUME NEW r \in Requests, Insert(r) PROVE Unmetered'
    BY <1>5
    DEF TypeOK, Equipped, Owner, Unmetered, Running, Present, Unretained,
        None, Insert, Finish, Goto
<1>6. ASSUME NEW r \in Requests, Produce(r) PROVE Unmetered'
    BY <1>6
    DEF TypeOK, Equipped, Owner, Unmetered, Running, Present, Unretained,
        None, Produce, Goto
<1>7. ASSUME NEW r \in Requests, Fail(r) PROVE Unmetered'
    BY <1>7
    DEF TypeOK, Equipped, Owner, Unmetered, Running, Present, Unretained,
        None, Fail, Goto
<1>8. ASSUME NEW r \in Requests, Spoil(r) PROVE Unmetered'
    BY <1>8
    DEF TypeOK, Equipped, Owner, Unmetered, Running, Present, Unretained,
        None, Spoil, Goto
<1>9. ASSUME NEW r \in Requests, LoadToStore(r) PROVE Unmetered'
    BY <1>9
    DEF TypeOK, Equipped, Owner, Unmetered, Running, Present, Unretained,
        None, LoadToStore, Finish, Goto
<1>10. ASSUME NEW r \in Requests, Store(r) PROVE Unmetered'
    BY <1>10
    DEF TypeOK, Equipped, Owner, Unmetered, Running, Present, Unretained,
        None, Store, Finish, Goto
<1>11. ASSUME NEW r \in Requests, LoadToRelease(r) PROVE Unmetered'
    BY <1>11
    DEF TypeOK, Equipped, Owner, Unmetered, Running, Present, Unretained,
        None, LoadToRelease, Finish, Goto
<1>12. ASSUME NEW r \in Requests, Delete(r) PROVE Unmetered'
    BY <1>12
    DEF TypeOK, Equipped, Owner, Unmetered, Running, Present, Unretained,
        None, Delete, Finish, Goto, Absent
<1>13. ASSUME NEW r \in Requests, Die(r) PROVE Unmetered'
    BY <1>13
    DEF TypeOK, Equipped, Owner, Unmetered, Running, Present, Unretained,
        None, Die, Finish, Goto
<1>14. CASE Expire
    BY <1>14
    DEF TypeOK, Equipped, Owner, Unmetered, Running, Present, Unretained,
        None, Expire
<1>15. CASE UNCHANGED vars
    BY <1>15
    DEF TypeOK, Equipped, Owner, Unmetered, Running, Present, Unretained,
        None, vars
<1> QED
    BY <1>1, <1>2, <1>3, <1>4, <1>5, <1>6, <1>7, <1>8, <1>9, <1>10, <1>11,
       <1>12, <1>13, <1>14, <1>15
    DEF Next, Step, Begin, Proceed

(* Every way out of a handler settles the claim. *)
LEMMA HoldingStep ==
    TypeOK /\ Holding /\ [Next]_vars => Holding'
<1> SUFFICES ASSUME TypeOK /\ Holding, [Next]_vars PROVE Holding'
    OBVIOUS
<1>1. ASSUME NEW r \in Requests, NEW f \in Fingerprints, NEW k \in Kinds,
             ReadAbsent(r, f, k)
      PROVE Holding'
    BY <1>1
    DEF TypeOK, Holding, HeldWhileRunning, Running, Present, ReadAbsent,
        Start, Goto
<1>2. ASSUME NEW r \in Requests, NEW f \in Fingerprints, NEW k \in Kinds,
             ReadExpired(r, f, k)
      PROVE Holding'
    BY <1>2
    DEF TypeOK, Holding, HeldWhileRunning, Running, Present, ReadExpired,
        Start, Goto
<1>3. ASSUME NEW r \in Requests, NEW f \in Fingerprints, Answer(r, f) PROVE Holding'
    BY <1>3
    DEF TypeOK, Holding, HeldWhileRunning, Running, Present, Answer,
        Replayable
<1>4. ASSUME NEW r \in Requests, Discard(r) PROVE Holding'
    BY <1>4
    DEF TypeOK, Holding, HeldWhileRunning, Running, Present, Discard, Goto,
        Absent, None
<1>5. ASSUME NEW r \in Requests, Insert(r) PROVE Holding'
    BY <1>5
    DEF TypeOK, Holding, HeldWhileRunning, Running, Present, Insert, Finish,
        Goto
<1>6. ASSUME NEW r \in Requests, Produce(r) PROVE Holding'
    BY <1>6
    DEF TypeOK, Holding, HeldWhileRunning, Running, Present, Produce, Goto
<1>7. ASSUME NEW r \in Requests, Fail(r) PROVE Holding'
    BY <1>7
    DEF TypeOK, Holding, HeldWhileRunning, Running, Present, Fail, Goto
<1>8. ASSUME NEW r \in Requests, Spoil(r) PROVE Holding'
    BY <1>8
    DEF TypeOK, Holding, HeldWhileRunning, Running, Present, Spoil, Goto
<1>9. ASSUME NEW r \in Requests, LoadToStore(r) PROVE Holding'
    BY <1>9
    DEF TypeOK, Holding, HeldWhileRunning, Running, Present, LoadToStore,
        Finish, Goto
<1>10. ASSUME NEW r \in Requests, Store(r) PROVE Holding'
    BY <1>10
    DEF TypeOK, Holding, HeldWhileRunning, Running, Present, Store, Finish,
        Goto
<1>11. ASSUME NEW r \in Requests, LoadToRelease(r) PROVE Holding'
    BY <1>11
    DEF TypeOK, Holding, HeldWhileRunning, Running, Present, LoadToRelease,
        Finish, Goto
<1>12. ASSUME NEW r \in Requests, Delete(r) PROVE Holding'
    BY <1>12
    DEF TypeOK, Holding, HeldWhileRunning, Running, Present, Delete, Finish,
        Goto, Absent, None
<1>13. ASSUME NEW r \in Requests, Die(r) PROVE Holding'
    BY <1>13, KeyAssumption
    DEF TypeOK, Holding, HeldWhileRunning, Running, Present, Die, Finish,
        Goto
<1>14. CASE Expire
    BY <1>14
    DEF TypeOK, Holding, HeldWhileRunning, Running, Present, Expire
<1>15. CASE UNCHANGED vars
    BY <1>15 DEF TypeOK, Holding, HeldWhileRunning, Running, Present, vars
<1> QED
    BY <1>1, <1>2, <1>3, <1>4, <1>5, <1>6, <1>7, <1>8, <1>9, <1>10, <1>11,
       <1>12, <1>13, <1>14, <1>15
    DEF Next, Step, Begin, Proceed

-----------------------------------------------------------------------------
(* The invariant, and what follows from it.                                 *)

LEMMA Initially == Init => IInv
<1> SUFFICES ASSUME Init PROVE IInv
    OBVIOUS
<1>1. TypeOK
    BY DEF Init, TypeOK, Absent, Records, Places, Running
<1>2. Equipped /\ Owner
    BY DEF Init, Equipped, Owner, Running
<1>3. Faithful /\ Unmetered /\ Holding
    BY DEF Init, Faithful, Unmetered, Holding, HeldWhileRunning, Absent
<1> QED
    BY <1>1, <1>2, <1>3 DEF IInv

LEMMA Invariance == Spec => []IInv
<1>1. IInv /\ [Next]_vars => IInv'
    BY TypeStep, EquippedStep, OwnerStep, FaithfulStep, UnmeteredStep, HoldingStep
    DEF IInv
<1> QED
    BY Initially, <1>1, PTL DEF Spec

(* The record, the places of the requests and the histories keep their     *)
(* types, whatever the requests do.                                        *)
THEOREM TypeCorrect == Spec => []TypeOK
<1>1. IInv => TypeOK
    BY DEF IInv
<1> QED
    BY Invariance, <1>1, PTL

(* begin, complete and release never let two requests of any number hold   *)
(* the key at once, unless begin deleted a record inside its window.       *)
THEOREM ClaimIsExclusive == Spec => []OneGeneration
<1>1. IInv => OneGeneration
    BY DEF IInv, Owner, OneGeneration
<1> QED
    BY Invariance, <1>1, PTL

(* A replay answers the request it is given to, unless begin deleted a     *)
(* record inside its window.                                               *)
THEOREM ReplaysAreFaithful == Spec => []ReplayFaithful
<1>1. IInv => ReplayFaithful
    BY DEF IInv, Faithful, ReplayFaithful
<1> QED
    BY Invariance, <1>1, PTL

(* A complete answer is metered once in the window of a key, unless the    *)
(* key was given back after it or a record inside its window was deleted.  *)
THEOREM AnswersAreBilledOnce == Spec => []BilledOnceUnlessReturned
<1>1. IInv => BilledOnceUnlessReturned
    BY DEF IInv, Unmetered, BilledOnceUnlessReturned
<1> QED
    BY Invariance, <1>1, PTL

(* No exit of a handler leaves the key held: only a running request's      *)
(* claim, or one whose request died, is refused as still running.          *)
THEOREM ClaimsAreSettled == Spec => []HeldWhileRunning
<1>1. IInv => HeldWhileRunning
    BY DEF IInv, Holding
<1> QED
    BY Invariance, <1>1, PTL
=============================================================================
