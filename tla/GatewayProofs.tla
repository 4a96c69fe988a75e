---------------------------- MODULE GatewayProofs ----------------------------
(***************************************************************************)
(* What holds of what the gateway keeps for its operators and its clients, *)
(* for every value of the constants: the settings, the tiers, the monthly  *)
(* spend cap, the prices, the usage and what it is billed at, and the      *)
(* schema that a start brings its database to. All but the spend cap are   *)
(* components of Services, and each of those is proved of by itself and of *)
(* the components side by side; the spend cap is proved of by itself, here *)
(* because it adds up money as the ledger does.                            *)
(***************************************************************************)
EXTENDS Services, Spending, WellFoundedInduction, FiniteSetTheorems, SequenceTheorems, TLAPS

LEMMA FocusStays == [Next]_vars => focus' = focus
BY DEF Next, Same9, Same8, Same7, Same4, Same3, vars

-----------------------------------------------------------------------------
(* Settings. What .env said is s1, the rows s2, the copies in memory s3,    *)
(* the admin requests s4; s6 and s7 are history. What the proof turns on:  *)
(* a request that is alone on its kind commits what it was sent over the   *)
(* row that it read, so that the copy differs from the row only where the  *)
(* request is about to set it, or where no PUT has named a field.          *)

env == s1
row == s2
live == s3
editing == s4
named == s6
raced == s7

USE DEF env, row, live, editing, named, raced

KindsKnown ==
    /\ Kinds \subseteq {"limits", "breaker", "split"}
    /\ Values \subseteq Nat /\ MinAdmin \in Nat

Bodies == UNION {[F -> Values \cup {0}] : F \in SUBSET {"rpm", "thresholds", "variants", "rpm_admin"}}

Saved == {Config!Absent} \cup [exists : {TRUE}, val : Bodies]

Edits ==
    [pc : {"commit", "apply"}, op : {"put", "reset"}, kind : Kinds, saw : Saved, values : Bodies]

ConfigTyped ==
    /\ env \in [Kinds -> Bodies] /\ live \in [Kinds -> Bodies]
    /\ row \in [Kinds -> Saved]
    /\ editing \in [Admins -> {Config!Free} \cup Edits]
    /\ \A k \in Kinds : /\ DOMAIN env[k] = Config!Fields(k)
                        /\ DOMAIN live[k] = Config!Fields(k)
                        /\ row[k].exists => DOMAIN row[k].val = Config!Fields(k)

\* What a request carries: every required field of its kind, perhaps more.
Sent(a) ==
    editing[a] \in Edits =>
        LET k == editing[a].kind
            asked == DOMAIN editing[a].values
        IN  Config!Required(k) \subseteq asked /\ asked \subseteq Config!Fields(k)

NamedOfRow == "limits" \in Kinds /\ ~ row["limits"].exists => named = {}

\* A restart would leave the field as it is.
Stands(k, f) ==
    \/ live[k][f] = Config!Loaded(k)[f]
    \/ f \in Config!Unnamed(k) /\ live[k][f] = env[k][f]

\* The one request on its kind.
Commits(a) ==
    LET q == editing[a] IN
    /\ q.saw = row[q.kind]
    /\ \A f \in Config!Fields(q.kind) : Stands(q.kind, f)
    /\ q.op = "reset" => q.values = env[q.kind]

Applies(a) ==
    LET q == editing[a]
        k == q.kind
    IN  IF q.op = "reset" THEN ~ row[k].exists /\ q.values = env[k]
        ELSE /\ row[k].exists
             /\ \A f \in Config!Fields(k) :
                   IF f \in DOMAIN q.values THEN row[k].val[f] = q.values[f] ELSE Stands(k, f)

Faithful(k) ==
    /\ \A a, b \in Config!Busy(k) : a = b
    /\ Config!Busy(k) = {} => \A f \in Config!Fields(k) : Stands(k, f)
    /\ \A a \in Config!Busy(k) : IF editing[a].pc = "commit" THEN Commits(a) ELSE Applies(a)

\* The floor under what admin requests are limited to.
Floored(values) == Config!AdminRpm(values) >= MinAdmin

Open(k) ==
    k = "limits" /\ Floored(env[k]) =>
        /\ Floored(live[k])
        /\ row[k].exists => Floored(row[k].val)
        /\ \A a \in Config!Busy(k) : Floored(editing[a].values)

ConfigInv ==
    /\ ConfigTyped /\ NamedOfRow
    /\ \A a \in Admins : Sent(a)
    /\ \A k \in Kinds : k \notin raced => Faithful(k) /\ Open(k)

-----------------------------------------------------------------------------
LEMMA FieldsAre ==
    ASSUME KindsKnown, NEW k \in Kinds
    PROVE  /\ Config!Required(k) \subseteq Config!Fields(k)
           /\ Config!Fields(k) \subseteq {"rpm", "thresholds", "variants", "rpm_admin"}
           /\ k # "limits" => Config!Required(k) = Config!Fields(k)
           /\ k = "limits" => /\ Config!Required(k) = {"rpm"}
                              /\ Config!Fields(k) = {"rpm", "rpm_admin"}
BY DEF KindsKnown, Config!Required, Config!Fields, Config!Optional

LEMMA BodiesAre ==
    ASSUME KindsKnown, NEW k \in Kinds
    PROVE  /\ \A values \in Config!Bodies(k) :
                 /\ values \in Bodies
                 /\ Config!Required(k) \subseteq DOMAIN values
                 /\ DOMAIN values \subseteq Config!Fields(k)
           /\ \A values \in [Config!Fields(k) -> Values \cup {0}] :
                 values \in Bodies /\ DOMAIN values = Config!Fields(k)
           /\ \A values \in Bodies : DOMAIN values = Config!Fields(k) =>
                 values \in [Config!Fields(k) -> Values \cup {0}]
<1>1. Config!Fields(k) \in SUBSET {"rpm", "thresholds", "variants", "rpm_admin"}
    BY FieldsAre
<1>2. ASSUME NEW values \in Config!Bodies(k)
      PROVE  /\ values \in Bodies
             /\ Config!Required(k) \subseteq DOMAIN values
             /\ DOMAIN values \subseteq Config!Fields(k)
    <2>1. PICK some \in SUBSET Config!Optional(k) :
              values \in [Config!Required(k) \cup some -> Values \cup {0}]
        BY DEF Config!Bodies
    <2>2. /\ Config!Required(k) \cup some \subseteq Config!Fields(k)
          /\ DOMAIN values = Config!Required(k) \cup some
        BY <2>1 DEF Config!Fields
    <2>3. QED
        BY <1>1, <2>1, <2>2 DEF Bodies
<1>3. QED
    BY <1>1, <1>2 DEF Bodies

\* A slot takes up, or goes on with, a request.
LEMMA SlotWritten ==
    ASSUME ConfigTyped, NEW a \in Admins, NEW q \in {Config!Free} \cup Edits,
           editing' = [editing EXCEPT ![a] = q]
    PROVE  /\ editing' \in [Admins -> {Config!Free} \cup Edits]
           /\ editing'[a] = q
           /\ \A b \in Admins \ {a} : editing'[b] = editing[b]
           /\ \A k \in Kinds :
                 Config!Busy(k)' = IF q \in Edits /\ q.kind = k THEN Config!Busy(k) \cup {a}
                                   ELSE Config!Busy(k) \ {a}
<1>1. /\ editing' \in [Admins -> {Config!Free} \cup Edits]
      /\ editing'[a] = q
      /\ \A b \in Admins \ {a} : editing'[b] = editing[b]
    BY DEF ConfigTyped
<1>2. q \in Edits => q.pc # "idle"
    BY DEF Edits
<1>3. q \notin Edits => q.pc = "idle"
    BY DEF Config!Free
<1>4. QED
    BY <1>1, <1>2, <1>3 DEF Config!Busy

\* Who is busy, and with what.
LEMMA BusyIs ==
    ASSUME ConfigTyped, NEW a \in Admins
    PROVE  /\ editing[a] \in Edits => /\ editing[a].kind \in Kinds
                                      /\ editing[a].pc \in {"commit", "apply"}
                                      /\ a \in Config!Busy(editing[a].kind)
           /\ editing[a] \notin Edits => editing[a] = Config!Free /\ editing[a].pc = "idle"
           /\ \A k \in Kinds : a \in Config!Busy(k) => editing[a] \in Edits /\ editing[a].kind = k
<1>1. editing[a] \in {Config!Free} \cup Edits
    BY DEF ConfigTyped
<1>2. QED
    BY <1>1 DEF Config!Busy, Edits, Config!Free

\* What a step does to one kind of settings leaves the others as they were.
LEMMA OtherKind ==
    ASSUME ConfigTyped, NEW k \in Kinds, k \notin raced, Faithful(k), Open(k),
           row'[k] = row[k], live'[k] = live[k], env' = env,
           k = "limits" => named' = named,
           Config!Busy(k)' = Config!Busy(k),
           \A a \in Config!Busy(k) : editing'[a] = editing[a]
    PROVE  Faithful(k)' /\ Open(k)'
<1>1. ASSUME NEW f PROVE Stands(k, f)' = Stands(k, f)
    BY DEF Stands, Config!Loaded, Config!Unnamed
<1>2. ASSUME NEW a \in Config!Busy(k)
      PROVE  editing[a].kind = k /\ Commits(a)' = Commits(a) /\ Applies(a)' = Applies(a)
    <2>1. editing[a].kind = k /\ editing'[a] = editing[a]
        BY DEF Config!Busy
    <2>2. Commits(a)' = Commits(a)
        BY <1>1, <2>1 DEF Commits
    <2>3. Applies(a)' = Applies(a)
        BY <1>1, <2>1 DEF Applies
    <2>4. QED
        BY <2>1, <2>2, <2>3
<1>3. Faithful(k)'
    BY <1>1, <1>2 DEF Faithful
<1>4. Open(k)'
    BY DEF Open
<1>5. QED
    BY <1>3, <1>4

\* The limits sent, over limits that admin requests can live with.
LEMMA FloorHolds ==
    ASSUME NEW asked, "rpm" \in DOMAIN asked, Floored(asked),
           NEW base, DOMAIN base = {"rpm", "rpm_admin"},
           Floored(base) \/ base["rpm_admin"] = 0,
           NEW out, out = [f \in {"rpm", "rpm_admin"} |->
                             IF f \in DOMAIN asked THEN asked[f] ELSE base[f]]
    PROVE  Floored(out)
<1>1. /\ DOMAIN out = {"rpm", "rpm_admin"} /\ out["rpm"] = asked["rpm"]
      /\ out["rpm_admin"] = IF "rpm_admin" \in DOMAIN asked THEN asked["rpm_admin"]
                            ELSE base["rpm_admin"]
    OBVIOUS
<1>2. CASE "rpm_admin" \in DOMAIN asked
    BY <1>1, <1>2 DEF Floored, Config!AdminRpm
<1>3. CASE "rpm_admin" \notin DOMAIN asked /\ base["rpm_admin"] = 0
    BY <1>1, <1>3 DEF Floored, Config!AdminRpm
<1>4. CASE "rpm_admin" \notin DOMAIN asked /\ base["rpm_admin"] # 0
    BY <1>1, <1>4 DEF Floored, Config!AdminRpm
<1>5. QED
    BY <1>2, <1>3, <1>4

LEMMA RequestBegins ==
    ASSUME KindsKnown, ConfigInv, NEW a \in Admins, NEW q \in Edits,
           Config!Begins(a, q),
           Config!Required(q.kind) \subseteq DOMAIN q.values,
           DOMAIN q.values \subseteq Config!Fields(q.kind),
           q.op = "reset" => q.values = env[q.kind],
           q.pc = "commit" => q.saw = row[q.kind],
           q.pc = "apply" => q.op = "reset" /\ ~ row[q.kind].exists,
           q.kind = "limits" /\ Floored(env[q.kind]) => Floored(q.values)
    PROVE  ConfigInv'
<1> DEFINE k == q.kind
<1>1. /\ editing' = [editing EXCEPT ![a] = q]
      /\ raced' = raced \cup {j \in {k} : Config!Busy(j) # {}}
      /\ UNCHANGED <<env, row, live, named>>
      /\ editing[a].pc = "idle"
    BY DEF Config!Begins
<1>2. k \in Kinds /\ q.pc \in {"commit", "apply"} /\ q.op \in {"put", "reset"}
    BY DEF Edits
<1>3. /\ editing' \in [Admins -> {Config!Free} \cup Edits]
      /\ editing'[a] = q
      /\ \A b \in Admins \ {a} : editing'[b] = editing[b]
      /\ \A j \in Kinds : Config!Busy(j)' = IF j = k THEN Config!Busy(j) \cup {a}
                                           ELSE Config!Busy(j) \ {a}
    <2>1. ConfigTyped /\ q \in {Config!Free} \cup Edits /\ editing' = [editing EXCEPT ![a] = q]
        BY <1>1 DEF ConfigInv
    <2>2. /\ editing' \in [Admins -> {Config!Free} \cup Edits]
          /\ editing'[a] = q
          /\ \A b \in Admins \ {a} : editing'[b] = editing[b]
          /\ \A j \in Kinds :
                Config!Busy(j)' = IF q \in Edits /\ q.kind = j THEN Config!Busy(j) \cup {a}
                                  ELSE Config!Busy(j) \ {a}
        BY <2>1, SlotWritten
    <2>3. ASSUME NEW j \in Kinds
          PROVE  Config!Busy(j)' = IF j = k THEN Config!Busy(j) \cup {a} ELSE Config!Busy(j) \ {a}
        BY <2>2
    <2>4. QED
        BY <2>2, <2>3
<1>4. \A j \in Kinds : a \notin Config!Busy(j)
    BY <1>1 DEF Config!Busy
<1> HIDE DEF k
<1>5. ConfigTyped' /\ NamedOfRow'
    BY <1>1, <1>3 DEF ConfigInv, ConfigTyped, NamedOfRow
<1>6. \A b \in Admins : Sent(b)'
    BY <1>3 DEF ConfigInv, Sent, k
<1>7. ASSUME NEW j \in Kinds, j # k, j \notin raced' PROVE Faithful(j)' /\ Open(j)'
    <2>1. Config!Busy(j)' = Config!Busy(j) /\ \A b \in Config!Busy(j) : editing'[b] = editing[b]
        BY <1>3, <1>4, <1>7 DEF Config!Busy
    <2>2. j \notin raced /\ Faithful(j) /\ Open(j)
        BY <1>1, <1>7 DEF ConfigInv
    <2>3. QED
        BY <1>1, <2>1, <2>2, OtherKind DEF ConfigInv
<1>8. ASSUME k \notin raced' PROVE Faithful(k)' /\ Open(k)'
    <2>1. k \notin raced /\ Config!Busy(k) = {} /\ Config!Busy(k)' = {a}
        BY <1>1, <1>2, <1>3, <1>8
    <2>2. Faithful(k) /\ Open(k)
        BY <1>2, <2>1 DEF ConfigInv
    <2>3. \A f \in Config!Fields(k) : Stands(k, f)'
        BY <1>1, <2>1, <2>2 DEF Faithful, Stands, Config!Loaded, Config!Unnamed
    <2>4. q.pc = "commit" => Commits(a)'
        BY <1>1, <1>3, <2>3 DEF Commits, k
    <2>5. q.pc = "apply" => Applies(a)'
        BY <1>1, <1>3 DEF Applies, k
    <2>6. Faithful(k)'
        BY <1>2, <1>3, <2>1, <2>4, <2>5 DEF Faithful
    <2>7. Open(k)'
        BY <1>1, <1>3, <2>1, <2>2 DEF Open, k
    <2>8. QED
        BY <2>6, <2>7
<1>9. QED
    BY <1>5, <1>6, <1>7, <1>8 DEF ConfigInv

LEMMA PutBegins ==
    ASSUME KindsKnown, ConfigInv, NEW a \in Admins, NEW k \in Kinds,
           NEW values \in Config!Bodies(k), Config!Put(a, k, values)
    PROVE  ConfigInv'
<1> DEFINE q == [pc |-> "commit", op |-> "put", kind |-> k, saw |-> row[k], values |-> values]
<1>1. /\ values \in Bodies
      /\ Config!Required(k) \subseteq DOMAIN values
      /\ DOMAIN values \subseteq Config!Fields(k)
    BY BodiesAre
<1>2. row[k] \in Saved
    BY DEF ConfigInv, ConfigTyped
<1>3. q \in Edits
    BY <1>1, <1>2 DEF Edits
<1>4. Config!Begins(a, q) /\ (k = "limits" => Floored(values))
    BY DEF Config!Put, Config!Acceptable, Floored
<1>5. /\ q.pc = "commit" /\ q.op = "put" /\ q.kind = k /\ q.saw = row[k]
      /\ q.values = values
    OBVIOUS
<1> HIDE DEF q
<1>6. QED
    BY <1>1, <1>3, <1>4, <1>5, RequestBegins

LEMMA ResetBegins ==
    ASSUME KindsKnown, ConfigInv, NEW a \in Admins, NEW k \in Kinds, Config!Reset(a, k)
    PROVE  ConfigInv'
<1> DEFINE q == [pc |-> IF row[k].exists THEN "commit" ELSE "apply",
                 op |-> "reset", kind |-> k, saw |-> row[k], values |-> env[k]]
<1>1. /\ env[k] \in Bodies /\ DOMAIN env[k] = Config!Fields(k)
      /\ Config!Required(k) \subseteq Config!Fields(k)
    BY FieldsAre DEF ConfigInv, ConfigTyped
<1>2. row[k] \in Saved
    BY DEF ConfigInv, ConfigTyped
<1>3. q \in Edits
    BY <1>1, <1>2 DEF Edits
<1>4. Config!Begins(a, q)
    BY DEF Config!Reset
<1>5. /\ q.pc = IF row[k].exists THEN "commit" ELSE "apply"
      /\ q.op = "reset" /\ q.kind = k /\ q.saw = row[k] /\ q.values = env[k]
    OBVIOUS
<1> HIDE DEF q
<1>6. QED
    BY <1>1, <1>3, <1>4, <1>5, RequestBegins

\* The request of a slot, once its commit went through.
LEMMA GoesOn ==
    ASSUME NEW q \in Edits
    PROVE  LET r == [q EXCEPT !.pc = "apply"]
           IN  /\ r \in Edits /\ r.pc = "apply" /\ r.op = q.op /\ r.kind = q.kind
               /\ r.saw = q.saw /\ r.values = q.values
BY DEF Edits

LEMMA LoneCommit ==
    ASSUME KindsKnown, ConfigInv, NEW a \in Admins, editing[a] \in Edits,
           editing[a].pc = "commit", editing[a].op = "put",
           NEW k, k = editing[a].kind, k \notin raced,
           NEW out, out = Config!Merged(a)
    PROVE  /\ k \in Kinds /\ Config!Busy(k) = {a} /\ editing[a].saw = row[k]
           /\ out = [f \in Config!Fields(k) |->
                       IF f \in DOMAIN editing[a].values THEN editing[a].values[f]
                       ELSE IF row[k].exists THEN row[k].val[f] ELSE 0]
<1>1. k \in Kinds /\ a \in Config!Busy(k)
    BY BusyIs DEF ConfigInv
<1>2. Faithful(k)
    BY <1>1 DEF ConfigInv
<1>3. Config!Busy(k) = {a} /\ Commits(a)
    BY <1>1, <1>2 DEF Faithful
<1>4. editing[a].saw = row[k]
    BY <1>3 DEF Commits
<1>5. QED
    BY <1>1, <1>3, <1>4 DEF Config!Merged, Config!Null

\* What is left of a row is a row.
LEMMA MergedIs ==
    ASSUME KindsKnown, ConfigInv, NEW a \in Admins, editing[a] \in Edits,
           NEW k, k = editing[a].kind, row[k].exists = editing[a].saw.exists
    PROVE  /\ Config!Merged(a) \in Bodies
           /\ DOMAIN Config!Merged(a) = Config!Fields(k)
<1> DEFINE asked == editing[a].values
           base == IF editing[a].saw.exists THEN row[k].val ELSE Config!Null(k)
           was == IF editing[a].saw.exists THEN editing[a].saw.val ELSE Config!Null(k)
<1>1. k \in Kinds /\ asked \in Bodies
    BY DEF Edits
<1>2. /\ row[k] \in Saved
      /\ row[k].exists => DOMAIN row[k].val = Config!Fields(k)
    BY <1>1 DEF ConfigInv, ConfigTyped
<1>3. row[k].exists => row[k].val \in Bodies
    <2>1. CASE row[k] = Config!Absent
        BY <2>1 DEF Config!Absent
    <2>2. CASE row[k] \in [exists : {TRUE}, val : Bodies]
        BY <2>2
    <2>3. QED
        BY <1>2, <2>1, <2>2 DEF Saved
<1>4. base \in [Config!Fields(k) -> Values \cup {0}]
    <2>1. CASE row[k].exists
        BY <1>1, <1>2, <1>3, <2>1, BodiesAre
    <2>2. CASE ~ row[k].exists
        BY <2>2 DEF Config!Null
    <2>3. QED
        BY <2>1, <2>2
<1>5. \A f \in DOMAIN asked : asked[f] \in Values \cup {0}
    <2>1. PICK F : asked \in [F -> Values \cup {0}]
        BY <1>1 DEF Bodies
    <2>2. QED
        BY <2>1
<1>6. Config!Merged(a) = [f \in Config!Fields(k) |->
          IF f \in DOMAIN asked /\ asked[f] # was[f] THEN asked[f] ELSE base[f]]
    BY DEF Config!Merged
<1> HIDE DEF asked, base, was
<1>7. Config!Merged(a) \in [Config!Fields(k) -> Values \cup {0}]
    BY <1>4, <1>5, <1>6
<1>8. QED
    BY <1>1, <1>7, BodiesAre

\* The commit of a request that is alone on its kind.
LEMMA AloneCommits ==
    ASSUME KindsKnown, ConfigInv, NEW a \in Admins, Config!Commit(a),
           editing[a] \in Edits,
           NEW k, k = editing[a].kind, k \notin raced
    PROVE  Faithful(k)' /\ Open(k)'
<1> DEFINE q == editing[a]
           asked == q.values
           base == IF row[k].exists THEN row[k].val ELSE Config!Null(k)
           out == Config!Merged(a)
<1>1. /\ k \in Kinds /\ a \in Config!Busy(k) /\ q.pc = "commit"
      /\ UNCHANGED <<env, live, raced>>
    BY BusyIs DEF Config!Commit, ConfigInv
<1>2. Faithful(k) /\ Open(k) /\ NamedOfRow /\ Sent(a)
    BY <1>1 DEF ConfigInv
<1>3. /\ Config!Busy(k) = {a}
      /\ q.saw = row[k] /\ (q.op = "reset" => q.values = env[k])
      /\ \A f \in Config!Fields(k) : Stands(k, f)
    BY <1>1, <1>2 DEF Faithful, Commits
<1>4. /\ row' = [row EXCEPT ![k] = IF q.op = "put" THEN Config!Row(out) ELSE Config!Absent]
      /\ named' = IF k # "limits" THEN named
                  ELSE IF q.op = "put" THEN named \cup DOMAIN asked ELSE {}
      /\ editing' = [editing EXCEPT ![a] = [q EXCEPT !.pc = "apply"]]
    BY <1>1, <1>3 DEF Config!Commit
<1>5. row'[k] = IF q.op = "put" THEN Config!Row(out) ELSE Config!Absent
    BY <1>1, <1>4 DEF ConfigInv, ConfigTyped
<1>6. /\ editing'[a].pc = "apply" /\ editing'[a].op = q.op /\ editing'[a].kind = k
      /\ editing'[a].values = asked
      /\ Config!Busy(k)' = {a}
    <2> DEFINE r == [q EXCEPT !.pc = "apply"]
    <2>1. r \in Edits /\ r.pc = "apply" /\ r.op = q.op /\ r.kind = k /\ r.values = asked
        BY GoesOn
    <2>2. editing' = [editing EXCEPT ![a] = r]
        BY <1>4
    <2> HIDE DEF r
    <2>3. editing'[a] = r /\ Config!Busy(k)' = Config!Busy(k) \cup {a}
        BY <1>1, <2>1, <2>2, SlotWritten DEF ConfigInv
    <2>4. QED
        BY <1>3, <2>1, <2>3
<1>7. /\ Config!Required(k) \subseteq DOMAIN asked /\ DOMAIN asked \subseteq Config!Fields(k)
    BY <1>2 DEF Sent
<1>8. CASE q.op = "reset"
    <2>1. Applies(a)'
        BY <1>1, <1>3, <1>5, <1>6, <1>8 DEF Applies, Config!Absent
    <2>2. Faithful(k)'
        BY <1>6, <2>1 DEF Faithful
    <2>3. Open(k)'
        BY <1>1, <1>2, <1>3, <1>5, <1>6, <1>8 DEF Open, Config!Absent
    <2>4. QED
        BY <2>2, <2>3
<1>9. CASE q.op = "put"
    <2>1. out = [f \in Config!Fields(k) |-> IF f \in DOMAIN asked THEN asked[f] ELSE base[f]]
        BY <1>3 DEF Config!Merged
    <2>2. row'[k].exists /\ row'[k].val = out
        BY <1>5, <1>9 DEF Config!Row
    <2> HIDE DEF out
    <2>3. ASSUME NEW f \in Config!Fields(k), f \notin DOMAIN asked PROVE Stands(k, f)'
        <3>1. k = "limits"
            BY <1>1, <1>7, <2>3, FieldsAre
        <3>2. Config!Loaded(k)'[f] = base[f] /\ live' = live /\ env' = env
            BY <1>1, <2>1, <2>2, <2>3 DEF Config!Loaded
        <3>3. Stands(k, f) /\ named' = named \cup DOMAIN asked
            BY <1>3, <1>4, <1>9, <3>1
        <3>4. CASE row[k].exists
            BY <2>2, <2>3, <3>1, <3>2, <3>3, <3>4 DEF Stands, Config!Loaded,
               Config!Unnamed
        <3>5. CASE ~ row[k].exists
            <4>1. named = {} /\ live[k][f] = env[k][f]
                BY <1>1, <1>2, <3>1, <3>3, <3>5 DEF NamedOfRow, Stands, Config!Loaded,
                   Config!Unnamed
            <4>2. f \in Config!Unnamed(k)'
                BY <2>2, <2>3, <3>1, <3>3, <4>1 DEF Config!Unnamed
            <4>3. QED
                BY <3>2, <4>1, <4>2 DEF Stands
        <3>6. QED
            BY <3>4, <3>5
    <2>4. Applies(a)'
        BY <1>6, <1>9, <2>1, <2>2, <2>3 DEF Applies
    <2>5. Faithful(k)'
        BY <1>6, <2>4 DEF Faithful
    <2>6. Open(k)'
        <3> SUFFICES ASSUME k = "limits", Floored(env[k])
                     PROVE  Floored(live[k]) /\ Floored(out) /\ Floored(asked)
            BY <1>1, <1>6, <2>2 DEF Open
        <3>1. Floored(live[k]) /\ Floored(asked) /\ (row[k].exists => Floored(row[k].val))
            BY <1>2, <1>3 DEF Open
        <3>2. Config!Fields(k) = {"rpm", "rpm_admin"} /\ "rpm" \in DOMAIN asked
            BY <1>1, <1>7, FieldsAre
        <3>3. /\ DOMAIN base = {"rpm", "rpm_admin"}
              /\ Floored(base) \/ base["rpm_admin"] = 0
            BY <1>1, <3>1, <3>2 DEF ConfigInv, ConfigTyped, Config!Null
        <3> HIDE DEF base, asked
        <3>4. Floored(out)
            BY <2>1, <3>1, <3>2, <3>3, FloorHolds
        <3>5. QED
            BY <3>1, <3>4
    <2>7. QED
        BY <2>5, <2>6
<1>10. QED
    BY <1>8, <1>9 DEF Edits

\* A request is over: its slot is free.
LEMMA SlotFreed ==
    ASSUME ConfigTyped, NEW a \in Admins, editing[a] \in Edits,
           editing' = [editing EXCEPT ![a] = Config!Free]
    PROVE  /\ editing' \in [Admins -> {Config!Free} \cup Edits]
           /\ editing'[a] = Config!Free
           /\ \A b \in Admins \ {a} : editing'[b] = editing[b]
           /\ \A k \in Kinds : Config!Busy(k)' = Config!Busy(k) \ {a}
<1>1. Config!Free \notin Edits
    BY DEF Config!Free, Edits
<1>2. /\ editing' \in [Admins -> {Config!Free} \cup Edits]
      /\ editing'[a] = Config!Free
      /\ \A b \in Admins \ {a} : editing'[b] = editing[b]
      /\ \A k \in Kinds :
            Config!Busy(k)' = IF Config!Free \in Edits /\ Config!Free.kind = k
                              THEN Config!Busy(k) \cup {a} ELSE Config!Busy(k) \ {a}
    BY SlotWritten
<1>3. QED
    BY <1>1, <1>2

\* The commit fails only if another request for the kind overlapped.
LEMMA SettingsCommitted ==
    ASSUME KindsKnown, ConfigInv, NEW a \in Admins, Config!Commit(a)
    PROVE  ConfigInv'
<1> DEFINE q == editing[a]
<1>0. PICK k \in Kinds : k = q.kind
    BY BusyIs DEF Config!Commit, ConfigInv
<1>1. q \in Edits /\ k = q.kind /\ q.pc = "commit" /\ a \in Config!Busy(k)
      /\ UNCHANGED <<env, live, raced>>
    BY <1>0, BusyIs DEF Config!Commit, ConfigInv
<1>2. CASE q.op = "put" /\ row[k].exists # q.saw.exists
    <2>1. UNCHANGED <<row, named>> /\ editing' = [editing EXCEPT ![a] = Config!Free]
        BY <1>1, <1>2 DEF Config!Commit
    <2>2. /\ editing' \in [Admins -> {Config!Free} \cup Edits]
          /\ editing'[a] = Config!Free
          /\ \A b \in Admins \ {a} : editing'[b] = editing[b]
          /\ \A j \in Kinds : Config!Busy(j)' = Config!Busy(j) \ {a}
        BY <1>1, <2>1, SlotFreed DEF ConfigInv
    <2>3. k \in raced
        <3> SUFFICES ASSUME k \notin raced PROVE FALSE
            OBVIOUS
        <3>1. Faithful(k)
            BY <1>1 DEF ConfigInv
        <3>2. q.saw = row[k]
            BY <1>1, <3>1 DEF Faithful, Commits
        <3>3. QED
            BY <1>2, <3>2
    <2> HIDE DEF q
    <2>4. ConfigTyped' /\ NamedOfRow'
        BY <1>1, <2>1, <2>2 DEF ConfigInv, ConfigTyped, NamedOfRow
    <2>5. \A b \in Admins : Sent(b)'
        <3>1. Config!Free \notin Edits
            BY DEF Config!Free, Edits
        <3>2. QED
            BY <2>2, <3>1 DEF ConfigInv, Sent
    <2>6. ASSUME NEW j \in Kinds, j \notin raced' PROVE Faithful(j)' /\ Open(j)'
        <3>1. j # k /\ j \notin raced /\ Faithful(j) /\ Open(j)
            BY <1>1, <2>3, <2>6 DEF ConfigInv
        <3>2. a \notin Config!Busy(j)
            BY <1>1, <3>1 DEF Config!Busy, q
        <3>3. Config!Busy(j)' = Config!Busy(j) /\ \A b \in Config!Busy(j) : editing'[b] = editing[b]
            BY <2>2, <3>2 DEF Config!Busy
        <3>4. QED
            BY <1>1, <2>1, <3>1, <3>3, OtherKind DEF ConfigInv
    <2>7. QED
        BY <2>4, <2>5, <2>6 DEF ConfigInv
<1>3. CASE ~ (q.op = "put" /\ row[k].exists # q.saw.exists)
    <2> DEFINE out == Config!Merged(a)
               r == [q EXCEPT !.pc = "apply"]
               new == IF q.op = "put" THEN Config!Row(out) ELSE Config!Absent
    <2>1. /\ row' = [row EXCEPT ![k] = new]
          /\ named' = IF k # "limits" THEN named
                      ELSE IF q.op = "put" THEN named \cup DOMAIN q.values ELSE {}
          /\ editing' = [editing EXCEPT ![a] = r]
        BY <1>1, <1>3 DEF Config!Commit
    <2>2. r \in Edits /\ r.kind = k /\ r.values = q.values
        BY <1>1, GoesOn
    <2>3. new \in Saved /\ (new.exists => DOMAIN new.val = Config!Fields(k))
        <3>1. CASE q.op = "put"
            <4>1. out \in Bodies /\ DOMAIN out = Config!Fields(k)
                BY <1>1, <1>3, <3>1, MergedIs
            <4> HIDE DEF out
            <4>2. QED
                BY <3>1, <4>1 DEF Saved, Config!Row
        <3>2. CASE q.op # "put"
            BY <3>2 DEF Saved, Config!Absent
        <3>3. QED
            BY <3>1, <3>2
    <2>4. \A j \in Kinds : k = "limits" /\ ~ new.exists => q.op # "put"
        BY DEF Config!Row
    <2> HIDE DEF out, r, new
    <2>5. /\ editing' \in [Admins -> {Config!Free} \cup Edits]
          /\ editing'[a] = r
          /\ \A b \in Admins \ {a} : editing'[b] = editing[b]
        BY <2>1, <2>2 DEF ConfigInv, ConfigTyped
    <2>6. /\ row' \in [Kinds -> Saved] /\ row'[k] = new
          /\ \A j \in Kinds \ {k} : row'[j] = row[j]
        BY <1>1, <2>1, <2>3 DEF ConfigInv, ConfigTyped
    <2>7. ASSUME k \notin raced' PROVE Faithful(k)' /\ Open(k)'
        <3>1. k \notin raced /\ k = editing[a].kind /\ editing[a] \in Edits
            BY <1>1, <2>7
        <3> HIDE DEF q
        <3>2. QED
            BY <3>1, AloneCommits
    <2>8. ConfigTyped'
        BY <1>1, <2>3, <2>5, <2>6 DEF ConfigInv, ConfigTyped
    <2>9. NamedOfRow'
        BY <1>1, <2>1, <2>4, <2>6 DEF ConfigInv, NamedOfRow
    <2>10. \A b \in Admins : Sent(b)'
        BY <1>1, <2>2, <2>5 DEF ConfigInv, Sent
    <2>11. ASSUME NEW j \in Kinds, j # k, j \notin raced' PROVE Faithful(j)' /\ Open(j)'
        <3>1. j \notin raced /\ Faithful(j) /\ Open(j)
            BY <1>1, <2>11 DEF ConfigInv
        <3>2. a \notin Config!Busy(j) /\ a \notin Config!Busy(j)'
            BY <1>1, <2>2, <2>5, <2>11 DEF Config!Busy
        <3>3. Config!Busy(j)' = Config!Busy(j) /\ \A b \in Config!Busy(j) : editing'[b] = editing[b]
            BY <2>5, <3>2 DEF Config!Busy
        <3>4. j = "limits" => named' = named
            BY <2>1, <2>11
        <3>5. row'[j] = row[j] /\ live'[j] = live[j] /\ env' = env
            BY <1>1, <2>6, <2>11
        <3> HIDE DEF q
        <3>6. QED
            BY <3>1, <3>3, <3>4, <3>5, OtherKind DEF ConfigInv
    <2> HIDE DEF q
    <2>12. ASSUME NEW j \in Kinds, j \notin raced' PROVE Faithful(j)' /\ Open(j)'
        <3>1. CASE j # k
            BY <2>11, <2>12, <3>1
        <3>2. CASE j = k
            <4>1. k \notin raced'
                BY <2>12, <3>2
            <4>2. Faithful(k)' /\ Open(k)'
                BY <2>7, <4>1
            <4>3. QED
                BY <3>2, <4>2
        <3>3. QED
            BY <3>1, <3>2
    <2>13. QED
        BY <2>8, <2>9, <2>10, <2>12 DEF ConfigInv
<1>4. QED
    BY <1>2, <1>3

\* What an apply leaves of the copy.
LEMMA AppliedIs ==
    ASSUME KindsKnown, ConfigInv, NEW a \in Admins, editing[a] \in Edits,
           NEW k, k = editing[a].kind,
           NEW copy, copy = [f \in Config!Fields(k) |-> IF f \in DOMAIN editing[a].values
                                     THEN editing[a].values[f] ELSE live[k][f]]
    PROVE  copy \in Bodies /\ DOMAIN copy = Config!Fields(k)
<1> DEFINE asked == editing[a].values
<1>1. k \in Kinds /\ asked \in Bodies
    BY DEF Edits
<1>2. \A f \in DOMAIN asked : asked[f] \in Values \cup {0}
    <2>1. PICK F : asked \in [F -> Values \cup {0}]
        BY <1>1 DEF Bodies
    <2>2. QED
        BY <2>1
<1>3. live[k] \in [Config!Fields(k) -> Values \cup {0}]
    <2>1. live[k] \in Bodies /\ DOMAIN live[k] = Config!Fields(k)
        BY <1>1 DEF ConfigInv, ConfigTyped
    <2>2. QED
        BY <1>1, <2>1, BodiesAre
<1> HIDE DEF asked
<1>4. copy \in [Config!Fields(k) -> Values \cup {0}]
    BY <1>2, <1>3 DEF asked
<1>5. QED
    BY <1>1, <1>4, BodiesAre

\* The apply of a request that is alone on its kind leaves the copy as a restart
\* would.
LEMMA AloneApplies ==
    ASSUME KindsKnown, ConfigInv, NEW a \in Admins, Config!Apply(a),
           editing[a] \in Edits,
           NEW k, k = editing[a].kind, k \notin raced
    PROVE  Faithful(k)' /\ Open(k)'
<1> DEFINE q == editing[a]
           asked == q.values
           copy == [f \in Config!Fields(k) |-> IF f \in DOMAIN asked THEN asked[f] ELSE live[k][f]]
<1>1. /\ k \in Kinds /\ a \in Config!Busy(k) /\ q.pc = "apply" /\ q.op \in {"put", "reset"}
      /\ UNCHANGED <<env, row, named, raced>>
      /\ editing' = [editing EXCEPT ![a] = Config!Free]
    BY BusyIs DEF Config!Apply, ConfigInv, Edits
<1>2. Faithful(k) /\ Open(k) /\ Sent(a)
    BY <1>1 DEF ConfigInv
<1>3. Config!Busy(k) = {a} /\ Applies(a)
    BY <1>1, <1>2 DEF Faithful
<1>4. Config!Busy(k)' = {}
    BY <1>1, <1>3, SlotFreed DEF ConfigInv
<1>5. live'[k] = copy
    <2>1. live' = [live EXCEPT ![k] = copy]
        BY <1>1, <1>3 DEF Config!Apply, Applies
    <2> HIDE DEF copy
    <2>2. QED
        BY <1>1, <2>1 DEF ConfigInv, ConfigTyped
<1>6. /\ Config!Required(k) \subseteq DOMAIN asked /\ DOMAIN asked \subseteq Config!Fields(k)
    BY <1>2 DEF Sent
<1>7. /\ DOMAIN live[k] = Config!Fields(k) /\ DOMAIN env[k] = Config!Fields(k)
    BY <1>1 DEF ConfigInv, ConfigTyped
<1>8. ASSUME NEW f \in Config!Fields(k) PROVE Stands(k, f)'
    <2>1. CASE q.op = "reset"
        <3>1. copy[f] = env[k][f] /\ ~ row[k].exists
            BY <1>3, <1>7, <2>1 DEF Applies
        <3> HIDE DEF copy
        <3>2. QED
            BY <1>1, <1>5, <3>1 DEF Stands, Config!Loaded
    <2>2. CASE q.op = "put"
        <3>1. /\ row[k].exists
              /\ IF f \in DOMAIN asked THEN row[k].val[f] = asked[f] ELSE Stands(k, f)
            BY <1>3, <2>2 DEF Applies
        <3>2. copy[f] = IF f \in DOMAIN asked THEN asked[f] ELSE live[k][f]
            OBVIOUS
        <3> HIDE DEF copy, asked
        <3>3. QED
            BY <1>1, <1>5, <3>1, <3>2 DEF Stands, Config!Loaded, Config!Unnamed
    <2>3. QED
        BY <1>1, <2>1, <2>2
<1>9. Faithful(k)'
    BY <1>4, <1>8 DEF Faithful
<1>10. Open(k)'
    <2> SUFFICES ASSUME k = "limits", Floored(env[k])
                 PROVE  Floored(copy) /\ (row[k].exists => Floored(row[k].val))
        BY <1>1, <1>4, <1>5 DEF Open
    <2>1. Floored(live[k]) /\ Floored(asked) /\ (row[k].exists => Floored(row[k].val))
        BY <1>2, <1>3 DEF Open
    <2>2. Config!Fields(k) = {"rpm", "rpm_admin"} /\ "rpm" \in DOMAIN asked
        BY <1>1, <1>6, FieldsAre
    <2>3. copy = [f \in {"rpm", "rpm_admin"} |-> IF f \in DOMAIN asked THEN asked[f] ELSE live[k][f]]
        BY <2>2
    <2> HIDE DEF copy, asked
    <2>4. Floored(copy)
        BY <1>7, <2>1, <2>2, <2>3, FloorHolds
    <2>5. QED
        BY <2>1, <2>4
<1>11. QED
    BY <1>9, <1>10

LEMMA ApplyStep ==
    ASSUME KindsKnown, ConfigInv, NEW a \in Admins, Config!Apply(a)
    PROVE  ConfigInv'
<1> DEFINE q == editing[a]
<1>0. PICK k \in Kinds : k = q.kind
    BY BusyIs DEF Config!Apply, ConfigInv
<1> DEFINE copy == [f \in Config!Fields(k) |-> IF f \in DOMAIN q.values THEN q.values[f] ELSE live[k][f]]
<1>1. /\ q \in Edits /\ k = q.kind
      /\ UNCHANGED <<env, row, named, raced>>
      /\ editing' = [editing EXCEPT ![a] = Config!Free]
      /\ (live' = live \/ live' = [live EXCEPT ![k] = copy])
    BY <1>0, BusyIs DEF Config!Apply, ConfigInv
<1>2. copy \in Bodies /\ DOMAIN copy = Config!Fields(k)
    BY <1>1, AppliedIs
<1>3. /\ editing' \in [Admins -> {Config!Free} \cup Edits]
      /\ editing'[a] = Config!Free
      /\ \A b \in Admins \ {a} : editing'[b] = editing[b]
      /\ \A j \in Kinds : Config!Busy(j)' = Config!Busy(j) \ {a}
    BY <1>1, SlotFreed DEF ConfigInv
<1> HIDE DEF copy
<1>4. /\ live' \in [Kinds -> Bodies]
      /\ \A j \in Kinds : DOMAIN live'[j] = Config!Fields(j)
      /\ \A j \in Kinds \ {k} : live'[j] = live[j]
    BY <1>1, <1>2 DEF ConfigInv, ConfigTyped
<1>5. ASSUME k \notin raced' PROVE Faithful(k)' /\ Open(k)'
    <2>1. k \notin raced /\ k = editing[a].kind /\ editing[a] \in Edits
        BY <1>1, <1>5
    <2> HIDE DEF q
    <2>2. QED
        BY <2>1, AloneApplies
<1>6. ASSUME NEW j \in Kinds, j # k PROVE a \notin Config!Busy(j)
    BY <1>1, <1>6 DEF Config!Busy
<1> HIDE DEF q
<1>7. ConfigTyped' /\ NamedOfRow'
    BY <1>1, <1>3, <1>4 DEF ConfigInv, ConfigTyped, NamedOfRow
<1>8. \A b \in Admins : Sent(b)'
    <2>1. Config!Free \notin Edits
        BY DEF Config!Free, Edits
    <2>2. QED
        BY <1>3, <2>1 DEF ConfigInv, Sent
<1>9. ASSUME NEW j \in Kinds, j \notin raced' PROVE Faithful(j)' /\ Open(j)'
    <2>1. CASE j = k
        <3>1. Faithful(k)' /\ Open(k)'
            BY <1>5, <1>9, <2>1
        <3>2. QED
            BY <2>1, <3>1
    <2>2. CASE j # k
        <3>1. j \notin raced /\ Faithful(j) /\ Open(j) /\ a \notin Config!Busy(j)
            BY <1>1, <1>6, <1>9, <2>2 DEF ConfigInv
        <3>2. Config!Busy(j)' = Config!Busy(j) /\ \A b \in Config!Busy(j) : editing'[b] = editing[b]
            BY <1>3, <3>1 DEF Config!Busy
        <3>3. live'[j] = live[j]
            BY <1>4, <2>2
        <3>4. QED
            BY <1>1, <3>1, <3>2, <3>3, OtherKind DEF ConfigInv
    <2>3. QED
        BY <2>1, <2>2
<1>10. QED
    BY <1>7, <1>8, <1>9 DEF ConfigInv

LEMMA GatewayRestarts ==
    ASSUME KindsKnown, ConfigInv, Config!Restart
    PROVE  ConfigInv'
<1>1. /\ live' = [k \in Kinds |-> Config!Loaded(k)]
      /\ editing' = [a \in Admins |-> Config!Free]
      /\ UNCHANGED <<env, row, named, raced>>
    BY DEF Config!Restart
<1>2. ASSUME NEW k \in Kinds
      PROVE  Config!Loaded(k) \in Bodies /\ DOMAIN Config!Loaded(k) = Config!Fields(k)
    <2>1. env[k] \in Bodies /\ DOMAIN env[k] = Config!Fields(k) /\ row[k] \in Saved
          /\ (row[k].exists => DOMAIN row[k].val = Config!Fields(k))
        BY DEF ConfigInv, ConfigTyped
    <2>2. row[k].exists => row[k].val \in Bodies
        <3>1. CASE row[k] = Config!Absent
            BY <3>1 DEF Config!Absent
        <3>2. CASE row[k] \in [exists : {TRUE}, val : Bodies]
            BY <3>2
        <3>3. QED
            BY <2>1, <3>1, <3>2 DEF Saved
    <2>3. QED
        BY <2>1, <2>2 DEF Config!Loaded
<1>3. ConfigTyped' /\ NamedOfRow'
    BY <1>1, <1>2 DEF ConfigInv, ConfigTyped, NamedOfRow
<1>4. \A a \in Admins : Sent(a)'
    <2>1. Config!Free \notin Edits
        BY DEF Config!Free, Edits
    <2>2. QED
        BY <1>1, <2>1 DEF Sent
<1>5. ASSUME NEW k \in Kinds, k \notin raced' PROVE Faithful(k)' /\ Open(k)'
    <2>1. Config!Busy(k)' = {}
        BY <1>1 DEF Config!Busy, Config!Free
    <2>2. live'[k] = Config!Loaded(k) /\ Config!Loaded(k)' = Config!Loaded(k)
        BY <1>1 DEF Config!Loaded
    <2>3. Faithful(k)'
        BY <2>1, <2>2 DEF Faithful, Stands
    <2>4. Open(k)
        BY <1>1, <1>5 DEF ConfigInv
    <2>5. Open(k)'
        BY <1>1, <2>1, <2>2, <2>4 DEF Open, Config!Loaded
    <2>6. QED
        BY <2>3, <2>5
<1>6. QED
    BY <1>3, <1>4, <1>5 DEF ConfigInv

-----------------------------------------------------------------------------
LEMMA ConfigInit == ASSUME KindsKnown, Config!Init PROVE ConfigInv
<1>1. /\ row = [k \in Kinds |-> Config!Absent] /\ live = env
      /\ editing = [a \in Admins |-> Config!Free] /\ named = {}
    BY DEF Config!Init
<1>2. env \in [Kinds -> Bodies] /\ \A k \in Kinds : DOMAIN env[k] = Config!Fields(k)
    <2>1. \A k \in Kinds : DOMAIN env[k] = Config!Fields(k)
        BY DEF Config!Init
    <2>2. ASSUME NEW k \in Kinds PROVE env[k] \in Bodies
        <3>1. env[k] \in UNION {[Config!Fields(j) -> Values \cup {0}] : j \in Kinds}
            BY DEF Config!Init
        <3>2. PICK j \in Kinds : env[k] \in [Config!Fields(j) -> Values \cup {0}]
            BY <3>1
        <3>3. QED
            BY <3>2, BodiesAre
    <2>3. QED
        BY <2>1, <2>2 DEF Config!Init
<1>3. ConfigTyped /\ NamedOfRow
    BY <1>1, <1>2 DEF ConfigTyped, NamedOfRow, Saved, Config!Absent
<1>4. ASSUME NEW a \in Admins PROVE Sent(a)
    <2>1. Config!Free \notin Edits
        BY DEF Config!Free, Edits
    <2>2. QED
        BY <1>1, <2>1 DEF Sent
<1>5. ASSUME NEW k \in Kinds PROVE Faithful(k) /\ Open(k)
    <2>1. Config!Busy(k) = {} /\ ~ row[k].exists
        BY <1>1 DEF Config!Busy, Config!Free, Config!Absent
    <2>2. QED
        BY <1>1, <2>1 DEF Faithful, Open, Stands, Config!Loaded
<1>6. QED
    BY <1>3, <1>4, <1>5 DEF ConfigInv

LEMMA ConfigStep ==
    ASSUME KindsKnown, ConfigInv, [Config!Next]_(Config!vars)
    PROVE  ConfigInv'
<1>1. CASE UNCHANGED Config!vars
    <2>1. UNCHANGED <<env, row, live, editing, named, raced>>
        BY <1>1 DEF Config!vars
    <2>2. ASSUME NEW k \in Kinds, k \notin raced' PROVE Faithful(k)' /\ Open(k)'
        <3>1. k \notin raced /\ Faithful(k) /\ Open(k)
            BY <2>1, <2>2 DEF ConfigInv
        <3>2. Config!Busy(k)' = Config!Busy(k)
            BY <2>1 DEF Config!Busy
        <3>3. QED
            BY <2>1, <3>1, <3>2, OtherKind DEF ConfigInv
    <2>3. ConfigTyped' /\ NamedOfRow' /\ \A a \in Admins : Sent(a)'
        BY <2>1 DEF ConfigInv, ConfigTyped, NamedOfRow, Sent
    <2>4. QED
        BY <2>2, <2>3 DEF ConfigInv
<1>2. QED
    BY <1>1, PutBegins, ResetBegins, SettingsCommitted, ApplyStep, GatewayRestarts DEF
       Config!Next

LEMMA ConfigHolds == ASSUME KindsKnown, ConfigInv PROVE Config!SettingsHold
<1>1. Config!RestartFaithful
    BY DEF ConfigInv, Faithful, Stands, Config!RestartFaithful
<1>2. Config!OwnGateOpen
    <2> SUFFICES ASSUME "limits" \in Kinds, "limits" \notin raced,
                        ~ (Config!AdminRpm(env["limits"]) < MinAdmin)
                 PROVE  Floored(live["limits"]) /\ Floored(Config!Loaded("limits"))
        BY DEF Config!OwnGateOpen, Floored
    <2>0. Floored(env["limits"])
        <3>1. env["limits"] \in Bodies /\ DOMAIN env["limits"] = Config!Fields("limits")
            BY DEF ConfigInv, ConfigTyped
        <3>2. env["limits"] \in [{"rpm", "rpm_admin"} -> Values \cup {0}]
            BY <3>1, BodiesAre, FieldsAre
        <3>3. env["limits"]["rpm"] \in Nat /\ env["limits"]["rpm_admin"] \in Nat
            BY <3>2 DEF KindsKnown
        <3>4. Config!AdminRpm(env["limits"]) \in Nat
            BY <3>3 DEF Config!AdminRpm
        <3>5. QED
            BY <3>4 DEF Floored, KindsKnown
    <2>1. Open("limits")
        BY DEF ConfigInv
    <2>2. QED
        BY <2>0, <2>1 DEF Open, Config!Loaded
<1>3. QED
    BY <1>1, <1>2 DEF Config!SettingsHold

LEMMA ConfigMoves ==
    /\ Init /\ focus = "config" => Config!Init
    /\ [Next]_vars /\ focus = "config" => [Config!Next]_(Config!vars)
BY DEF Init, Next, vars, Config!vars

\* What the operator set is what the gateway does, now and after a restart, and
\* the admin endpoints' own limit never falls below its floor, unless two
\* requests for the same settings overlapped (admin/router.py, _lifespan of
\* main.py). The other gates in front of those endpoints have no floor.
THEOREM SettingsStand ==
    /\ Config!Spec => []Config!SettingsHold
    /\ Spec => []SettingsHold
<1> DEFINE InFocus == focus = "config" => ConfigInv
<1>1. Config!Init => ConfigInv
    BY ConfigInit, ServicesAssumption DEF KindsKnown
<1>2. ConfigInv /\ [Config!Next]_(Config!vars) => ConfigInv'
    BY ConfigStep, ServicesAssumption DEF KindsKnown
<1>3. ConfigInv => Config!SettingsHold
    BY ConfigHolds, ServicesAssumption DEF KindsKnown
<1>4. Init => InFocus
    BY <1>1, ConfigMoves
<1>5. InFocus /\ [Next]_vars => InFocus'
    BY <1>2, ConfigMoves, FocusStays
<1>6. InFocus => SettingsHold
    BY <1>3 DEF SettingsHold
<1> HIDE DEF InFocus
<1>7. Config!Spec => []Config!SettingsHold
    BY <1>1, <1>2, <1>3, PTL DEF Config!Spec
<1>8. Spec => []SettingsHold
    BY <1>4, <1>5, <1>6, PTL DEF Spec
<1>9. QED
    BY <1>7, <1>8

HIDE DEF env, row, live, editing, named, raced
-----------------------------------------------------------------------------
(* Tiers. The client's settings are s1, the tiers s2, their cached copies  *)
(* s3, the inference requests s4, the admin requests s5, and s7 tells that *)
(* a tier was deleted while it was being assigned. What the proof turns on: *)
(* a row on its way into a cache is the stored one until a commit overtakes *)
(* it, and a commit owes its invalidation to every copy it made stale.     *)

settings == s1
tierCaps == s2
copies == s3
asking == s4
editor == s5
moved == s7

USE DEF settings, tierCaps, copies, asking, editor, moved

\* A cap is not the mark of a tier that is gone.
CapsAre == Plans!Gone \notin Caps

TiersTyped ==
    /\ settings.tier \in TierNames \cup {Plans!NoTier}
    /\ tierCaps = [n \in TierNames |-> tierCaps[n]]
    /\ copies = [k \in Plans!Keys |-> copies[k]]
    /\ asking = [r \in Requests |-> asking[r]]
    /\ editor = [a \in Admins |-> editor[a]]

\* An answer that is to fill a cache.
Answer(q) == q = [pc |-> "fill", key |-> q.key, row |-> q.row, overtaken |-> q.overtaken]

AnswersAre ==
    \A r \in Requests : asking[r].pc = "fill" =>
        /\ Answer(asking[r])
        /\ asking[r].key \in Plans!Keys =>
              asking[r].overtaken \/ asking[r].row = Plans!Stored(asking[r].key)

\* What an admin request may commit.
Committing(q) ==
    q.pc = "commit" =>
        \/ q.op = "assign" /\ q.row.tier \in TierNames \cup {Plans!NoTier}
        \/ q.op = "tier" /\ q.row # Plans!Gone
        \/ q.op = "delete" /\ q.free

\* An invalidation that is still owed to a copy.
Owes(a, k) ==
    editor[a].pc = "invalidate" /\ (editor[a].op = "assign" \/ k = editor[a].key)

CopiesSeen ==
    \A k \in Plans!Keys : copies[k].hit =>
        \/ copies[k].row = Plans!Stored(k)
        \/ copies[k].raced
        \/ \E a \in Admins : Owes(a, k)

OnATier ==
    moved \/ settings.tier = Plans!NoTier \/ tierCaps[settings.tier] # Plans!Gone

TiersInv ==
    /\ TiersTyped /\ AnswersAre /\ CopiesSeen /\ OnATier
    /\ \A a \in Admins : Committing(editor[a])

-----------------------------------------------------------------------------
\* A request moves on, without an answer; nothing else changes.
LEMMA AskingGoesOn ==
    ASSUME TiersInv, NEW r \in Requests, NEW q, asking' = [asking EXCEPT ![r] = q],
           q.pc # "fill" \/ (Answer(q) /\ q.row = Plans!Stored(q.key)),
           UNCHANGED <<settings, tierCaps, editor, moved>>, CopiesSeen',
           copies' = [k \in Plans!Keys |-> copies'[k]]
    PROVE  TiersInv'
<1>1. /\ asking' = [p \in Requests |-> asking'[p]]
      /\ \A p \in Requests : asking'[p] = IF p = r THEN q ELSE asking[p]
    BY DEF TiersInv, TiersTyped
<1>2. AnswersAre'
    <2> SUFFICES ASSUME NEW p \in Requests, asking'[p].pc = "fill"
                 PROVE  /\ Answer(asking'[p])
                        /\ asking'[p].key \in Plans!Keys =>
                              asking'[p].overtaken \/ asking'[p].row = Plans!Stored(asking'[p].key)
        BY DEF AnswersAre, Plans!Stored
    <2>1. CASE p = r
        BY <1>1, <2>1
    <2>2. CASE p # r
        BY <1>1, <2>2 DEF TiersInv, AnswersAre
    <2>3. QED
        BY <2>1, <2>2
<1>3. QED
    BY <1>1, <1>2 DEF TiersInv, TiersTyped, OnATier, Committing

LEMMA CopiesStay ==
    ASSUME TiersInv, UNCHANGED <<settings, tierCaps, copies, editor>>
    PROVE  CopiesSeen' /\ copies' = [k \in Plans!Keys |-> copies'[k]]
BY DEF TiersInv, TiersTyped, CopiesSeen, Owes, Plans!Stored

LEMMA ClientLooks ==
    ASSUME TiersInv, NEW r \in Requests, Plans!Look(r)
    PROVE  TiersInv'
<1>1. UNCHANGED <<settings, tierCaps, copies, editor, moved>>
    BY DEF Plans!Look
<1>2. PICK k : asking' = [asking EXCEPT ![r] = [pc |-> "query", key |-> k]]
    <2>1. CASE Plans!LooksUp(r, Plans!Client)
        BY <2>1 DEF Plans!LooksUp
    <2>2. CASE Plans!LooksUp(r, copies[Plans!Client].row.tier)
        BY <2>2 DEF Plans!LooksUp
    <2>3. QED
        BY <2>1, <2>2 DEF Plans!Look
<1> DEFINE q == [pc |-> "query", key |-> k]
<1>3. q.pc # "fill" /\ asking' = [asking EXCEPT ![r] = q]
    BY <1>2
<1> HIDE DEF q
<1>4. QED
    BY <1>1, <1>3, AskingGoesOn, CopiesStay

LEMMA QueryAnswers ==
    ASSUME TiersInv, NEW r \in Requests, Plans!Query(r)
    PROVE  TiersInv'
<1>1. UNCHANGED <<settings, tierCaps, copies, editor, moved>>
    BY DEF Plans!Query
<1> DEFINE q == [pc |-> "fill", key |-> asking[r].key, row |-> Plans!Stored(asking[r].key),
                 overtaken |-> FALSE]
<1>2. asking' = [asking EXCEPT ![r] = q]
    BY DEF Plans!Query, TiersInv, TiersTyped
<1>3. Answer(q) /\ q.row = Plans!Stored(q.key)
    BY DEF Answer
<1> HIDE DEF q
<1>4. QED
    BY <1>1, <1>2, <1>3, AskingGoesOn, CopiesStay

LEMMA QueryFails ==
    ASSUME TiersInv, NEW r \in Requests, Plans!ReadFails(r)
    PROVE  TiersInv'
<1>1. /\ UNCHANGED <<settings, tierCaps, copies, editor, moved>>
      /\ asking' = [asking EXCEPT ![r] = Plans!Idle] /\ Plans!Idle.pc # "fill"
    BY DEF Plans!ReadFails, Plans!Idle
<1>2. QED
    BY <1>1, AskingGoesOn, CopiesStay

LEMMA AnswerFills ==
    ASSUME TiersInv, NEW r \in Requests, Plans!Fill(r)
    PROVE  TiersInv'
<1> DEFINE k == asking[r].key
           new == [hit |-> TRUE, row |-> asking[r].row, raced |-> asking[r].overtaken]
<1>1. /\ UNCHANGED <<settings, tierCaps, editor, moved>>
      /\ asking[r].pc = "fill"
      /\ copies' = [copies EXCEPT ![k] = new]
    BY DEF Plans!Fill
<1>2. PICK q : asking' = [asking EXCEPT ![r] = q] /\ q.pc # "fill"
    <2>1. CASE Plans!LooksUp(r, asking[r].row.tier)
        <3> DEFINE q == [pc |-> "query", key |-> asking[r].row.tier]
        <3>1. asking' = [asking EXCEPT ![r] = q] /\ q.pc # "fill"
            BY <2>1 DEF Plans!LooksUp
        <3> HIDE DEF q
        <3>2. QED
            BY <3>1
    <2>2. CASE asking' = [asking EXCEPT ![r] = Plans!Idle]
        <3>1. Plans!Idle.pc # "fill"
            BY DEF Plans!Idle
        <3>2. QED
            BY <2>2, <3>1
    <2>3. QED
        BY <2>1, <2>2 DEF Plans!Fill
<1>3. k \in Plans!Keys => new.raced \/ new.row = Plans!Stored(k)
    BY <1>1 DEF TiersInv, AnswersAre
<1> HIDE DEF new, k
<1>4. /\ copies' = [j \in Plans!Keys |-> copies'[j]]
      /\ \A j \in Plans!Keys : copies'[j] = IF j = k THEN new ELSE copies[j]
    BY <1>1 DEF TiersInv, TiersTyped
<1>5. CopiesSeen'
    <2> SUFFICES ASSUME NEW j \in Plans!Keys, copies'[j].hit
                 PROVE  \/ copies'[j].row = Plans!Stored(j)
                        \/ copies'[j].raced
                        \/ \E a \in Admins : Owes(a, j)
        BY <1>1 DEF CopiesSeen, Plans!Stored, Owes
    <2>1. CASE j = k
        BY <1>3, <1>4, <2>1
    <2>2. CASE j # k
        BY <1>4, <2>2 DEF TiersInv, CopiesSeen
    <2>3. QED
        BY <2>1, <2>2
<1>6. QED
    BY <1>1, <1>2, <1>4, <1>5, AskingGoesOn

\* Copies are dropped, and whoever owed them their invalidation may be done.
LEMMA CopiesDropped ==
    ASSUME TiersInv, UNCHANGED <<settings, tierCaps, asking, moved>>,
           copies' = [k \in Plans!Keys |-> copies'[k]],
           \A k \in Plans!Keys : copies'[k] = copies[k] \/ ~ copies'[k].hit,
           editor' = [a \in Admins |-> editor'[a]],
           \A a \in Admins : Committing(editor'[a]),
           \A k \in Plans!Keys, a \in Admins :
              copies'[k].hit /\ Owes(a, k) => editor'[a] = editor[a]
    PROVE  TiersInv'
<1>1. CopiesSeen'
    <2> SUFFICES ASSUME NEW k \in Plans!Keys, copies'[k].hit
                 PROVE  \/ copies'[k].row = Plans!Stored(k)
                        \/ copies'[k].raced
                        \/ \E a \in Admins : Owes(a, k)'
        BY DEF CopiesSeen, Plans!Stored
    <2>1. copies'[k] = copies[k]
        OBVIOUS
    <2>2. CASE \E a \in Admins : Owes(a, k)
        <3>1. PICK a \in Admins : Owes(a, k)
            BY <2>2
        <3>2. editor'[a] = editor[a]
            BY <3>1
        <3>3. Owes(a, k)'
            BY <3>1, <3>2 DEF Owes
        <3>4. QED
            BY <3>3
    <2>3. QED
        BY <2>1, <2>2 DEF TiersInv, CopiesSeen
<1>2. AnswersAre'
    BY DEF TiersInv, AnswersAre, Answer, Plans!Stored
<1>3. QED
    BY <1>1, <1>2 DEF TiersInv, TiersTyped, OnATier

LEMMA CopyExpires ==
    ASSUME TiersInv, NEW k \in Plans!Keys, Plans!Expire(k)
    PROVE  TiersInv'
<1>1. /\ UNCHANGED <<settings, tierCaps, asking, moved, editor>>
      /\ copies' = [copies EXCEPT ![k] = Plans!Miss]
      /\ ~ Plans!Miss.hit
    BY DEF Plans!Expire, Plans!Miss
<1>2. /\ copies' = [j \in Plans!Keys |-> copies'[j]]
      /\ \A j \in Plans!Keys : copies'[j] = copies[j] \/ ~ copies'[j].hit
    BY <1>1 DEF TiersInv, TiersTyped
<1>3. editor' = [a \in Admins |-> editor'[a]] /\ \A a \in Admins : Committing(editor'[a])
    BY <1>1 DEF TiersInv, TiersTyped
<1>4. QED
    BY <1>1, <1>2, <1>3, CopiesDropped

LEMMA CopiesInvalidated ==
    ASSUME TiersInv, NEW a \in Admins, Plans!Invalidate(a)
    PROVE  TiersInv'
<1>1. /\ UNCHANGED <<settings, tierCaps, asking, moved>>
      /\ copies' = IF editor[a].op = "assign" THEN [j \in Plans!Keys |-> Plans!Miss]
                   ELSE [copies EXCEPT ![editor[a].key] = Plans!Miss]
      /\ editor' = [editor EXCEPT ![a] = Plans!Idle]
      /\ ~ Plans!Miss.hit /\ Plans!Idle.pc = "idle"
    BY DEF Plans!Invalidate, Plans!Miss, Plans!Idle
<1>2. /\ copies' = [j \in Plans!Keys |-> copies'[j]]
      /\ \A j \in Plans!Keys :
            IF editor[a].op = "assign" \/ j = editor[a].key THEN ~ copies'[j].hit
            ELSE copies'[j] = copies[j]
    <2>1. copies = [j \in Plans!Keys |-> copies[j]]
        BY DEF TiersInv, TiersTyped
    <2>2. CASE editor[a].op = "assign"
        BY <1>1, <2>2
    <2>3. CASE editor[a].op # "assign"
        BY <1>1, <2>1, <2>3
    <2>4. QED
        BY <2>2, <2>3
<1>3. /\ editor' = [b \in Admins |-> editor'[b]]
      /\ \A b \in Admins : editor'[b] = IF b = a THEN Plans!Idle ELSE editor[b]
    BY <1>1 DEF TiersInv, TiersTyped
<1>4. \A b \in Admins : Committing(editor'[b])
    BY <1>1, <1>3 DEF TiersInv, Committing
<1>5. ASSUME NEW j \in Plans!Keys, NEW b \in Admins, copies'[j].hit, Owes(b, j)
      PROVE  editor'[b] = editor[b]
    BY <1>2, <1>3, <1>5 DEF Owes
<1>6. QED
    BY <1>1, <1>2, <1>3, <1>4, <1>5, CopiesDropped

LEMMA GatewayStartsAgain ==
    ASSUME TiersInv, Plans!Restart
    PROVE  TiersInv'
<1>1. /\ UNCHANGED <<settings, tierCaps, moved>>
      /\ copies' = [k \in Plans!Keys |-> Plans!Miss]
      /\ asking' = [r \in Requests |-> Plans!Idle]
      /\ editor' = [a \in Admins |-> Plans!Idle]
      /\ ~ Plans!Miss.hit /\ Plans!Idle.pc = "idle"
    BY DEF Plans!Restart, Plans!Miss, Plans!Idle
<1>2. AnswersAre' /\ CopiesSeen' /\ \A a \in Admins : Committing(editor[a])'
    BY <1>1 DEF AnswersAre, CopiesSeen, Committing
<1>3. QED
    BY <1>1, <1>2 DEF TiersInv, TiersTyped, OnATier

-----------------------------------------------------------------------------
\* An admin request takes a free slot.
LEMMA EditBegins ==
    ASSUME TiersInv, NEW a \in Admins, NEW q, Plans!Begin(a, q), Committing(q)
    PROVE  TiersInv'
<1>1. /\ UNCHANGED <<settings, tierCaps, copies, asking, moved>>
      /\ editor' = [editor EXCEPT ![a] = q]
      /\ editor[a].pc = "idle"
    BY DEF Plans!Begin
<1>2. /\ editor' = [b \in Admins |-> editor'[b]]
      /\ \A b \in Admins : editor'[b] = IF b = a THEN q ELSE editor[b]
    BY <1>1 DEF TiersInv, TiersTyped
<1>3. \A b \in Admins : Committing(editor'[b])
    BY <1>2 DEF TiersInv
<1>4. ASSUME NEW j \in Plans!Keys, NEW b \in Admins, copies'[j].hit, Owes(b, j)
      PROVE  editor'[b] = editor[b]
    BY <1>1, <1>2, <1>4 DEF Owes
<1>5. copies' = [k \in Plans!Keys |-> copies'[k]]
    BY <1>1 DEF TiersInv, TiersTyped
<1>6. QED
    BY <1>1, <1>2, <1>3, <1>4, <1>5, CopiesDropped

LEMMA EditsBegin ==
    ASSUME CapsAre, TiersInv, NEW a \in Admins, NEW n \in TierNames,
           NEW c \in Caps \cup {0},
           \/ Plans!Assign(a, n, c) \/ Plans!Assign(a, Plans!NoTier, c)
           \/ Plans!PutTier(a, n, c) \/ Plans!DeleteTier(a, n)
    PROVE  TiersInv'
<1>1. ASSUME NEW tier \in TierNames \cup {Plans!NoTier}, Plans!Assign(a, tier, c)
      PROVE  TiersInv'
    <2> DEFINE q == [pc |-> "commit", op |-> "assign", saw |-> settings,
                     row |-> [tier |-> tier, cap |-> c]]
    <2>1. Plans!Begin(a, q)
        BY <1>1 DEF Plans!Assign
    <2>2. Committing(q)
        BY DEF Committing
    <2> HIDE DEF q
    <2>3. QED
        BY <2>1, <2>2, EditBegins
<1>2. CASE Plans!PutTier(a, n, c)
    <2> DEFINE q == [pc |-> "commit", op |-> "tier", key |-> n, saw |-> tierCaps[n], row |-> c]
    <2>1. Plans!Begin(a, q)
        BY <1>2 DEF Plans!PutTier
    <2>2. Committing(q)
        BY DEF Committing, CapsAre, Plans!Gone
    <2> HIDE DEF q
    <2>3. QED
        BY <2>1, <2>2, EditBegins
<1>3. CASE Plans!DeleteTier(a, n)
    <2>1. Plans!Begin(a, Plans!Doomed(n)) /\ settings.tier # n
        BY <1>3 DEF Plans!DeleteTier
    <2>2. Committing(Plans!Doomed(n))
        BY <2>1 DEF Committing, Plans!Doomed
    <2>3. QED
        BY <2>1, <2>2, EditBegins
<1>4. QED
    BY <1>1, <1>2, <1>3

\* An answer that was overtaken is an answer.
LEMMA StillAnswers ==
    ASSUME NEW q, Answer(q)
    PROVE  LET late == [q EXCEPT !.overtaken = TRUE]
           IN  Answer(late) /\ late.pc = "fill" /\ late.key = q.key /\ late.overtaken
<1>1. ASSUME NEW of, NEW held, NEW o, NEW v
      PROVE  [[pc |-> "fill", key |-> of, row |-> held, overtaken |-> o] EXCEPT !.overtaken = v]
                = [pc |-> "fill", key |-> of, row |-> held, overtaken |-> v]
    OBVIOUS
<1>2. q = [pc |-> "fill", key |-> q.key, row |-> q.row, overtaken |-> q.overtaken]
    BY DEF Answer
<1> DEFINE v == TRUE
           late == [pc |-> "fill", key |-> q.key, row |-> q.row, overtaken |-> v]
<1>3. v = TRUE
    OBVIOUS
<1> HIDE DEF v
<1>4. [q EXCEPT !.overtaken = v] = late
    BY <1>1, <1>2
<1>5. Answer(late) /\ late.pc = "fill" /\ late.key = q.key /\ late.overtaken = v
    BY DEF Answer
<1> HIDE DEF late
<1>6. [q EXCEPT !.overtaken = TRUE] = late
    BY <1>3, <1>4
<1>7. QED
    BY <1>3, <1>5, <1>6

\* Answers on their way that a commit overtakes.
LEMMA OvertakeIs ==
    ASSUME TiersInv, NEW k, asking' = Plans!Overtake(k),
           \A j \in Plans!Keys \ {k} : Plans!Stored(j)' = Plans!Stored(j)
    PROVE  AnswersAre' /\ asking' = [r \in Requests |-> asking'[r]]
<1>1. /\ asking' = [r \in Requests |-> asking'[r]]
      /\ \A r \in Requests : asking'[r] = IF asking[r].pc = "fill" /\ asking[r].key = k
                                         THEN [asking[r] EXCEPT !.overtaken = TRUE] ELSE asking[r]
    BY DEF Plans!Overtake
<1>2. ASSUME NEW r \in Requests, asking'[r].pc = "fill"
      PROVE  /\ Answer(asking'[r])
             /\ asking'[r].key \in Plans!Keys =>
                   asking'[r].overtaken \/ (asking'[r].key # k /\ asking'[r] = asking[r])
    <2>1. CASE asking[r].pc = "fill" /\ asking[r].key = k
        <3>1. Answer(asking[r])
            BY <2>1 DEF TiersInv, AnswersAre
        <3>2. asking'[r] = [asking[r] EXCEPT !.overtaken = TRUE]
            BY <1>1, <2>1
        <3> DEFINE late == [asking[r] EXCEPT !.overtaken = TRUE]
        <3>3. Answer(late) /\ late.overtaken
            BY <3>1, StillAnswers
        <3>4. asking'[r] = late
            BY <3>2
        <3> HIDE DEF late
        <3>5. QED
            BY <3>3, <3>4
    <2>2. CASE ~ (asking[r].pc = "fill" /\ asking[r].key = k)
        <3>1. asking'[r] = asking[r]
            BY <1>1, <2>2
        <3>2. QED
            BY <1>2, <2>2, <3>1 DEF TiersInv, AnswersAre
    <2>3. QED
        BY <2>1, <2>2
<1>3. ASSUME NEW r \in Requests, asking'[r].pc = "fill", asking'[r].key \in Plans!Keys
      PROVE  asking'[r].overtaken \/ asking'[r].row = Plans!Stored(asking[r].key)'
    <2>1. CASE asking'[r].key # k /\ asking'[r] = asking[r]
        <3> DEFINE j == asking[r].key
        <3>1. Plans!Stored(j)' = Plans!Stored(j)
            BY <1>3, <2>1
        <3>2. QED
            BY <1>3, <2>1, <3>1 DEF TiersInv, AnswersAre
    <2>2. QED
        BY <1>2, <1>3, <2>1
<1>4. QED
    BY <1>1, <1>2, <1>3 DEF AnswersAre, TiersInv

LEMMA SettingsSaved ==
    ASSUME TiersInv, NEW a \in Admins, Plans!Commit(a), editor[a].op = "assign"
    PROVE  TiersInv'
<1> DEFINE q == editor[a]
           new == [tier |-> IF q.row.tier = q.saw.tier THEN settings.tier ELSE q.row.tier,
                   cap |-> IF q.row.cap = q.saw.cap THEN settings.cap ELSE q.row.cap]
           done == [pc |-> "invalidate", op |-> "assign"]
<1>1. /\ q.pc = "commit" /\ settings' = new /\ asking' = Plans!Overtake(Plans!Client)
      /\ editor' = [editor EXCEPT ![a] = done]
      /\ moved' = (moved \/ (settings'.tier # Plans!NoTier /\ tierCaps[settings'.tier] = Plans!Gone))
      /\ UNCHANGED <<tierCaps, copies>>
    BY DEF Plans!Commit, Plans!CommitAssign
<1>2. q.row.tier \in TierNames \cup {Plans!NoTier}
    BY <1>1 DEF TiersInv, Committing
<1>3. settings'.tier \in TierNames \cup {Plans!NoTier}
    BY <1>1, <1>2 DEF TiersInv, TiersTyped
<1>4. \A j \in Plans!Keys \ {Plans!Client} : Plans!Stored(j)' = Plans!Stored(j)
    BY <1>1 DEF Plans!Stored
<1>5. AnswersAre' /\ asking' = [r \in Requests |-> asking'[r]]
    BY <1>1, <1>4, OvertakeIs
<1>6. done.pc = "invalidate" /\ done.op = "assign"
    OBVIOUS
<1> HIDE DEF done, new
<1>7. /\ editor' = [b \in Admins |-> editor'[b]]
      /\ \A b \in Admins : editor'[b] = IF b = a THEN done ELSE editor[b]
    BY <1>1 DEF TiersInv, TiersTyped
<1>8. CopiesSeen'
    BY <1>6, <1>7 DEF CopiesSeen, Owes
<1>9. \A b \in Admins : Committing(editor[b])'
    BY <1>6, <1>7 DEF TiersInv, Committing
<1>10. OnATier'
    BY <1>1 DEF OnATier
<1>11. QED
    BY <1>1, <1>3, <1>5, <1>7, <1>8, <1>9, <1>10 DEF TiersInv, TiersTyped

LEMMA TierSaved ==
    ASSUME CapsAre, TiersInv, NEW a \in Admins, Plans!Commit(a), editor[a].op # "assign"
    PROVE  TiersInv'
<1> DEFINE q == editor[a]
<1>1. q.pc = "commit" /\ UNCHANGED <<settings, copies>> /\ Plans!CommitTier(a)
    BY DEF Plans!Commit, Plans!CommitTier
<1>2. \/ q.op = "tier" /\ q.row # Plans!Gone
      \/ q.op = "delete" /\ q.free
    BY <1>1 DEF TiersInv, Committing
<1> PICK n : n = q.key
    OBVIOUS
<1> DEFINE clash == q.op = "tier" /\ (tierCaps[n] = Plans!Gone) # (q.saw = Plans!Gone)
<1>3. CASE clash
    <2>1. /\ UNCHANGED <<settings, tierCaps, copies, asking, moved>>
          /\ editor' = [editor EXCEPT ![a] = Plans!Idle] /\ Plans!Idle.pc = "idle"
        BY <1>1, <1>3 DEF Plans!CommitTier, Plans!Idle
    <2>2. /\ editor' = [b \in Admins |-> editor'[b]]
          /\ \A b \in Admins : editor'[b] = IF b = a THEN Plans!Idle ELSE editor[b]
        BY <2>1 DEF TiersInv, TiersTyped
    <2>3. \A b \in Admins : Committing(editor'[b])
        BY <2>1, <2>2 DEF TiersInv, Committing
    <2>4. ASSUME NEW j \in Plans!Keys, NEW b \in Admins, copies'[j].hit, Owes(b, j)
          PROVE  editor'[b] = editor[b]
        BY <1>1, <2>2, <2>4 DEF Owes
    <2>5. copies' = [k \in Plans!Keys |-> copies'[k]]
        BY <2>1 DEF TiersInv, TiersTyped
    <2>6. QED
        BY <2>1, <2>2, <2>3, <2>4, <2>5, CopiesDropped
<1>4. CASE ~ clash
    <2> DEFINE left == IF q.op = "delete" THEN Plans!Gone
                      ELSE IF q.row = q.saw THEN tierCaps[n] ELSE q.row
               done == [pc |-> "invalidate", op |-> q.op, key |-> n]
    <2>1. /\ tierCaps' = [tierCaps EXCEPT ![n] = left]
          /\ asking' = Plans!Overtake(n)
          /\ editor' = [editor EXCEPT ![a] = done]
          /\ moved' = (moved \/ (left = Plans!Gone /\ q.free /\ settings.tier = n))
        BY <1>1, <1>4 DEF Plans!CommitTier
    <2>2. left = Plans!Gone => q.free
        BY <1>2, <1>4
    <2>3. done.pc = "invalidate" /\ done.key = n
        OBVIOUS
    <2> HIDE DEF left, done
    <2>4. /\ tierCaps' = [m \in TierNames |-> tierCaps'[m]]
          /\ \A m \in TierNames : tierCaps'[m] = IF m = n THEN left ELSE tierCaps[m]
        BY <2>1 DEF TiersInv, TiersTyped
    <2>5. /\ editor' = [b \in Admins |-> editor'[b]]
          /\ \A b \in Admins : editor'[b] = IF b = a THEN done ELSE editor[b]
        BY <2>1 DEF TiersInv, TiersTyped
    <2>6. \A j \in Plans!Keys \ {n} : Plans!Stored(j)' = Plans!Stored(j)
        BY <1>1, <2>4 DEF Plans!Stored, Plans!Keys
    <2>7. AnswersAre' /\ asking' = [r \in Requests |-> asking'[r]]
        BY <2>1, <2>6, OvertakeIs
    <2>8. CopiesSeen'
        <3> SUFFICES ASSUME NEW k \in Plans!Keys, copies'[k].hit
                     PROVE  \/ copies'[k].row = Plans!Stored(k)'
                            \/ copies'[k].raced
                            \/ \E b \in Admins : Owes(b, k)'
            BY DEF CopiesSeen
        <3>1. CASE k = n
            <4>1. Owes(a, k)'
                BY <2>3, <2>5, <3>1 DEF Owes
            <4>2. QED
                BY <4>1
        <3>2. CASE k # n
            <4>1. Plans!Stored(k)' = Plans!Stored(k) /\ copies'[k] = copies[k]
                BY <1>1, <2>6, <3>2
            <4>2. CASE \E b \in Admins : Owes(b, k)
                <5>1. PICK b \in Admins : Owes(b, k)
                    BY <4>2
                <5>2. editor'[b] = editor[b]
                    BY <1>1, <2>5, <5>1 DEF Owes
                <5>3. Owes(b, k)'
                    BY <5>1, <5>2 DEF Owes
                <5>4. QED
                    BY <5>3
            <4>3. QED
                BY <4>1, <4>2 DEF TiersInv, CopiesSeen
        <3>3. QED
            BY <3>1, <3>2
    <2>9. \A b \in Admins : Committing(editor[b])'
        BY <2>3, <2>5 DEF TiersInv, Committing
    <2>10. OnATier'
        BY <1>1, <2>1, <2>2, <2>4 DEF TiersInv, TiersTyped, OnATier
    <2>11. QED
        BY <1>1, <2>4, <2>5, <2>7, <2>8, <2>9, <2>10 DEF TiersInv, TiersTyped
<1>5. QED
    BY <1>3, <1>4

-----------------------------------------------------------------------------
LEMMA TiersInit == ASSUME Plans!Init PROVE TiersInv
<1>1. /\ settings.tier = Plans!NoTier
      /\ tierCaps = [n \in TierNames |-> Plans!Gone]
      /\ copies = [k \in Plans!Keys |-> Plans!Miss] /\ ~ Plans!Miss.hit
      /\ asking = [r \in Requests |-> Plans!Idle]
      /\ editor = [a \in Admins |-> Plans!Idle] /\ Plans!Idle.pc = "idle"
    BY DEF Plans!Init, Plans!Unset, Plans!Miss, Plans!Idle
<1>2. QED
    BY <1>1 DEF TiersInv, TiersTyped, AnswersAre, CopiesSeen, OnATier, Committing

LEMMA TiersStep ==
    ASSUME CapsAre, TiersInv, [Plans!Next]_(Plans!vars)
    PROVE  TiersInv'
<1>1. CASE UNCHANGED Plans!vars
    BY <1>1 DEF Plans!vars, TiersInv, TiersTyped, AnswersAre, Answer, CopiesSeen,
       OnATier,
       Owes, Committing, Plans!Stored
<1>2. CASE Plans!Next
    <2>1. ASSUME NEW a \in Admins, Plans!Commit(a) PROVE TiersInv'
        BY <2>1, SettingsSaved, TierSaved
    <2>2. QED
        BY <1>2, <2>1, ClientLooks, QueryAnswers, AnswerFills, QueryFails, CopyExpires,
           EditsBegin,
           CopiesInvalidated, GatewayStartsAgain DEF Plans!Next
<1>3. QED
    BY <1>1, <1>2

LEMMA TiersHold == ASSUME TiersInv PROVE Plans!TiersStand
<1>1. Plans!SavedIsSeen
    BY DEF TiersInv, CopiesSeen, Owes, Plans!SavedIsSeen
<1>2. QED
    BY <1>1 DEF TiersInv, OnATier, Plans!TiersStand

LEMMA TiersMove ==
    /\ Init /\ focus = "plans" => Plans!Init
    /\ [Next]_vars /\ focus = "plans" => [Plans!Next]_(Plans!vars)
BY DEF Init, Next, vars, Plans!vars

\* No client is left on a tier that is gone, unless the tier was deleted while it
\* was being assigned; and a change that was answered is in force at once, but
\* for a copy on its way into a cache (admin/billing_router.py, budget.py).
THEOREM TiersAreKept ==
    /\ Plans!Spec => []Plans!TiersStand
    /\ Spec => []TiersStand
<1> DEFINE InFocus == focus = "plans" => TiersInv
<1>1. Plans!Init => TiersInv
    BY TiersInit
<1>2. TiersInv /\ [Plans!Next]_(Plans!vars) => TiersInv'
    BY TiersStep, ServicesAssumption DEF CapsAre
<1>3. TiersInv => Plans!TiersStand
    BY TiersHold
<1>4. Init => InFocus
    BY <1>1, TiersMove
<1>5. InFocus /\ [Next]_vars => InFocus'
    BY <1>2, TiersMove, FocusStays
<1>6. InFocus => TiersStand
    BY <1>3 DEF TiersStand
<1> HIDE DEF InFocus
<1>7. Plans!Spec => []Plans!TiersStand
    BY <1>1, <1>2, <1>3, PTL DEF Plans!Spec
<1>8. Spec => []TiersStand
    BY <1>4, <1>5, <1>6, PTL DEF Spec
<1>9. QED
    BY <1>7, <1>8

HIDE DEF settings, tierCaps, copies, asking, editor, moved
-----------------------------------------------------------------------------
(* Sums over finite sets. Sum adds its first element to the sum of the     *)
(* others, whichever that is; that it may as well begin with any other is  *)
(* by induction, in the form that the provers take: every set of natural   *)
(* numbers has a least element, every set of subsets of a finite set one   *)
(* that contains no other.                                                 *)

Below == {p \in Nat \X Nat : p[1] < p[2]}

LEMMA Least ==
    ASSUME NEW T \in SUBSET Nat, T # {}
    PROVE  \E n \in T : \A m \in T : n <= m
<1>1. IsWellFoundedOn(Below, Nat)
  BY NatLessThanWellFounded DEF OpToRel, Below
<1>2. PICK n \in T : \A m \in T : <<m, n>> \notin Below
  BY <1>1, WFMin
<1>3. ASSUME NEW m \in T PROVE n <= m
  <2>1. m \in Nat /\ n \in Nat
    OBVIOUS
  <2>2. m < n => <<m, n>> \in Below
    BY <2>1 DEF Below
  <2> QED
    BY <1>2, <2>1, <2>2
<1> QED BY <1>3

\* A set of subsets of a finite set has a member that contains no other.
LEMMA Smallest ==
    ASSUME NEW S, IsFiniteSet(S), NEW C \in SUBSET SUBSET S, C # {}
    PROVE  \E X \in C : \A Y \in C : Y \subseteq X => Y = X
<1>1. IsWellFoundedOn(StrictSubsetOrdering(S), SUBSET S)
  BY FS_FiniteSubsetsOfFinite, FS_StrictSubsetOrderingWellFounded
<1>2. \E X \in C : \A Y \in C : <<Y, X>> \notin StrictSubsetOrdering(S)
  BY <1>1, WFMin
<1> QED BY <1>2 DEF StrictSubsetOrdering

First(T) == CHOOSE x \in T : TRUE

\* What g adds up to for T, if g is right for smaller sets.
Rest(f, g, T) == IF T = {} THEN 0 ELSE f[First(T)] + g[T \ {First(T)}]

Sums(f, g, C) == g = [T \in C |-> Rest(f, g, T)]

LEMMA SumChosen ==
    ASSUME NEW f, NEW S
    PROVE  Cap!Sum(f, S) = (CHOOSE g : Sums(f, g, SUBSET S))[S]
BY DEF Cap!Sum, Sums, Rest, First, Cap!EXT!MapThenSumSet, Cap!EXT!MapThenFoldSet

UpTo(S, n) == {T \in SUBSET S : Cardinality(T) <= n}

LEMMA SumsExist ==
    ASSUME NEW f, NEW S, IsFiniteSet(S)
    PROVE  \E g : Sums(f, g, SUBSET S)
<1> DEFINE Fails == {n \in Nat : ~ \E g : Sums(f, g, UpTo(S, n))}
<1>1. \A T \in SUBSET S : IsFiniteSet(T) /\ Cardinality(T) \in Nat
  BY FS_Subset, FS_CardinalityType
<1>2. 0 \notin Fails
  <2>1. \A T \in UpTo(S, 0) : T = {}
    BY <1>1, FS_EmptySet DEF UpTo
  <2>2. Sums(f, [T \in UpTo(S, 0) |-> 0], UpTo(S, 0))
    BY <2>1 DEF Sums, Rest
  <2> QED BY <2>2
<1>3. ASSUME NEW n \in Nat, n \notin Fails PROVE n + 1 \notin Fails
  <2>1. PICK g : Sums(f, g, UpTo(S, n))
    BY <1>3
  <2> DEFINE h == [T \in UpTo(S, n + 1) |-> Rest(f, g, T)]
  <2>2. ASSUME NEW T \in UpTo(S, n + 1) PROVE h[T] = Rest(f, h, T)
    <3>1. CASE T = {}
      BY <3>1 DEF Rest
    <3>2. CASE T # {}
      <4> DEFINE U == T \ {First(T)}
      <4>1. First(T) \in T
        BY <3>2 DEF First
      <4>2. U \in SUBSET S /\ Cardinality(U) = Cardinality(T) - 1
        BY <1>1, <4>1, FS_RemoveElement DEF UpTo
      <4>3. U \in UpTo(S, n) /\ U \in UpTo(S, n + 1)
        BY <1>1, <4>2 DEF UpTo
      <4>4. g[U] = Rest(f, g, U)
        BY <2>1, <4>3 DEF Sums
      <4>5. h[U] = g[U]
        BY <4>3, <4>4
      <4> QED BY <3>2, <4>5 DEF Rest
    <3> QED BY <3>1, <3>2
  <2>3. Sums(f, h, UpTo(S, n + 1))
    BY <2>2 DEF Sums
  <2> QED BY <2>3
<1>4. Fails = {}
  <2> SUFFICES ASSUME Fails # {} PROVE FALSE
    OBVIOUS
  <2>1. PICK n \in Fails : \A m \in Fails : n <= m
    BY Least
  <2>2. n \in Nat /\ n # 0 /\ n - 1 \in Nat
    BY <1>2
  <2>3. n - 1 \notin Fails
    BY <2>1, <2>2
  <2> QED
    BY <1>3, <2>2, <2>3
<1>5. UpTo(S, Cardinality(S)) = SUBSET S
  BY <1>1, FS_Subset DEF UpTo
<1>6. Cardinality(S) \in Nat /\ Cardinality(S) \notin Fails
  BY <1>1, <1>4
<1>7. \E g : Sums(f, g, UpTo(S, Cardinality(S)))
  BY <1>6
<1> QED
  BY <1>5, <1>7

\* Two ways to add up agree on the sets on which what they add does.
LEMMA SumsAgree ==
    ASSUME NEW f, NEW g, NEW F, NEW G, NEW S, NEW T, NEW U, IsFiniteSet(U),
           Sums(f, F, SUBSET S), Sums(g, G, SUBSET T),
           U \subseteq S, U \subseteq T, \A x \in U : f[x] = g[x]
    PROVE  F[U] = G[U]
<1> DEFINE C == {X \in SUBSET U : F[X] # G[X]}
<1> SUFFICES ASSUME C # {} PROVE FALSE
  OBVIOUS
<1>1. PICK X \in C : \A Y \in C : Y \subseteq X => Y = X
  <2>1. C \in SUBSET SUBSET U
    OBVIOUS
  <2> HIDE DEF C
  <2> QED BY <2>1, Smallest
<1>2. F[X] = Rest(f, F, X) /\ G[X] = Rest(g, G, X)
  BY DEF Sums
<1>3. X # {}
  BY <1>2 DEF Rest
<1>4. First(X) \in X
  BY <1>3 DEF First
<1>5. F[X \ {First(X)}] = G[X \ {First(X)}]
  BY <1>1, <1>4
<1> QED
  BY <1>2, <1>3, <1>4, <1>5 DEF Rest

LEMMA SumIs ==
    ASSUME NEW f, NEW S, IsFiniteSet(S), NEW G, Sums(f, G, SUBSET S),
           NEW T \in SUBSET S
    PROVE  Cap!Sum(f, T) = G[T]
<1>1. IsFiniteSet(T)
  BY FS_Subset
<1> DEFINE H == CHOOSE g : Sums(f, g, SUBSET T)
<1>2. Sums(f, H, SUBSET T)
  BY <1>1, SumsExist
<1>3. Cap!Sum(f, T) = H[T]
  BY SumChosen
<1> HIDE DEF H
<1>4. H[T] = G[T]
  BY <1>1, <1>2, SumsAgree
<1> QED
  BY <1>3, <1>4

LEMMA SumEmpty == \A f : Cap!Sum(f, {}) = 0
<1> TAKE f
<1>1. PICK G : Sums(f, G, SUBSET {})
  BY FS_EmptySet, SumsExist
<1>2. G[{}] = 0
  BY <1>1 DEF Sums, Rest
<1> QED BY <1>1, <1>2, FS_EmptySet, SumIs

LEMMA SumSame ==
    ASSUME NEW S, IsFiniteSet(S), NEW f, NEW g, \A x \in S : f[x] = g[x]
    PROVE  Cap!Sum(f, S) = Cap!Sum(g, S)
<1>1. PICK F : Sums(f, F, SUBSET S)
  BY SumsExist
<1>2. PICK G : Sums(g, G, SUBSET S)
  BY SumsExist
<1> QED BY <1>1, <1>2, SumIs, SumsAgree

LEMMA SumFirst ==
    ASSUME NEW S, IsFiniteSet(S), NEW f, S # {}
    PROVE  First(S) \in S /\ Cap!Sum(f, S) = f[First(S)] + Cap!Sum(f, S \ {First(S)})
<1>1. PICK G : Sums(f, G, SUBSET S)
  BY SumsExist
<1>2. First(S) \in S
  BY DEF First
<1>3. G[S] = f[First(S)] + G[S \ {First(S)}]
  BY <1>1 DEF Sums, Rest
<1> QED BY <1>1, <1>2, <1>3, SumIs

LEMMA SumInt ==
    ASSUME NEW S, IsFiniteSet(S), NEW f, \A x \in S : f[x] \in Int
    PROVE  Cap!Sum(f, S) \in Int
<1> DEFINE C == {X \in SUBSET S : Cap!Sum(f, X) \notin Int}
<1> SUFFICES ASSUME C # {} PROVE FALSE
  OBVIOUS
<1>1. PICK X \in C : \A Y \in C : Y \subseteq X => Y = X
  <2>1. C \in SUBSET SUBSET S
    OBVIOUS
  <2> HIDE DEF C
  <2> QED BY <2>1, Smallest
<1>2. X # {} /\ X \in SUBSET S
  BY SumEmpty
<1>s. IsFiniteSet(X)
  BY <1>2, FS_Subset
<1>3. First(X) \in X /\ Cap!Sum(f, X) = f[First(X)] + Cap!Sum(f, X \ {First(X)})
  BY <1>2, <1>s, SumFirst
<1>4. Cap!Sum(f, X \ {First(X)}) \in Int
  BY <1>1, <1>3
<1> QED BY <1>3, <1>4

LEMMA SumNat ==
    ASSUME NEW S, IsFiniteSet(S), NEW f, \A x \in S : f[x] \in Nat
    PROVE  Cap!Sum(f, S) \in Nat
<1> DEFINE C == {X \in SUBSET S : Cap!Sum(f, X) \notin Nat}
<1> SUFFICES ASSUME C # {} PROVE FALSE
  OBVIOUS
<1>1. PICK X \in C : \A Y \in C : Y \subseteq X => Y = X
  <2>1. C \in SUBSET SUBSET S
    OBVIOUS
  <2> HIDE DEF C
  <2> QED BY <2>1, Smallest
<1>2. X # {} /\ X \in SUBSET S
  BY SumEmpty
<1>s. IsFiniteSet(X)
  BY <1>2, FS_Subset
<1>3. First(X) \in X /\ Cap!Sum(f, X) = f[First(X)] + Cap!Sum(f, X \ {First(X)})
  BY <1>2, <1>s, SumFirst
<1>4. Cap!Sum(f, X \ {First(X)}) \in Nat
  BY <1>1, <1>3
<1> QED BY <1>3, <1>4

LEMMA SumTake ==
    ASSUME NEW S, IsFiniteSet(S), NEW f, \A x \in S : f[x] \in Int, NEW x \in S
    PROVE  Cap!Sum(f, S) = f[x] + Cap!Sum(f, S \ {x})
<1> DEFINE C == {X \in SUBSET S : \E y \in X : Cap!Sum(f, X) # f[y] + Cap!Sum(f, X \ {y})}
<1> SUFFICES ASSUME C # {} PROVE FALSE
  OBVIOUS
<1>1. PICK X \in C : \A Y \in C : Y \subseteq X => Y = X
  <2>1. C \in SUBSET SUBSET S
    OBVIOUS
  <2> HIDE DEF C
  <2> QED BY <2>1, Smallest
<1>2. PICK y \in X : Cap!Sum(f, X) # f[y] + Cap!Sum(f, X \ {y})
  BY <1>1
<1> DEFINE z == First(X)
           R == (X \ {y}) \ {z}
<1>3. IsFiniteSet(X) /\ X # {} /\ X \in SUBSET S
  BY <1>2, FS_Subset
<1>4. z \in X /\ Cap!Sum(f, X) = f[z] + Cap!Sum(f, X \ {z})
  BY <1>3, SumFirst
<1>5. y # z
  BY <1>2, <1>4
<1>6. X \ {z} \notin C /\ X \ {y} \notin C
  BY <1>1, <1>2, <1>4
<1>7. Cap!Sum(f, X \ {z}) = f[y] + Cap!Sum(f, (X \ {z}) \ {y})
  BY <1>2, <1>3, <1>5, <1>6
<1>8. Cap!Sum(f, X \ {y}) = f[z] + Cap!Sum(f, R)
  BY <1>3, <1>4, <1>5, <1>6
<1>9. (X \ {z}) \ {y} = R /\ R \in SUBSET S
  BY <1>3
<1>10. Cap!Sum(f, R) \in Int /\ f[y] \in Int /\ f[z] \in Int
  <2>1. IsFiniteSet(R) /\ \A v \in R : f[v] \in Int
    BY <1>9, FS_Subset
  <2> QED BY <1>2, <1>3, <1>4, <2>1, SumInt
<1>11. Cap!Sum(f, X \ {z}) = f[y] + Cap!Sum(f, R)
  BY <1>7, <1>9
<1>12. Cap!Sum(f, X) = f[z] + (f[y] + Cap!Sum(f, R))
  BY <1>4, <1>11
<1>13. f[y] + Cap!Sum(f, X \ {y}) = f[y] + (f[z] + Cap!Sum(f, R))
  BY <1>8
<1> HIDE DEF z, R, C
<1>14. Cap!Sum(f, X) = f[y] + Cap!Sum(f, X \ {y})
  BY <1>10, <1>12, <1>13
<1> QED
  BY <1>2, <1>14

LEMMA SumAdd ==
    ASSUME NEW S, IsFiniteSet(S), NEW f, \A y \in S : f[y] \in Int,
           NEW x, x \notin S, f[x] \in Int
    PROVE  Cap!Sum(f, S \cup {x}) = f[x] + Cap!Sum(f, S)
<1>1. IsFiniteSet(S \cup {x}) /\ (S \cup {x}) \ {x} = S
  BY FS_AddElement
<1> QED BY <1>1, SumTake

LEMMA SumExcept ==
    ASSUME NEW S, IsFiniteSet(S), NEW f, NEW g, NEW x \in S, NEW n \in Int,
           \A y \in S : f[y] \in Int,
           \A y \in S \ {x} : g[y] = f[y], g[x] = f[x] + n
    PROVE  Cap!Sum(g, S) = Cap!Sum(f, S) + n
<1>1. IsFiniteSet(S \ {x})
  BY FS_RemoveElement
<1>2. Cap!Sum(g, S \ {x}) = Cap!Sum(f, S \ {x})
  BY <1>1, SumSame
<1>3. Cap!Sum(f, S) = f[x] + Cap!Sum(f, S \ {x}) /\ Cap!Sum(g, S) = g[x] + Cap!Sum(g, S \ {x})
  BY SumTake
<1>4. Cap!Sum(f, S \ {x}) \in Int /\ f[x] \in Int
  BY <1>1, SumInt
<1> QED BY <1>2, <1>3, <1>4

-----------------------------------------------------------------------------
(* Type correctness. *)

LEMMA Constants ==
    ASSUME Cap!SpendAssumption
    PROVE  /\ Estimates \subseteq Nat /\ Actuals \subseteq Nat /\ MonthlyCaps \subseteq Nat
           /\ 1 \in Cap!Months /\ Cap!Months \subseteq Int
BY DEF Cap!SpendAssumption, Cap!Months

RequestTypes ==
    /\ pc \in [Spenders -> Cap!Places]
    /\ est \in [Spenders -> Nat]
    /\ limit \in [Spenders -> Nat]
    /\ key \in [Spenders -> Cap!Months]
    /\ made \in [Spenders -> Cap!Months]
    /\ todo \in [Spenders -> SUBSET Thresholds]
    /\ crossed \in [Spenders -> SUBSET Thresholds]

LEMMA ClearTypes ==
    ASSUME Cap!SpendAssumption, Cap!TypeOK, NEW r \in Spenders, Cap!Clear(r)
    PROVE  RequestTypes'
BY Constants DEF Cap!TypeOK, RequestTypes, Cap!Clear, Cap!Places

\* A history that only grows stays a natural number for every month.
LEMMA AddNat ==
    ASSUME NEW f \in [Cap!Months -> Nat], NEW m \in Cap!Months, NEW n \in Nat
    PROVE  Cap!Add(f, m, n) \in [Cap!Months -> Nat]
BY DEF Cap!Add

LEMMA AddInt ==
    ASSUME NEW f \in [Cap!Months -> Int], NEW m \in Cap!Months, NEW n \in Int
    PROVE  Cap!Add(f, m, n) \in [Cap!Months -> Int]
BY DEF Cap!Add

LEMMA ExcessNat ==
    ASSUME NEW a \in Nat, NEW b \in Nat PROVE Cap!Excess(a, b) \in Nat
BY DEF Cap!Excess

LEMMA SpendersFinite == ASSUME Cap!SpendAssumption PROVE IsFiniteSet(Spenders)
BY DEF Cap!SpendAssumption, Cap!IsFiniteSet, IsFiniteSet

LEMMA TypeInit == ASSUME Cap!SpendAssumption PROVE Cap!Init => Cap!TypeOK
BY Constants DEF Cap!SpendAssumption, Cap!Init, Cap!TypeOK, Cap!Places

LEMMA TypeNext ==
    ASSUME Cap!SpendAssumption
    PROVE  Cap!TypeOK /\ [Cap!Next]_(Cap!vars) => Cap!TypeOK'
<1> SUFFICES ASSUME Cap!TypeOK, [Cap!Next]_(Cap!vars) PROVE Cap!TypeOK'
  OBVIOUS
<1>1. ASSUME NEW r \in Spenders, NEW e \in Estimates, NEW c \in {cap} \cup cached,
             Cap!Reserve(r, e, c)
      PROVE  Cap!TypeOK'
  <2>1. c \in Nat /\ e \in Nat /\ e \in Int
    BY Constants DEF Cap!TypeOK
  <2>2. spend' \in [Cap!Months -> Int]
    BY <1>1, <2>1, AddInt DEF Cap!Reserve, Cap!TypeOK
  <2>3. pc' \in [Spenders -> Cap!Places]
    BY <1>1 DEF Cap!Reserve, Cap!TypeOK, Cap!Places
  <2>4. todo' \in [Spenders -> SUBSET Thresholds]
    BY <1>1 DEF Cap!Reserve, Cap!TypeOK, Cap!Reached
  <2>5. /\ est' \in [Spenders -> Nat] /\ limit' \in [Spenders -> Nat]
        /\ key' \in [Spenders -> Cap!Months] /\ made' \in [Spenders -> Cap!Months]
    BY <1>1, <2>1 DEF Cap!Reserve, Cap!TypeOK
  <2> QED
    BY <1>1, <2>2, <2>3, <2>4, <2>5 DEF Cap!Reserve, Cap!TypeOK, Cap!historyVars
<1>2. ASSUME NEW r \in Spenders, Cap!Rollback(r) PROVE Cap!TypeOK'
  <2>1. - est[r] \in Int /\ made[r] \in Cap!Months
    BY DEF Cap!TypeOK
  <2>2. spend' \in [Cap!Months -> Int]
    BY <1>2, <2>1, AddInt DEF Cap!Rollback, Cap!TypeOK
  <2> QED
    BY <1>2, <2>2, ClearTypes DEF Cap!Rollback, Cap!TypeOK, RequestTypes,
       Cap!historyVars
<1>3. ASSUME NEW r \in Spenders, NEW t \in Thresholds, Cap!Notify(r, t) PROVE Cap!TypeOK'
  <2>1. /\ notified' \in [Cap!Months -> SUBSET Thresholds]
        /\ crossed' \in [Spenders -> SUBSET Thresholds]
        /\ todo' \in [Spenders -> SUBSET Thresholds]
    BY <1>3 DEF Cap!Notify, Cap!TypeOK
  <2> QED
    BY <1>3, <2>1 DEF Cap!Notify, Cap!TypeOK, Cap!historyVars
<1>4. ASSUME NEW r \in Spenders, Cap!Dispatch(r) PROVE Cap!TypeOK'
  <2>1. sent' \in [Cap!Months -> SUBSET Thresholds]
    BY <1>4 DEF Cap!Dispatch, Cap!TypeOK
  <2>2. RequestTypes'
    BY <1>4, ClearTypes DEF Cap!Dispatch, Cap!TypeOK, RequestTypes, Cap!Places
  <2> QED
    BY <1>4, <2>1, <2>2 DEF Cap!Dispatch, Cap!TypeOK, RequestTypes
<1>5. ASSUME NEW r \in Spenders, NEW a \in Actuals, Cap!Settle(r, a) PROVE Cap!TypeOK'
  <2>1. /\ a \in Nat /\ est[r] \in Nat /\ a - est[r] \in Int
        /\ made[r] \in Cap!Months /\ month \in Cap!Months
    BY Constants DEF Cap!TypeOK
  <2>2. Cap!Excess(a, est[r]) \in Nat /\ Cap!Excess(est[r], a) \in Nat
    BY <2>1, ExcessNat
  <2>3. spend' \in [Cap!Months -> Int]
    BY <1>5, <2>1, AddInt DEF Cap!Settle, Cap!TypeOK
  <2>4. cost' \in [Cap!Months -> Nat] /\ over' \in [Cap!Months -> Nat]
        /\ misplaced' \in [Cap!Months -> Nat]
    BY <1>5, <2>1, <2>2, AddNat DEF Cap!Settle, Cap!TypeOK
  <2>5. /\ key' \in [Spenders -> Cap!Months] /\ pc' \in [Spenders -> Cap!Places]
        /\ todo' \in [Spenders -> SUBSET Thresholds]
    BY <1>5, <2>1 DEF Cap!Settle, Cap!TypeOK, Cap!Places, Cap!Reached
  <2> QED
    BY <1>5, <2>3, <2>4, <2>5 DEF Cap!Settle, Cap!TypeOK
<1>6. ASSUME NEW r \in Spenders, Cap!Abandon(r) PROVE Cap!TypeOK'
  <2>1. lost' \in [Cap!Months -> Nat]
    BY <1>6, AddNat DEF Cap!Abandon, Cap!TypeOK
  <2> QED
    BY <1>6, <2>1, ClearTypes DEF Cap!Abandon, Cap!TypeOK, RequestTypes
<1>7. ASSUME NEW r \in Spenders, Cap!Die(r) PROVE Cap!TypeOK'
  <2>1. lost' \in [Cap!Months -> Nat]
    BY <1>7, AddNat DEF Cap!Die, Cap!TypeOK
  <2>2. deaths' \in 0 .. MaxDeaths
    BY <1>7 DEF Cap!SpendAssumption, Cap!Die, Cap!TypeOK
  <2> QED
    BY <1>7, <2>1, <2>2, ClearTypes DEF Cap!Die, Cap!TypeOK, RequestTypes
<1>8. ASSUME Cap!SaveCap \/ Cap!CachesExpire PROVE Cap!TypeOK'
  BY <1>8 DEF Cap!SaveCap, Cap!CachesExpire, Cap!TypeOK, Cap!requestVars,
     Cap!historyVars
<1>9. ASSUME Cap!NextMonth PROVE Cap!TypeOK'
  <2>1. month' \in Cap!Months
    BY <1>9 DEF Cap!SpendAssumption, Cap!NextMonth, Cap!TypeOK, Cap!Months
  <2> QED
    BY <1>9, <2>1 DEF Cap!NextMonth, Cap!TypeOK, Cap!requestVars, Cap!historyVars
<1>10. CASE UNCHANGED Cap!vars
  BY <1>10 DEF Cap!vars, Cap!TypeOK, Cap!requestVars, Cap!historyVars
<1> QED
  BY <1>1, <1>2, <1>3, <1>4, <1>5, <1>6, <1>7, <1>8, <1>9, <1>10 DEF Cap!Next, Cap!Step

\* The spend cap is correctly typed (TypeOK of the runs).
THEOREM TypeCorrect == SpendSpec => []Cap!TypeOK
<1>0. Cap!SpendAssumption
  BY SpendingAssumption
<1>1. Cap!Init => Cap!TypeOK
  BY <1>0, TypeInit
<1>2. Cap!TypeOK /\ [Cap!Next]_(Cap!vars) => Cap!TypeOK'
  BY <1>0, TypeNext
<1> QED
  BY <1>1, <1>2, PTL DEF SpendSpec, Cap!Spec

-----------------------------------------------------------------------------
(* Alerts. A threshold is in the SADD set of a month from the moment some  *)
(* request crossed it, and a request holds crossed thresholds only while   *)
(* it is checking them against the month of its last command.              *)

AlertInv ==
    /\ \A r \in Spenders : crossed[r] \subseteq notified[key[r]]
    /\ \A m \in Cap!Months : sent[m] \subseteq notified[m]
    /\ \A r \in Spenders : pc[r] \notin {"notify", "s.notify"} => crossed[r] = {}
    /\ Cap!AlertedOnce

\* What is announced and still to be dispatched in a month.
Pending(m) == UNION {crossed[r] : r \in {q \in Spenders : key[q] = m}}

\* A request with nothing crossed may change its month, or forget it.
LEMMA AlertQuiet ==
    ASSUME Cap!SpendAssumption, Cap!TypeOK, Cap!TypeOK', AlertInv, NEW r \in Spenders,
           UNCHANGED <<notified, sent>>, deaths' = 0 => deaths = 0,
           \A q \in Spenders \ {r} : /\ crossed'[q] = crossed[q] /\ key'[q] = key[q]
                                     /\ pc'[q] = pc[q],
           crossed'[r] = {},
           crossed[r] = {} \/ deaths' # 0
    PROVE  AlertInv'
<1>1. ASSUME deaths' = 0, NEW m \in Cap!Months PROVE Pending(m)' = Pending(m)
  BY <1>1 DEF Pending
<1>2. Cap!AlertedOnce'
  <2>1. (\A q \in Spenders : crossed[q] \cap sent[key[q]] = {})'
    BY DEF AlertInv, Cap!AlertedOnce
  <2>2. (\A p, q \in Spenders : p # q /\ key[p] = key[q]
            => crossed[p] \cap crossed[q] = {})'
    BY DEF AlertInv, Cap!AlertedOnce
  <2>3. (deaths = 0 => \A m \in Cap!Months : notified[m] = sent[m] \cup Pending(m))'
    BY <1>1 DEF AlertInv, Cap!AlertedOnce, Pending
  <2> QED
    BY <2>1, <2>2, <2>3 DEF Cap!AlertedOnce, Pending
<1> QED
  BY <1>2 DEF AlertInv

\* Steps that touch neither the alerts nor the requests.
LEMMA AlertElsewhere ==
    ASSUME Cap!SpendAssumption, AlertInv,
           UNCHANGED <<notified, sent, deaths, pc, key, crossed>>
    PROVE  AlertInv'
BY DEF AlertInv, Cap!AlertedOnce

LEMMA AlertNotify ==
    ASSUME Cap!SpendAssumption, Cap!TypeOK, AlertInv, NEW r \in Spenders,
           NEW t \in Thresholds, Cap!Notify(r, t)
    PROVE  AlertInv'
<1> DEFINE k == key[r]
<1>k. k \in Cap!Months
  BY DEF Cap!TypeOK
<1>1. /\ UNCHANGED <<sent, deaths, pc, key>>
      /\ \A q \in Spenders \ {r} : crossed'[q] = crossed[q]
      /\ crossed'[r] = IF t \in notified[k] THEN crossed[r] ELSE crossed[r] \cup {t}
      /\ \A m \in Cap!Months \ {k} : notified'[m] = notified[m]
      /\ notified'[k] = notified[k] \cup {t}
  BY <1>k DEF Cap!Notify, Cap!TypeOK, Cap!historyVars
<1>2. t \notin notified[k] => t \notin sent[k]
                              /\ \A q \in Spenders : key[q] = k => t \notin crossed[q]
  BY <1>k DEF AlertInv
<1>3. (\A q \in Spenders : crossed[q] \subseteq notified[key[q]])'
  BY <1>1, <1>k DEF AlertInv, Cap!TypeOK
<1>4. (\A m \in Cap!Months : sent[m] \subseteq notified[m])'
  BY <1>1, <1>k DEF AlertInv
<1>5. (\A q \in Spenders : pc[q] \notin {"notify", "s.notify"} => crossed[q] = {})'
  BY <1>1 DEF Cap!Notify, AlertInv
<1>6. (\A q \in Spenders : crossed[q] \cap sent[key[q]] = {})'
  BY <1>1, <1>2 DEF AlertInv, Cap!AlertedOnce
<1>7. (\A p, q \in Spenders : p # q /\ key[p] = key[q] => crossed[p] \cap crossed[q] = {})'
  BY <1>1, <1>2 DEF AlertInv, Cap!AlertedOnce
<1>8. ASSUME deaths = 0, NEW m \in Cap!Months PROVE notified'[m] = sent'[m] \cup Pending(m)'
  <2>1. notified[m] = sent[m] \cup Pending(m)
    BY <1>8 DEF AlertInv, Cap!AlertedOnce, Pending
  <2>2. CASE m # k \/ t \in notified[k]
    <3>1. Pending(m)' = Pending(m)
      BY <1>1, <2>2 DEF Pending
    <3> QED
      BY <1>1, <2>1, <2>2, <3>1
  <2>3. CASE m = k /\ t \notin notified[k]
    <3>1. Pending(m)' = Pending(m) \cup {t}
      BY <1>1, <2>3 DEF Pending
    <3> QED
      BY <1>1, <2>1, <2>3, <3>1
  <2> QED BY <2>2, <2>3
<1> QED
  BY <1>1, <1>3, <1>4, <1>5, <1>6, <1>7, <1>8 DEF AlertInv, Cap!AlertedOnce, Pending

LEMMA AlertDispatch ==
    ASSUME Cap!SpendAssumption, Cap!TypeOK, Cap!TypeOK', AlertInv, NEW r \in Spenders,
           Cap!Dispatch(r)
    PROVE  AlertInv'
<1> DEFINE k == key[r]
<1>k. k \in Cap!Months
  BY DEF Cap!TypeOK
<1>1. /\ UNCHANGED <<notified, deaths>>
      /\ \A q \in Spenders \ {r} : /\ crossed'[q] = crossed[q] /\ key'[q] = key[q]
                                   /\ pc'[q] = pc[q]
      /\ crossed'[r] = {}
      /\ \A m \in Cap!Months \ {k} : sent'[m] = sent[m]
      /\ sent'[k] = sent[k] \cup crossed[r]
  BY <1>k DEF Cap!Dispatch, Cap!Clear, Cap!TypeOK
<1>3. (\A q \in Spenders : crossed[q] \subseteq notified[key[q]])'
  BY <1>1 DEF AlertInv
<1>4. (\A m \in Cap!Months : sent[m] \subseteq notified[m])'
  BY <1>1, <1>k DEF AlertInv
<1>5. (\A q \in Spenders : pc[q] \notin {"notify", "s.notify"} => crossed[q] = {})'
  BY <1>1 DEF AlertInv
<1>6. ASSUME NEW q \in Spenders PROVE crossed'[q] \cap sent'[key'[q]] = {}
  <2>1. CASE q = r
    BY <1>1, <2>1
  <2>2. CASE q # r
    <3>1. crossed'[q] = crossed[q] /\ key'[q] = key[q] /\ key[q] \in Cap!Months
      BY <1>1, <2>2 DEF Cap!TypeOK
    <3>2. crossed[q] \cap sent[key[q]] = {}
      BY DEF AlertInv, Cap!AlertedOnce
    <3>3. key[q] = k => crossed[q] \cap crossed[r] = {}
      BY <2>2 DEF AlertInv, Cap!AlertedOnce
    <3>4. CASE key[q] = k
      BY <1>1, <1>k, <3>1, <3>2, <3>3, <3>4
    <3>5. CASE key[q] # k
      BY <1>1, <3>1, <3>2, <3>5
    <3> QED BY <3>4, <3>5
  <2> QED BY <2>1, <2>2
<1>7. (\A p, q \in Spenders : p # q /\ key[p] = key[q] => crossed[p] \cap crossed[q] = {})'
  BY <1>1 DEF AlertInv, Cap!AlertedOnce
<1>8. ASSUME deaths = 0, NEW m \in Cap!Months PROVE notified'[m] = sent'[m] \cup Pending(m)'
  <2>1. notified[m] = sent[m] \cup Pending(m)
    BY <1>8 DEF AlertInv, Cap!AlertedOnce, Pending
  <2>2. CASE m # k
    <3>1. Pending(m)' = Pending(m)
      BY <1>1, <2>2 DEF Pending
    <3> QED
      BY <1>1, <2>1, <2>2, <3>1
  <2>3. CASE m = k
    <3>1. Pending(m)' \cup crossed[r] = Pending(m)
      BY <1>1, <2>3 DEF Pending
    <3> QED
      BY <1>1, <2>1, <2>3, <3>1
  <2> QED BY <2>2, <2>3
<1> QED
  BY <1>1, <1>3, <1>4, <1>5, <1>6, <1>7, <1>8 DEF AlertInv, Cap!AlertedOnce, Pending

LEMMA AlertInit == ASSUME Cap!SpendAssumption PROVE Cap!Init => AlertInv
<1> SUFFICES ASSUME Cap!Init PROVE AlertInv
  OBVIOUS
<1>1. \A m \in Cap!Months : Pending(m) = {}
  BY DEF Cap!Init, Pending
<1> QED
  BY <1>1, Constants DEF Cap!Init, AlertInv, Cap!AlertedOnce, Pending

LEMMA AlertNext ==
    ASSUME Cap!SpendAssumption
    PROVE  Cap!TypeOK /\ AlertInv /\ [Cap!Next]_(Cap!vars) => AlertInv'
<1> SUFFICES ASSUME Cap!TypeOK, AlertInv, [Cap!Next]_(Cap!vars) PROVE AlertInv'
  OBVIOUS
<1>t. Cap!TypeOK'
  BY TypeNext
<1>1. ASSUME NEW r \in Spenders,
             \/ \E e \in Estimates, c \in {cap} \cup cached : Cap!Reserve(r, e, c)
             \/ Cap!Rollback(r)
             \/ \E a \in Actuals : Cap!Settle(r, a)
             \/ Cap!Abandon(r)
      PROVE  AlertInv'
  <2>1. crossed[r] = {}
    BY <1>1 DEF AlertInv, Cap!Reserve, Cap!Rollback, Cap!Settle, Cap!Abandon
  <2>2. /\ UNCHANGED <<notified, sent, deaths>>
        /\ \A q \in Spenders \ {r} : /\ crossed'[q] = crossed[q] /\ key'[q] = key[q]
                                     /\ pc'[q] = pc[q]
        /\ crossed'[r] = {}
    BY <1>1, <2>1 DEF Cap!Reserve, Cap!Rollback, Cap!Settle, Cap!Abandon, Cap!Clear,
       Cap!TypeOK, Cap!historyVars
  <2> QED
    BY <1>t, <2>1, <2>2, AlertQuiet
<1>2. ASSUME NEW r \in Spenders, Cap!Die(r) PROVE AlertInv'
  <2>1. /\ UNCHANGED <<notified, sent>>
        /\ \A q \in Spenders \ {r} : /\ crossed'[q] = crossed[q] /\ key'[q] = key[q]
                                     /\ pc'[q] = pc[q]
        /\ crossed'[r] = {}
    BY <1>2 DEF Cap!Die, Cap!Clear, Cap!TypeOK
  <2>2. deaths' # 0
    BY <1>2 DEF Cap!Die, Cap!TypeOK
  <2> QED
    BY <1>t, <2>1, <2>2, AlertQuiet
<1>3. ASSUME Cap!SaveCap \/ Cap!CachesExpire \/ Cap!NextMonth \/ UNCHANGED Cap!vars PROVE AlertInv'
  BY <1>3, AlertElsewhere
     DEF Cap!SaveCap, Cap!CachesExpire, Cap!NextMonth, Cap!vars, Cap!requestVars, Cap!historyVars
<1> QED
  BY <1>t, <1>1, <1>2, <1>3, AlertNotify, AlertDispatch DEF Cap!Next, Cap!Step

\* Every alert threshold of every month is crossed by exactly one request and
\* alerted once, whatever the interleaving of requests in however many
\* workers; and none announced is left without its alert unless a request
\* died in between.
THEOREM AlertsGoOutOnce == SpendSpec => []AlertedOnce
<1>0. Cap!SpendAssumption
  BY SpendingAssumption
<1>1. Cap!Init => Cap!TypeOK /\ AlertInv
  BY <1>0, TypeInit, AlertInit
<1>2. Cap!TypeOK /\ AlertInv /\ [Cap!Next]_(Cap!vars) => (Cap!TypeOK /\ AlertInv)'
  BY <1>0, TypeNext, AlertNext
<1>3. AlertInv => AlertedOnce
  BY DEF AlertInv, AlertedOnce
<1> QED
  BY <1>1, <1>2, <1>3, PTL DEF SpendSpec, Cap!Spec

-----------------------------------------------------------------------------
(* What is reserved. A step of request r changes what r has reserved, and  *)
(* of which set r is a member: sums over the others stay.                  *)

Share(f, R, r) == IF r \in R THEN f[r] ELSE 0

LEMMA SumMoves ==
    ASSUME NEW S, IsFiniteSet(S), NEW f, NEW g, NEW r \in S,
           \A q \in S : f[q] \in Nat /\ g[q] \in Nat,
           \A q \in S \ {r} : g[q] = f[q],
           NEW R \in SUBSET S, NEW Q \in SUBSET S, Q \ {r} = R \ {r}
    PROVE  /\ Cap!Sum(f, R) \in Nat /\ Cap!Sum(g, Q) \in Nat
           /\ Cap!Sum(g, Q) - Share(g, Q, r) = Cap!Sum(f, R) - Share(f, R, r)
<1>1. IsFiniteSet(R) /\ IsFiniteSet(Q) /\ IsFiniteSet(R \ {r})
  BY FS_Subset, FS_RemoveElement
<1>2. Cap!Sum(f, R) \in Nat /\ Cap!Sum(g, Q) \in Nat /\ Cap!Sum(f, R \ {r}) \in Nat
  BY <1>1, SumNat
<1>3. Cap!Sum(g, R \ {r}) = Cap!Sum(f, R \ {r})
  BY <1>1, SumSame
<1>4. Cap!Sum(f, R) = Share(f, R, r) + Cap!Sum(f, R \ {r})
  <2>1. CASE r \in R
    BY <1>1, <2>1, SumTake DEF Share
  <2>2. CASE r \notin R
    <3>1. R \ {r} = R
      BY <2>2
    <3> QED BY <1>2, <2>2, <3>1 DEF Share
  <2> QED BY <2>1, <2>2
<1>5. Cap!Sum(g, Q) = Share(g, Q, r) + Cap!Sum(g, R \ {r})
  <2>1. CASE r \in Q
    BY <1>1, <2>1, SumTake DEF Share
  <2>2. CASE r \notin Q
    <3>1. R \ {r} = Q
      BY <2>2
    <3> QED BY <1>2, <2>2, <3>1 DEF Share
  <2> QED BY <2>1, <2>2
<1>6. Share(f, R, r) \in Nat /\ Share(g, Q, r) \in Nat
  BY DEF Share
<1> QED BY <1>2, <1>3, <1>4, <1>5, <1>6

LEMMA SumMore ==
    ASSUME NEW T, IsFiniteSet(T), NEW f, \A x \in T : f[x] \in Nat, NEW S \in SUBSET T
    PROVE  Cap!Sum(f, S) <= Cap!Sum(f, T)
<1> DEFINE C == {X \in SUBSET T : S \subseteq X /\ ~ Cap!Sum(f, S) <= Cap!Sum(f, X)}
<1> SUFFICES ASSUME C # {} PROVE FALSE
  OBVIOUS
<1>1. PICK X \in C : \A Y \in C : Y \subseteq X => Y = X
  <2>1. C \in SUBSET SUBSET T
    OBVIOUS
  <2> HIDE DEF C
  <2> QED BY <2>1, Smallest
<1>2. IsFiniteSet(X) /\ IsFiniteSet(S)
  BY FS_Subset
<1>3. Cap!Sum(f, S) \in Nat /\ Cap!Sum(f, X) \in Nat
  BY <1>2, SumNat
<1>4. PICK x \in X : x \notin S
  BY <1>3
<1>5. X \ {x} \notin C
  BY <1>1, <1>4
<1>6. Cap!Sum(f, S) <= Cap!Sum(f, X \ {x})
  BY <1>4, <1>5
<1>7. IsFiniteSet(X \ {x})
  BY <1>2, FS_RemoveElement
<1>8. Cap!Sum(f, X \ {x}) \in Nat /\ f[x] \in Nat
  BY <1>7, SumNat
<1>9. Cap!Sum(f, X) = f[x] + Cap!Sum(f, X \ {x})
  BY <1>2, SumTake
<1>10. Cap!Sum(f, S) <= Cap!Sum(f, X)
  BY <1>3, <1>6, <1>8, <1>9
<1> QED BY <1>10

\* The step is one of request r.
Alone(r) ==
    \A q \in Spenders \ {r} :
        /\ pc'[q] = pc[q] /\ est'[q] = est[q] /\ made'[q] = made[q]
        /\ key'[q] = key[q] /\ todo'[q] = todo[q] /\ limit'[q] = limit[q]

LEMMA StepAlone == ASSUME Cap!TypeOK, NEW r \in Spenders, Cap!Step(r) PROVE Alone(r)
<1>1. ASSUME NEW e \in Estimates, NEW c \in {cap} \cup cached, Cap!Reserve(r, e, c)
      PROVE  Alone(r)
  BY <1>1 DEF Cap!TypeOK, Cap!Reserve, Alone
<1>2. ASSUME NEW t \in Thresholds, Cap!Notify(r, t) PROVE Alone(r)
  BY <1>2 DEF Cap!TypeOK, Cap!Notify, Alone
<1>3. ASSUME NEW a \in Actuals, Cap!Settle(r, a) PROVE Alone(r)
  BY <1>3 DEF Cap!TypeOK, Cap!Settle, Alone
<1>4. Cap!Rollback(r) \/ Cap!Dispatch(r) \/ Cap!Abandon(r) \/ Cap!Die(r) => Alone(r)
  BY DEF Cap!TypeOK, Cap!Rollback, Cap!Dispatch, Cap!Abandon, Cap!Die, Cap!Clear, Alone
<1> QED
  BY <1>1, <1>2, <1>3, <1>4 DEF Cap!Step

\* How a step of request r changes a sum of reservations.
LEMMA ReservedMoves ==
    ASSUME Cap!SpendAssumption, Cap!TypeOK, Cap!TypeOK', NEW r \in Spenders, Alone(r),
           NEW R \in SUBSET Spenders, NEW Q \in SUBSET Spenders, Q \ {r} = R \ {r}
    PROVE  /\ Cap!Sum(est, R) \in Nat /\ Cap!Sum(est', Q) \in Nat
           /\ Cap!Sum(est', Q) - Share(est', Q, r) = Cap!Sum(est, R) - Share(est, R, r)
<1>1. IsFiniteSet(Spenders)
  BY SpendersFinite
<1>2. \A q \in Spenders : est[q] \in Nat /\ est'[q] \in Nat
  BY DEF Cap!TypeOK
<1>3. \A q \in Spenders \ {r} : est'[q] = est[q]
  BY DEF Alone
<1> QED BY <1>1, <1>2, <1>3, SumMoves

LEMMA MonthsFinite == ASSUME Cap!SpendAssumption PROVE IsFiniteSet(Cap!Months)
BY FS_Interval DEF Cap!SpendAssumption, Cap!Months

\* Adding to one month adds to the total.
LEMMA TotalAdd ==
    ASSUME Cap!SpendAssumption,
           NEW f \in [Cap!Months -> Int], NEW m \in Cap!Months, NEW n \in Int
    PROVE  Cap!Total(f) \in Int /\ Cap!Total(Cap!Add(f, m, n)) = Cap!Total(f) + n
<1>1. Cap!Total(f) \in Int
  BY MonthsFinite, SumInt DEF Cap!Total
<1>2. /\ Cap!Add(f, m, n)[m] = f[m] + n
      /\ \A k \in Cap!Months \ {m} : Cap!Add(f, m, n)[k] = f[k]
  BY DEF Cap!Add
<1>3. Cap!Sum(Cap!Add(f, m, n), Cap!Months) = Cap!Sum(f, Cap!Months) + n
  <2>1. PICK S : S = Cap!Months
    OBVIOUS
  <2>2. PICK g : g = Cap!Add(f, m, n)
    OBVIOUS
  <2>3. IsFiniteSet(S) /\ m \in S /\ \A k \in S : f[k] \in Int
    BY <2>1, MonthsFinite
  <2>4. g[m] = f[m] + n /\ \A k \in S \ {m} : g[k] = f[k]
    BY <1>2, <2>1, <2>2
  <2>5. Cap!Sum(g, S) = Cap!Sum(f, S) + n
    BY <2>3, <2>4, SumExcept
  <2> QED BY <2>1, <2>2, <2>5
<1> QED BY <1>1, <1>3 DEF Cap!Total

-----------------------------------------------------------------------------
(* Conservation. *)

Holders == {r \in Spenders : pc[r] \in Cap!Counted}

LEMMA ConservedInit == ASSUME Cap!SpendAssumption PROVE Cap!Init => Cap!SpendConserved
<1> SUFFICES ASSUME Cap!Init PROVE Cap!SpendConserved
  OBVIOUS
<1>1. Holders = {}
  BY DEF Cap!Init, Holders, Cap!Counted
<1>2. Cap!Reserved(Holders) = 0
  BY <1>1, SumEmpty DEF Cap!Reserved
<1> DEFINE zero == [m \in Cap!Months |-> 0]
<1>3. spend = zero /\ cost = zero /\ lost = zero
  BY DEF Cap!Init
<1>5. Cap!Total(zero) = 0
  <2> DEFINE C == {X \in SUBSET Cap!Months : Cap!Sum(zero, X) # 0}
  <2> SUFFICES ASSUME C # {} PROVE FALSE
    BY DEF Cap!Total
  <2>2. PICK X \in C : \A Y \in C : Y \subseteq X => Y = X
    <3>1. C \in SUBSET SUBSET Cap!Months
      OBVIOUS
    <3> HIDE DEF C
    <3> QED BY <3>1, MonthsFinite, Smallest
  <2>3. X # {} /\ X \in SUBSET Cap!Months
    BY SumEmpty
  <2>4. IsFiniteSet(X)
    BY <2>3, MonthsFinite, FS_Subset
  <2>5. First(X) \in X /\ Cap!Sum(zero, X) = zero[First(X)] + Cap!Sum(zero, X \ {First(X)})
    BY <2>3, <2>4, SumFirst
  <2>6. Cap!Sum(zero, X \ {First(X)}) = 0
    BY <2>2, <2>5
  <2> QED BY <2>3, <2>5, <2>6
<1> QED
  BY <1>2, <1>3, <1>5 DEF Cap!SpendConserved, Holders

LEMMA ConservedNext ==
    ASSUME Cap!SpendAssumption, Cap!TypeOK, Cap!TypeOK', Cap!SpendConserved,
           [Cap!Next]_(Cap!vars)
    PROVE  Cap!SpendConserved'
<1> DEFINE R == Holders
           Q == Holders'
<1>t. /\ Cap!Total(spend) \in Int /\ Cap!Total(cost) \in Int /\ Cap!Total(lost) \in Int
      /\ month \in Cap!Months /\ spend \in [Cap!Months -> Int]
      /\ cost \in [Cap!Months -> Int] /\ lost \in [Cap!Months -> Int]
  BY MonthsFinite, SumInt DEF Cap!TypeOK, Cap!Total
<1>s. Cap!Total(spend) = Cap!Total(cost) + Cap!Total(lost) + Cap!Sum(est, R)
  BY DEF Cap!SpendConserved, Cap!Reserved, Holders
<1>g. SUFFICES Cap!Total(spend') = Cap!Total(cost') + Cap!Total(lost') + Cap!Sum(est', Q)
  BY DEF Cap!SpendConserved, Cap!Reserved, Holders, Cap!Total
<1>1. ASSUME NEW r \in Spenders, Cap!Step(r)
      PROVE  Cap!Total(spend') = Cap!Total(cost') + Cap!Total(lost') + Cap!Sum(est', Q)
  <2> DEFINE old == Share(est, R, r)
             new == Share(est', Q, r)
  <2>a. Alone(r)
    BY <1>1, StepAlone
  <2>b. Q \ {r} = R \ {r}
    BY <2>a DEF Alone, Holders
  <2>c. R \in SUBSET Spenders /\ Q \in SUBSET Spenders
    BY DEF Holders
  <2>d. /\ Cap!Sum(est, R) \in Nat /\ Cap!Sum(est', Q) \in Nat
        /\ Cap!Sum(est', Q) - new = Cap!Sum(est, R) - old
    BY <2>a, <2>b, <2>c, ReservedMoves
  <2>e. /\ r \in R <=> pc[r] \in Cap!Counted
        /\ r \in Q <=> pc'[r] \in Cap!Counted
    BY DEF Holders
  <2>f. est[r] \in Nat /\ est'[r] \in Nat /\ made[r] \in Cap!Months
    BY DEF Cap!TypeOK
  <2>g. old \in Nat /\ new \in Nat
    BY <2>f DEF Share
  <2> SUFFICES Cap!Total(spend') - new = Cap!Total(cost') + Cap!Total(lost') + Cap!Sum(est, R) - old
    <3>1. Cap!Total(spend') \in Int /\ Cap!Total(cost') \in Int /\ Cap!Total(lost') \in Int
      BY MonthsFinite, SumInt DEF Cap!TypeOK, Cap!Total
    <3> HIDE DEF R, Q, old, new
    <3> QED BY <2>d, <2>g, <3>1
  <2> HIDE DEF R, Q
  <2>1. ASSUME NEW e \in Estimates, NEW c \in {cap} \cup cached, Cap!Reserve(r, e, c)
        PROVE  Cap!Total(spend') - new = Cap!Total(cost') + Cap!Total(lost') + Cap!Sum(est, R) - old
    <3>1. e \in Int
      BY Constants
    <3>2. Cap!Total(spend') = Cap!Total(spend) + e
      BY <1>t, <2>1, <3>1, TotalAdd DEF Cap!Reserve
    <3>3. UNCHANGED <<cost, lost>> /\ pc[r] = "idle" /\ est'[r] = e /\ pc'[r] \in Cap!Counted
      BY <2>1 DEF Cap!Reserve, Cap!historyVars, Cap!TypeOK, Cap!Counted
    <3>4. old = 0 /\ new = e
      BY <2>e, <3>3 DEF Share, Cap!Counted
    <3> QED
      BY <1>t, <1>s, <2>d, <3>1, <3>2, <3>3, <3>4
  <2>2. ASSUME Cap!Rollback(r)
        PROVE  Cap!Total(spend') - new = Cap!Total(cost') + Cap!Total(lost') + Cap!Sum(est, R) - old
    <3>1. - est[r] \in Int
      BY <2>f
    <3>2. Cap!Total(spend') = Cap!Total(spend) + (- est[r])
      BY <1>t, <2>2, <2>f, <3>1, TotalAdd DEF Cap!Rollback
    <3>3. UNCHANGED <<cost, lost>> /\ pc[r] = "rollback" /\ pc'[r] = "idle"
      BY <2>2 DEF Cap!Rollback, Cap!Clear, Cap!historyVars, Cap!TypeOK
    <3>4. old = est[r] /\ new = 0
      BY <2>e, <3>3 DEF Share, Cap!Counted
    <3> QED
      BY <1>t, <1>s, <2>d, <2>f, <3>2, <3>3, <3>4
  <2>3. ASSUME (\E t \in Thresholds : Cap!Notify(r, t)) \/ Cap!Dispatch(r)
        PROVE  Cap!Total(spend') - new = Cap!Total(cost') + Cap!Total(lost') + Cap!Sum(est, R) - old
    <3>1. /\ UNCHANGED <<spend, cost, lost>>
          /\ pc'[r] \in Cap!Counted <=> pc[r] \in Cap!Counted
          /\ pc'[r] \in Cap!Counted => est'[r] = est[r]
      BY <2>3 DEF Cap!Notify, Cap!Dispatch, Cap!Clear, Cap!historyVars, Cap!TypeOK,
         Cap!Counted
    <3>2. old = new
      BY <2>e, <3>1 DEF Share
    <3> QED
      BY <1>t, <1>s, <2>d, <2>g, <3>1, <3>2
  <2>4. ASSUME NEW a \in Actuals, Cap!Settle(r, a)
        PROVE  Cap!Total(spend') - new = Cap!Total(cost') + Cap!Total(lost') + Cap!Sum(est, R) - old
    <3>1. a \in Int /\ a - est[r] \in Int
      BY <2>f, Constants
    <3>2. Cap!Total(spend') = Cap!Total(spend) + (a - est[r])
      BY <1>t, <2>4, <3>1, TotalAdd DEF Cap!Settle
    <3>3. Cap!Total(cost') = Cap!Total(cost) + a
      BY <1>t, <2>4, <2>f, <3>1, TotalAdd DEF Cap!Settle
    <3>4. UNCHANGED lost /\ pc[r] = "held" /\ pc'[r] = "s.notify"
      BY <2>4 DEF Cap!Settle, Cap!TypeOK
    <3>5. old = est[r] /\ new = 0
      BY <2>e, <3>4 DEF Share, Cap!Counted
    <3> QED
      BY <1>t, <1>s, <2>d, <2>f, <3>1, <3>2, <3>3, <3>4, <3>5
  <2>5. ASSUME Cap!Abandon(r) \/ Cap!Die(r)
        PROVE  Cap!Total(spend') - new = Cap!Total(cost') + Cap!Total(lost') + Cap!Sum(est, R) - old
    <3>1. UNCHANGED <<spend, cost>> /\ pc'[r] = "idle"
      BY <2>5 DEF Cap!Abandon, Cap!Die, Cap!Clear, Cap!TypeOK
    <3>2. new = 0
      BY <2>e, <3>1 DEF Share, Cap!Counted
    <3>3. Cap!Total(lost') = Cap!Total(lost) + old
      <4>1. CASE pc[r] \in Cap!Counted
        <5>1. old = est[r] /\ lost' = Cap!Add(lost, made[r], est[r])
          BY <2>5, <2>e, <4>1 DEF Cap!Abandon, Cap!Die, Share
        <5>2. est[r] \in Int
          BY <2>f
        <5> QED BY <1>t, <2>f, <5>1, <5>2, TotalAdd
      <4>2. CASE pc[r] \notin Cap!Counted
        <5>1. old = 0 /\ lost' = lost
          BY <2>5, <2>e, <4>2 DEF Cap!Abandon, Cap!Die, Share, Cap!Counted
        <5> QED BY <1>t, <5>1
      <4> QED BY <4>1, <4>2
    <3> QED
      BY <1>t, <1>s, <2>d, <2>g, <3>1, <3>2, <3>3
  <2> QED
    BY <1>1, <2>1, <2>2, <2>3, <2>4, <2>5 DEF Cap!Step
<1>2. ASSUME Cap!SaveCap \/ Cap!CachesExpire \/ Cap!NextMonth \/ UNCHANGED Cap!vars
      PROVE  Cap!Total(spend') = Cap!Total(cost') + Cap!Total(lost') + Cap!Sum(est', Q)
  <2>1. UNCHANGED <<spend, cost, lost, est, pc>>
    BY <1>2 DEF Cap!SaveCap, Cap!CachesExpire, Cap!NextMonth, Cap!vars, Cap!requestVars,
       Cap!historyVars
  <2>2. Q = R
    BY <2>1 DEF Holders
  <2> QED BY <1>s, <2>1, <2>2
<1> QED
  BY <1>1, <1>2 DEF Cap!Next

\* However reservations, rollbacks and settlements interleave or stop half-way,
\* the counters hold what is reserved, what was spent and what nobody will
\* settle, to the micro-dollar (reserve and settle of budget.py).
THEOREM SpendIsConserved == SpendSpec => []SpendConserved
<1>0. Cap!SpendAssumption
  BY SpendingAssumption
<1>1. Cap!TypeOK /\ Cap!SpendConserved /\ [Cap!Next]_(Cap!vars) => (Cap!TypeOK /\ Cap!SpendConserved)'
  BY <1>0, TypeNext, ConservedNext
<1>2. Cap!SpendConserved => SpendConserved
  BY DEF SpendConserved
<1>9. Cap!Init => Cap!TypeOK /\ Cap!SpendConserved
  BY <1>0, TypeInit, ConservedInit
<1> QED
  BY <1>1, <1>2, <1>9, PTL DEF SpendSpec, Cap!Spec

-----------------------------------------------------------------------------
(* The cap. What a month's counter shows falls short of what the month is  *)
(* committed to by no more than what requests cost above their estimates   *)
(* and what they gave back to it of another month's reservation.           *)

At(places, m) == {r \in Spenders : pc[r] \in places /\ made[r] = m}

\* Admitted, and admitted or about to be undone.
Admitted == {"notify", "held"}

Covers(m) ==
    cost[m] + lost[m] + Cap!Reserved(At(Cap!Counted, m)) <= spend[m] + over[m] + misplaced[m]

CapInv == (\A m \in Cap!Months : Covers(m)) /\ Cap!CapHolds

LEMMA CommittedIs ==
    \A m \in Cap!Months : /\ Cap!Committed(m) = cost[m] + Cap!Sum(est, At(Admitted, m))
                          /\ Cap!Committed(m)' = cost'[m] + Cap!Sum(est', At(Admitted, m)')
BY DEF Cap!Committed, Cap!Reserved, At, Admitted

\* How a step of request r changes what is reserved in a month at some places.
LEMMA AtMoves ==
    ASSUME Cap!SpendAssumption, Cap!TypeOK, Cap!TypeOK', NEW r \in Spenders, Alone(r),
           NEW P, NEW m \in Cap!Months
    PROVE  /\ Cap!Sum(est, At(P, m)) \in Nat /\ Cap!Sum(est', At(P, m)') \in Nat
           /\ Cap!Sum(est', At(P, m)')
                - (IF pc'[r] \in P /\ made'[r] = m THEN est'[r] ELSE 0)
              = Cap!Sum(est, At(P, m))
                - (IF pc[r] \in P /\ made[r] = m THEN est[r] ELSE 0)
<1> DEFINE R == At(P, m)
           Q == At(P, m)'
<1>1. Q \ {r} = R \ {r}
  BY DEF Alone, At
<1>2. R \in SUBSET Spenders /\ Q \in SUBSET Spenders
  BY DEF At
<1>3. /\ Share(est, R, r) = IF pc[r] \in P /\ made[r] = m THEN est[r] ELSE 0
      /\ Share(est', Q, r) = IF pc'[r] \in P /\ made'[r] = m THEN est'[r] ELSE 0
  BY DEF Share, At
<1> HIDE DEF R, Q
<1>4. /\ Cap!Sum(est, R) \in Nat /\ Cap!Sum(est', Q) \in Nat
      /\ Cap!Sum(est', Q) - Share(est', Q, r) = Cap!Sum(est, R) - Share(est, R, r)
  BY <1>1, <1>2, ReservedMoves
<1>5. /\ Cap!Sum(est, R) \in Nat /\ Cap!Sum(est', Q) \in Nat
      /\ Cap!Sum(est', Q) - (IF pc'[r] \in P /\ made'[r] = m THEN est'[r] ELSE 0)
         = Cap!Sum(est, R) - (IF pc[r] \in P /\ made[r] = m THEN est[r] ELSE 0)
  BY <1>3, <1>4
<1> QED BY <1>5 DEF R, Q

LEMMA NothingAt ==
    ASSUME Cap!Init, NEW P, "idle" \notin P, NEW m PROVE Cap!Sum(est, At(P, m)) = 0
<1>1. At(P, m) = {}
  BY DEF Cap!Init, At
<1> QED BY <1>1, SumEmpty

LEMMA CapInit == ASSUME Cap!SpendAssumption PROVE Cap!Init => CapInv
<1> SUFFICES ASSUME Cap!Init PROVE CapInv
  OBVIOUS
<1>1. ASSUME NEW m \in Cap!Months PROVE Covers(m) /\ Cap!Committed(m) = 0
  <2>1. Cap!Sum(est, At(Cap!Counted, m)) = 0 /\ Cap!Sum(est, At(Admitted, m)) = 0
    BY NothingAt DEF Cap!Counted, Admitted
  <2>2. Cap!Committed(m) = cost[m] + Cap!Sum(est, At(Admitted, m))
    BY CommittedIs
  <2> QED BY <2>1, <2>2 DEF Cap!Init, Covers, Cap!Reserved
<1>2. Cap!CapHolds
  <2>1. cap \in MonthlyCaps /\ cap \in Nat
    BY Constants DEF Cap!Init
  <2>2. \A m \in Cap!Months : over[m] = 0 /\ misplaced[m] = 0
    BY DEF Cap!Init
  <2> QED BY <1>1, <2>1, <2>2 DEF Cap!CapHolds
<1> QED BY <1>1, <1>2 DEF CapInv

\* Nothing a step does to a month but a reservation commits it further than
\* what is put to the account of its excesses and of what is misplaced.
LEMMA CapKept ==
    ASSUME Cap!SpendAssumption, Cap!CapHolds,
           \A m \in Cap!Months : /\ over[m] \in Nat /\ over'[m] \in Nat
                                 /\ misplaced[m] \in Nat /\ misplaced'[m] \in Nat
                                 /\ Cap!Committed(m) \in Nat /\ Cap!Committed(m)' \in Nat,
           \A m \in Cap!Months : Cap!Committed(m)' - over'[m] - misplaced'[m]
                             <= Cap!Committed(m) - over[m] - misplaced[m]
    PROVE  Cap!CapHolds'
<1>1. PICK c \in MonthlyCaps : \A m \in Cap!Months : Cap!Committed(m) <= c + over[m] + misplaced[m]
  BY DEF Cap!CapHolds
<1>2. c \in Nat
  BY Constants
<1>3. ASSUME NEW m \in Cap!Months PROVE Cap!Committed(m)' <= c + over'[m] + misplaced'[m]
  <2>1. Cap!Committed(m) <= c + over[m] + misplaced[m]
    BY <1>1
  <2> QED BY <1>2, <2>1
<1> QED BY <1>3 DEF Cap!CapHolds

LEMMA CapNext ==
    ASSUME Cap!SpendAssumption, Cap!TypeOK, Cap!TypeOK', CapInv, [Cap!Next]_(Cap!vars)
    PROVE  CapInv'
<1> DEFINE before(P, m) == Cap!Sum(est, At(P, m))
           after(P, m)  == Cap!Sum(est', At(P, m)')
<1>m. ASSUME NEW m \in Cap!Months
      PROVE  /\ spend[m] \in Int /\ cost[m] \in Nat /\ lost[m] \in Nat /\ over[m] \in Nat
             /\ misplaced[m] \in Nat
             /\ spend'[m] \in Int /\ cost'[m] \in Nat /\ lost'[m] \in Nat
             /\ over'[m] \in Nat /\ misplaced'[m] \in Nat
  BY DEF Cap!TypeOK
<1>c. ASSUME NEW m \in Cap!Months
      PROVE  /\ Cap!Committed(m) = cost[m] + before(Admitted, m)
             /\ Cap!Committed(m)' = cost'[m] + after(Admitted, m)
             /\ cost[m] + lost[m] + before(Cap!Counted, m) <= spend[m] + over[m] + misplaced[m]
  BY CommittedIs DEF CapInv, Covers, Cap!Reserved
<1>v. ASSUME NEW m \in Cap!Months,
             cost'[m] + lost'[m] + after(Cap!Counted, m) <= spend'[m] + over'[m] + misplaced'[m]
      PROVE  Covers(m)'
  BY <1>v DEF Covers, Cap!Reserved
<1>1. ASSUME NEW r \in Spenders, Cap!Step(r) PROVE CapInv'
  <2>a. Alone(r)
    BY <1>1, StepAlone
  <2>f. /\ est[r] \in Nat /\ est'[r] \in Nat /\ made[r] \in Cap!Months /\ made'[r] \in Cap!Months
        /\ month \in Cap!Months
    BY DEF Cap!TypeOK
  <2>b. ASSUME NEW P, NEW m \in Cap!Months
        PROVE  /\ before(P, m) \in Nat /\ after(P, m) \in Nat
               /\ after(P, m) - (IF pc'[r] \in P /\ made'[r] = m THEN est'[r] ELSE 0)
                  = before(P, m) - (IF pc[r] \in P /\ made[r] = m THEN est[r] ELSE 0)
    BY <2>a, AtMoves
  <2>n. ASSUME NEW m \in Cap!Months PROVE Cap!Committed(m) \in Nat /\ Cap!Committed(m)' \in Nat
    BY <1>c, <1>m, <2>b
  <2>w. ASSUME NEW m \in Cap!Months PROVE after(Admitted, m) <= after(Cap!Counted, m)
    <3>1. /\ At(Admitted, m)' \in SUBSET (At(Cap!Counted, m)')
          /\ At(Cap!Counted, m)' \in SUBSET Spenders
      BY DEF At, Admitted, Cap!Counted
    <3>2. IsFiniteSet(At(Cap!Counted, m)')
      BY <3>1, SpendersFinite, FS_Subset
    <3>3. \A x \in At(Cap!Counted, m)' : est'[x] \in Nat
      BY <3>1 DEF Cap!TypeOK
    <3> QED BY <3>1, <3>2, <3>3, SumMore
  <2> HIDE DEF before, after
  <2>1. ASSUME NEW e \in Estimates, NEW c \in {cap} \cup cached, Cap!Reserve(r, e, c)
        PROVE  CapInv'
    <3>1. /\ e \in Nat /\ c \in MonthlyCaps /\ c \in Nat
      BY Constants DEF Cap!TypeOK
    <3>2. /\ UNCHANGED <<cost, lost, over, misplaced>>
          /\ pc[r] = "idle" /\ est'[r] = e /\ made'[r] = month
          /\ spend'[month] = spend[month] + e
          /\ \A m \in Cap!Months \ {month} : spend'[m] = spend[m]
          /\ pc'[r] = IF spend'[month] > c THEN "rollback" ELSE "notify"
      BY <2>1, <2>f DEF Cap!Reserve, Cap!historyVars, Cap!TypeOK, Cap!Add
    <3>3. ASSUME NEW m \in Cap!Months
          PROVE  cost'[m] + lost'[m] + after(Cap!Counted, m)
                 <= spend'[m] + over'[m] + misplaced'[m]
      <4>1. after(Cap!Counted, m) = before(Cap!Counted, m) + (IF m = month THEN e ELSE 0)
        BY <2>b, <3>1, <3>2 DEF Cap!Counted
      <4> QED BY <1>m, <1>c, <2>b, <3>1, <3>2, <4>1
    <3>4. Cap!CapHolds'
      <4>1. PICK d \in MonthlyCaps : \A m \in Cap!Months : Cap!Committed(m) <= d + over[m] + misplaced[m]
        BY DEF CapInv, Cap!CapHolds
      <4>2. d \in Nat
        BY Constants
      <4>3. ASSUME NEW m \in Cap!Months, m # month \/ spend'[month] > c
            PROVE  Cap!Committed(m)' <= d + over'[m] + misplaced'[m]
        <5>1. after(Admitted, m) = before(Admitted, m)
          BY <2>b, <3>1, <3>2, <4>3 DEF Admitted
        <5> QED BY <1>c, <3>2, <4>1, <5>1
      <4>4. CASE spend'[month] > c
        BY <4>1, <4>3, <4>4 DEF Cap!CapHolds
      <4>5. CASE ~ spend'[month] > c
        <5>1. ASSUME NEW m \in Cap!Months, m = month
              PROVE  Cap!Committed(m)' <= c + over'[m] + misplaced'[m]
          <6>1. /\ Cap!Committed(m)' = cost'[m] + after(Admitted, m)
                /\ after(Admitted, m) <= after(Cap!Counted, m)
                /\ after(Admitted, m) \in Nat /\ after(Cap!Counted, m) \in Nat
            BY <1>c, <2>b, <2>f, <2>w
          <6>2. cost'[m] + lost'[m] + after(Cap!Counted, m)
                <= spend'[m] + over'[m] + misplaced'[m]
            BY <2>f, <3>3
          <6>3. /\ spend'[m] \in Int /\ cost'[m] \in Nat /\ lost'[m] \in Nat
                /\ over'[m] \in Nat /\ misplaced'[m] \in Nat
            BY <1>m, <2>f
          <6>4. spend'[m] <= c
            BY <3>1, <3>2, <4>5, <5>1, <6>3
          <6> QED BY <3>1, <6>1, <6>2, <6>3, <6>4
        <5> DEFINE b == IF c > d THEN c ELSE d
        <5>2. b \in MonthlyCaps /\ b \in Nat /\ c <= b /\ d <= b
          BY <3>1, <4>2
        <5>3. ASSUME NEW m \in Cap!Months PROVE Cap!Committed(m)' <= b + over'[m] + misplaced'[m]
          <6>1. /\ Cap!Committed(m)' \in Nat
                /\ over'[m] \in Nat /\ misplaced'[m] \in Nat
            BY <1>m, <2>n
          <6>2. \/ Cap!Committed(m)' <= c + over'[m] + misplaced'[m]
                \/ Cap!Committed(m)' <= d + over'[m] + misplaced'[m]
            BY <4>3, <5>1
          <6> HIDE DEF b
          <6> QED BY <3>1, <4>2, <5>2, <6>1, <6>2
        <5> HIDE DEF b
        <5> QED BY <5>2, <5>3 DEF Cap!CapHolds
      <4> QED BY <4>4, <4>5
    <3> QED BY <1>v, <3>3, <3>4 DEF CapInv
  <2>2. ASSUME Cap!Rollback(r) PROVE CapInv'
    <3>1. /\ UNCHANGED <<cost, lost, over, misplaced>>
          /\ pc[r] = "rollback" /\ pc'[r] = "idle"
          /\ spend'[made[r]] = spend[made[r]] - est[r]
          /\ \A m \in Cap!Months \ {made[r]} : spend'[m] = spend[m]
      BY <2>2, <2>f DEF Cap!Rollback, Cap!Clear, Cap!historyVars, Cap!TypeOK, Cap!Add
    <3>2. ASSUME NEW m \in Cap!Months
          PROVE  /\ after(Cap!Counted, m)
                    = before(Cap!Counted, m) - (IF m = made[r] THEN est[r] ELSE 0)
                 /\ after(Admitted, m) = before(Admitted, m)
      BY <2>b, <2>f, <3>1 DEF Cap!Counted, Admitted
    <3>3. \A m \in Cap!Months : Covers(m)'
      BY <1>m, <1>c, <1>v, <2>b, <2>f, <3>1, <3>2
    <3>4. Cap!CapHolds'
      BY <1>m, <1>c, <2>n, <3>1, <3>2, CapKept DEF CapInv
    <3> QED BY <3>3, <3>4 DEF CapInv
  <2>3. ASSUME (\E t \in Thresholds : Cap!Notify(r, t)) \/ Cap!Dispatch(r) PROVE CapInv'
    <3>1. /\ UNCHANGED <<spend, cost, lost, over, misplaced>>
          /\ pc'[r] \in Cap!Counted <=> pc[r] \in Cap!Counted
          /\ pc'[r] \in Admitted <=> pc[r] \in Admitted
          /\ pc'[r] \in Cap!Counted => est'[r] = est[r] /\ made'[r] = made[r]
          /\ pc'[r] \in Admitted => pc'[r] \in Cap!Counted
      BY <2>3 DEF Cap!Notify, Cap!Dispatch, Cap!Clear, Cap!historyVars, Cap!TypeOK,
         Cap!Counted, Admitted
    <3>2. ASSUME NEW m \in Cap!Months
          PROVE  /\ after(Cap!Counted, m) = before(Cap!Counted, m)
                 /\ after(Admitted, m) = before(Admitted, m)
      BY <2>b, <2>f, <3>1
    <3>3. \A m \in Cap!Months : Covers(m)'
      BY <1>m, <1>c, <1>v, <2>b, <2>f, <3>1, <3>2
    <3>4. Cap!CapHolds'
      BY <1>m, <1>c, <2>n, <3>1, <3>2, CapKept DEF CapInv
    <3> QED BY <3>3, <3>4 DEF CapInv
  <2>4. ASSUME NEW a \in Actuals, Cap!Settle(r, a) PROVE CapInv'
    <3> DEFINE k == made[r]
    <3>1. a \in Nat /\ a - est[r] \in Int
      <4>1. a \in Nat
        BY Constants
      <4> QED BY <2>f, <4>1
    <3>2. /\ UNCHANGED lost
          /\ pc[r] = "held" /\ pc'[r] = "s.notify"
          /\ spend'[month] = spend[month] + (a - est[r])
          /\ \A m \in Cap!Months \ {month} : spend'[m] = spend[m]
          /\ cost'[k] = cost[k] + a
          /\ \A m \in Cap!Months \ {k} : cost'[m] = cost[m]
          /\ over'[k] = over[k] + Cap!Excess(a, est[r])
          /\ \A m \in Cap!Months \ {k} : over'[m] = over[m]
      <4>1. /\ UNCHANGED lost
            /\ pc[r] = "held" /\ pc'[r] = "s.notify"
            /\ spend'[month] = spend[month] + (a - est[r])
            /\ \A m \in Cap!Months \ {month} : spend'[m] = spend[m]
        BY <2>4, <2>f DEF Cap!Settle, Cap!TypeOK, Cap!Add
      <4>2. /\ cost'[k] = cost[k] + a
            /\ \A m \in Cap!Months \ {k} : cost'[m] = cost[m]
        BY <2>4, <2>f DEF Cap!Settle, Cap!TypeOK, Cap!Add
      <4>3. /\ over'[k] = over[k] + Cap!Excess(a, est[r])
            /\ \A m \in Cap!Months \ {k} : over'[m] = over[m]
        BY <2>4, <2>f DEF Cap!Settle, Cap!TypeOK, Cap!Add
      <4> QED BY <4>1, <4>2, <4>3
    <3>3. /\ month # k => misplaced'[month] = misplaced[month] + Cap!Excess(est[r], a)
          /\ \A m \in Cap!Months : m # month \/ month = k => misplaced'[m] = misplaced[m]
      BY <2>4, <2>f DEF Cap!Settle, Cap!TypeOK, Cap!Add
    <3>4. /\ Cap!Excess(a, est[r]) \in Nat /\ Cap!Excess(est[r], a) \in Nat
          /\ a - est[r] <= Cap!Excess(a, est[r]) /\ est[r] - a <= Cap!Excess(est[r], a)
      BY <2>f, <3>1 DEF Cap!Excess
    <3>5. ASSUME NEW m \in Cap!Months
          PROVE  /\ after(Cap!Counted, m) = before(Cap!Counted, m) - (IF m = k THEN est[r] ELSE 0)
                 /\ after(Admitted, m) = before(Admitted, m) - (IF m = k THEN est[r] ELSE 0)
      BY <2>b, <2>f, <3>2 DEF Cap!Counted, Admitted
    <3>6. ASSUME NEW m \in Cap!Months
          PROVE  /\ cost'[m] + lost'[m] + after(Cap!Counted, m)
                    <= spend'[m] + over'[m] + misplaced'[m]
                 /\ Cap!Committed(m)' - over'[m] - misplaced'[m]
                    <= Cap!Committed(m) - over[m] - misplaced[m]
      <4>1. CASE m = k /\ m = month
        BY <1>m, <1>c, <2>b, <2>f, <3>1, <3>2, <3>3, <3>4, <3>5, <4>1
      <4>2. CASE m = k /\ m # month
        BY <1>m, <1>c, <2>b, <2>f, <3>1, <3>2, <3>3, <3>4, <3>5, <4>2
      <4>3. CASE m # k /\ m = month
        BY <1>m, <1>c, <2>b, <2>f, <3>1, <3>2, <3>3, <3>4, <3>5, <4>3
      <4>4. CASE m # k /\ m # month
        BY <1>m, <1>c, <2>b, <2>f, <3>1, <3>2, <3>3, <3>4, <3>5, <4>4
      <4> QED BY <4>1, <4>2, <4>3, <4>4
    <3>7. Cap!CapHolds'
      BY <1>m, <2>n, <3>6, CapKept DEF CapInv
    <3> QED BY <1>v, <3>6, <3>7 DEF CapInv
  <2>5. ASSUME Cap!Abandon(r) \/ Cap!Die(r) PROVE CapInv'
    <3>1. /\ UNCHANGED <<spend, cost, over, misplaced>> /\ pc'[r] = "idle"
      BY <2>5 DEF Cap!Abandon, Cap!Die, Cap!Clear, Cap!TypeOK
    <3>2. ASSUME NEW m \in Cap!Months
          PROVE  lost'[m] = lost[m] + (IF pc[r] \in Cap!Counted /\ made[r] = m THEN est[r] ELSE 0)
      BY <1>m, <2>5, <2>f DEF Cap!Abandon, Cap!Die, Cap!TypeOK, Cap!Add, Cap!Counted
    <3>3. ASSUME NEW m \in Cap!Months
          PROVE  /\ after(Cap!Counted, m) = before(Cap!Counted, m)
                        - (IF pc[r] \in Cap!Counted /\ made[r] = m THEN est[r] ELSE 0)
                 /\ after(Admitted, m) <= before(Admitted, m)
      BY <2>b, <2>f, <3>1 DEF Cap!Counted, Admitted
    <3>4. \A m \in Cap!Months : Covers(m)'
      BY <1>m, <1>c, <1>v, <2>b, <2>f, <3>1, <3>2, <3>3
    <3>5. Cap!CapHolds'
      BY <1>m, <1>c, <2>b, <2>n, <3>1, <3>3, CapKept DEF CapInv
    <3> QED BY <3>4, <3>5 DEF CapInv
  <2> QED
    BY <1>1, <2>1, <2>2, <2>3, <2>4, <2>5 DEF Cap!Step
<1>2. ASSUME Cap!SaveCap \/ Cap!CachesExpire \/ Cap!NextMonth \/ UNCHANGED Cap!vars PROVE CapInv'
  <2>1. UNCHANGED <<spend, cost, lost, est, pc, made, over, misplaced>>
    BY <1>2 DEF Cap!SaveCap, Cap!CachesExpire, Cap!NextMonth, Cap!vars, Cap!requestVars,
       Cap!historyVars
  <2> QED
    BY <2>1 DEF CapInv, Cap!CapHolds, Covers, Cap!Committed, Cap!Reserved, At
<1> QED
  BY <1>1, <1>2 DEF Cap!Next

\* However many requests reserve at once, a month is committed to at most a cap,
\* what requests cost above their own estimates, and the credit that requests of
\* an earlier month gave its counter (reserve of budget.py; the last is the
\* finding of the run spend_month).
THEOREM CapIsHeld == SpendSpec => []CapHolds
<1>0. Cap!SpendAssumption
  BY SpendingAssumption
<1>1. Cap!TypeOK /\ CapInv /\ [Cap!Next]_(Cap!vars) => (Cap!TypeOK /\ CapInv)'
  BY <1>0, TypeNext, CapNext
<1>2. CapInv => CapHolds
  BY DEF CapInv, CapHolds
<1>9. Cap!Init => Cap!TypeOK /\ CapInv
  BY <1>0, TypeInit, CapInit
<1> QED
  BY <1>1, <1>2, <1>9, PTL DEF SpendSpec, Cap!Spec

-----------------------------------------------------------------------------
(* Thresholds. Only a reservation that stays and a settlement raise what a *)
(* month holds firmly, and both look at the thresholds afterwards, under a *)
(* cap of the client's, against a total that is no less.                   *)

\* Who is not looking at thresholds has none to look at.
Looking == {"notify", "s.notify"}

NoticeInv ==
    /\ Cap!CrossingNoticed
    /\ \A r \in Spenders : pc[r] \notin Looking => todo[r] = {}
    /\ \A r \in Spenders : pc[r] \in Admitted => limit[r] \in MonthlyCaps

\* t is announced in month m, or about to be.
Seen(t, m) ==
    t \in notified[m] \/ \E r \in Spenders : key[r] = m /\ t \in todo[r]

Overdue(t, m) == \A c \in MonthlyCaps : t \in Cap!Reached(Cap!Firm(m), c)

LEMMA NoticedIs ==
    /\ Cap!CrossingNoticed <=>
         (deaths = 0 => \A m \in Cap!Months, t \in Thresholds \ {0} : Overdue(t, m) => Seen(t, m))
    /\ Cap!CrossingNoticed' <=>
         (deaths' = 0 => \A m \in Cap!Months, t \in Thresholds \ {0} : Overdue(t, m)' => Seen(t, m)')
BY DEF Cap!CrossingNoticed, Overdue, Seen

LEMMA FirmIs ==
    \A m \in Cap!Months : /\ Cap!Firm(m) = spend[m] - Cap!Sum(est, At({"rollback"}, m))
                          /\ Cap!Firm(m)' = spend'[m] - Cap!Sum(est', At({"rollback"}, m)')
<1> TAKE m \in Cap!Months
<1>1. /\ {r \in Spenders : pc[r] = "rollback" /\ made[r] = m} = At({"rollback"}, m)
      /\ {r \in Spenders : pc'[r] = "rollback" /\ made'[r] = m} = At({"rollback"}, m)'
  BY DEF At
<1> QED BY <1>1 DEF Cap!Firm, Cap!Reserved

\* A threshold that a total has reached, a greater one has.
LEMMA ReachedMore ==
    ASSUME Cap!SpendAssumption, NEW a \in Int, NEW b \in Int,
           a <= b, NEW c \in Nat, NEW t \in Thresholds,
           t \in Cap!Reached(a, c)
    PROVE  t \in Cap!Reached(b, c)
<1>1. t \in Nat /\ t * c \in Int
  BY DEF Cap!SpendAssumption
<1> DEFINE d == t * c
<1>2. c > 0 /\ a * 100 >= d
  BY DEF Cap!Reached
<1> HIDE DEF d
<1>3. b * 100 >= d
  BY <1>1, <1>2 DEF d
<1> QED BY <1>2, <1>3 DEF d, Cap!Reached

LEMMA NoticeInit == ASSUME Cap!SpendAssumption PROVE Cap!Init => NoticeInv
<1> SUFFICES ASSUME Cap!Init PROVE NoticeInv
  OBVIOUS
<1>1. ASSUME NEW m \in Cap!Months, NEW t \in Thresholds \ {0}, Overdue(t, m) PROVE Seen(t, m)
  <2>1. Cap!Sum(est, At({"rollback"}, m)) = 0
    BY NothingAt
  <2>2. Cap!Firm(m) = 0
    BY <2>1, FirmIs DEF Cap!Init
  <2>3. cap \in MonthlyCaps /\ cap \in Nat /\ t \in Nat
    BY Constants DEF Cap!SpendAssumption, Cap!Init
  <2>4. 0 * 100 >= t * cap /\ cap > 0
    BY <1>1, <2>2, <2>3 DEF Overdue, Cap!Reached
  <2>5. t = 0
    BY <2>3, <2>4
  <2> QED BY <2>5
<1> QED BY <1>1, NoticedIs DEF Cap!Init, NoticeInv, Looking, Admitted

\* A step keeps the invariant if it forgets no threshold and, for each month,
\* raises what it holds firmly only under the eyes of the request that does it.
LEMMA NoticeKept ==
    ASSUME Cap!TypeOK, NoticeInv, NEW r \in Spenders, deaths' = 0 => deaths = 0,
           deaths' # 0 \/ \A m \in Cap!Months, t \in Thresholds : Seen(t, m) => Seen(t, m)',
           \A m \in Cap!Months : \/ Cap!Firm(m)' = Cap!Firm(m)
                                 \/ \A t \in Thresholds : Overdue(t, m)' => Seen(t, m)'
    PROVE  Cap!CrossingNoticed'
<1> SUFFICES ASSUME deaths' = 0, NEW m \in Cap!Months, NEW t \in Thresholds \ {0}, Overdue(t, m)'
             PROVE  Seen(t, m)'
  BY NoticedIs
<1>1. CASE Cap!Firm(m)' = Cap!Firm(m)
  <2>1. Overdue(t, m)
    BY <1>1 DEF Overdue, Cap!Reached
  <2> QED BY <2>1, NoticedIs DEF NoticeInv
<1> QED BY <1>1

\* Whoever looks at a total that is at least the firm one, under a cap of the
\* client's, has every overdue threshold before it.
LEMMA OverdueReached ==
    ASSUME Cap!SpendAssumption, Cap!TypeOK', NEW m \in Cap!Months,
           NEW c \in MonthlyCaps, NEW t \in Thresholds,
           Cap!Sum(est', At({"rollback"}, m)') \in Nat, Overdue(t, m)'
    PROVE  t \in Cap!Reached(spend'[m], c)
<1>1. t \in Cap!Reached(Cap!Firm(m)', c)
  BY DEF Overdue, Cap!Reached
<1>2. Cap!Firm(m)' \in Int /\ spend'[m] \in Int /\ Cap!Firm(m)' <= spend'[m] /\ c \in Nat
  BY FirmIs, Constants DEF Cap!TypeOK
<1> QED BY <1>1, <1>2, ReachedMore

LEMMA NoticeNext ==
    ASSUME Cap!SpendAssumption, Cap!TypeOK, Cap!TypeOK', NoticeInv,
           [Cap!Next]_(Cap!vars)
    PROVE  NoticeInv'
<1>1. ASSUME NEW r \in Spenders, Cap!Step(r) PROVE NoticeInv'
  <2>a. Alone(r)
    BY <1>1, StepAlone
  <2>f. /\ est[r] \in Nat /\ est'[r] \in Nat /\ made[r] \in Cap!Months /\ made'[r] \in Cap!Months
        /\ month \in Cap!Months /\ key[r] \in Cap!Months
    BY DEF Cap!TypeOK
  <2>b. ASSUME NEW m \in Cap!Months
        PROVE  /\ Cap!Sum(est', At({"rollback"}, m)') \in Nat
               /\ Cap!Sum(est', At({"rollback"}, m)')
                    - (IF pc'[r] = "rollback" /\ made'[r] = m THEN est'[r] ELSE 0)
                  = Cap!Sum(est, At({"rollback"}, m))
                    - (IF pc[r] = "rollback" /\ made[r] = m THEN est[r] ELSE 0)
    <3> DEFINE P == {"rollback"}
    <3>1. pc'[r] \in P <=> pc'[r] = "rollback"
      OBVIOUS
    <3>2. pc[r] \in P <=> pc[r] = "rollback"
      OBVIOUS
    <3> HIDE DEF P
    <3>3. /\ Cap!Sum(est', At(P, m)') \in Nat
          /\ Cap!Sum(est', At(P, m)')
               - (IF pc'[r] \in P /\ made'[r] = m THEN est'[r] ELSE 0)
             = Cap!Sum(est, At(P, m)) - (IF pc[r] \in P /\ made[r] = m THEN est[r] ELSE 0)
      BY <2>a, AtMoves
    <3>4. /\ Cap!Sum(est', At(P, m)') \in Nat
          /\ Cap!Sum(est', At(P, m)')
               - (IF pc'[r] = "rollback" /\ made'[r] = m THEN est'[r] ELSE 0)
             = Cap!Sum(est, At(P, m)) - (IF pc[r] = "rollback" /\ made[r] = m THEN est[r] ELSE 0)
      BY <3>1, <3>2, <3>3
    <3> QED BY <3>4 DEF P
  <2>s. ASSUME NEW m \in Cap!Months
        PROVE  Cap!Sum(est, At({"rollback"}, m)) \in Nat /\ spend[m] \in Int /\ spend'[m] \in Int
    <3>1. Cap!Sum(est, At({"rollback"}, m)) \in Nat
      BY <2>a, AtMoves
    <3> QED BY <3>1 DEF Cap!TypeOK
  \* The request keeps its place among the lookers, or has nothing to look at.
  <2>k. ASSUME notified' = notified, todo[r] = {}
        PROVE  \A m \in Cap!Months, t \in Thresholds : Seen(t, m) => Seen(t, m)'
    BY <2>a, <2>k DEF Seen, Alone
  <2>o. ASSUME pc'[r] \notin Looking => todo'[r] = {}, pc'[r] \in Admitted => limit'[r] \in MonthlyCaps
        PROVE  /\ \A q \in Spenders : pc'[q] \notin Looking => todo'[q] = {}
               /\ \A q \in Spenders : pc'[q] \in Admitted => limit'[q] \in MonthlyCaps
    <3>1. ASSUME NEW q \in Spenders
          PROVE  /\ pc'[q] \notin Looking => todo'[q] = {}
                 /\ pc'[q] \in Admitted => limit'[q] \in MonthlyCaps
      BY <2>a, <2>o DEF NoticeInv, Alone
    <3> QED BY <3>1
  <2>1. ASSUME NEW e \in Estimates, NEW c \in {cap} \cup cached, Cap!Reserve(r, e, c)
        PROVE  NoticeInv'
    <3>1. c \in MonthlyCaps /\ c \in Nat /\ e \in Nat
      BY Constants DEF Cap!TypeOK
    <3>2. /\ notified' = notified /\ deaths' = deaths
          /\ pc[r] = "idle" /\ est'[r] = e /\ made'[r] = month /\ key'[r] = month
          /\ limit'[r] = c
          /\ spend'[month] = spend[month] + e
          /\ \A m \in Cap!Months \ {month} : spend'[m] = spend[m]
          /\ pc'[r] = IF spend'[month] > c THEN "rollback" ELSE "notify"
          /\ todo'[r] = IF spend'[month] > c THEN {} ELSE Cap!Reached(spend'[month], c)
      BY <2>1, <2>f DEF Cap!Reserve, Cap!historyVars, Cap!TypeOK, Cap!Add
    <3>3. todo[r] = {}
      BY <3>2 DEF NoticeInv, Looking
    <3>4. ASSUME NEW m \in Cap!Months, m # month \/ spend'[month] > c
          PROVE  Cap!Firm(m)' = Cap!Firm(m)
      BY <2>b, <2>s, <3>1, <3>2, <3>4, FirmIs
    <3>5. ASSUME NEW m \in Cap!Months, m = month, ~ spend'[month] > c, NEW t \in Thresholds,
                 Overdue(t, m)'
          PROVE  Seen(t, m)'
      <4>1. t \in Cap!Reached(spend'[m], c)
        BY <2>b, <3>1, <3>5, OverdueReached
      <4> QED BY <3>2, <3>5, <4>1 DEF Seen
    <3>6. Cap!CrossingNoticed'
      BY <2>k, <3>2, <3>3, <3>4, <3>5, NoticeKept
    <3> QED BY <2>o, <3>1, <3>2, <3>6 DEF NoticeInv, Looking
  <2>2. ASSUME Cap!Rollback(r) PROVE NoticeInv'
    <3>1. /\ notified' = notified /\ deaths' = deaths
          /\ pc[r] = "rollback" /\ pc'[r] = "idle" /\ todo'[r] = {}
          /\ spend'[made[r]] = spend[made[r]] - est[r]
          /\ \A m \in Cap!Months \ {made[r]} : spend'[m] = spend[m]
      BY <2>2, <2>f DEF Cap!Rollback, Cap!Clear, Cap!historyVars, Cap!TypeOK, Cap!Add
    <3>2. todo[r] = {}
      BY <3>1 DEF NoticeInv, Looking
    <3>3. ASSUME NEW m \in Cap!Months PROVE Cap!Firm(m)' = Cap!Firm(m)
      BY <2>b, <2>s, <2>f, <3>1, FirmIs
    <3>4. Cap!CrossingNoticed'
      BY <2>k, <3>1, <3>2, <3>3, NoticeKept
    <3> QED BY <2>o, <3>1, <3>4 DEF NoticeInv, Admitted
  <2>3. ASSUME NEW u \in Thresholds, Cap!Notify(r, u) PROVE NoticeInv'
    <3>1. /\ spend' = spend /\ deaths' = deaths /\ pc' = pc /\ key' = key /\ limit' = limit
          /\ pc[r] \in Looking
          /\ notified'[key[r]] = notified[key[r]] \cup {u}
          /\ \A m \in Cap!Months \ {key[r]} : notified'[m] = notified[m]
          /\ todo'[r] = todo[r] \ {u}
      BY <2>3, <2>f DEF Cap!Notify, Cap!historyVars, Cap!TypeOK, Looking
    <3>2. ASSUME NEW m \in Cap!Months, NEW t \in Thresholds, Seen(t, m) PROVE Seen(t, m)'
      <4>1. CASE t \in notified[m]
        BY <3>1, <4>1 DEF Seen
      <4>2. ASSUME NEW q \in Spenders, key[q] = m, t \in todo[q] PROVE Seen(t, m)'
        <5>1. CASE q # r
          BY <2>a, <4>2, <5>1 DEF Seen, Alone
        <5>2. CASE q = r
          BY <3>1, <4>2, <5>2 DEF Seen
        <5> QED BY <5>1, <5>2
      <4> QED BY <3>2, <4>1, <4>2 DEF Seen
    <3>3. ASSUME NEW m \in Cap!Months PROVE Cap!Firm(m)' = Cap!Firm(m)
      <4>1. pc[r] # "rollback"
        BY <3>1 DEF Looking
      <4> QED BY <2>b, <2>s, <3>1, <4>1, FirmIs
    <3>4. Cap!CrossingNoticed'
      BY <3>1, <3>2, <3>3, NoticeKept
    <3> QED BY <2>o, <3>1, <3>4 DEF NoticeInv
  <2>4. ASSUME Cap!Dispatch(r) PROVE NoticeInv'
    <3>1. /\ spend' = spend /\ deaths' = deaths /\ notified' = notified
          /\ pc[r] \in Looking /\ todo[r] = {} /\ todo'[r] = {}
          /\ pc'[r] = IF pc[r] = "notify" THEN "held" ELSE "idle"
          /\ pc[r] = "notify" => limit' = limit
      BY <2>4 DEF Cap!Dispatch, Cap!Clear, Cap!TypeOK, Looking
    <3>2. ASSUME NEW m \in Cap!Months PROVE Cap!Firm(m)' = Cap!Firm(m)
      <4>1. pc[r] # "rollback" /\ pc'[r] # "rollback"
        BY <3>1 DEF Looking
      <4> QED BY <2>b, <2>s, <3>1, <4>1, FirmIs
    <3>3. Cap!CrossingNoticed'
      BY <2>k, <3>1, <3>2, NoticeKept
    <3> QED BY <2>o, <3>1, <3>3 DEF NoticeInv, Admitted
  <2>5. ASSUME NEW a \in Actuals, Cap!Settle(r, a) PROVE NoticeInv'
    <3>1. /\ notified' = notified /\ deaths' = deaths
          /\ pc[r] = "held" /\ pc'[r] = "s.notify" /\ key'[r] = month /\ limit' = limit
          /\ \A m \in Cap!Months \ {month} : spend'[m] = spend[m]
          /\ todo'[r] = Cap!Reached(spend'[month], limit[r])
      BY <2>5, <2>f DEF Cap!Settle, Cap!TypeOK, Cap!Add
    <3>2. todo[r] = {} /\ limit[r] \in MonthlyCaps
      BY <3>1 DEF NoticeInv, Looking, Admitted
    <3>3. ASSUME NEW m \in Cap!Months, m # month PROVE Cap!Firm(m)' = Cap!Firm(m)
      BY <2>b, <2>s, <3>1, <3>3, FirmIs
    <3>4. ASSUME NEW m \in Cap!Months, m = month, NEW t \in Thresholds, Overdue(t, m)'
          PROVE  Seen(t, m)'
      <4>1. t \in Cap!Reached(spend'[m], limit[r])
        BY <2>b, <3>2, OverdueReached, <3>4
      <4> QED BY <3>1, <3>4, <4>1 DEF Seen
    <3>5. Cap!CrossingNoticed'
      BY <2>k, <3>1, <3>2, <3>3, <3>4, NoticeKept
    <3> QED BY <2>o, <3>1, <3>2, <3>5 DEF NoticeInv, Looking, Admitted
  <2>6. ASSUME Cap!Abandon(r) PROVE NoticeInv'
    <3>1. /\ spend' = spend /\ deaths' = deaths /\ notified' = notified
          /\ pc[r] = "held" /\ todo'[r] = {} /\ pc'[r] = "idle"
      BY <2>6 DEF Cap!Abandon, Cap!Clear, Cap!TypeOK
    <3>2. todo[r] = {}
      BY <3>1 DEF NoticeInv, Looking
    <3>3. ASSUME NEW m \in Cap!Months PROVE Cap!Firm(m)' = Cap!Firm(m)
      BY <2>b, <2>s, <3>1, FirmIs
    <3>4. Cap!CrossingNoticed'
      BY <2>k, <3>1, <3>2, <3>3, NoticeKept
    <3> QED BY <2>o, <3>1, <3>4 DEF NoticeInv, Admitted
  <2>7. ASSUME Cap!Die(r) PROVE NoticeInv'
    <3>1. deaths' # 0 /\ todo'[r] = {} /\ pc'[r] = "idle"
      BY <2>7 DEF Cap!Die, Cap!Clear, Cap!TypeOK
    <3> QED BY <2>o, <3>1 DEF NoticeInv, Cap!CrossingNoticed, Admitted
  <2> QED
    BY <1>1, <2>1, <2>2, <2>3, <2>4, <2>5, <2>6, <2>7 DEF Cap!Step
<1>2. ASSUME Cap!SaveCap \/ Cap!CachesExpire \/ Cap!NextMonth \/ UNCHANGED Cap!vars PROVE NoticeInv'
  <2>1. UNCHANGED <<spend, notified, deaths, Cap!requestVars>>
    BY <1>2 DEF Cap!SaveCap, Cap!CachesExpire, Cap!NextMonth, Cap!vars, Cap!historyVars
  <2> QED
    BY <2>1 DEF NoticeInv, Cap!CrossingNoticed, Cap!Firm, Cap!Reserved, Cap!Reached,
       Cap!requestVars
<1> QED
  BY <1>1, <1>2 DEF Cap!Next

\* No interleaving of reservations, rollbacks and settlements carries a month past
\* an alert threshold unnoticed (_check_thresholds of budget.py), while no request
\* is cut short.
THEOREM CrossingsAreNoticed == SpendSpec => []CrossingNoticed
<1>0. Cap!SpendAssumption
  BY SpendingAssumption
<1>1. Cap!TypeOK /\ NoticeInv /\ [Cap!Next]_(Cap!vars) => (Cap!TypeOK /\ NoticeInv)'
  BY <1>0, TypeNext, NoticeNext
<1>2. NoticeInv => CrossingNoticed
  BY DEF NoticeInv, CrossingNoticed
<1>9. Cap!Init => Cap!TypeOK /\ NoticeInv
  BY <1>0, TypeInit, NoticeInit
<1> QED
  BY <1>1, <1>2, <1>9, PTL DEF SpendSpec, Cap!Spec
-----------------------------------------------------------------------------
(* Ledger. The price row is s1, the live price s2, the events s3, their    *)
(* rollup s4, the requests that record s5, the writers of prices s6, the   *)
(* repricings s7, the count of writes s8, what predates the events s10; s11 *)
(* says that two writers overlapped, s12 that a repricing was overtaken.   *)
(* What the proof turns on is that the event and its rollup change in one  *)
(* transaction, that no usage is older than the price it is given, and     *)
(* that one writer at a time is between the row and the live table.        *)

price == s1
inForce == s2
usage == s3
rollup == s4
filing == s5
pricing == s6
repricing == s7
writings == s8
before == s10
overlapped == s11
overtaken == s12

USE DEF price, inForce, usage, rollup, filing, pricing, repricing, writings, before,
        overlapped, overtaken

Costs == Nat \cup {Books!None}

Uses == [key : Books!Names, cost : Costs, at : Nat, rated : Costs, was : Costs,
         fixed : BOOLEAN, late : BOOLEAN, aged : BOOLEAN]

\* Of the events E: those of a name, those of them that cost something, and what.
Mine(E, k) == {i \in DOMAIN E : E[i].key = k}

Priced(E, k) == {i \in Mine(E, k) : E[i].cost # Books!None}

Cost(E) == [i \in DOMAIN E |-> E[i].cost]

Tally(E, k) == Cardinality(Mine(E, k))

Paid(E, k) == Cardinality(Priced(E, k))

Worth(E, k) == Cap!Sum(Cost(E), Priced(E, k))

LEMMA EventsAre ==
    ASSUME NEW E \in Seq(Uses), NEW k
    PROVE  /\ IsFiniteSet(Mine(E, k)) /\ IsFiniteSet(Priced(E, k))
           /\ Tally(E, k) \in Nat /\ Paid(E, k) \in Nat /\ Worth(E, k) \in Nat
           /\ Paid(E, k) = 0 <=> Priced(E, k) = {}
           /\ Paid(E, k) = 0 => Worth(E, k) = 0
           /\ Tally(E, k) = 0 => Paid(E, k) = 0
           /\ \A i \in Priced(E, k) : Cost(E)[i] = E[i].cost /\ E[i].cost \in Nat
           /\ Priced(E, k) = {} => Worth(E, k) = 0
           /\ Tally(E, k) = 0 => Mine(E, k) = {} /\ Priced(E, k) = {}
<1>1. IsFiniteSet(DOMAIN E) /\ \A i \in DOMAIN E : E[i] \in Uses
    <2>1. DOMAIN E = 1 .. Len(E) /\ Len(E) \in Nat
        OBVIOUS
    <2>2. QED
        BY <2>1, FS_Interval
<1>2. IsFiniteSet(Mine(E, k)) /\ IsFiniteSet(Priced(E, k))
    BY <1>1, FS_Subset DEF Mine, Priced
<1>3. Tally(E, k) \in Nat /\ (Tally(E, k) = 0 => Mine(E, k) = {})
    BY <1>2, FS_CardinalityType, FS_EmptySet DEF Tally
<1>4. \A i \in Priced(E, k) : Cost(E)[i] = E[i].cost /\ E[i].cost \in Nat
    BY <1>1 DEF Priced, Mine, Cost, Uses, Costs
<1>5. Worth(E, k) \in Nat
    BY <1>2, <1>4, SumNat DEF Worth
<1>6. Priced(E, k) = {} => Worth(E, k) = 0
    BY SumEmpty DEF Worth
<1>7. Mine(E, k) = {} => Priced(E, k) = {}
    BY DEF Priced
<1>8. Paid(E, k) \in Nat /\ (Paid(E, k) = 0 <=> Priced(E, k) = {})
    BY <1>2, FS_CardinalityType, FS_EmptySet DEF Paid
<1>9. QED
    BY <1>2, <1>3, <1>4, <1>5, <1>6, <1>7, <1>8

\* The sum that the query makes.
Chosen(g, S) == g = [T \in SUBSET S |->
                       IF T = {} THEN 0 ELSE usage[First(T)].cost + g[T \ {First(T)}]]

LEMMA BilledChosen ==
    ASSUME NEW k
    PROVE  Books!Billed(k) =
             [n |-> Tally(usage, k),
              cost |-> IF Priced(usage, k) = {} THEN Books!None
                       ELSE (CHOOSE g : Chosen(g, Priced(usage, k)))[Priced(usage, k)]]
BY Zenon DEF Books!Billed, Books!MapThenFoldSet, Books!Add, Chosen, First, Mine, Priced,
             Tally, Books!Cardinality, Cardinality

\* What the client is billed, in the terms of the sums above.
LEMMA BilledIs ==
    usage \in Seq(Uses) =>
        \A k : Books!Billed(k) =
                 [n |-> Tally(usage, k),
                  cost |-> IF Priced(usage, k) = {} THEN Books!None ELSE Worth(usage, k)]
<1> SUFFICES ASSUME usage \in Seq(Uses), NEW k
             PROVE  Books!Billed(k) =
                      [n |-> Tally(usage, k),
                       cost |-> IF Priced(usage, k) = {} THEN Books!None ELSE Worth(usage, k)]
    OBVIOUS
<1> DEFINE S == Priced(usage, k)
           H == CHOOSE g : Chosen(g, S)
<1>0. IsFiniteSet(S)
    BY EventsAre
<1>1. \A T \in SUBSET S : T # {} => First(T) \in T
    BY DEF First
<1>2. \A T \in SUBSET S : \A x \in T : Cost(usage)[x] = usage[x].cost
    BY DEF Cost, Priced, Mine
<1>3. \A g : Chosen(g, S) <=> Sums(Cost(usage), g, SUBSET S)
    <2> TAKE g
    <2> HIDE DEF S
    <2>1. \A T \in SUBSET S : Rest(Cost(usage), g, T) =
             IF T = {} THEN 0 ELSE usage[First(T)].cost + g[T \ {First(T)}]
        BY <1>1, <1>2 DEF Rest
    <2>2. QED
        BY <2>1 DEF Chosen, Sums
<1>4. \E g : Sums(Cost(usage), g, SUBSET S)
    BY <1>0, SumsExist
<1>5. Chosen(H, S)
    BY <1>3, <1>4
<1> HIDE DEF H
<1>6. Sums(Cost(usage), H, SUBSET S)
    BY <1>3, <1>5
<1>7. Cap!Sum(Cost(usage), S) = H[S]
    BY <1>0, <1>6, SumIs
<1>8. QED
    BY <1>7, BilledChosen DEF H, Worth

Days == {Books!NoRow} \cup
        [none : {FALSE}, n : Nat, cost : Costs, parts : Costs, merged : BOOLEAN]

\* What predates the events: nothing, or uses that cost 1 each.
Olds == {old \in [n : Nat, cost : Costs] :
            old.cost = IF old.n = 0 THEN Books!None ELSE old.n}

Zero(c) == IF c = Books!None THEN 0 ELSE c

\* What n events come to, on top of a cost that there may be.
Known(n, worth, money) ==
    IF n = 0 /\ money = Books!None THEN Books!None ELSE worth + Zero(money)

\* A day's row of the rollup agrees with the events and with what predates them.
Agrees(day, E, old, k) ==
    IF day.none THEN Tally(E, k) + old.n = 0
    ELSE /\ day.n = Tally(E, k) + old.n
         /\ day.cost = Known(Paid(E, k), Worth(E, k), old.cost)
         /\ ~day.merged => day.parts = day.cost

LEMMA RollupIs ==
    usage \in Seq(Uses) /\ before \in [Books!Names -> Olds] =>
        (Books!RollupAgrees <=>
            \A k \in Books!Names : Agrees(rollup[k], usage, before[k], k))
<1> SUFFICES ASSUME usage \in Seq(Uses), before \in [Books!Names -> Olds],
                    NEW k \in Books!Names
             PROVE  (LET billed == Books!Billed(k)
                         known == {billed.cost, before[k].cost} \ {Books!None}
                     IN  IF rollup[k].none THEN billed.n + before[k].n = 0
                         ELSE /\ rollup[k].n = billed.n + before[k].n
                              /\ IF known = {} THEN rollup[k].cost = Books!None
                                 ELSE rollup[k].cost =
                                        (IF billed.cost = Books!None THEN 0 ELSE billed.cost)
                                      + (IF before[k].cost = Books!None THEN 0
                                         ELSE before[k].cost)
                              /\ ~rollup[k].merged => rollup[k].parts = rollup[k].cost)
                    <=> Agrees(rollup[k], usage, before[k], k)
    BY DEF Books!RollupAgrees
<1> DEFINE b == Books!Billed(k)
           none == Priced(usage, k) = {}
<1>1. /\ b.n = Tally(usage, k)
      /\ b.cost = IF none THEN Books!None ELSE Worth(usage, k)
    BY BilledIs
<1>2. Worth(usage, k) \in Nat /\ (none => Worth(usage, k) = 0)
    BY EventsAre
<1>3. before[k].cost \in Nat \cup {Books!None} /\ Books!None = -1
    BY DEF Olds, Costs, Books!None
<1> HIDE DEF b, none
<1>4. ({b.cost, before[k].cost} \ {Books!None} = {}) <=>
         (none /\ before[k].cost = Books!None)
    <2>1. Worth(usage, k) # Books!None
        BY <1>2, <1>3
    <2>2. b.cost = Books!None <=> none
        BY <1>1, <2>1
    <2>3. \A x, y, z : {x, y} \ {z} = {} <=> (x = z /\ y = z)
        <3>1. ASSUME NEW x, NEW y, NEW z, {x, y} \ {z} = {} PROVE x = z /\ y = z
            <4>1. x \in {x, y} /\ y \in {x, y}
                OBVIOUS
            <4>2. QED
                BY <3>1, <4>1
        <3>2. ASSUME NEW x, NEW y, NEW z, x = z, y = z PROVE {x, y} \ {z} = {}
            BY <3>2
        <3>3. QED
            BY <3>1, <3>2
    <2>4. QED
        BY <2>2, <2>3
<1>5. (IF b.cost = Books!None THEN 0 ELSE b.cost) = Worth(usage, k)
    BY <1>1, <1>2, <1>3
<1>6. QED
    <2>1. Paid(usage, k) = 0 <=> none
        BY EventsAre DEF none
    <2>2. QED
        BY <1>1, <1>4, <1>5, <2>1 DEF Agrees, Known, Zero, b

LEMMA SumUnion ==
    ASSUME NEW S, NEW D, IsFiniteSet(S), IsFiniteSet(D), S \cap D = {},
           NEW f, \A x \in S \cup D : f[x] \in Int
    PROVE  Cap!Sum(f, S \cup D) = Cap!Sum(f, S) + Cap!Sum(f, D)
<1> DEFINE C == {X \in SUBSET D : Cap!Sum(f, S \cup X) # Cap!Sum(f, S) + Cap!Sum(f, X)}
<1> SUFFICES ASSUME C # {} PROVE FALSE
    OBVIOUS
<1>1. PICK X \in C : \A Y \in C : Y \subseteq X => Y = X
    <2>1. C \in SUBSET SUBSET D
        OBVIOUS
    <2> HIDE DEF C
    <2>2. QED
        BY <2>1, Smallest
<1>2. Cap!Sum(f, S) \in Int
    BY SumInt
<1>3. X # {}
    <2> SUFFICES ASSUME X = {} PROVE FALSE
        OBVIOUS
    <2>1. S \cup X = S
        OBVIOUS
    <2>2. Cap!Sum(f, X) = 0
        BY SumEmpty
    <2>3. Cap!Sum(f, S \cup X) = Cap!Sum(f, S) + Cap!Sum(f, X)
        BY <1>2, <2>1, <2>2
    <2>4. QED
        BY <1>1, <2>3
<1>4. PICK x \in X : TRUE
    BY <1>3
<1> DEFINE Y == X \ {x}
<1>5. Y \notin C /\ Y \in SUBSET D
    BY <1>1, <1>4
<1>6. IsFiniteSet(X) /\ IsFiniteSet(Y) /\ IsFiniteSet(S \cup Y) /\ X \in SUBSET D
    BY <1>5, FS_Subset, FS_Union
<1>7. Cap!Sum(f, S \cup Y) = Cap!Sum(f, S) + Cap!Sum(f, Y)
    BY <1>5
<1>8. Cap!Sum(f, X) = f[x] + Cap!Sum(f, Y)
    BY <1>4, <1>6, SumTake
<1>9. Cap!Sum(f, S \cup X) = f[x] + Cap!Sum(f, S \cup Y)
    <2>1. S \cup X = (S \cup Y) \cup {x} /\ x \notin S \cup Y
        BY <1>4, <1>6
    <2>2. QED
        BY <1>4, <1>6, <2>1, SumAdd
<1>10. Cap!Sum(f, Y) \in Int /\ f[x] \in Int
    BY <1>4, <1>6, SumInt
<1> HIDE DEF Y
<1>11. Cap!Sum(f, S \cup X) = Cap!Sum(f, S) + Cap!Sum(f, X)
    BY <1>2, <1>7, <1>8, <1>9, <1>10
<1>12. QED
    BY <1>1, <1>11

\* Equal costs come to their number times one of them.
LEMMA SumEqual ==
    ASSUME NEW D, IsFiniteSet(D), NEW c \in Nat, NEW f, \A x \in D : f[x] = c
    PROVE  Cap!Sum(f, D) = c * Cardinality(D)
<1> DEFINE C == {X \in SUBSET D : Cap!Sum(f, X) # c * Cardinality(X)}
<1> SUFFICES ASSUME C # {} PROVE FALSE
    OBVIOUS
<1>1. PICK X \in C : \A Y \in C : Y \subseteq X => Y = X
    <2>1. C \in SUBSET SUBSET D
        OBVIOUS
    <2> HIDE DEF C
    <2>2. QED
        BY <2>1, Smallest
<1>2. X # {}
    BY SumEmpty, FS_EmptySet
<1>3. PICK x \in X : TRUE
    BY <1>2
<1> DEFINE Y == X \ {x}
<1>4. Y \notin C /\ Y \in SUBSET D
    BY <1>1, <1>3
<1>5. IsFiniteSet(X) /\ IsFiniteSet(Y) /\ X \in SUBSET D
    BY <1>4, FS_Subset
<1>6. Cap!Sum(f, Y) = c * Cardinality(Y)
    BY <1>4
<1>7. Cap!Sum(f, X) = c + Cap!Sum(f, Y)
    BY <1>3, <1>5, SumTake
<1>8. Cardinality(Y) = Cardinality(X) - 1 /\ Cardinality(X) \in Nat
    BY <1>3, <1>5, FS_RemoveElement, FS_CardinalityType
<1> HIDE DEF Y
<1>9. Cap!Sum(f, X) = c * Cardinality(X)
    <2>1. PICK m \in Nat : m = Cardinality(X)
        BY <1>8
    <2>2. c * m = c + c * (m - 1)
        OBVIOUS
    <2>3. QED
        BY <1>6, <1>7, <1>8, <2>1, <2>2
<1>10. QED
    BY <1>1, <1>9

-----------------------------------------------------------------------------
(* What an action makes of the sums. *)

LEMMA Appended ==
    ASSUME NEW E \in Seq(Uses), NEW e \in Uses, NEW k
    PROVE  LET F == Append(E, e)
           IN  /\ F \in Seq(Uses)
               /\ Tally(F, k) = Tally(E, k) + (IF e.key = k THEN 1 ELSE 0)
               /\ IF e.key = k /\ e.cost # Books!None
                  THEN Paid(F, k) # 0 /\ Worth(F, k) = Worth(E, k) + e.cost
                  ELSE Paid(F, k) = Paid(E, k) /\ Worth(F, k) = Worth(E, k)
<1> DEFINE F == Append(E, e)
           n == Len(E) + 1
<1>1. /\ n \in Nat /\ n \notin DOMAIN E /\ DOMAIN F = DOMAIN E \cup {n} /\ F[n] = e
      /\ \A i \in DOMAIN E : F[i] = E[i]
      /\ F \in Seq(Uses)
    OBVIOUS
<1> HIDE DEF F, n
<1>2. Mine(F, k) = Mine(E, k) \cup (IF e.key = k THEN {n} ELSE {}) /\ n \notin Mine(E, k)
    BY <1>1 DEF Mine
<1>3. /\ Priced(F, k) = Priced(E, k)
                          \cup (IF e.key = k /\ e.cost # Books!None THEN {n} ELSE {})
      /\ n \notin Priced(E, k)
    BY <1>1, <1>2 DEF Mine, Priced
<1>4. Tally(F, k) = Tally(E, k) + (IF e.key = k THEN 1 ELSE 0)
    <2>1. IsFiniteSet(Mine(E, k)) /\ Tally(E, k) \in Nat
        BY EventsAre
    <2>2. CASE e.key = k
        BY <1>2, <2>1, <2>2, FS_AddElement DEF Tally
    <2>3. CASE e.key # k
        BY <1>2, <2>1, <2>3 DEF Tally
    <2>4. QED
        BY <2>2, <2>3
<1>5. \A i \in Priced(E, k) : Cost(F)[i] = Cost(E)[i]
    BY <1>1 DEF Priced, Mine, Cost
<1>6. Cap!Sum(Cost(F), Priced(E, k)) = Worth(E, k)
    BY <1>5, EventsAre, SumSame DEF Worth
<1>7. CASE e.key = k /\ e.cost # Books!None
    <2>1. e.cost \in Nat /\ Cost(F)[n] = e.cost
        BY <1>1, <1>7 DEF Uses, Costs, Cost
    <2>2. \A i \in Priced(E, k) : Cost(F)[i] \in Int
        BY <1>5, EventsAre
    <2>3. Cap!Sum(Cost(F), Priced(E, k) \cup {n}) = e.cost + Worth(E, k)
        BY <1>3, <1>6, <2>1, <2>2, EventsAre, SumAdd
    <2>4. Worth(E, k) \in Nat
        BY EventsAre
    <2>5. Worth(F, k) = Worth(E, k) + e.cost
        BY <1>3, <1>7, <2>1, <2>3, <2>4 DEF Worth
    <2>6. Paid(F, k) # 0
        BY <1>1, <1>3, <1>7, EventsAre
    <2>7. QED
        BY <1>1, <1>4, <1>7, <2>5, <2>6 DEF F
<1>8. CASE ~(e.key = k /\ e.cost # Books!None)
    <2>1. Priced(F, k) = Priced(E, k)
        BY <1>3, <1>8
    <2>2. QED
        BY <1>1, <1>4, <1>6, <1>8, <2>1 DEF Worth, Paid, F
<1>9. QED
    BY <1>7, <1>8

\* A repair prices the unpriced events that rows R name.
Reprices(E, F, c, R) ==
    /\ R \subseteq [at : Nat, key : Books!Names]
    /\ \A p \in R : p.at \in DOMAIN E /\ E[p.at].key = p.key /\ E[p.at].cost = Books!None
    /\ DOMAIN F = DOMAIN E
    /\ \A i \in DOMAIN E :
          /\ F[i].key = E[i].key
          /\ F[i].cost = IF \E p \in R : p.at = i THEN c ELSE E[i].cost

Under(R, k) == {p \in R : p.key = k}

LEMMA Repriced ==
    ASSUME NEW E \in Seq(Uses), NEW F \in Seq(Uses), NEW c \in Nat, NEW R,
           Reprices(E, F, c, R), NEW k
    PROVE  /\ Tally(F, k) = Tally(E, k)
           /\ Cardinality(Under(R, k)) \in Nat
           /\ Worth(F, k) = Worth(E, k) + c * Cardinality(Under(R, k))
           /\ Under(R, k) = {} => Paid(F, k) = Paid(E, k) /\ Worth(F, k) = Worth(E, k)
           /\ Under(R, k) # {} => Paid(F, k) # 0 /\ Tally(E, k) # 0
<1> DEFINE D == {p \in R : p.key = k}
           A == {p.at : p \in D}
<1>0. /\ R \subseteq [at : Nat, key : Books!Names]
      /\ \A p \in R : p.at \in DOMAIN E /\ E[p.at].key = p.key /\ E[p.at].cost = Books!None
      /\ DOMAIN F = DOMAIN E
      /\ \A i \in DOMAIN E :
            /\ F[i].key = E[i].key
            /\ F[i].cost = IF \E p \in R : p.at = i THEN c ELSE E[i].cost
    BY DEF Reprices
<1>1. Mine(F, k) = Mine(E, k) /\ Tally(F, k) = Tally(E, k)
    BY <1>0 DEF Mine, Tally
<1>2. \A p \in D : p.at \in Mine(E, k) /\ p.at \notin Priced(E, k)
    BY <1>0 DEF Mine, Priced
<1>3. \A i \in Mine(E, k) : i \in A <=> \E p \in R : p.at = i
    <2>1. \A i \in Mine(E, k) : E[i].key = k
        BY DEF Mine
    <2>2. \A i \in Mine(E, k), p \in R : p.at = i => p \in D
        BY <1>0, <2>1
    <2>3. QED
        BY <2>2
<1>4. \A p, q \in D : p.at = q.at => p = q
    BY <1>0
<1>5. IsFiniteSet(D) /\ IsFiniteSet(A) /\ Cardinality(D) = Cardinality(A)
      /\ Cardinality(D) \in Nat
    <2>1. A \subseteq Mine(E, k)
        BY <1>2
    <2>2. IsFiniteSet(A)
        BY <2>1, EventsAre, FS_Subset
    <2>3. PICK f : f = [p \in D |-> p.at]
        OBVIOUS
    <2>4. f \in Injection(D, A) /\ f \in Surjection(D, A)
        BY <1>4, <2>3 DEF Injection, Surjection, IsInjective
    <2>5. IsFiniteSet(D) /\ Cardinality(D) = Cardinality(A)
        BY <2>2, <2>4, FS_Injection
    <2>6. QED
        BY <2>2, <2>5, FS_CardinalityType
<1> HIDE DEF A
<1>6. Priced(F, k) = Priced(E, k) \cup A /\ Priced(E, k) \cap A = {}
    <2>1. A \subseteq Mine(E, k) /\ A \cap Priced(E, k) = {}
        BY <1>2 DEF A
    <2>2. c # Books!None
        BY DEF Books!None
    <2>3. \A i \in Mine(E, k) : F[i].cost # Books!None <=> (i \in A \/ E[i].cost # Books!None)
        BY <1>0, <1>3, <2>2 DEF Mine
    <2>4. QED
        BY <1>1, <2>1, <2>3 DEF Priced
<1>7. /\ \A i \in A : Cost(F)[i] = c
      /\ \A i \in Priced(E, k) : Cost(F)[i] = Cost(E)[i]
    <2>1. A \subseteq Mine(E, k)
        BY <1>2 DEF A
    <2>2. \A i \in A : Cost(F)[i] = c
        BY <1>0, <1>3, <2>1 DEF Cost, Mine
    <2>3. \A i \in Priced(E, k) : i \notin A /\ i \in Mine(E, k)
        BY <1>6 DEF Priced
    <2>4. \A i \in Priced(E, k) : Cost(F)[i] = Cost(E)[i]
        BY <1>0, <1>3, <2>3 DEF Cost, Mine
    <2>5. QED
        BY <2>2, <2>4
<1>8. Cap!Sum(Cost(F), Priced(E, k)) = Worth(E, k)
    BY <1>7, EventsAre, SumSame DEF Worth
<1>9. Cap!Sum(Cost(F), A) = c * Cardinality(D)
    BY <1>5, <1>7, SumEqual
<1>10. Worth(F, k) = Worth(E, k) + c * Cardinality(D)
    <2>1. \A i \in Priced(E, k) \cup A : Cost(F)[i] \in Int
        BY <1>7, EventsAre
    <2>2. Cap!Sum(Cost(F), Priced(E, k) \cup A)
            = Cap!Sum(Cost(F), Priced(E, k)) + Cap!Sum(Cost(F), A)
        BY <1>5, <1>6, <2>1, EventsAre, SumUnion
    <2>3. QED
        BY <1>6, <1>8, <1>9, <2>2 DEF Worth
<1>11. D = {} => Paid(F, k) = Paid(E, k) /\ Worth(F, k) = Worth(E, k)
    BY <1>6, <1>8 DEF A, Paid, Worth
<1>12. D # {} => Paid(F, k) # 0 /\ Tally(E, k) # 0
    <2>1. ASSUME D # {} PROVE A # {} /\ Mine(E, k) # {}
        BY <2>1, <1>2 DEF A
    <2>2. QED
        BY <2>1, <1>6, EventsAre
<1>13. QED
    BY <1>1, <1>5, <1>10, <1>11, <1>12 DEF Under

\* All events are filed under the id.
LEMMA Renamed ==
    ASSUME NEW E \in Seq(Uses), NEW F \in Seq(Uses), DOMAIN F = DOMAIN E,
           \A i \in DOMAIN E : F[i].key = "id" /\ F[i].cost = E[i].cost
    PROVE  /\ Tally(F, "id") = Tally(E, "id") + Tally(E, "slug")
           /\ Worth(F, "id") = Worth(E, "id") + Worth(E, "slug")
           /\ Paid(F, "id") = 0 <=> Paid(E, "id") = 0 /\ Paid(E, "slug") = 0
           /\ Tally(F, "slug") = 0
<1>1. \A i \in DOMAIN E : E[i].key \in {"id", "slug"}
    <2>1. \A i \in DOMAIN E : E[i] \in Uses
        OBVIOUS
    <2>2. QED
        BY <2>1 DEF Uses, Books!Names
<1>2. /\ Mine(F, "id") = Mine(E, "id") \cup Mine(E, "slug")
      /\ Mine(E, "id") \cap Mine(E, "slug") = {} /\ Mine(F, "slug") = {}
    BY <1>1 DEF Mine
<1>3. /\ Priced(F, "id") = Priced(E, "id") \cup Priced(E, "slug")
      /\ Priced(E, "id") \cap Priced(E, "slug") = {}
    BY <1>1 DEF Mine, Priced
<1>4. Tally(F, "id") = Tally(E, "id") + Tally(E, "slug")
    <2>1. Tally(F, "id") = Tally(E, "id") + Tally(E, "slug") - Cardinality({})
        BY <1>2, EventsAre, FS_Union DEF Tally
    <2>2. QED
        BY <2>1, EventsAre, FS_EmptySet
<1>5. \A k : \A i \in Priced(E, k) : Cost(F)[i] = Cost(E)[i]
    BY DEF Cost, Priced, Mine
<1>6. \A k : Cap!Sum(Cost(F), Priced(E, k)) = Worth(E, k)
    BY <1>5, EventsAre, SumSame DEF Worth
<1>7. Worth(F, "id") = Worth(E, "id") + Worth(E, "slug")
    <2>1. \A i \in Priced(E, "id") \cup Priced(E, "slug") : Cost(F)[i] \in Int
        BY <1>5, EventsAre
    <2>2. Cap!Sum(Cost(F), Priced(E, "id") \cup Priced(E, "slug"))
            = Cap!Sum(Cost(F), Priced(E, "id")) + Cap!Sum(Cost(F), Priced(E, "slug"))
        BY <1>3, <2>1, EventsAre, SumUnion
    <2>3. QED
        BY <1>3, <1>6, <2>2 DEF Worth
<1>8. Tally(F, "slug") = 0
    BY <1>2, FS_EmptySet DEF Tally
<1>9. Paid(F, "id") = 0 <=> Paid(E, "id") = 0 /\ Paid(E, "slug") = 0
    BY <1>3, EventsAre
<1>10. QED
    BY <1>4, <1>7, <1>8, <1>9

-----------------------------------------------------------------------------
(* The rows of the rollup stay in agreement. *)

LEMMA PlusIs ==
    ASSUME NEW a \in Costs, NEW b \in Costs
    PROVE  /\ Books!Plus(a, b) \in Costs
           /\ Zero(a) \in Nat /\ Zero(b) \in Nat
           /\ Books!Plus(a, b) = IF a = Books!None /\ b = Books!None THEN Books!None
                                 ELSE Zero(a) + Zero(b)
BY DEF Books!Plus, Books!None, Zero, Costs

LEMMA KnownIs ==
    ASSUME NEW p, NEW worth \in Nat, p = 0 => worth = 0, NEW money \in Costs
    PROVE  /\ Known(p, worth, money) \in Costs
           /\ Zero(Known(p, worth, money)) = worth + Zero(money)
           /\ Known(p, worth, money) = Books!None <=> (p = 0 /\ money = Books!None)
           /\ p # 0 \/ money # Books!None => Known(p, worth, money) = worth + Zero(money)
<1>1. CASE p = 0 /\ money = Books!None
    BY <1>1 DEF Known, Zero, Costs, Books!None
<1>2. CASE ~(p = 0 /\ money = Books!None)
    <2>1. Known(p, worth, money) = worth + Zero(money) /\ Zero(money) \in Nat
        BY <1>2, PlusIs DEF Known
    <2>2. PICK n \in Nat : n = worth + Zero(money)
        BY <2>1
    <2>3. n # Books!None /\ Zero(n) = n /\ n \in Costs
        BY DEF Zero, Books!None, Costs
    <2>4. QED
        BY <1>2, <2>1, <2>2, <2>3
<1>3. QED
    BY <1>1, <1>2

LEMMA PlusSome ==
    ASSUME NEW a \in Costs, NEW m \in Nat
    PROVE  /\ Books!Plus(a, m) = Zero(a) + m
           /\ Books!Plus(a, Books!None) = a
           /\ Books!Plus(Books!None, m) = m
BY DEF Books!Plus, Books!None, Zero, Costs

LEMMA KnownMore ==
    ASSUME NEW p, NEW q, q # 0, NEW worth \in Nat, p = 0 => worth = 0,
           NEW money \in Costs, NEW m, m \in Nat, NEW more, more = worth + m
    PROVE  Books!Plus(Known(p, worth, money), m) = Known(q, more, money)
<1>1. Known(p, worth, money) \in Costs /\ Zero(Known(p, worth, money)) = worth + Zero(money)
    BY KnownIs
<1>2. Books!Plus(Known(p, worth, money), m) = (worth + Zero(money)) + m
    BY <1>1, PlusSome
<1>3. Zero(money) \in Nat
    BY PlusIs
<1>4. Known(q, more, money) = (worth + m) + Zero(money)
    BY DEF Known
<1>5. QED
    BY <1>2, <1>3, <1>4

LEMMA KnownSame ==
    ASSUME NEW p, NEW q, p = 0 <=> q = 0, NEW worth, NEW a, NEW b,
           a = Books!None <=> b = Books!None, Zero(a) = Zero(b)
    PROVE  Known(p, worth, a) = Known(q, worth, b)
BY DEF Known

LEMMA KnownPlus ==
    ASSUME NEW p, NEW q, NEW r, r = 0 <=> p = 0 /\ q = 0,
           NEW v, NEW w, v \in Nat /\ w \in Nat, p = 0 => v = 0, q = 0 => w = 0,
           NEW a \in Costs, NEW b \in Costs, NEW c,
           c = Books!None <=> a = Books!None /\ b = Books!None, Zero(c) = Zero(a) + Zero(b),
           NEW both, both = v + w
    PROVE  Books!Plus(Known(p, v, a), Known(q, w, b)) = Known(r, both, c)
<1> DEFINE x == Known(p, v, a)
           y == Known(q, w, b)
<1>1. /\ x \in Costs /\ Zero(x) = v + Zero(a)
      /\ x = Books!None <=> (p = 0 /\ a = Books!None)
    BY KnownIs
<1>2. /\ y \in Costs /\ Zero(y) = w + Zero(b)
      /\ y = Books!None <=> (q = 0 /\ b = Books!None)
    BY KnownIs
<1> HIDE DEF x, y
<1>3. Books!Plus(x, y) = IF x = Books!None /\ y = Books!None THEN Books!None
                         ELSE Zero(x) + Zero(y)
    BY <1>1, <1>2, PlusIs
<1>4. (x = Books!None /\ y = Books!None) <=> (r = 0 /\ c = Books!None)
    BY <1>1, <1>2
<1>5. Zero(x) + Zero(y) = (v + w) + Zero(c)
    <2>1. Zero(a) \in Nat /\ Zero(b) \in Nat
        BY PlusIs
    <2>2. QED
        BY <1>1, <1>2, <2>1
<1>6. QED
    BY <1>3, <1>4, <1>5 DEF Known, x, y

LEMMA NoRowIs == Books!NoRow.none /\ Books!NoRow \in Days
BY DEF Books!NoRow, Days

LEMMA DaysAre ==
    ASSUME NEW day \in Days, ~day.none
    PROVE  /\ day.n \in Nat /\ day.cost \in Costs /\ day.parts \in Costs
           /\ day.merged \in BOOLEAN
           /\ day \in [none : {FALSE}, n : Nat, cost : Costs, parts : Costs, merged : BOOLEAN]
<1>1. day # Books!NoRow
    BY NoRowIs
<1>2. day \in [none : {FALSE}, n : Nat, cost : Costs, parts : Costs, merged : BOOLEAN]
    BY <1>1 DEF Days
<1>3. QED
    BY <1>2

LEMMA OldsAre ==
    ASSUME NEW old \in Olds
    PROVE  /\ old.n \in Nat /\ old.cost \in Costs /\ Zero(old.cost) = old.n
           /\ old.cost = Books!None <=> old.n = 0
BY DEF Olds, Zero, Books!None

LEMMA CostMore ==
    ASSUME NEW day \in Days, ~day.none, NEW c \in Costs
    PROVE  LET next == [day EXCEPT !.n = @ + 1, !.cost = Books!Plus(@, c),
                                   !.parts = Books!Plus(@, c)]
           IN  /\ next \in Days /\ next.none = FALSE /\ next.n = day.n + 1
               /\ next.cost = Books!Plus(day.cost, c)
               /\ next.parts = Books!Plus(day.parts, c)
               /\ next.merged = day.merged
<1>1. Books!Plus(day.cost, c) \in Costs /\ Books!Plus(day.parts, c) \in Costs
    BY PlusIs, DaysAre
<1>2. day \in [none : {FALSE}, n : Nat, cost : Costs, parts : Costs, merged : BOOLEAN]
    BY DaysAre
<1>3. PICK next : next = [day EXCEPT !.n = @ + 1, !.cost = Books!Plus(@, c),
                                     !.parts = Books!Plus(@, c)]
    OBVIOUS
<1>4. day.n + 1 \in Nat
    <2>1. day.n \in Nat
        BY DaysAre
    <2>2. QED
        BY <2>1
<1>5. /\ next \in [none : {FALSE}, n : Nat, cost : Costs, parts : Costs, merged : BOOLEAN]
      /\ next.none = FALSE /\ next.n = day.n + 1
      /\ next.cost = Books!Plus(day.cost, c)
      /\ next.parts = Books!Plus(day.parts, c)
      /\ next.merged = day.merged
    BY <1>1, <1>2, <1>3, <1>4
<1>6. QED
    BY <1>3, <1>5 DEF Days

LEMMA CostGrows ==
    ASSUME NEW day \in Days, ~day.none, NEW c \in Nat
    PROVE  LET next == [day EXCEPT !.cost = Books!Plus(@, c), !.parts = Books!Plus(@, c)]
           IN  /\ next \in Days /\ next.none = FALSE /\ next.n = day.n
               /\ next.cost = Books!Plus(day.cost, c)
               /\ next.parts = Books!Plus(day.parts, c)
               /\ next.merged = day.merged
<1>1. c \in Costs
    BY DEF Costs
<1>2. Books!Plus(day.cost, c) \in Costs /\ Books!Plus(day.parts, c) \in Costs
    BY <1>1, PlusIs, DaysAre
<1>3. day \in [none : {FALSE}, n : Nat, cost : Costs, parts : Costs, merged : BOOLEAN]
    BY DaysAre
<1>4. QED
    BY <1>2, <1>3 DEF Days

LEMMA MergedDay ==
    ASSUME NEW kept \in Days, ~kept.none, NEW gone \in Days, ~gone.none
    PROVE  Books!Merge(kept, gone) \in Days
<1>0. PICK merged \in BOOLEAN : merged = (kept.merged \/ gone.merged \/ gone.cost # Books!None)
    OBVIOUS
<1>1. PICK n, money : n = kept.n + gone.n /\ money = Books!Plus(kept.cost, gone.cost)
    OBVIOUS
<1>2. n \in Nat /\ money \in Costs /\ kept.parts \in Costs
    <2>1. kept.n \in Nat /\ gone.n \in Nat /\ kept.cost \in Costs /\ gone.cost \in Costs
          /\ kept.parts \in Costs
        BY DaysAre
    <2>2. Books!Plus(kept.cost, gone.cost) \in Costs
        BY <2>1, PlusIs
    <2>3. QED
        BY <1>1, <2>1, <2>2
<1>3. Books!Merge(kept, gone) = Books!Sums(n, money, kept.parts, merged)
    BY <1>0, <1>1 DEF Books!Merge
<1>4. QED
    BY <1>2, <1>3 DEF Books!Sums, Days

LEMMA AgreesSame ==
    ASSUME NEW day, NEW E, NEW F, NEW old, NEW k,
           Tally(F, k) = Tally(E, k), Paid(F, k) = Paid(E, k), Worth(F, k) = Worth(E, k),
           Agrees(day, E, old, k)
    PROVE  Agrees(day, F, old, k)
BY DEF Agrees

LEMMA AgreesOneMore ==
    ASSUME NEW E \in Seq(Uses), NEW e \in Uses, NEW day \in Days, NEW old \in Olds,
           Agrees(day, E, old, e.key)
    PROVE  /\ Books!Rollup(day, e.cost) \in Days
           /\ Agrees(Books!Rollup(day, e.cost), Append(E, e), old, e.key)
<1> DEFINE F == Append(E, e)
           k == e.key
<1>0. PICK next : next = Books!Rollup(day, e.cost)
    OBVIOUS
<1>1. e.cost \in Costs /\ e.key = k
    BY DEF Uses
<1>2. /\ Tally(F, k) = Tally(E, k) + 1
      /\ IF e.cost # Books!None
         THEN Paid(F, k) # 0 /\ Worth(F, k) = Worth(E, k) + e.cost
         ELSE Paid(F, k) = Paid(E, k) /\ Worth(F, k) = Worth(E, k)
    BY <1>1, Appended
<1>3. /\ Tally(E, k) \in Nat /\ Worth(E, k) \in Nat
      /\ Tally(E, k) = 0 => Paid(E, k) = 0
      /\ Paid(E, k) = 0 => Worth(E, k) = 0
    BY EventsAre
<1>4. /\ old.n \in Nat /\ old.cost \in Costs /\ Zero(old.cost) = old.n
      /\ old.cost = Books!None <=> old.n = 0
    BY OldsAre
<1>5. e.cost = Books!None \/ (e.cost \in Nat /\ e.cost # Books!None)
    BY <1>1 DEF Costs
<1> HIDE DEF F, k
<1>9. Books!Plus(Known(Paid(E, k), Worth(E, k), old.cost), e.cost)
        = Known(Paid(F, k), Worth(F, k), old.cost)
    <2>1. CASE e.cost = Books!None
        <3>1. Known(Paid(E, k), Worth(E, k), old.cost) \in Costs
            BY <1>3, <1>4, KnownIs
        <3>2. 0 \in Nat
            OBVIOUS
        <3>3. QED
            BY <1>2, <2>1, <3>1, <3>2, PlusSome
    <2>2. CASE e.cost \in Nat /\ e.cost # Books!None
        <3>1. Paid(F, k) # 0 /\ Worth(F, k) = Worth(E, k) + e.cost
            BY <1>2, <2>2
        <3>2. QED
            BY <1>3, <1>4, <2>2, <3>1, KnownMore
    <2>3. QED
        BY <1>5, <2>1, <2>2
<1>6. CASE day.none
    <2>1. next = Books!Sums(1, e.cost, e.cost, FALSE)
        BY <1>0, <1>6 DEF Books!Rollup
    <2>2. next \in Days /\ next.none = FALSE /\ next.n = 1 /\ next.cost = e.cost
          /\ next.parts = e.cost
        BY <1>1, <2>1 DEF Books!Sums, Days
    <2>3. Tally(E, k) = 0 /\ old.n = 0
        BY <1>3, <1>4, <1>6 DEF Agrees, k
    <2>4. next.cost = Known(Paid(F, k), Worth(F, k), old.cost)
        <3>1. Known(Paid(E, k), Worth(E, k), old.cost) = Books!None
            BY <1>3, <1>4, <2>3 DEF Known
        <3>2. Books!Plus(Books!None, e.cost) = e.cost
            <4>1. Books!None \in Costs /\ 0 \in Nat
                BY DEF Costs
            <4>2. QED
                BY <1>5, <4>1, PlusSome
        <3>3. QED
            BY <1>9, <2>2, <3>1, <3>2
    <2>5. Agrees(next, F, old, k)
        BY <1>2, <2>2, <2>3, <2>4 DEF Agrees
    <2>6. QED
        BY <1>0, <2>2, <2>5 DEF F, k
<1>7. CASE ~day.none
    <2>1. next = [day EXCEPT !.n = @ + 1, !.cost = Books!Plus(@, e.cost),
                             !.parts = Books!Plus(@, e.cost)]
        BY <1>0, <1>7 DEF Books!Rollup
    <2>2. /\ next \in Days /\ next.none = FALSE /\ next.n = day.n + 1
          /\ next.cost = Books!Plus(day.cost, e.cost)
          /\ next.parts = Books!Plus(day.parts, e.cost)
          /\ next.merged = day.merged
        BY <1>1, <1>7, <2>1, CostMore
    <2>3. /\ day.n = Tally(E, k) + old.n
          /\ day.cost = Known(Paid(E, k), Worth(E, k), old.cost)
          /\ ~day.merged => day.parts = day.cost
        BY <1>7 DEF Agrees, k
    <2>6. next.cost = Known(Paid(F, k), Worth(F, k), old.cost)
        BY <1>9, <2>2, <2>3
    <2>7. next.n = Tally(F, k) + old.n
        <3>1. next.n = day.n + 1 /\ day.n = Tally(E, k) + old.n
            BY <2>2, <2>3
        <3>2. QED
            BY <1>2, <1>3, <1>4, <3>1
    <2>8. ~next.merged => next.parts = next.cost
        BY <2>2, <2>3
    <2>9. Agrees(next, F, old, k)
        BY <2>2, <2>6, <2>7, <2>8 DEF Agrees
    <2>10. QED
        BY <1>0, <2>2, <2>9 DEF F, k
<1>8. QED
    BY <1>6, <1>7

\* The day after a repair that gave events of it more of a cost.
LEMMA AgreesRepaired ==
    ASSUME NEW E \in Seq(Uses), NEW F \in Seq(Uses), NEW day \in Days,
           NEW old \in Olds, NEW k,
           NEW c \in Nat, Tally(F, k) = Tally(E, k), Tally(E, k) # 0, Paid(F, k) # 0,
           Worth(F, k) = Worth(E, k) + c, Agrees(day, E, old, k)
    PROVE  LET next == [day EXCEPT !.cost = Books!Plus(@, c), !.parts = Books!Plus(@, c)]
           IN  ~day.none /\ next \in Days /\ Agrees(next, F, old, k)
<1>1. /\ Tally(E, k) \in Nat /\ Worth(E, k) \in Nat
      /\ Paid(E, k) = 0 => Worth(E, k) = 0
    BY EventsAre
<1>2. /\ old.n \in Nat /\ old.cost \in Costs /\ Zero(old.cost) = old.n
      /\ old.cost = Books!None <=> old.n = 0
    BY OldsAre
<1>3. ~day.none
    BY <1>1, <1>2 DEF Agrees
<1>4. day.n \in Nat /\ day.cost \in Costs /\ c \in Costs
    BY <1>3, DaysAre DEF Costs
<1>5. PICK next : next = [day EXCEPT !.cost = Books!Plus(@, c), !.parts = Books!Plus(@, c)]
    OBVIOUS
<1>6. /\ next \in Days /\ next.none = FALSE /\ next.n = day.n
      /\ next.cost = Books!Plus(day.cost, c)
      /\ next.parts = Books!Plus(day.parts, c)
      /\ next.merged = day.merged
    BY <1>3, <1>5, CostGrows
<1>7. /\ day.n = Tally(E, k) + old.n
      /\ day.cost = Known(Paid(E, k), Worth(E, k), old.cost)
      /\ ~day.merged => day.parts = day.cost
    BY <1>3 DEF Agrees
<1>8. next.cost = Known(Paid(F, k), Worth(F, k), old.cost)
    <2>1. old.cost \in Costs /\ day.cost = Known(Paid(E, k), Worth(E, k), old.cost)
        BY <1>2, <1>7
    <2>2. Books!Plus(day.cost, c) = Known(Paid(F, k), Worth(F, k), old.cost)
        BY <1>1, <2>1, KnownMore
    <2>3. QED
        BY <1>6, <2>2
<1>9. next.n = Tally(F, k) + old.n /\ (~next.merged => next.parts = next.cost)
    BY <1>6, <1>7
<1>10. Agrees(next, F, old, k)
    BY <1>6, <1>8, <1>9 DEF Agrees
<1>11. QED
    BY <1>3, <1>5, <1>6, <1>10

\* The slug's row is merged into the id's.
LEMMA AgreesMerged ==
    ASSUME NEW E \in Seq(Uses), NEW F \in Seq(Uses),
           Tally(F, "id") = Tally(E, "id") + Tally(E, "slug"),
           Worth(F, "id") = Worth(E, "id") + Worth(E, "slug"),
           Paid(F, "id") = 0 <=> Paid(E, "id") = 0 /\ Paid(E, "slug") = 0,
           NEW kept \in Days, NEW gone \in Days, ~gone.none,
           NEW a \in Olds, NEW b \in Olds,
           Agrees(kept, E, a, "id"), Agrees(gone, E, b, "slug")
    PROVE  LET next == IF kept.none THEN gone ELSE Books!Merge(kept, gone)
               old == [n |-> a.n + b.n,
                       cost |-> IF a.cost = Books!None /\ b.cost = Books!None THEN Books!None
                                ELSE a.n + b.n]
           IN  next \in Days /\ old \in Olds /\ Agrees(next, F, old, "id")
<1>1. PICK old : old = [n |-> a.n + b.n,
                        cost |-> IF a.cost = Books!None /\ b.cost = Books!None THEN Books!None
                                 ELSE a.n + b.n]
    OBVIOUS
<1>2. /\ a.n \in Nat /\ a.cost \in Costs /\ Zero(a.cost) = a.n
      /\ a.cost = Books!None <=> a.n = 0
      /\ b.n \in Nat /\ b.cost \in Costs /\ Zero(b.cost) = b.n
      /\ b.cost = Books!None <=> b.n = 0
    BY OldsAre
<1>3. old \in Olds /\ old.n = a.n + b.n
    BY <1>1, <1>2 DEF Olds, Costs
<1>4. Zero(old.cost) = old.n /\ (old.cost = Books!None <=> old.n = 0)
    BY <1>3, OldsAre
<1>5. /\ Tally(E, "id") \in Nat /\ Worth(E, "id") \in Nat
      /\ Tally(E, "id") = 0 => Paid(E, "id") = 0
      /\ Paid(E, "id") = 0 => Worth(E, "id") = 0
      /\ Tally(E, "slug") \in Nat /\ Worth(E, "slug") \in Nat
      /\ Paid(E, "slug") = 0 => Worth(E, "slug") = 0
    BY EventsAre
<1>6. /\ gone.n = Tally(E, "slug") + b.n
      /\ gone.cost = Known(Paid(E, "slug"), Worth(E, "slug"), b.cost)
    BY DEF Agrees
<1>7. gone.n \in Nat /\ gone.cost \in Costs /\ gone.parts \in Costs /\ gone.merged \in BOOLEAN
    BY DaysAre
<1>8. CASE kept.none
    <2>1. Tally(E, "id") = 0 /\ a.n = 0
        BY <1>2, <1>5, <1>8 DEF Agrees
    <2>2. old.n = b.n /\ (old.cost = Books!None <=> b.cost = Books!None)
        BY <1>2, <1>3, <1>4, <2>1
    <2>3. gone.cost = Known(Paid(F, "id"), Worth(F, "id"), old.cost)
        <3>1. Paid(F, "id") = 0 <=> Paid(E, "slug") = 0
            BY <1>5, <2>1
        <3>2. Worth(F, "id") = Worth(E, "slug")
            BY <1>5, <2>1
        <3>3. Zero(b.cost) = Zero(old.cost)
            BY <1>2, <1>4, <2>2
        <3>4. QED
            BY <1>6, <2>2, <3>1, <3>2, <3>3, KnownSame
    <2>4. gone.n = Tally(F, "id") + old.n
        BY <1>2, <1>5, <1>6, <2>1, <2>2
    <2>5. Agrees(gone, F, old, "id")
        BY <2>3, <2>4 DEF Agrees
    <2>6. QED
        BY <1>1, <1>3, <1>8, <2>5
<1>9. CASE ~kept.none
    <2>0. ~kept.merged => kept.parts = kept.cost
        BY <1>9 DEF Agrees
    <2>1. /\ kept.n = Tally(E, "id") + a.n
          /\ kept.cost = Known(Paid(E, "id"), Worth(E, "id"), a.cost)
        BY <1>9 DEF Agrees
    <2>2. kept.n \in Nat /\ kept.cost \in Costs /\ kept.parts \in Costs
          /\ kept.merged \in BOOLEAN
        BY <1>9, DaysAre
    <2>3. PICK both : both = Books!Plus(kept.cost, gone.cost)
        OBVIOUS
    <2>4. both \in Costs
        BY <1>7, <2>2, <2>3, PlusIs
    <2>5. PICK m \in BOOLEAN : m = (kept.merged \/ gone.merged \/ gone.cost # Books!None)
        OBVIOUS
    <2>6. PICK next : next = Books!Sums(kept.n + gone.n, both, kept.parts, m)
        OBVIOUS
    <2>7. next = Books!Merge(kept, gone)
        BY <2>3, <2>5, <2>6 DEF Books!Merge
    <2>8. /\ next \in Days /\ next.none = FALSE /\ next.n = kept.n + gone.n
          /\ next.cost = both /\ next.parts = kept.parts /\ next.merged = m
        <3>1. kept.n + gone.n \in Nat
            BY <1>7, <2>2
        <3>2. QED
            BY <2>2, <2>4, <2>6, <3>1 DEF Books!Sums, Days
    <2>9. old.cost = Books!None <=> (a.cost = Books!None /\ b.cost = Books!None)
        BY <1>2, <1>3, <1>4
    <2>10. Zero(old.cost) = Zero(a.cost) + Zero(b.cost)
        BY <1>2, <1>3, <1>4
    <2>11. Books!Plus(kept.cost, gone.cost) = Known(Paid(F, "id"), Worth(F, "id"), old.cost)
        <3>1. a.cost \in Costs /\ b.cost \in Costs
            BY <1>2
        <3>2. Books!Plus(Known(Paid(E, "id"), Worth(E, "id"), a.cost),
                         Known(Paid(E, "slug"), Worth(E, "slug"), b.cost))
                = Known(Paid(F, "id"), Worth(F, "id"), old.cost)
            BY <1>5, <2>9, <2>10, <3>1, KnownPlus
        <3>3. QED
            BY <1>6, <2>1, <3>2
    <2>12. both = Known(Paid(F, "id"), Worth(F, "id"), old.cost)
        BY <2>3, <2>11
    <2>13. next.n = Tally(F, "id") + old.n
        BY <1>2, <1>3, <1>5, <1>6, <2>1, <2>8
    <2>14. ~next.merged => next.parts = next.cost
        <3>1. ASSUME ~next.merged PROVE ~kept.merged /\ gone.cost = Books!None
            BY <3>1, <2>5, <2>8
        <3>2. ASSUME gone.cost = Books!None PROVE both = kept.cost
            <4>1. 0 \in Nat
                OBVIOUS
            <4>2. QED
                BY <2>2, <2>3, <3>2, <4>1, PlusSome
        <3>3. QED
            BY <2>0, <2>8, <3>1, <3>2
    <2>15. Agrees(next, F, old, "id")
        BY <2>8, <2>12, <2>13, <2>14 DEF Agrees
    <2>16. QED
        BY <1>1, <1>3, <1>9, <2>7, <2>8, <2>15
<1>10. QED
    BY <1>8, <1>9

-----------------------------------------------------------------------------
(* The inductive invariant. *)

BooksSetting == Rates \subseteq Nat /\ Base \in Nat /\ FileRate \in Costs

Prices == [none : {FALSE}, rate : Costs, default : BOOLEAN, at : Nat]

Filings == {Books!Idle} \cup [pc : {"commit"}, rate : Costs]

Writings ==
    {Books!Idle}
    \cup [pc : {"upsert"}, rate : Costs, default : BOOLEAN]
    \cup [pc : {"set", "apply"}, rate : Costs]
    \cup [pc : {"delete", "insert", "list", "remove", "lookup"}]

Repairs ==
    {Books!Idle}
    \cup [pc : {"plan"}, price : {Books!NoRow} \cup Prices, ignore_age : BOOLEAN]
    \cup [pc : {"apply"}, price : {Books!NoRow} \cup Prices, late : BOOLEAN, aged : SUBSET Nat,
          rows : SUBSET [at : Nat, key : Books!Names]]

BooksTyped ==
    /\ price \in {Books!NoRow} \cup Prices
    /\ inForce \in Costs \cup {Books!Absent}
    /\ usage \in Seq(Uses)
    /\ rollup \in [Books!Names -> Days]
    /\ filing \in [Recorders -> Filings]
    /\ pricing \in [Writers -> Writings]
    /\ repricing \in [Jobs -> Repairs]
    /\ writings \in Nat
    /\ before \in [Books!Names -> Olds]
    /\ overlapped \in BOOLEAN /\ overtaken \in BOOLEAN

\* What was used since the price was put was used at that price.
TimesFit ==
    \A i \in DOMAIN usage :
        /\ usage[i].at <= writings
        /\ price # Books!NoRow /\ usage[i].at >= price.at => usage[i].was = price.rate

\* A plan names events there are, that were used at the price it gives them, unless
\* the price was rewritten while it was made, or they are older than it.
Planned(j) ==
    /\ repricing[j].pc \in {"plan", "apply"} => Books!RateOf(repricing[j].price) \in Nat
    /\ repricing[j].pc = "apply" =>
          /\ IsFiniteSet(repricing[j].rows)
          /\ \A p \in repricing[j].rows :
                /\ p.at \in DOMAIN usage
                /\ \/ repricing[j].late \/ p.at \in repricing[j].aged
                   \/ usage[p.at].was = Books!RateOf(repricing[j].price)

PlansFit == \A j \in Jobs : Planned(j)

\* The row is written and the live table not yet brought up to date with it.
Ahead(w) == pricing[w].pc \in {"set", "remove", "lookup", "list", "apply"}

InRow == IF price = Books!NoRow THEN Books!Absent ELSE price.rate

\* What w is to bring the live table to is what the row says.
Owed(w) ==
    /\ pricing[w].pc \in {"set", "apply"} =>
          price # Books!NoRow /\ price.rate = pricing[w].rate
    /\ pricing[w].pc \in {"remove", "lookup"} => price = Books!NoRow
    /\ pricing[w].pc = "lookup" => inForce = Books!Absent
    /\ pricing[w].pc = "list" => price # Books!NoRow

PricesFit ==
    ~overlapped =>
        /\ \A v, w \in Writers : Ahead(v) /\ Ahead(w) => v = w
        /\ \A w \in Writers : Owed(w)
        /\ (\A w \in Writers : ~Ahead(w)) => inForce = InRow

Rated(e) ==
    IF e.fixed THEN e.rated = Books!None /\ (e.cost = e.was \/ e.late \/ e.aged)
    ELSE e.cost = e.rated

SumsFit ==
    overtaken \/ /\ \A k \in Books!Names : Agrees(rollup[k], usage, before[k], k)
                 /\ \A i \in DOMAIN usage : Rated(usage[i])

BooksFit == BooksTyped /\ TimesFit /\ PlansFit /\ PricesFit /\ SumsFit

LEMMA SumsKept ==
    BooksFit /\ UNCHANGED <<usage, rollup, before, overtaken>> => SumsFit'
BY DEF BooksFit, SumsFit

LEMMA TimesKept == BooksFit /\ UNCHANGED <<price, usage, writings>> => TimesFit'
BY DEF BooksFit, TimesFit

LEMMA PlansKept == BooksFit /\ UNCHANGED <<usage, repricing>> => PlansFit'
BY DEF BooksFit, PlansFit, Planned

LEMMA PricesKept ==
    BooksFit /\ UNCHANGED <<price, inForce, pricing, overlapped>> => PricesFit'
BY DEF BooksFit, PricesFit, Ahead, Owed, InRow

LEMMA BooksHold == BooksFit => Books!LedgerAgrees
<1> SUFFICES ASSUME BooksFit PROVE Books!LedgerAgrees
    OBVIOUS
<1>1. overtaken \/ (Books!RollupAgrees /\ Books!NeverRerated)
    BY RollupIs DEF BooksFit, BooksTyped, SumsFit, Rated, Books!NeverRerated
<1>2. overlapped \/ Books!PriceInForce
    <2>1. \A w \in Writers : pricing[w].pc = "idle" => ~Ahead(w)
        BY DEF Ahead
    <2>2. QED
        BY <2>1 DEF BooksFit, PricesFit, InRow, Books!PriceInForce
<1>3. QED
    BY <1>1, <1>2 DEF Books!LedgerAgrees

-----------------------------------------------------------------------------
(* Prices. *)

\* A writer that alone was ahead of the live table, or is now, goes on to next.
LEMMA PricesMove ==
    ASSUME NEW w \in Writers, NEW next, pricing \in [Writers -> Writings],
           pricing' = [pricing EXCEPT ![w] = next],
           ~overlapped' =>
               /\ \A v \in Writers \ {w} : ~Ahead(v)
               /\ next.pc \in {"set", "apply"} =>
                     price' # Books!NoRow /\ price'.rate = next.rate
               /\ next.pc \in {"remove", "lookup"} => price' = Books!NoRow
               /\ next.pc = "lookup" => inForce' = Books!Absent
               /\ next.pc = "list" => price' # Books!NoRow
               /\ next.pc \notin {"set", "remove", "lookup", "list", "apply"} =>
                     inForce' = IF price' = Books!NoRow THEN Books!Absent ELSE price'.rate
    PROVE  PricesFit'
<1> SUFFICES ASSUME ~overlapped'
             PROVE  /\ \A u, v \in Writers : Ahead(u)' /\ Ahead(v)' => u = v
                    /\ \A v \in Writers : Owed(v)'
                    /\ (\A v \in Writers : ~Ahead(v)') => inForce' = InRow'
    BY DEF PricesFit
<1>1. /\ pricing'[w] = next
      /\ \A v \in Writers \ {w} : pricing'[v] = pricing[v]
    OBVIOUS
<1>2. \A v \in Writers \ {w} : ~Ahead(v)' /\ Owed(v)'
    BY <1>1 DEF Ahead, Owed
<1>3. Owed(w)'
    BY <1>1 DEF Owed
<1>4. ~Ahead(w)' => inForce' = InRow'
    BY <1>1 DEF Ahead, InRow
<1>5. QED
    BY <1>2, <1>3, <1>4

LEMMA WriterMoves ==
    ASSUME BooksFit, NEW w \in Writers, NEW next \in Writings,
           pricing' = [pricing EXCEPT ![w] = next],
           UNCHANGED <<usage, rollup, before, overtaken, filing, repricing>>,
           price' \in {Books!NoRow} \cup Prices, inForce' \in Costs \cup {Books!Absent},
           writings' \in Nat, overlapped' \in BOOLEAN, TimesFit', PricesFit'
    PROVE  BooksFit'
<1>1. BooksTyped'
    BY DEF BooksFit, BooksTyped
<1>2. SumsFit' /\ PlansFit'
    BY SumsKept, PlansKept
<1>3. QED
    BY <1>1, <1>2 DEF BooksFit

LEMMA WritingsAre ==
    /\ Books!Idle \in Writings /\ Books!Idle.pc = "idle"
    /\ \A step \in {"delete", "insert", "list", "remove", "lookup"} : [pc |-> step] \in Writings
    /\ \A step \in {"set", "apply"} : \A c \in Costs : [pc |-> step, rate |-> c] \in Writings
    /\ \A c \in Costs : \A b \in BOOLEAN :
          [pc |-> "upsert", rate |-> c, default |-> b] \in Writings
BY DEF Writings, Books!Idle

LEMMA WordsAre ==
    ASSUME NEW x \in Writings
    PROVE  /\ x.pc = "upsert" => x.rate \in Costs /\ x.default \in BOOLEAN
           /\ x.pc \in {"set", "apply"} => x.rate \in Costs
BY DEF Writings, Books!Idle

LEMMA PriceIs ==
    ASSUME price \in {Books!NoRow} \cup Prices, price # Books!NoRow
    PROVE  price \in Prices /\ price.rate \in Costs /\ price.at \in Nat
BY DEF Prices

\* A writer begins: it has written nothing yet.
LEMMA BooksBegins ==
    ASSUME BooksFit, NEW w \in Writers, NEW step \in Writings,
           step.pc \in {"upsert", "delete", "insert"}, Books!Begin(w, step)
    PROVE  BooksFit'
<1>1. /\ pricing[w].pc = "idle" /\ pricing' = [pricing EXCEPT ![w] = step]
      /\ UNCHANGED <<price, inForce, usage, rollup, filing, repricing, writings, before,
                     overlapped, overtaken>>
    BY DEF Books!Begin, Books!books, Books!prices
<1>2. /\ pricing'[w] = step
      /\ \A v \in Writers \ {w} : pricing'[v] = pricing[v]
    BY <1>1 DEF BooksFit, BooksTyped
<1>3. \A v \in Writers : (Ahead(v)' <=> Ahead(v)) /\ (Owed(v) => Owed(v)')
    <2> TAKE v \in Writers
    <2>1. CASE v = w
        BY <1>1, <1>2, <2>1 DEF Ahead, Owed
    <2>2. CASE v # w
        BY <1>1, <1>2, <2>2 DEF Ahead, Owed
    <2>3. QED
        BY <2>1, <2>2
<1>4. PricesFit'
    BY <1>1, <1>3 DEF BooksFit, PricesFit, InRow
<1>5. TimesFit'
    BY <1>1, TimesKept
<1>6. QED
    BY <1>1, <1>4, <1>5, WriterMoves DEF BooksFit, BooksTyped

LEMMA BooksWrites ==
    ASSUME BooksFit, NEW w \in Writers, ~Ahead(w), NEW next \in Writings,
           NEW new, new = price \/ new = Books!NoRow
                    \/ (new \in Prices /\ new.at = writings + 1),
           next.pc = "set" => new # Books!NoRow /\ new.rate = next.rate,
           next.pc = "remove" => new = Books!NoRow,
           next.pc = "list" => new # Books!NoRow,
           next.pc \in {"set", "remove", "list"} \/ (next.pc = "idle" /\ new = price),
           Books!Write(w, new, next)
    PROVE  BooksFit'
<1>1. /\ price' = new /\ writings' = (IF new = price THEN writings ELSE writings + 1)
      /\ overlapped' = (overlapped \/ \E v \in Writers \ {w} : Ahead(v))
      /\ pricing' = [pricing EXCEPT ![w] = next]
      /\ UNCHANGED <<inForce, usage, rollup, filing, repricing, before, overtaken>>
    BY DEF Books!Write, Books!books, Ahead
<1>2. price' \in {Books!NoRow} \cup Prices /\ writings' \in Nat /\ overlapped' \in BOOLEAN
    BY <1>1 DEF BooksFit, BooksTyped
<1>3. TimesFit'
    <2> SUFFICES ASSUME NEW i \in DOMAIN usage
                 PROVE  /\ usage[i].at <= writings'
                        /\ new # Books!NoRow /\ usage[i].at >= new.at => usage[i].was = new.rate
        BY <1>1 DEF TimesFit
    <2>1. /\ usage[i].at <= writings /\ writings \in Nat /\ usage[i].at \in Nat
          /\ price # Books!NoRow /\ usage[i].at >= price.at => usage[i].was = price.rate
        <3>1. usage[i] \in Uses
            BY DEF BooksFit, BooksTyped
        <3>2. QED
            BY <3>1 DEF BooksFit, BooksTyped, TimesFit, Uses
    <2>2. QED
        BY <1>1, <2>1
<1>4. PricesFit'
    <2>1. ASSUME ~overlapped'
          PROVE  ~overlapped /\ \A v \in Writers : ~Ahead(v)
        BY <1>1, <2>1
    <2>2. ASSUME ~overlapped' PROVE inForce = InRow
        BY <2>1, <2>2 DEF BooksFit, PricesFit
    <2>3. ASSUME ~overlapped', next.pc = "idle"
          PROVE  inForce' = IF price' = Books!NoRow THEN Books!Absent ELSE price'.rate
        BY <1>1, <2>2, <2>3 DEF InRow
    <2>4. pricing \in [Writers -> Writings]
        BY DEF BooksFit, BooksTyped
    <2>5. QED
        BY <1>1, <2>1, <2>3, <2>4, PricesMove
<1>5. QED
    BY <1>1, <1>2, <1>3, <1>4, WriterMoves DEF BooksFit, BooksTyped

LEMMA BooksPut ==
    ASSUME BooksSetting, BooksFit, NEW w \in Writers,
           NEW rate \in Rates \cup {Books!None},
           Books!Put(w, rate)
    PROVE  BooksFit'
<1>1. rate \in Costs /\ FALSE \in BOOLEAN
    BY DEF BooksSetting, Costs
<1>2. [pc |-> "upsert", rate |-> rate, default |-> FALSE] \in Writings
    BY <1>1, WritingsAre
<1>3. QED
    BY <1>2, BooksBegins DEF Books!Put

LEMMA BooksReset ==
    ASSUME BooksFit, NEW w \in Writers, Books!Reset(w) PROVE BooksFit'
BY WritingsAre, BooksBegins DEF Books!Reset

LEMMA BooksSeed ==
    ASSUME BooksFit, NEW w \in Writers, Books!Seed(w) PROVE BooksFit'
BY WritingsAre, BooksBegins DEF Books!Seed

LEMMA BooksUpsert ==
    ASSUME BooksFit, NEW w \in Writers, Books!Upsert(w) PROVE BooksFit'
<1>1. PICK x : x = pricing[w]
    OBVIOUS
<1>2. x \in Writings /\ x.pc = "upsert" /\ ~Ahead(w)
    BY <1>1 DEF Books!Upsert, BooksFit, BooksTyped, Ahead
<1>3. x.rate \in Costs /\ x.default \in BOOLEAN
    BY <1>2, WordsAre
<1>4. PICK new : /\ new = IF price # Books!NoRow /\ price.rate = x.rate
                             /\ price.default = x.default
                          THEN price ELSE Books!Price(x.rate, x.default, writings + 1)
                 /\ Books!Write(w, new, [pc |-> "set", rate |-> x.rate])
    BY <1>1 DEF Books!Upsert
<1>5. [pc |-> "set", rate |-> x.rate] \in Writings
    BY <1>3, WritingsAre
<1>6. writings + 1 \in Nat
    BY DEF BooksFit, BooksTyped
<1>7. PICK put : put = Books!Price(x.rate, x.default, writings + 1)
    OBVIOUS
<1>8. put \in Prices /\ put.at = writings + 1 /\ put.rate = x.rate /\ put # Books!NoRow
    <2>1. put \in Prices /\ put.at = writings + 1 /\ put.rate = x.rate /\ put.none = FALSE
        BY <1>3, <1>6, <1>7 DEF Books!Price, Prices
    <2>2. QED
        BY <2>1, NoRowIs
<1>9. (new = price \/ new = put) /\ new # Books!NoRow /\ new.rate = x.rate
    BY <1>4, <1>7, <1>8
<1>10. QED
    BY <1>2, <1>4, <1>5, <1>8, <1>9, BooksWrites

LEMMA BooksDelete ==
    ASSUME BooksFit, NEW w \in Writers, Books!Delete(w) PROVE BooksFit'
<1>1. ~Ahead(w) /\ Books!Write(w, Books!NoRow, [pc |-> "remove"])
    BY DEF Books!Delete, Ahead
<1>2. [pc |-> "remove"] \in Writings
    BY WritingsAre
<1>3. QED
    BY <1>1, <1>2, BooksWrites

LEMMA BooksInsert ==
    ASSUME BooksSetting, BooksFit, NEW w \in Writers, Books!Insert(w) PROVE BooksFit'
<1>1. ~Ahead(w)
    BY DEF Books!Insert, Ahead
<1>2. CASE price = Books!NoRow
    <2>1. PICK put : /\ put = Books!Price(Base, TRUE, writings + 1)
                     /\ Books!Write(w, put, [pc |-> "list"])
        BY <1>2 DEF Books!Insert
    <2>2. put \in Prices /\ put.at = writings + 1 /\ put # Books!NoRow
        <3>1. writings + 1 \in Nat /\ Base \in Costs
            BY DEF BooksFit, BooksTyped, BooksSetting, Costs
        <3>2. put \in Prices /\ put.at = writings + 1 /\ put.none = FALSE
            BY <2>1, <3>1 DEF Books!Price, Prices
        <3>3. QED
            BY <3>2, NoRowIs
    <2>3. [pc |-> "list"] \in Writings
        BY WritingsAre
    <2>4. QED
        BY <1>1, <2>1, <2>2, <2>3, BooksWrites
<1>3. CASE price # Books!NoRow
    <2>1. Books!Write(w, price, Books!Idle)
        BY <1>3 DEF Books!Insert
    <2>2. QED
        BY <1>1, <2>1, WritingsAre, BooksWrites
<1>4. QED
    BY <1>2, <1>3

\* Of a writer that is ahead, while writers have not overlapped.
LEMMA AloneAhead ==
    ASSUME BooksFit, NEW w \in Writers, Ahead(w), ~overlapped
    PROVE  (\A v \in Writers \ {w} : ~Ahead(v)) /\ Owed(w)
BY DEF BooksFit, PricesFit

LEMMA BooksList ==
    ASSUME BooksFit, NEW w \in Writers, Books!List(w) PROVE BooksFit'
<1>1. /\ pricing[w].pc = "list"
      /\ UNCHANGED <<price, inForce, usage, rollup, filing, repricing, writings, before,
                     overlapped, overtaken>>
    BY DEF Books!List, Books!books, Books!prices
<1>2. PICK next : /\ pricing' = [pricing EXCEPT ![w] = next]
                  /\ next = IF price = Books!NoRow THEN Books!Idle
                            ELSE [pc |-> "apply", rate |-> price.rate]
    BY DEF Books!List
<1>3. next \in Writings
    BY <1>2, WritingsAre, PriceIs DEF BooksFit, BooksTyped
<1>4. Ahead(w)
    BY <1>1 DEF Ahead
<1>5. ASSUME ~overlapped'
      PROVE  /\ \A v \in Writers \ {w} : ~Ahead(v)
             /\ price # Books!NoRow
    BY <1>1, <1>4, <1>5, AloneAhead DEF Owed
<1>6. pricing \in [Writers -> Writings]
    BY DEF BooksFit, BooksTyped
<1>7. PricesFit'
    BY <1>1, <1>2, <1>5, <1>6, PricesMove
<1>8. TimesFit'
    BY <1>1, TimesKept
<1>9. QED
    BY <1>1, <1>2, <1>3, <1>7, <1>8, WriterMoves DEF BooksFit, BooksTyped

LEMMA BooksSetPrice ==
    ASSUME BooksFit, NEW w \in Writers, Books!SetPrice(w) PROVE BooksFit'
<1>1. /\ pricing[w].pc \in {"set", "apply"} /\ inForce' = pricing[w].rate
      /\ pricing' = [pricing EXCEPT ![w] = Books!Idle]
      /\ UNCHANGED <<price, usage, rollup, filing, repricing, writings, before,
                     overlapped, overtaken>>
    BY DEF Books!SetPrice, Books!Table, Books!books
<1>2. pricing[w].rate \in Costs
    BY <1>1, WordsAre DEF BooksFit, BooksTyped
<1>3. Ahead(w)
    BY <1>1 DEF Ahead
<1>4. ASSUME ~overlapped'
      PROVE  /\ \A v \in Writers \ {w} : ~Ahead(v)
             /\ price # Books!NoRow /\ price.rate = inForce'
    BY <1>1, <1>3, <1>4, AloneAhead DEF Owed
<1>5. pricing \in [Writers -> Writings]
    BY DEF BooksFit, BooksTyped
<1>6. PricesFit'
    BY <1>1, <1>4, <1>5, WritingsAre, PricesMove
<1>7. TimesFit'
    BY <1>1, TimesKept
<1>8. QED
    BY <1>1, <1>2, <1>6, <1>7, WritingsAre, WriterMoves DEF BooksFit, BooksTyped

LEMMA BooksRemovePrice ==
    ASSUME BooksFit, NEW w \in Writers, Books!RemovePrice(w) PROVE BooksFit'
<1>1. PICK next : next = [pc |-> "lookup"]
    OBVIOUS
<1>2. /\ pricing[w].pc = "remove" /\ inForce' = Books!Absent
      /\ pricing' = [pricing EXCEPT ![w] = next]
      /\ UNCHANGED <<price, usage, rollup, filing, repricing, writings, before,
                     overlapped, overtaken>>
    BY <1>1 DEF Books!RemovePrice, Books!Table, Books!books
<1>3. Ahead(w)
    BY <1>2 DEF Ahead
<1>4. ASSUME ~overlapped'
      PROVE  (\A v \in Writers \ {w} : ~Ahead(v)) /\ price = Books!NoRow
    BY <1>2, <1>3, <1>4, AloneAhead DEF Owed
<1>5. next \in Writings /\ next.pc = "lookup"
    BY <1>1, WritingsAre
<1>6. pricing \in [Writers -> Writings]
    BY DEF BooksFit, BooksTyped
<1>7. PricesFit'
    BY <1>2, <1>4, <1>5, <1>6, PricesMove
<1>8. TimesFit'
    BY <1>2, TimesKept
<1>9. QED
    BY <1>2, <1>5, <1>7, <1>8, WriterMoves DEF BooksFit, BooksTyped

LEMMA BooksRestore ==
    ASSUME BooksSetting, BooksFit, NEW w \in Writers, Books!Restore(w) PROVE BooksFit'
<1>1. PICK next \in {Books!Idle, [pc |-> "upsert", rate |-> Base, default |-> TRUE]} :
          pricing' = [pricing EXCEPT ![w] = next]
    BY DEF Books!Restore
<1>2. /\ pricing[w].pc = "lookup"
      /\ UNCHANGED <<price, inForce, usage, rollup, filing, repricing, writings, before,
                     overlapped, overtaken>>
    BY DEF Books!Restore, Books!books, Books!prices
<1>3. Ahead(w)
    BY <1>2 DEF Ahead
<1>4. ASSUME ~overlapped'
      PROVE  /\ \A v \in Writers \ {w} : ~Ahead(v)
             /\ price = Books!NoRow /\ inForce = Books!Absent
    BY <1>2, <1>3, <1>4, AloneAhead DEF Owed
<1>5. next \in Writings /\ next.pc \in {"idle", "upsert"}
    <2>1. Base \in Costs /\ TRUE \in BOOLEAN
        BY DEF BooksSetting, Costs
    <2>2. CASE next = Books!Idle
        BY <2>2, WritingsAre
    <2>3. CASE next = [pc |-> "upsert", rate |-> Base, default |-> TRUE]
        BY <2>1, <2>3, WritingsAre
    <2>4. QED
        BY <1>1, <2>2, <2>3
<1>6. pricing \in [Writers -> Writings]
    BY DEF BooksFit, BooksTyped
<1>7. PricesFit'
    BY <1>1, <1>2, <1>4, <1>5, <1>6, PricesMove
<1>8. TimesFit'
    BY <1>2, TimesKept
<1>9. QED
    BY <1>1, <1>2, <1>5, <1>7, <1>8, WriterMoves DEF BooksFit, BooksTyped

LEMMA BooksRestart ==
    ASSUME BooksFit, Books!Restart PROVE BooksFit'
<1>1. /\ inForce' = InRow /\ overlapped' = FALSE
      /\ filing' = [r \in Recorders |-> Books!Idle]
      /\ pricing' = [w \in Writers |-> Books!Idle]
      /\ UNCHANGED <<price, usage, rollup, repricing, writings, before, overtaken>>
    BY DEF Books!Restart, Books!books, InRow
<1>2. InRow \in Costs \cup {Books!Absent}
    BY PriceIs DEF BooksFit, BooksTyped, InRow
<1>3. Books!Idle \in Filings
    BY DEF Filings
<1>4. BooksTyped'
    BY <1>1, <1>2, <1>3, WritingsAre DEF BooksFit, BooksTyped
<1>5. PricesFit'
    <2>1. \A w \in Writers : pricing'[w].pc = "idle"
        BY <1>1, WritingsAre
    <2>2. \A w \in Writers : ~Ahead(w)' /\ Owed(w)'
        BY <2>1 DEF Ahead, Owed
    <2>3. inForce' = InRow'
        BY <1>1 DEF InRow
    <2>4. QED
        BY <2>2, <2>3 DEF PricesFit
<1>6. SumsFit' /\ TimesFit' /\ PlansFit'
    BY <1>1, SumsKept, TimesKept, PlansKept
<1>7. QED
    BY <1>4, <1>5, <1>6 DEF BooksFit

-----------------------------------------------------------------------------
(* Requests, and the scripts. *)

LEMMA FilingMoves ==
    ASSUME BooksFit, NEW r \in Recorders, NEW next \in Filings,
           filing' = [filing EXCEPT ![r] = next],
           UNCHANGED <<price, inForce, usage, rollup, pricing, repricing, writings, before,
                       overlapped, overtaken>>
    PROVE  BooksFit'
<1>1. BooksTyped'
    BY DEF BooksFit, BooksTyped
<1>2. QED
    BY <1>1, SumsKept, TimesKept, PlansKept, PricesKept DEF BooksFit

LEMMA BooksLookUp ==
    ASSUME BooksSetting, BooksFit, NEW r \in Recorders, Books!LookUp(r) PROVE BooksFit'
<1>1. PICK rate : /\ rate = IF inForce = Books!Absent THEN FileRate ELSE inForce
                  /\ filing' = [filing EXCEPT ![r] = [pc |-> "commit", rate |-> rate]]
    BY DEF Books!LookUp, Books!RateNow
<1>2. rate \in Costs
    BY <1>1 DEF BooksSetting, BooksFit, BooksTyped
<1>3. [pc |-> "commit", rate |-> rate] \in Filings
    BY <1>2 DEF Filings
<1>4. QED
    BY <1>1, <1>3, FilingMoves DEF Books!LookUp, Books!books, Books!prices

LEMMA BooksRecordFails ==
    ASSUME BooksFit, NEW r \in Recorders, Books!RecordFails(r) PROVE BooksFit'
BY FilingMoves DEF Books!RecordFails, Books!books, Books!prices, Filings

LEMMA BooksRecord ==
    ASSUME BooksFit, NEW r \in Recorders, Books!Record(r) PROVE BooksFit'
<1>1. PICK rate : rate = filing[r].rate
    OBVIOUS
<1>2. rate \in Costs
    BY <1>1 DEF Books!Record, BooksFit, BooksTyped, Filings, Books!Idle
<1>3. PICK was : was = IF price = Books!NoRow THEN Books!None ELSE price.rate
    OBVIOUS
<1>4. was \in Costs
    BY <1>3, PriceIs DEF BooksFit, BooksTyped, Costs
<1>5. PICK e : e = [key |-> "id", cost |-> rate, at |-> writings, rated |-> rate,
                    was |-> was, fixed |-> FALSE, late |-> FALSE, aged |-> FALSE]
    OBVIOUS
<1>6. /\ e \in Uses /\ e.key = "id" /\ e.cost = rate /\ e.at = writings /\ e.was = was
      /\ Rated(e)
    <2>1. writings \in Nat
        BY DEF BooksFit, BooksTyped
    <2>2. QED
        BY <1>2, <1>4, <1>5, <2>1 DEF Uses, Rated, Books!Names
<1>7. /\ usage' = Append(usage, e)
      /\ rollup' = [rollup EXCEPT !["id"] = Books!Rollup(@, rate)]
      /\ filing' = [filing EXCEPT ![r] = Books!Idle]
      /\ UNCHANGED <<price, inForce, pricing, repricing, writings, before,
                     overlapped, overtaken>>
    BY <1>1, <1>3, <1>5 DEF Books!Record, Books!prices
<1>8. /\ usage \in Seq(Uses) /\ usage' \in Seq(Uses) /\ before \in [Books!Names -> Olds]
      /\ rollup \in [Books!Names -> Days] /\ {"id", "slug"} = Books!Names
    BY <1>6, <1>7 DEF BooksFit, BooksTyped, Books!Names
<1>9. /\ DOMAIN usage' = DOMAIN usage \cup {Len(usage) + 1}
      /\ usage'[Len(usage) + 1] = e
      /\ \A i \in DOMAIN usage : usage'[i] = usage[i]
    BY <1>6, <1>7, <1>8
<1>10. SumsFit'
    <2>1. CASE overtaken
        BY <1>7, <2>1 DEF SumsFit
    <2>2. CASE ~overtaken
        <3>1. Agrees(rollup["id"], usage, before["id"], "id")
              /\ Agrees(rollup["slug"], usage, before["slug"], "slug")
            BY <1>8, <2>2 DEF BooksFit, SumsFit
        <3>2. /\ Books!Rollup(rollup["id"], rate) \in Days
              /\ Agrees(Books!Rollup(rollup["id"], rate), usage', before["id"], "id")
            BY <1>6, <1>7, <1>8, <3>1, AgreesOneMore
        <3>3. Agrees(rollup["slug"], usage', before["slug"], "slug")
            <4>1. Tally(usage', "slug") = Tally(usage, "slug")
                  /\ Paid(usage', "slug") = Paid(usage, "slug")
                  /\ Worth(usage', "slug") = Worth(usage, "slug")
                BY <1>6, <1>7, <1>8, Appended, EventsAre
            <4>2. QED
                BY <3>1, <4>1, AgreesSame
        <3>4. rollup'["id"] = Books!Rollup(rollup["id"], rate) /\ rollup'["slug"] = rollup["slug"]
            BY <1>7, <1>8
        <3>5. \A k \in Books!Names : Agrees(rollup'[k], usage', before'[k], k)
            BY <1>7, <1>8, <3>2, <3>3, <3>4
        <3>6. \A i \in DOMAIN usage' : Rated(usage'[i])
            BY <1>6, <1>9, <2>2 DEF BooksFit, SumsFit
        <3>7. QED
            BY <3>2, <3>5, <3>6 DEF SumsFit
    <2>3. QED
        BY <2>1, <2>2
<1>11. Books!Rollup(rollup["id"], rate) \in Days
    <2>1. CASE rollup["id"].none
        BY <1>2, <2>1 DEF Books!Rollup, Books!Sums, Days
    <2>2. CASE ~rollup["id"].none
        BY <1>2, <1>8, <2>2, CostMore DEF Books!Rollup
    <2>3. QED
        BY <2>1, <2>2
<1>12. BooksTyped'
    <2>1. Books!Idle \in Filings
        BY DEF Filings
    <2>2. QED
        BY <1>7, <1>8, <1>11, <2>1 DEF BooksFit, BooksTyped
<1>13. TimesFit'
    <2>1. \A i \in DOMAIN usage :
              /\ usage[i].at <= writings
              /\ price # Books!NoRow /\ usage[i].at >= price.at => usage[i].was = price.rate
        BY DEF BooksFit, TimesFit
    <2>2. e.at <= writings
        BY <1>6 DEF BooksFit, BooksTyped
    <2>3. price # Books!NoRow => e.was = price.rate
        BY <1>3, <1>6
    <2>4. QED
        BY <1>7, <1>9, <2>1, <2>2, <2>3 DEF TimesFit
<1>14. PlansFit'
    <2>1. \A j \in Jobs : Planned(j)
        BY DEF BooksFit, PlansFit
    <2>2. \A j \in Jobs : Planned(j)'
        BY <1>7, <1>9, <2>1 DEF Planned
    <2>3. QED
        BY <2>2 DEF PlansFit
<1>15. QED
    BY <1>7, <1>10, <1>12, <1>13, <1>14, PricesKept DEF BooksFit

LEMMA RepairsAre ==
    ASSUME NEW x \in Repairs
    PROVE  /\ x.pc = "idle" => x = Books!Idle
           /\ x.pc \in {"plan", "apply"} => x.price \in {Books!NoRow} \cup Prices
           /\ x.pc = "apply" => /\ x.late \in BOOLEAN /\ x.aged \subseteq Nat
                                /\ x.rows \subseteq [at : Nat, key : Books!Names]
BY DEF Repairs, Books!Idle

LEMMA RepairMoves ==
    ASSUME BooksFit, NEW j \in Jobs, NEW next \in Repairs,
           repricing' = [repricing EXCEPT ![j] = next],
           UNCHANGED <<price, inForce, usage, rollup, filing, pricing, writings, before,
                       overlapped, overtaken>>,
           next.pc \in {"plan", "apply"} => Books!RateOf(next.price) \in Nat,
           next.pc = "apply" =>
               /\ IsFiniteSet(next.rows)
               /\ \A p \in next.rows :
                     /\ p.at \in DOMAIN usage
                     /\ \/ next.late \/ p.at \in next.aged
                        \/ usage[p.at].was = Books!RateOf(next.price)
    PROVE  BooksFit'
<1>1. BooksTyped'
    BY DEF BooksFit, BooksTyped
<1>2. repricing'[j] = next /\ \A i \in Jobs \ {j} : repricing'[i] = repricing[i]
    BY DEF BooksFit, BooksTyped
<1>3. PlansFit'
    <2> SUFFICES ASSUME NEW i \in Jobs PROVE Planned(i)'
        BY DEF PlansFit
    <2>1. CASE i = j
        BY <1>2, <2>1 DEF Planned
    <2>2. CASE i # j
        <3>1. Planned(i)
            BY DEF BooksFit, PlansFit
        <3>2. QED
            BY <1>2, <2>2, <3>1 DEF Planned
    <2>3. QED
        BY <2>1, <2>2
<1>4. QED
    BY <1>1, <1>3, SumsKept, TimesKept, PricesKept DEF BooksFit

LEMMA BooksAbandon ==
    ASSUME BooksFit, NEW j \in Jobs, Books!Abandon(j) PROVE BooksFit'
BY WritingsAre, RepairMoves DEF Books!Abandon, Books!books, Books!prices, Repairs

LEMMA BooksReadPrices ==
    ASSUME BooksSetting, BooksFit, NEW j \in Jobs, NEW ignore_age \in BOOLEAN,
           Books!ReadPrices(j, ignore_age)
    PROVE  BooksFit'
<1>1. PICK next : /\ next = [pc |-> "plan", price |-> price, ignore_age |-> ignore_age]
                  /\ repricing' = [repricing EXCEPT ![j] = next]
    BY DEF Books!ReadPrices
<1>2. price \in {Books!NoRow} \cup Prices /\ Books!RateOf(price) \in Nat
    <2>1. CASE price = Books!NoRow
        BY <2>1 DEF Books!RateOf, BooksSetting
    <2>2. CASE price # Books!NoRow
        <3>1. price \in Prices /\ price.rate # Books!None
            BY <2>2 DEF Books!ReadPrices, BooksFit, BooksTyped
        <3>2. price.rate \in Nat
            BY <3>1 DEF Prices, Costs
        <3>3. QED
            BY <2>2, <3>1, <3>2 DEF Books!RateOf
    <2>3. QED
        BY <2>1, <2>2
<1>3. next \in Repairs /\ next.pc = "plan" /\ Books!RateOf(next.price) \in Nat
    BY <1>1, <1>2 DEF Repairs
<1>4. QED
    BY <1>1, <1>3, RepairMoves DEF Books!ReadPrices, Books!books, Books!prices

LEMMA BooksPlan ==
    ASSUME BooksFit, NEW j \in Jobs, Books!Plan(j) PROVE BooksFit'
<1>1. PICK x : x = repricing[j]
    OBVIOUS
<1>2. /\ x \in Repairs /\ x.pc = "plan" /\ x.price \in {Books!NoRow} \cup Prices
      /\ Books!RateOf(x.price) \in Nat
    <2>1. x \in Repairs /\ x.pc = "plan" /\ Planned(j)
        BY <1>1 DEF Books!Plan, BooksFit, BooksTyped, PlansFit
    <2>2. QED
        BY <1>1, <2>1, RepairsAre DEF Planned
<1>3. PICK rows : rows = {[at |-> i, key |-> usage[i].key] :
                            i \in {n \in DOMAIN usage :
                                     Books!Repairable(usage[n], x.price, x.ignore_age)}}
    OBVIOUS
<1>4. PICK late, aged :
          /\ late \in BOOLEAN /\ late = (x.price # price)
          /\ aged = {i \in DOMAIN usage : ~Books!InForce(usage[i], x.price)}
    OBVIOUS
<1>5. PICK next : next = [pc |-> "apply", price |-> x.price, late |-> late, aged |-> aged,
                          rows |-> rows]
    OBVIOUS
<1>6. repricing' = [repricing EXCEPT ![j] = next]
    BY <1>1, <1>3, <1>4, <1>5 DEF Books!Plan
<1>7. \A i \in DOMAIN usage : i \in Nat /\ usage[i] \in Uses
    BY DEF BooksFit, BooksTyped
<1>8. rows \subseteq [at : Nat, key : Books!Names] /\ aged \subseteq Nat
    BY <1>3, <1>4, <1>7 DEF Uses
<1>9. next \in Repairs
    BY <1>2, <1>4, <1>5, <1>8 DEF Repairs
<1>10. ASSUME NEW p \in rows
       PROVE  /\ p.at \in DOMAIN usage
              /\ late \/ p.at \in aged \/ usage[p.at].was = Books!RateOf(x.price)
    <2>1. PICK i \in DOMAIN usage : p.at = i
        BY <1>3
    <2>2. i \in aged \/ (x.price # Books!NoRow /\ usage[i].at >= x.price.at)
        BY <1>4 DEF Books!InForce
    <2>3. price # Books!NoRow /\ usage[i].at >= price.at => usage[i].was = price.rate
        BY DEF BooksFit, TimesFit
    <2>4. late \/ x.price = price
        BY <1>4
    <2>5. QED
        BY <2>1, <2>2, <2>3, <2>4 DEF Books!RateOf
<1>11. /\ next.pc = "apply" /\ next.rows = rows /\ next.late = late /\ next.aged = aged
       /\ next.price = x.price
    BY <1>5
<1>12. IsFiniteSet(rows)
    <2>1. PICK f : f = [p \in rows |-> p.at]
        OBVIOUS
    <2>2. f \in Injection(rows, DOMAIN usage)
        BY <1>3, <2>1 DEF Injection, IsInjective
    <2>3. IsFiniteSet(DOMAIN usage)
        <3>1. DOMAIN usage = 1 .. Len(usage) /\ Len(usage) \in Nat
            BY DEF BooksFit, BooksTyped
        <3>2. QED
            BY <3>1, FS_Interval
    <2>4. QED
        BY <2>2, <2>3, FS_Injection
<1>13. QED
    BY <1>2, <1>6, <1>9, <1>10, <1>11, <1>12, RepairMoves
       DEF Books!Plan, Books!books, Books!prices

\* A sequence of events that is as long as another.
LEMMA LikeUses ==
    ASSUME NEW E \in Seq(Uses), NEW F, F = [i \in DOMAIN E |-> F[i]],
           \A i \in DOMAIN E : F[i] \in Uses
    PROVE  F \in Seq(Uses) /\ DOMAIN F = DOMAIN E
<1>1. DOMAIN E = 1 .. Len(E) /\ Len(E) \in Nat
    OBVIOUS
<1>2. F \in [1 .. Len(E) -> Uses]
    BY <1>1
<1>3. QED
    BY <1>1, <1>2

LEMMA BooksApply ==
    ASSUME BooksFit, NEW j \in Jobs, Books!Apply(j) PROVE BooksFit'
<1>1. PICK x : x = repricing[j]
    OBVIOUS
<1>2. /\ x \in Repairs /\ x.pc = "apply" /\ x.late \in BOOLEAN
      /\ x.rows \subseteq [at : Nat, key : Books!Names]
      /\ Books!RateOf(x.price) \in Nat /\ IsFiniteSet(x.rows)
      /\ \A p \in x.rows :
            /\ p.at \in DOMAIN usage
            /\ x.late \/ p.at \in x.aged \/ usage[p.at].was = Books!RateOf(x.price)
    <2>1. x \in Repairs /\ x.pc = "apply" /\ Planned(j)
        BY <1>1 DEF Books!Apply, BooksFit, BooksTyped, PlansFit
    <2>2. QED
        BY <1>1, <2>1, RepairsAre DEF Planned
<1>3. PICK rate : rate = Books!RateOf(x.price)
    OBVIOUS
<1>4. rate \in Nat /\ rate \in Costs
    BY <1>2, <1>3 DEF Costs
<1>5. PICK R, late, aged : R = x.rows /\ late = x.late /\ aged = x.aged
    OBVIOUS
<1>6. /\ usage' = [i \in DOMAIN usage |->
                     IF \E p \in R : p.at = i
                     THEN [usage[i] EXCEPT !.cost = rate, !.fixed = TRUE, !.late = late,
                                           !.aged = i \in aged]
                     ELSE usage[i]]
      /\ rollup' = [k \in Books!Names |->
                      IF rollup[k].none \/ Under(R, k) = {} THEN rollup[k]
                      ELSE [rollup[k] EXCEPT
                              !.cost = Books!Plus(@, rate * Books!Cardinality(Under(R, k))),
                              !.parts = Books!Plus(@, rate * Books!Cardinality(Under(R, k)))]]
      /\ overtaken' = (overtaken \/ \E p \in R : \/ usage[p.at].cost # Books!None
                                                 \/ usage[p.at].key # p.key)
      /\ repricing' = [repricing EXCEPT ![j] = Books!Idle]
      /\ UNCHANGED <<price, inForce, filing, pricing, writings, before, overlapped>>
    BY <1>1, <1>3, <1>5 DEF Books!Apply, Books!prices, Under
<1>7. usage \in Seq(Uses) /\ \A i \in DOMAIN usage : usage[i] \in Uses
    BY DEF BooksFit, BooksTyped
<1>8. ASSUME NEW i \in DOMAIN usage
      PROVE  /\ usage'[i] \in Uses
             /\ usage'[i].key = usage[i].key /\ usage'[i].at = usage[i].at
             /\ usage'[i].was = usage[i].was /\ usage'[i].rated = usage[i].rated
             /\ usage'[i].cost = (IF \E p \in R : p.at = i THEN rate ELSE usage[i].cost)
             /\ IF \E p \in R : p.at = i
                THEN /\ usage'[i].fixed = TRUE /\ usage'[i].late = late
                     /\ usage'[i].aged = (i \in aged)
                ELSE usage'[i] = usage[i]
    <2>1. usage[i] \in Uses
        BY <1>7
    <2>2. CASE \E p \in R : p.at = i
        <3>0. PICK old : old \in BOOLEAN /\ old = (i \in aged)
            <4>1. CASE i \in aged
                <5>1. TRUE \in BOOLEAN /\ TRUE = (i \in aged)
                    BY <4>1
                <5>2. QED
                    BY <5>1
            <4>2. CASE i \notin aged
                <5>1. FALSE \in BOOLEAN /\ FALSE = (i \in aged)
                    BY <4>2
                <5>2. QED
                    BY <5>1
            <4>3. QED
                BY <4>1, <4>2
        <3>1. usage'[i] = [usage[i] EXCEPT !.cost = rate, !.fixed = TRUE, !.late = late,
                                           !.aged = old]
            BY <1>6, <2>2, <3>0
        <3>2. QED
            BY <1>2, <1>4, <1>5, <2>1, <2>2, <3>0, <3>1 DEF Uses
    <2>3. CASE ~ \E p \in R : p.at = i
        BY <1>6, <2>1, <2>3
    <2>4. QED
        BY <2>2, <2>3
<1>9. usage' \in Seq(Uses) /\ DOMAIN usage' = DOMAIN usage
    <2>1. usage' = [i \in DOMAIN usage |-> usage'[i]]
        BY <1>6
    <2>2. QED
        BY <1>7, <1>8, <2>1, LikeUses
<1>10. TimesFit'
    <2>1. \A i \in DOMAIN usage :
              /\ usage[i].at <= writings
              /\ price # Books!NoRow /\ usage[i].at >= price.at => usage[i].was = price.rate
        BY DEF BooksFit, TimesFit
    <2>2. QED
        <3> SUFFICES ASSUME NEW i \in DOMAIN usage
                     PROVE  /\ usage'[i].at <= writings'
                            /\ price' # Books!NoRow /\ usage'[i].at >= price'.at =>
                                  usage'[i].was = price'.rate
            BY <1>9 DEF TimesFit
        <3>1. usage'[i].at = usage[i].at /\ usage'[i].was = usage[i].was
            BY <1>8
        <3>2. QED
            BY <1>6, <2>1, <3>1
<1>11. PlansFit'
    <2> SUFFICES ASSUME NEW i \in Jobs PROVE Planned(i)'
        BY DEF PlansFit
    <2>1. repricing \in [Jobs -> Repairs]
        BY DEF BooksFit, BooksTyped
    <2>2. CASE i = j
        <3>1. repricing'[i] = Books!Idle /\ Books!Idle.pc = "idle"
            BY <1>6, <2>1, <2>2, WritingsAre
        <3>2. QED
            BY <3>1 DEF Planned
    <2>3. CASE i # j
        <3>1. repricing'[i] = repricing[i]
            BY <1>6, <2>1, <2>3
        <3>2. Planned(i)
            BY DEF BooksFit, PlansFit
        <3>3. QED
            BY <1>8, <1>9, <3>1, <3>2 DEF Planned
    <2>4. QED
        BY <2>2, <2>3
<1>12. PricesFit'
    BY <1>6, PricesKept
<1>13. rollup \in [Books!Names -> Days] /\ before \in [Books!Names -> Olds]
    BY DEF BooksFit, BooksTyped
<1>14. \A k : Books!Cardinality(Under(R, k)) = Cardinality(Under(R, k)) /\ Cardinality(Under(R, k)) \in Nat
    <2> SUFFICES ASSUME NEW k
                 PROVE  Books!Cardinality(Under(R, k)) = Cardinality(Under(R, k)) /\ Cardinality(Under(R, k)) \in Nat
        OBVIOUS
    <2>1. IsFiniteSet(Under(R, k))
        BY <1>2, <1>5, FS_Subset DEF Under
    <2>2. Books!Cardinality(Under(R, k)) = Cardinality(Under(R, k))
        BY DEF Books!Cardinality, Cardinality
    <2>3. QED
        BY <2>1, <2>2, FS_CardinalityType
<1>15. \A k : rate * Cardinality(Under(R, k)) \in Nat
    <2> SUFFICES ASSUME NEW k PROVE rate * Cardinality(Under(R, k)) \in Nat
        OBVIOUS
    <2>1. PICK m \in Nat : m = Cardinality(Under(R, k))
        BY <1>14
    <2>2. rate * m \in Nat
        BY <1>4
    <2>3. QED
        BY <2>1, <2>2
<1>16. ASSUME NEW k \in Books!Names
       PROVE  rollup'[k] = IF rollup[k].none \/ Under(R, k) = {} THEN rollup[k]
                           ELSE [rollup[k] EXCEPT
                                   !.cost = Books!Plus(@, rate * Cardinality(Under(R, k))),
                                   !.parts = Books!Plus(@, rate * Cardinality(Under(R, k)))]
    BY <1>6, <1>14
<1>17. ASSUME NEW k \in Books!Names PROVE rollup'[k] \in Days
    <2>1. CASE rollup[k].none \/ Under(R, k) = {}
        BY <1>13, <1>16, <2>1
    <2>2. CASE ~(rollup[k].none \/ Under(R, k) = {})
        <3>1. PICK day \in Days, c \in Nat : day = rollup[k] /\ c = rate * Cardinality(Under(R, k))
            BY <1>13, <1>15
        <3>2. [day EXCEPT !.cost = Books!Plus(@, c), !.parts = Books!Plus(@, c)] \in Days
            BY <2>2, <3>1, CostGrows
        <3>3. QED
            BY <1>16, <2>2, <3>1, <3>2
    <2>3. QED
        BY <2>1, <2>2
<1>18. BooksTyped'
    <2>1. rollup' \in [Books!Names -> Days]
        BY <1>6, <1>17
    <2>2. overtaken' \in BOOLEAN
        BY <1>6
    <2>3. repricing' \in [Jobs -> Repairs]
        BY <1>6 DEF BooksFit, BooksTyped, Repairs
    <2>4. QED
        BY <1>6, <1>9, <2>1, <2>2, <2>3 DEF BooksFit, BooksTyped
<1>19. SumsFit'
    <2>1. CASE overtaken'
        BY <2>1 DEF SumsFit
    <2>2. CASE ~overtaken'
        <3>1. /\ ~overtaken
              /\ \A p \in R : usage[p.at].cost = Books!None /\ usage[p.at].key = p.key
            BY <1>6, <2>2
        <3>2. /\ \A k \in Books!Names : Agrees(rollup[k], usage, before[k], k)
              /\ \A i \in DOMAIN usage : Rated(usage[i])
            BY <3>1 DEF BooksFit, SumsFit
        <3>3. Reprices(usage, usage', rate, R)
            BY <1>2, <1>5, <1>8, <1>9, <3>1 DEF Reprices
        <3>4. ASSUME NEW k \in Books!Names
              PROVE  /\ Tally(usage', k) = Tally(usage, k)
                     /\ Worth(usage', k) = Worth(usage, k) + rate * Cardinality(Under(R, k))
                     /\ Under(R, k) = {} => /\ Paid(usage', k) = Paid(usage, k)
                                      /\ Worth(usage', k) = Worth(usage, k)
                     /\ Under(R, k) # {} => Paid(usage', k) # 0 /\ Tally(usage, k) # 0
            BY <1>4, <1>7, <1>9, <3>3, Repriced
        <3>5. ASSUME NEW k \in Books!Names
              PROVE  Agrees(rollup'[k], usage', before'[k], k)
            <4>1. CASE Under(R, k) = {}
                BY <1>6, <1>16, <3>2, <3>4, <4>1, AgreesSame
            <4>2. CASE Under(R, k) # {}
                <5>1. PICK day \in Days, old \in Olds, c \in Nat :
                          /\ day = rollup[k] /\ old = before[k]
                          /\ c = rate * Cardinality(Under(R, k))
                    BY <1>13, <1>15
                <5>2. /\ Tally(usage', k) = Tally(usage, k) /\ Tally(usage, k) # 0
                      /\ Paid(usage', k) # 0 /\ Worth(usage', k) = Worth(usage, k) + c
                      /\ Agrees(day, usage, old, k)
                    BY <3>2, <3>4, <4>2, <5>1
                <5>3. /\ ~day.none
                      /\ Agrees([day EXCEPT !.cost = Books!Plus(@, c), !.parts = Books!Plus(@, c)],
                                usage', old, k)
                    BY <1>7, <1>9, <5>2, AgreesRepaired
                <5>4. rollup'[k] = [day EXCEPT !.cost = Books!Plus(@, c), !.parts = Books!Plus(@, c)]
                    BY <1>16, <4>2, <5>1, <5>3
                <5>5. before'[k] = old
                    BY <1>6, <5>1
                <5>6. QED
                    BY <5>3, <5>4, <5>5
            <4>3. QED
                BY <4>1, <4>2
        <3>6. ASSUME NEW i \in DOMAIN usage PROVE Rated(usage'[i])
            <4>1. CASE \E p \in R : p.at = i
                <5>1. PICK p \in R : p.at = i
                    BY <4>1
                <5>2. late \/ i \in aged \/ usage[i].was = rate
                    BY <1>2, <1>3, <1>5, <5>1
                <5>3. /\ usage'[i].fixed = TRUE /\ usage'[i].late = late
                      /\ usage'[i].aged = (i \in aged)
                      /\ usage'[i].cost = rate /\ usage'[i].was = usage[i].was
                      /\ usage'[i].rated = usage[i].rated
                    BY <1>8, <4>1
                <5>4. usage[i].rated = Books!None
                    BY <3>1, <3>2, <5>1 DEF Rated
                <5>5. QED
                    BY <5>2, <5>3, <5>4 DEF Rated
            <4>2. CASE ~ \E p \in R : p.at = i
                BY <1>8, <3>2, <4>2
            <4>3. QED
                BY <4>1, <4>2
        <3>7. QED
            BY <1>9, <3>5, <3>6 DEF SumsFit
    <2>3. QED
        BY <2>1, <2>2
<1>20. QED
    BY <1>10, <1>11, <1>12, <1>18, <1>19 DEF BooksFit

LEMMA BooksReunify ==
    ASSUME BooksFit, Books!Reunify PROVE BooksFit'
<1>1. PICK a \in Olds, b \in Olds, kept \in Days, gone \in Days :
          /\ a = before["id"] /\ b = before["slug"]
          /\ kept = rollup["id"] /\ gone = rollup["slug"]
    BY DEF BooksFit, BooksTyped, Books!Names
<1>2. PICK next, old :
          /\ next = IF kept.none THEN gone ELSE Books!Merge(kept, gone)
          /\ old = [n |-> a.n + b.n,
                    cost |-> IF a.cost = Books!None /\ b.cost = Books!None THEN Books!None
                             ELSE a.n + b.n]
    OBVIOUS
<1>3. {before[k].cost : k \in Books!Names} = {Books!None}
        <=> a.cost = Books!None /\ b.cost = Books!None
    BY <1>1 DEF Books!Names
<1>4. /\ ~gone.none
      /\ usage' = [i \in DOMAIN usage |-> [usage[i] EXCEPT !.key = "id"]]
      /\ rollup' = [id |-> next, slug |-> Books!NoRow]
      /\ before' = [id |-> old, slug |-> Books!Nothing]
      /\ UNCHANGED <<price, inForce, filing, pricing, repricing, writings, overlapped, overtaken>>
    BY <1>1, <1>2, <1>3 DEF Books!Reunify, Books!prices
<1>5. usage \in Seq(Uses) /\ \A i \in DOMAIN usage : usage[i] \in Uses
    BY DEF BooksFit, BooksTyped
<1>6. ASSUME NEW i \in DOMAIN usage
      PROVE  /\ usage'[i] \in Uses
             /\ usage'[i].key = "id" /\ usage'[i].cost = usage[i].cost
             /\ usage'[i].at = usage[i].at /\ usage'[i].was = usage[i].was
             /\ usage'[i].rated = usage[i].rated
             /\ usage'[i].fixed = usage[i].fixed /\ usage'[i].late = usage[i].late
             /\ usage'[i].aged = usage[i].aged
    <2>1. usage'[i] = [usage[i] EXCEPT !.key = "id"] /\ usage[i] \in Uses
        BY <1>4, <1>5
    <2>2. QED
        BY <2>1 DEF Uses, Books!Names
<1>7. usage' \in Seq(Uses) /\ DOMAIN usage' = DOMAIN usage
    <2>1. usage' = [i \in DOMAIN usage |-> usage'[i]]
        BY <1>4
    <2>2. QED
        BY <1>5, <1>6, <2>1, LikeUses
<1>8. TimesFit'
    <2> SUFFICES ASSUME NEW i \in DOMAIN usage
                 PROVE  /\ usage'[i].at <= writings'
                        /\ price' # Books!NoRow /\ usage'[i].at >= price'.at =>
                              usage'[i].was = price'.rate
        BY <1>7 DEF TimesFit
    <2>1. /\ usage[i].at <= writings
          /\ price # Books!NoRow /\ usage[i].at >= price.at => usage[i].was = price.rate
        BY DEF BooksFit, TimesFit
    <2>2. usage'[i].at = usage[i].at /\ usage'[i].was = usage[i].was
        BY <1>6
    <2>3. QED
        BY <1>4, <2>1, <2>2
<1>9. PlansFit'
    <2> SUFFICES ASSUME NEW j \in Jobs PROVE Planned(j)'
        BY DEF PlansFit
    <2>1. Planned(j)
        BY DEF BooksFit, PlansFit
    <2>2. QED
        BY <1>4, <1>6, <1>7, <2>1 DEF Planned
<1>10. PricesFit'
    BY <1>4, PricesKept
<1>11. next \in Days /\ old \in Olds
    <2>1. old \in Olds
        BY <1>2, OldsAre DEF Olds, Costs
    <2>2. next \in Days
        <3>1. CASE kept.none
            BY <1>2, <3>1
        <3>2. CASE ~kept.none
            BY <1>2, <1>4, <3>2, MergedDay
        <3>3. QED
            BY <3>1, <3>2
    <2>3. QED
        BY <2>1, <2>2
<1>12. /\ rollup'["id"] = next /\ rollup'["slug"] = Books!NoRow
       /\ before'["id"] = old /\ before'["slug"] = Books!Nothing
    BY <1>4
<1>13. BooksTyped'
    <2>1. Books!Nothing \in Olds
        BY DEF Books!Nothing, Olds, Costs
    <2>2. rollup' \in [Books!Names -> Days] /\ before' \in [Books!Names -> Olds]
        BY <1>4, <1>11, <2>1, NoRowIs DEF Books!Names
    <2>3. QED
        BY <1>4, <1>7, <2>2 DEF BooksFit, BooksTyped
<1>14. SumsFit'
    <2>1. CASE overtaken
        BY <1>4, <2>1 DEF SumsFit
    <2>2. CASE ~overtaken
        <3>1. /\ Agrees(kept, usage, a, "id") /\ Agrees(gone, usage, b, "slug")
              /\ \A i \in DOMAIN usage : Rated(usage[i])
            BY <1>1, <2>2 DEF BooksFit, SumsFit, Books!Names
        <3>2. /\ Tally(usage', "id") = Tally(usage, "id") + Tally(usage, "slug")
              /\ Worth(usage', "id") = Worth(usage, "id") + Worth(usage, "slug")
              /\ Paid(usage', "id") = 0 <=> Paid(usage, "id") = 0 /\ Paid(usage, "slug") = 0
              /\ Tally(usage', "slug") = 0
            BY <1>5, <1>6, <1>7, Renamed
        <3>3. Agrees(next, usage', old, "id")
            BY <1>2, <1>4, <1>5, <1>7, <3>1, <3>2, AgreesMerged
        <3>4. Agrees(Books!NoRow, usage', Books!Nothing, "slug")
            BY <3>2, NoRowIs DEF Agrees, Books!Nothing
        <3>5. \A k \in Books!Names : Agrees(rollup'[k], usage', before'[k], k)
            BY <1>12, <3>3, <3>4 DEF Books!Names
        <3>6. \A i \in DOMAIN usage' : Rated(usage'[i])
            BY <1>6, <1>7, <3>1 DEF Rated
        <3>7. QED
            BY <3>5, <3>6 DEF SumsFit
    <2>3. QED
        BY <2>1, <2>2
<1>15. QED
    BY <1>8, <1>9, <1>10, <1>13, <1>14 DEF BooksFit

-----------------------------------------------------------------------------
(* The day at the start. *)

LEMMA NoUses ==
    \A k : << >> \in Seq(Uses) /\ Tally(<< >>, k) = 0 /\ Paid(<< >>, k) = 0
<1> TAKE k
<1>1. Mine(<< >>, k) = {} /\ Priced(<< >>, k) = {}
    BY DEF Mine, Priced
<1>2. QED
    BY <1>1, FS_EmptySet DEF Tally, Paid

LEMMA BooksInit == BooksSetting /\ Books!Init => BooksFit
<1> SUFFICES ASSUME BooksSetting, Books!Init PROVE BooksFit
    OBVIOUS
<1>1. /\ price \in {Books!NoRow, Books!Price(Base, TRUE, 1)}
      /\ inForce = (IF price = Books!NoRow THEN Books!Absent ELSE Base)
      /\ writings = 1
      /\ usage \in IF price = Books!NoRow THEN {<< >>} ELSE {<< >>, <<Books!Lost>>}
      /\ before \in [Books!Names -> {Books!Nothing, [n |-> 1, cost |-> 1]}]
      /\ filing = [r \in Recorders |-> Books!Idle]
      /\ pricing = [w \in Writers |-> Books!Idle]
      /\ repricing = [j \in Jobs |-> Books!Idle]
      /\ overlapped = FALSE /\ overtaken = FALSE
    BY DEF Books!Init
<1>2. rollup = [k \in Books!Names |->
                  LET stray == IF k = "slug" THEN Len(usage) ELSE 0
                  IN  IF before[k] = Books!Nothing /\ stray = 0 THEN Books!NoRow
                      ELSE Books!Sums(before[k].n + stray, before[k].cost, before[k].cost, FALSE)]
    BY DEF Books!Init
<1>3. Base \in Costs /\ Books!None \in Costs /\ 1 \in Nat
    BY DEF BooksSetting, Costs
<1>4. PICK stray : stray = Books!Lost
    OBVIOUS
<1>5. /\ stray \in Uses /\ stray.key = "slug" /\ stray.cost = Books!None /\ stray.at = 1
      /\ stray.was = Base /\ Rated(stray)
    BY <1>3, <1>4 DEF Books!Lost, Uses, Rated, Books!Names
<1>6. PICK put : put = Books!Price(Base, TRUE, 1)
    OBVIOUS
<1>7. put \in Prices /\ put.rate = Base /\ put.at = 1 /\ put # Books!NoRow
    <2>1. put \in Prices /\ put.rate = Base /\ put.at = 1 /\ put.none = FALSE
        BY <1>3, <1>6 DEF Books!Price, Prices
    <2>2. QED
        BY <2>1, NoRowIs
<1>8. price = Books!NoRow \/ price = put
    BY <1>1, <1>6
<1>9. /\ usage = << >> \/ (usage = <<stray>> /\ price = put)
      /\ <<stray>> = Append(<< >>, stray)
    BY <1>1, <1>4, <1>8
<1>10. ASSUME NEW k
       PROVE  /\ usage \in Seq(Uses) /\ Paid(usage, k) = 0
              /\ Tally(usage, k) = (IF k = "slug" THEN Len(usage) ELSE 0)
              /\ Worth(usage, k) = 0
    <2>1. CASE usage = << >>
        <3>1. Len(usage) = 0
            BY <2>1
        <3>2. usage \in Seq(Uses) /\ Paid(usage, k) = 0 /\ Tally(usage, k) = 0
            BY <2>1, NoUses
        <3>3. QED
            BY <3>1, <3>2, EventsAre
    <2>2. CASE usage = Append(<< >>, stray)
        <3>1. Len(usage) = 1
            BY <2>2
        <3>2. PICK E \in Seq(Uses) : E = << >>
            BY NoUses
        <3>3. /\ usage = Append(E, stray)
              /\ Tally(E, k) = 0 /\ Paid(E, k) = 0
            BY <2>2, <3>2, NoUses
        <3>4. /\ usage \in Seq(Uses)
              /\ Tally(usage, k) = Tally(E, k) + (IF stray.key = k THEN 1 ELSE 0)
              /\ Paid(usage, k) = Paid(E, k)
            BY <1>5, <3>3, Appended
        <3>5. QED
            <4>1. Paid(usage, k) = 0 /\ Worth(usage, k) = 0
                BY <3>3, <3>4, EventsAre
            <4>2. Tally(usage, k) = IF k = "slug" THEN 1 ELSE 0
                BY <1>5, <3>3, <3>4
            <4>3. QED
                BY <3>1, <3>4, <4>1, <4>2
    <2>3. QED
        BY <1>9, <2>1, <2>2
<1>11. before \in [Books!Names -> Olds]
    <2>1. Books!Nothing \in Olds /\ [n |-> 1, cost |-> 1] \in Olds
        BY DEF Books!Nothing, Olds, Costs, Books!None
    <2>2. QED
        BY <1>1, <2>1
<1>12. ASSUME NEW k \in Books!Names
       PROVE  rollup[k] \in Days /\ Agrees(rollup[k], usage, before[k], k)
    <2>0. PICK old \in Olds : old = before[k]
        BY <1>11
    <2>1. PICK m, day : m = (IF k = "slug" THEN Len(usage) ELSE 0) /\ day = rollup[k]
        OBVIOUS
    <2>2. m \in Nat /\ Tally(usage, k) = m /\ Paid(usage, k) = 0 /\ Worth(usage, k) = 0
        BY <1>10, <2>1, EventsAre
    <2>3. /\ old.n \in Nat /\ old.cost \in Costs /\ Zero(old.cost) = old.n
          /\ old.cost = Books!None <=> old.n = 0
        BY OldsAre
    <2>4. day = IF old = Books!Nothing /\ m = 0 THEN Books!NoRow
                ELSE Books!Sums(old.n + m, old.cost, old.cost, FALSE)
        BY <1>2, <2>0, <2>1
    <2>5. CASE old = Books!Nothing /\ m = 0
        <3>1. old.n = 0
            BY <2>5 DEF Books!Nothing
        <3>2. day = Books!NoRow
            BY <2>4, <2>5
        <3>3. Agrees(day, usage, old, k)
            BY <2>2, <2>5, <3>1, <3>2, NoRowIs DEF Agrees
        <3>4. QED
            BY <2>0, <2>1, <3>2, <3>3, NoRowIs
    <2>6. CASE ~(old = Books!Nothing /\ m = 0)
        <3>1. PICK n : n = old.n + m
            OBVIOUS
        <3>2. n \in Nat
            BY <2>2, <2>3, <3>1
        <3>3. /\ day \in Days /\ day.none = FALSE /\ day.n = n /\ day.cost = old.cost
              /\ day.parts = old.cost
            BY <2>3, <2>4, <2>6, <3>1, <3>2 DEF Books!Sums, Days
        <3>4. Known(0, 0, old.cost) = old.cost
            BY <2>3 DEF Known, Zero, Costs
        <3>5. n = Tally(usage, k) + old.n
            BY <2>2, <2>3, <3>1
        <3>6. Agrees(day, usage, old, k)
            BY <2>2, <3>3, <3>4, <3>5 DEF Agrees
        <3>7. QED
            BY <2>0, <2>1, <3>3, <3>6
    <2>7. QED
        BY <2>5, <2>6
<1>13. BooksTyped
    <2>1. rollup \in [Books!Names -> Days]
        BY <1>2, <1>12
    <2>2. Books!Idle \in Filings /\ Books!Idle \in Repairs
        BY DEF Filings, Repairs
    <2>3. QED
        BY <1>1, <1>3, <1>7, <1>8, <1>10, <1>11, <2>1, <2>2, WritingsAre DEF BooksTyped
<1>14. \A i \in DOMAIN usage : usage[i] = stray /\ price = put
    BY <1>9
<1>15. TimesFit
    BY <1>1, <1>5, <1>7, <1>14 DEF TimesFit
<1>16. PlansFit
    BY <1>1, WritingsAre DEF PlansFit, Planned
<1>17. PricesFit
    <2>1. \A w \in Writers : ~Ahead(w) /\ Owed(w)
        BY <1>1, WritingsAre DEF Ahead, Owed
    <2>2. inForce = InRow
        BY <1>1, <1>7, <1>8 DEF InRow
    <2>3. QED
        BY <2>1, <2>2 DEF PricesFit
<1>18. SumsFit
    BY <1>5, <1>12, <1>14 DEF SumsFit
<1>19. QED
    BY <1>13, <1>15, <1>16, <1>17, <1>18 DEF BooksFit

LEMMA BooksStep ==
    BooksSetting /\ BooksFit /\ [Books!Next]_(Books!vars) => BooksFit'
<1> SUFFICES ASSUME BooksSetting, BooksFit, [Books!Next]_(Books!vars) PROVE BooksFit'
    OBVIOUS
<1>1. CASE UNCHANGED Books!vars
    <2>1. UNCHANGED <<price, inForce, usage, rollup, filing, pricing, repricing, writings,
                      before, overlapped, overtaken>>
        BY <1>1 DEF Books!vars
    <2>2. BooksTyped'
        BY <2>1 DEF BooksFit, BooksTyped
    <2>3. QED
        BY <2>1, <2>2, SumsKept, TimesKept, PlansKept, PricesKept DEF BooksFit
<1>2. CASE Books!Next
    <2>1. ASSUME NEW r \in Recorders,
                 Books!LookUp(r) \/ Books!Record(r) \/ Books!RecordFails(r)
          PROVE  BooksFit'
        BY <2>1, BooksLookUp, BooksRecord, BooksRecordFails
    <2>2. ASSUME NEW w \in Writers, NEW rate \in Rates \cup {Books!None}, Books!Put(w, rate)
          PROVE  BooksFit'
        BY <2>2, BooksPut
    <2>3. ASSUME NEW w \in Writers,
                 \/ Books!Reset(w) \/ Books!Seed(w)
                 \/ Books!Upsert(w) \/ Books!Delete(w) \/ Books!Insert(w) \/ Books!List(w)
                 \/ Books!SetPrice(w) \/ Books!RemovePrice(w) \/ Books!Restore(w)
          PROVE  BooksFit'
        BY <2>3, BooksReset, BooksSeed, BooksUpsert, BooksDelete, BooksInsert,
           BooksList,
           BooksSetPrice, BooksRemovePrice, BooksRestore
    <2>4. ASSUME NEW j \in Jobs,
                 \/ \E ignore_age \in BOOLEAN : Books!ReadPrices(j, ignore_age)
                 \/ Books!Plan(j) \/ Books!Apply(j) \/ Books!Abandon(j)
          PROVE  BooksFit'
        BY <2>4, BooksReadPrices, BooksPlan, BooksApply, BooksAbandon
    <2>5. QED
        BY <1>2, <2>1, <2>2, <2>3, <2>4, BooksRestart, BooksReunify DEF Books!Next
<1>3. QED
    BY <1>1, <1>2

LEMMA BooksMove ==
    /\ Init /\ focus = "books" => Books!Init
    /\ [Next]_vars /\ focus = "books" => [Books!Next]_(Books!vars)
BY DEF Init, Next, vars, Books!vars

\* However requests, prices put, reset and seeded, restarts and the two repair scripts
\* interleave, for any number of each: the rollup of a day is what its events come to
\* and what predates them, no usage costs another rate than the one in force when it
\* was used (db.record_usage, reprice_unpriced_usage.py), except after a repricing
\* that another script overtook and for what an operator had rated although it was
\* older than its price; and the live price table is what a restart would
\* make it (billing_router.py), except once two writers of a price overlapped.
THEOREM LedgersAgree ==
    /\ Books!Spec => []Books!LedgerAgrees
    /\ Spec => []LedgerAgrees
<1> DEFINE InFocus == focus = "books" => BooksFit
<1>0. BooksSetting
    BY ServicesAssumption DEF BooksSetting, Costs
<1>1. Books!Init => BooksFit
    BY <1>0, BooksInit
<1>2. BooksFit /\ [Books!Next]_(Books!vars) => BooksFit'
    BY <1>0, BooksStep
<1>3. BooksFit => Books!LedgerAgrees
    BY BooksHold
<1>4. Init => InFocus
    BY <1>1, BooksMove
<1>5. InFocus /\ [Next]_vars => InFocus'
    BY <1>2, BooksMove, FocusStays
<1>6. InFocus => LedgerAgrees
    BY <1>3 DEF LedgerAgrees
<1> HIDE DEF InFocus
<1>7. Books!Spec => []Books!LedgerAgrees
    BY <1>1, <1>2, <1>3, PTL DEF Books!Spec
<1>8. Spec => []LedgerAgrees
    BY <1>4, <1>5, <1>6, PTL DEF Spec
<1>9. QED
    BY <1>7, <1>8

HIDE DEF price, inForce, usage, rollup, filing, pricing, repricing, writings, before,
         overlapped, overtaken

-----------------------------------------------------------------------------
(* GatewaySchema. What is committed is s1, what the start sees s2, whether *)
(* it has a transaction s3, where it is s4, its next statement s5; the     *)
(* index it owes to a table is s6, and those that kills have cut off s7.   *)
(* What the proof turns on: two revisions are guarded by their first       *)
(* statement alone, so that their index is there whenever what it follows  *)
(* is, is still owed, or was cut off; everything else that a revision      *)
(* brings is there when it is done, and nothing is there before its time.  *)

database == s1
held == s2
inTx == s3
stage == s4
nextOp == s5
owing == s6
missed == s7

USE DEF database, held, inTx, stage, nextOp, owing, missed

AuditTable == <<"audit_events", "table">>
AuditIndex == <<"audit_events", "index">>
UserColumn == <<"usage_events", "end_user">>
UserIndex == <<"usage_events", "index">>

Indexes == {AuditIndex, UserIndex}
Every == Gateway!Models \cup Gateway!Rewrites

Bases == [items : SUBSET Every, vtable : BOOLEAN, version : 0 .. 17]

HeadTyped ==
    /\ database \in Bases /\ held \in Bases /\ inTx \in BOOLEAN
    /\ stage \in {"off", "adopt", "version", "stamp", "upgrade", "raised", "up"}
    /\ nextOp \in Nat \ {0}
    /\ owing \subseteq Indexes /\ missed \subseteq Indexes

\* A version says what the database has.
Versioned(d, m) ==
    d.version # 0 => d.vtable /\ Gateway!Shape[d.version] \subseteq d.items \cup m

\* Where what an index follows is, the index is, or is owed, or was cut off.
Paired(d, o, m) ==
    /\ AuditTable \in d.items => AuditIndex \in d.items \cup o \cup m
    /\ UserColumn \in d.items => UserIndex \in d.items \cup o \cup m
    /\ AuditIndex \in d.items \cup o => AuditTable \in d.items
    /\ UserIndex \in d.items \cup o => UserColumn \in d.items

Placed ==
    /\ ~ inTx => held = database
    /\ inTx => stage = "upgrade" /\ held.version # 0
    /\ owing # {} => stage \in {"adopt", "upgrade"}
    /\ stage \in {"adopt", "version", "stamp"} => nextOp = 1
    /\ stage \in {"adopt", "stamp"} => held.version = 0
    /\ stage \in {"stamp", "upgrade"} => held.vtable
    /\ stage = "stamp" => Gateway!Shape[1] \subseteq held.items
    /\ stage = "up" => database.version = 17
    /\ stage = "raised" => Gateway!Torn(database)

\* How far the pending revision has come. Two are guarded by the first of two.
Halved == {11, 15}

Progress ==
    stage = "upgrade" =>
        LET k == held.version + 1
            does == Gateway!Chain[k].does
        IN  /\ k < 18 =>
                /\ nextOp \in 1 .. Len(does) + 1
                /\ \A i \in 1 .. nextOp - 1 :
                      Gateway!Brings(does[i]) \subseteq held.items \cup missed
                /\ nextOp = 2 /\ k \in Halved => does[2] \notin held.items
            /\ owing # {} => nextOp = 2 /\ k \in Halved /\ owing = {does[2]}

HeadInv ==
    /\ HeadTyped /\ Placed /\ Progress
    /\ Versioned(held, missed) /\ Versioned(database, missed)
    /\ Paired(held, owing, missed) /\ Paired(database, IF inTx THEN {} ELSE owing, missed)

-----------------------------------------------------------------------------
(* The revisions. *)

LEMMA ChainIs ==
    /\ Gateway!Latest = 17
    /\ Gateway!Chain[1] = Gateway!Baseline
    /\ Gateway!Chain[2] = Gateway!Replica
    /\ Gateway!Chain[3] = Gateway!Idempotency
    /\ Gateway!Chain[4] = Gateway!Interrupted
    /\ Gateway!Chain[5] = Gateway!Reason
    /\ Gateway!Chain[6] = Gateway!Snapshot
    /\ Gateway!Chain[7] = Gateway!RequestId
    /\ Gateway!Chain[8] = Gateway!RecordedRequest
    /\ Gateway!Chain[9] = Gateway!StableId
    /\ Gateway!Chain[10] = Gateway!DefaultPrice
    /\ Gateway!Chain[11] = Gateway!Audit
    /\ Gateway!Chain[12] = Gateway!Splits
    /\ Gateway!Chain[13] = Gateway!TierTable
    /\ Gateway!Chain[14] = Gateway!Eleven
    /\ Gateway!Chain[15] = Gateway!EndUser
    /\ Gateway!Chain[16] = Gateway!Latency
    /\ Gateway!Chain[17] = Gateway!TierCap
BY DEF Gateway!Latest, Gateway!Chain

\* The tables that a revision finds, if it changes one.
Earlier(k) ==
    {"usage_events", "usage_daily", "model_price_config", "client_billing_settings",
     "rate_limit_config"}
        \cup (IF k > 3 THEN {"idempotency_records"} ELSE {})
        \cup (IF k > 13 THEN {"rate_limit_tiers"} ELSE {})

\* How the k-th revision r is guarded.
Guards(r, k) ==
    /\ Len(r.does) \in Nat \ {0} /\ DOMAIN r.does = 1 .. Len(r.does)
    /\ r.guard \in {"none", "each", "first", "lenient"} /\ (r.guard = "none" <=> k = 1)
    /\ r.guard = "lenient" => Len(r.does) = 1
    /\ r.guard = "first" /\ k \notin Halved => Len(r.does) = 1
    /\ k \in Halved => r.guard = "first" /\ Len(r.does) = 2
    /\ k = 11 => r.does[1] = AuditTable /\ r.does[2] = AuditIndex
    /\ k = 15 => r.does[1] = UserColumn /\ r.does[2] = UserIndex

Timely == Indexes \cup {AuditTable, UserColumn}

\* What its statements bring.
Adds(r, k) ==
    \A i \in 1 .. Len(r.does) : LET item == r.does[i] IN
        /\ item \in Every /\ (k # 1 => item # <<"usage_daily", "table">>)
        /\ k \notin Halved => item \notin Timely
        /\ item \in Gateway!Rewrites => r.guard = "each"
        /\ r.guard = "lenient" => item[1] \in Earlier(k) /\ item # Gateway!Table(item[1])
        /\ k = 1 => item = Gateway!Table(item[1])
        /\ \/ item \in Gateway!Rewrites \/ item = Gateway!Table(item[1])
           \/ item[1] \in Earlier(k) \/ (k = 11 /\ item = AuditIndex)

Fits(r, k) == Guards(r, k) /\ Adds(r, k)

LEMMA Brings1 ==
    /\ \A item : item \in Gateway!Brings(item)
    /\ \A item : item # <<"usage_daily", "table">> => Gateway!Brings(item) = {item}
    /\ \A item \in Every : Gateway!Brings(item) \subseteq Every
    /\ \A item : item \notin Timely => Gateway!Brings(item) \cap Timely = {}
<1>1. Gateway!Elements(Gateway!CostColumns) =
          {<<"usage_daily", "cost_usd">>, <<"usage_daily", "prompt_cost_usd">>,
           <<"usage_daily", "completion_cost_usd">>, <<"usage_daily", "image_cost_usd">>}
    BY DEF Gateway!Elements, Gateway!CostColumns
<1>2. Gateway!Elements(Gateway!CostColumns) \subseteq Every
    BY <1>1 DEF Every, Gateway!Models, Gateway!UsageModels, Gateway!Columns
<1>3. Gateway!Elements(Gateway!CostColumns) \cap Timely = {}
    BY <1>1 DEF Timely, Indexes, AuditTable, AuditIndex, UserColumn, UserIndex
<1>4. QED
    BY <1>2, <1>3 DEF Gateway!Brings, Gateway!Table

LEMMA RevisionsFit ==
    \A k \in 1 .. 17 : Fits(Gateway!Chain[k], k)
<1> USE DEF Fits, Guards, Adds, Gateway!Revision, Earlier, Halved, Timely, Indexes, AuditTable,
       AuditIndex, UserColumn, UserIndex, Every, Gateway!Rewrites, Gateway!Models,
       Gateway!UsageModels, Gateway!BillingModels, Gateway!ConfigModels, Gateway!AuditModel,
       Gateway!SplitModel, Gateway!Columns, Gateway!Table, Gateway!Index
<1>1. Fits(Gateway!Baseline, 1)
    BY DEF Gateway!Baseline
<1>2. Fits(Gateway!Replica, 2)
    BY DEF Gateway!Replica
<1>3. Fits(Gateway!Idempotency, 3)
    BY DEF Gateway!Idempotency
<1>4. Fits(Gateway!Interrupted, 4)
    BY DEF Gateway!Interrupted
<1>5. Fits(Gateway!Reason, 5)
    BY DEF Gateway!Reason
<1>6. Fits(Gateway!Snapshot, 6)
    BY DEF Gateway!Snapshot
<1>7. Fits(Gateway!RequestId, 7)
    BY DEF Gateway!RequestId
<1>8. Fits(Gateway!RecordedRequest, 8)
    BY DEF Gateway!RecordedRequest
<1>9. Fits(Gateway!StableId, 9)
    BY DEF Gateway!StableId
<1>10. Fits(Gateway!DefaultPrice, 10)
    BY DEF Gateway!DefaultPrice
<1>11. Fits(Gateway!Audit, 11)
    BY DEF Gateway!Audit
<1>12. Fits(Gateway!Splits, 12)
    BY DEF Gateway!Splits
<1>13. Fits(Gateway!TierTable, 13)
    BY DEF Gateway!TierTable
<1>14. Fits(Gateway!Eleven, 14)
    BY DEF Gateway!Eleven
<1>15. Fits(Gateway!EndUser, 15)
    BY DEF Gateway!EndUser
<1>16. Fits(Gateway!Latency, 16)
    BY DEF Gateway!Latency
<1>17. Fits(Gateway!TierCap, 17)
    BY DEF Gateway!TierCap
<1> HIDE DEF Fits, Guards, Adds, Gateway!Revision, Earlier, Halved, Timely, Indexes, AuditTable,
       AuditIndex, UserColumn, UserIndex, Every, Gateway!Rewrites, Gateway!Models,
       Gateway!UsageModels, Gateway!BillingModels, Gateway!ConfigModels, Gateway!AuditModel,
       Gateway!SplitModel, Gateway!Columns, Gateway!Table, Gateway!Index
<1>18. QED
    BY ChainIs, <1>1, <1>2, <1>3, <1>4, <1>5, <1>6, <1>7, <1>8, <1>9, <1>10, <1>11,
       <1>12, <1>13, <1>14, <1>15, <1>16, <1>17

-----------------------------------------------------------------------------
(* The schemas of the revisions. *)

Brought(k) == UNION {Gateway!Brings(item) : item \in Gateway!Elements(Gateway!Chain[k].does)}

Through(k) == UNION {Brought(j) : j \in 1 .. k}

LEMMA ShapesAre == \A k \in 0 .. 17 : Gateway!Shape[k] = Through(k)
<1> DEFINE After(f, k) == IF k = 0 THEN {} ELSE f[k - 1] \cup Brought(k)
           Goes(f) == f = [k \in 0 .. 17 |-> After(f, k)]
           g == [k \in 0 .. 17 |-> Through(k)]
<1>1. Goes(g)
    <2>1. ASSUME NEW k \in 0 .. 17 PROVE Through(k) = After(g, k)
        <3>1. CASE k = 0
            BY <3>1 DEF Through
        <3>2. CASE k # 0
            <4>1. k - 1 \in 0 .. 17 /\ 1 .. k = (1 .. k - 1) \cup {k}
                BY <3>2
            <4>2. g[k - 1] = Through(k - 1)
                BY <4>1
            <4>3. Through(k) = Through(k - 1) \cup Brought(k)
                BY <4>1 DEF Through
            <4>4. QED
                BY <3>2, <4>2, <4>3
        <3>3. QED
            BY <3>1, <3>2
    <2>2. QED
        BY <2>1
<1>2. Goes(Gateway!Shape)
    <2>1. Gateway!Shape = CHOOSE f : Goes(f)
        BY ChainIs DEF Gateway!Shape, Brought
    <2> HIDE DEF g, Goes
    <2>2. QED
        BY <1>1, <2>1
<1> DEFINE Other == {k \in 0 .. 17 : Gateway!Shape[k] # Through(k)}
<1>3. SUFFICES ASSUME Other # {} PROVE FALSE
    OBVIOUS
<1>4. PICK k \in Other : \A j \in Other : k <= j
    <2>1. Other \in SUBSET Nat
        OBVIOUS
    <2> HIDE DEF Other
    <2>2. QED
        BY <1>3, <2>1, Least
<1>5. /\ Gateway!Shape[k] = After(Gateway!Shape, k) /\ Through(k) = After(g, k)
      /\ k \in 0 .. 17
    BY <1>1, <1>2
<1>6. k # 0
    BY <1>5, <1>4
<1>7. k - 1 \in 0 .. 17 /\ k - 1 \notin Other
    BY <1>4, <1>5, <1>6
<1>8. Gateway!Shape[k - 1] = Through(k - 1) /\ g[k - 1] = Through(k - 1)
    BY <1>7
<1>9. QED
    BY <1>4, <1>5, <1>6, <1>8

\* What a schema has: of the k-th, everything that the revisions up to it bring.
LEMMA ShapeHas ==
    ASSUME NEW k \in 0 .. 17
    PROVE  /\ \A j \in 1 .. k : Brought(j) \subseteq Gateway!Shape[k]
           /\ \A x \in Gateway!Shape[k] : \E j \in 1 .. k : x \in Brought(j)
           /\ \A j \in 0 .. k : Gateway!Shape[j] \subseteq Gateway!Shape[k]
<1>1. \A j \in 0 .. k : Gateway!Shape[j] = Through(j)
    BY ShapesAre
<1>2. QED
    BY <1>1 DEF Through

LEMMA BroughtIs ==
    ASSUME NEW k \in 1 .. 17
    PROVE  LET does == Gateway!Chain[k].does IN
           /\ Brought(k) = UNION {Gateway!Brings(does[i]) : i \in 1 .. Len(does)}
           /\ Brought(k) \subseteq Every
           /\ k # 1 => Brought(k) = {does[i] : i \in 1 .. Len(does)}
<1> DEFINE does == Gateway!Chain[k].does
<1>1. /\ DOMAIN does = 1 .. Len(does)
      /\ \A i \in 1 .. Len(does) : /\ does[i] \in Every
                                   /\ k # 1 => does[i] # <<"usage_daily", "table">>
    BY RevisionsFit DEF Fits, Guards, Adds
<1>2. Gateway!Elements(does) = {does[i] : i \in 1 .. Len(does)}
    BY <1>1 DEF Gateway!Elements
<1> HIDE DEF does
<1>3. Brought(k) = UNION {Gateway!Brings(does[i]) : i \in 1 .. Len(does)}
    BY <1>2 DEF Brought, does
<1>4. QED
    BY <1>1, <1>3, Brings1 DEF does

Does(j, x) == \E i \in 1 .. Len(Gateway!Chain[j].does) : Gateway!Chain[j].does[i] = x

LEMMA ShapeAt ==
    ASSUME NEW k \in 0 .. 17, NEW j \in 1 .. k, NEW x, Does(j, x)
    PROVE  x \in Gateway!Shape[k]
<1>1. j \in 1 .. 17
    OBVIOUS
<1>2. x \in Brought(j)
    <2> DEFINE does == Gateway!Chain[j].does
    <2>1. PICK i \in 1 .. Len(does) : does[i] = x
        BY DEF Does
    <2>2. Brought(j) = UNION {Gateway!Brings(does[n]) : n \in 1 .. Len(does)}
        BY <1>1, BroughtIs
    <2>3. x \in Gateway!Brings(does[i])
        BY <2>1, Brings1
    <2> HIDE DEF does
    <2>4. QED
        BY <2>1, <2>2, <2>3
<1>3. QED
    BY <1>2, ShapeHas

LEMMA ShapesEnd == Gateway!Shape[17] = Every
<1>1. Gateway!Shape[17] \subseteq Every
    BY ShapeHas, BroughtIs
<1> DEFINE S == Gateway!Shape[17]
<1>2. ASSUME NEW j \in 1 .. 17, NEW x, Does(j, x) PROVE x \in S
    BY <1>2, ShapeAt
<1>3. Brought(1) \subseteq S
    BY ShapeHas
<1> HIDE DEF S
<1>4. /\ <<"circuit_breaker_config", "table">> \in S
      /\ <<"client_billing_settings", "table">> \in S
      /\ <<"currency_rates", "table">> \in S /\ <<"model_price_config", "table">> \in S
      /\ <<"rate_limit_config", "table">> \in S /\ <<"usage_daily", "table">> \in S
      /\ <<"usage_events", "table">> \in S
    <2>1. /\ Does(1, <<"circuit_breaker_config", "table">>)
          /\ Does(1, <<"client_billing_settings", "table">>)
          /\ Does(1, <<"currency_rates", "table">>) /\ Does(1, <<"model_price_config", "table">>)
          /\ Does(1, <<"rate_limit_config", "table">>) /\ Does(1, <<"usage_daily", "table">>)
          /\ Does(1, <<"usage_events", "table">>)
        BY ChainIs DEF Does, Gateway!Baseline, Gateway!Revision, Gateway!Table,
           Gateway!Index
    <2>2. QED
        BY <1>2, <2>1
<1>5. <<"usage_events", "instance_id">> \in S
    <2>1. Does(2, <<"usage_events", "instance_id">>)
        BY ChainIs DEF Does, Gateway!Replica, Gateway!Revision, Gateway!Table,
           Gateway!Index
    <2>2. QED
        BY <1>2, <2>1
<1>6. <<"idempotency_records", "table">> \in S
    <2>1. Does(3, <<"idempotency_records", "table">>)
        BY ChainIs DEF Does, Gateway!Idempotency, Gateway!Revision, Gateway!Table,
           Gateway!Index
    <2>2. QED
        BY <1>2, <2>1
<1>7. <<"usage_events", "interrupted">> \in S
    <2>1. Does(4, <<"usage_events", "interrupted">>)
        BY ChainIs DEF Does, Gateway!Interrupted, Gateway!Revision, Gateway!Table,
           Gateway!Index
    <2>2. QED
        BY <1>2, <2>1
<1>8. /\ <<"usage_events", "termination_reason">> \in S
      /\ <<"usage_events", "reasons">> \in S
    <2>1. /\ Does(5, <<"usage_events", "termination_reason">>)
          /\ Does(5, <<"usage_events", "reasons">>)
        BY ChainIs DEF Does, Gateway!Reason, Gateway!Revision, Gateway!Table,
           Gateway!Index
    <2>2. QED
        BY <1>2, <2>1
<1>9. <<"manager_catalog_snapshot", "table">> \in S
    <2>1. Does(6, <<"manager_catalog_snapshot", "table">>)
        BY ChainIs DEF Does, Gateway!Snapshot, Gateway!Revision, Gateway!Table,
           Gateway!Index
    <2>2. QED
        BY <1>2, <2>1
<1>10. /\ <<"usage_events", "request_id">> \in S
       /\ <<"usage_events", "cached_prompt_tokens">> \in S
    <2>1. /\ Does(7, <<"usage_events", "request_id">>)
          /\ Does(7, <<"usage_events", "cached_prompt_tokens">>)
        BY ChainIs DEF Does, Gateway!RequestId, Gateway!Revision, Gateway!Table,
           Gateway!Index
    <2>2. QED
        BY <1>2, <2>1
<1>11. <<"idempotency_records", "request_id">> \in S
    <2>1. Does(8, <<"idempotency_records", "request_id">>)
        BY ChainIs DEF Does, Gateway!RecordedRequest, Gateway!Revision, Gateway!Table,
           Gateway!Index
    <2>2. QED
        BY <1>2, <2>1
<1>12. /\ <<"usage_events", "model_slug">> \in S /\ <<"usage_events", "slugs">> \in S
       /\ <<"usage_daily", "model_slug">> \in S /\ <<"usage_daily", "slugs">> \in S
    <2>1. /\ Does(9, <<"usage_events", "model_slug">>) /\ Does(9, <<"usage_events", "slugs">>)
          /\ Does(9, <<"usage_daily", "model_slug">>) /\ Does(9, <<"usage_daily", "slugs">>)
        BY ChainIs DEF Does, Gateway!StableId, Gateway!Revision, Gateway!Table,
           Gateway!Index
    <2>2. QED
        BY <1>2, <2>1
<1>13. <<"model_price_config", "is_default">> \in S
    <2>1. Does(10, <<"model_price_config", "is_default">>)
        BY ChainIs DEF Does, Gateway!DefaultPrice, Gateway!Revision, Gateway!Table,
           Gateway!Index
    <2>2. QED
        BY <1>2, <2>1
<1>14. <<"audit_events", "table">> \in S /\ <<"audit_events", "index">> \in S
    <2>1. Does(11, <<"audit_events", "table">>) /\ Does(11, <<"audit_events", "index">>)
        BY ChainIs DEF Does, Gateway!Audit, Gateway!Revision, Gateway!Table,
           Gateway!Index
    <2>2. QED
        BY <1>2, <2>1
<1>15. <<"traffic_splits", "table">> \in S
    <2>1. Does(12, <<"traffic_splits", "table">>)
        BY ChainIs DEF Does, Gateway!Splits, Gateway!Revision, Gateway!Table,
           Gateway!Index
    <2>2. QED
        BY <1>2, <2>1
<1>16. /\ <<"rate_limit_tiers", "table">> \in S
       /\ <<"client_billing_settings", "tier">> \in S
    <2>1. /\ Does(13, <<"rate_limit_tiers", "table">>)
          /\ Does(13, <<"client_billing_settings", "tier">>)
        BY ChainIs DEF Does, Gateway!TierTable, Gateway!Revision, Gateway!Table,
           Gateway!Index
    <2>2. QED
        BY <1>2, <2>1
<1>17. /\ <<"rate_limit_config", "rpm_platform">> \in S
       /\ <<"rate_limit_config", "tpm_predict">> \in S
    <2>1. /\ Does(14, <<"rate_limit_config", "rpm_platform">>)
          /\ Does(14, <<"rate_limit_config", "tpm_predict">>)
        BY ChainIs DEF Does, Gateway!Eleven, Gateway!Revision, Gateway!Table,
           Gateway!Index
    <2>2. QED
        BY <1>2, <2>1
<1>18. <<"usage_events", "end_user">> \in S /\ <<"usage_events", "index">> \in S
    <2>1. Does(15, <<"usage_events", "end_user">>) /\ Does(15, <<"usage_events", "index">>)
        BY ChainIs DEF Does, Gateway!EndUser, Gateway!Revision, Gateway!Table,
           Gateway!Index
    <2>2. QED
        BY <1>2, <2>1
<1>19. <<"usage_events", "duration_ms">> \in S /\ <<"usage_events", "ttft_ms">> \in S
    <2>1. /\ Does(16, <<"usage_events", "duration_ms">>)
          /\ Does(16, <<"usage_events", "ttft_ms">>)
        BY ChainIs DEF Does, Gateway!Latency, Gateway!Revision, Gateway!Table,
           Gateway!Index
    <2>2. QED
        BY <1>2, <2>1
<1>20. <<"rate_limit_tiers", "monthly_spend_cap_usd">> \in S
    <2>1. Does(17, <<"rate_limit_tiers", "monthly_spend_cap_usd">>)
        BY ChainIs DEF Does, Gateway!TierCap, Gateway!Revision, Gateway!Table,
           Gateway!Index
    <2>2. QED
        BY <1>2, <2>1
<1>21. \A item \in Gateway!Elements(Gateway!CostColumns) : item \in S
    <2>1. <<"usage_daily", "table">> \in Gateway!Elements(Gateway!Chain[1].does)
        BY ChainIs DEF Gateway!Elements, Gateway!Baseline, Gateway!Revision,
           Gateway!Table
    <2>2. QED
        BY <1>3, <2>1 DEF Brought, Gateway!Brings, Gateway!Table
<1>22. {<<"usage_daily", "cost_usd">>, <<"usage_daily", "prompt_cost_usd">>,
        <<"usage_daily", "completion_cost_usd">>, <<"usage_daily", "image_cost_usd">>} \subseteq S
    BY <1>21 DEF Gateway!Elements, Gateway!CostColumns
<1>23. Gateway!UsageModels \subseteq S
    BY <1>4, <1>5, <1>7, <1>8, <1>9, <1>10, <1>12, <1>18, <1>19, <1>22
       DEF Gateway!UsageModels, Gateway!Columns, Gateway!Table
<1>24. Gateway!BillingModels \subseteq S
    BY <1>4, <1>6, <1>11, <1>13, <1>16, <1>20
       DEF Gateway!BillingModels, Gateway!Columns, Gateway!Table
<1>25. Gateway!ConfigModels \subseteq S
    BY <1>4, <1>17 DEF Gateway!ConfigModels, Gateway!Columns, Gateway!Table
<1>26. /\ Gateway!AuditModel \subseteq S /\ Gateway!SplitModel \subseteq S
       /\ Gateway!Rewrites \subseteq S
    BY <1>8, <1>12, <1>14, <1>15
       DEF Gateway!AuditModel, Gateway!SplitModel, Gateway!Rewrites, Gateway!Table, Gateway!Index
<1>27. Every \subseteq S
    BY <1>23, <1>24, <1>25, <1>26 DEF Every, Gateway!Models
<1>28. QED
    BY <1>1, <1>27 DEF S

\* What a revision changes is there before it.
LEMMA TablesThere ==
    ASSUME NEW k \in 2 .. 17, NEW t \in Earlier(k)
    PROVE  <<t, "table">> \in Gateway!Shape[k - 1]
<1>1. ASSUME NEW j \in 1 .. 17, NEW x, Does(j, x), j <= k - 1 PROVE x \in Gateway!Shape[k - 1]
    <2>1. k - 1 \in 0 .. 17 /\ j \in 1 .. k - 1
        BY <1>1
    <2>2. QED
        BY <1>1, <2>1, ShapeAt
<1>2. /\ Does(1, <<"usage_events", "table">>) /\ Does(1, <<"usage_daily", "table">>)
      /\ Does(1, <<"model_price_config", "table">>) /\ Does(1, <<"rate_limit_config", "table">>)
      /\ Does(1, <<"client_billing_settings", "table">>)
    BY ChainIs DEF Does, Gateway!Baseline, Gateway!Revision, Gateway!Table
<1>3. Does(3, <<"idempotency_records", "table">>)
    BY ChainIs DEF Does, Gateway!Idempotency, Gateway!Revision, Gateway!Table
<1>4. Does(13, <<"rate_limit_tiers", "table">>)
    BY ChainIs DEF Does, Gateway!TierTable, Gateway!Revision, Gateway!Table
<1>5. QED
    BY <1>1, <1>2, <1>3, <1>4 DEF Earlier

\* Nothing is there before its time.
LEMMA TimelyShapes ==
    ASSUME NEW k \in 0 .. 17
    PROVE  /\ AuditTable \in Gateway!Shape[k] <=> k >= 11
           /\ AuditIndex \in Gateway!Shape[k] <=> k >= 11
           /\ UserColumn \in Gateway!Shape[k] <=> k >= 15
           /\ UserIndex \in Gateway!Shape[k] <=> k >= 15
<1>1. ASSUME NEW j \in 1 .. 17, j \notin Halved PROVE Brought(j) \cap Timely = {}
    <2>1. \A i \in 1 .. Len(Gateway!Chain[j].does) : Gateway!Chain[j].does[i] \notin Timely
        BY <1>1, RevisionsFit DEF Fits, Adds
    <2>2. \A i \in 1 .. Len(Gateway!Chain[j].does) :
              Gateway!Brings(Gateway!Chain[j].does[i]) \cap Timely = {}
        BY <2>1, Brings1
    <2>3. QED
        BY <2>2, BroughtIs
<1>2. Brought(11) = {AuditTable, AuditIndex} /\ Brought(15) = {UserColumn, UserIndex}
    <2>1. /\ Len(Gateway!Chain[11].does) = 2 /\ Len(Gateway!Chain[15].does) = 2
          /\ Gateway!Chain[11].does[1] = AuditTable /\ Gateway!Chain[11].does[2] = AuditIndex
          /\ Gateway!Chain[15].does[1] = UserColumn /\ Gateway!Chain[15].does[2] = UserIndex
        BY RevisionsFit DEF Fits, Guards, Halved
    <2>2. QED
        BY <2>1, BroughtIs
<1>3. AuditTable \notin Brought(15) /\ AuditIndex \notin Brought(15)
      /\ UserColumn \notin Brought(11) /\ UserIndex \notin Brought(11)
    BY <1>2 DEF AuditTable, AuditIndex, UserColumn, UserIndex
<1>4. \A x \in Timely : \A j \in 1 .. 17 : x \in Brought(j) => j \in {11, 15}
    BY <1>1 DEF Halved
<1>5. \A x : x \in Gateway!Shape[k] <=> \E j \in 1 .. k : x \in Brought(j)
    BY ShapeHas
<1>6. QED
    BY <1>2, <1>3, <1>4, <1>5 DEF Timely, Indexes

-----------------------------------------------------------------------------
(* The start. *)

\* A database from before Alembic has tables of the baseline.
EarlyFits == \A S \in Early : \A t \in S : Gateway!Table(t) \in Gateway!Elements(Gateway!Baseline.does)

LEMMA CostsAre ==
    /\ \A i \in 1 .. 4 : /\ Gateway!CostColumns[i] \in Every
                         /\ Gateway!CostColumns[i] \notin Timely
    /\ Len(Gateway!CostColumns) = 4 /\ DOMAIN Gateway!CostColumns = 1 .. 4
BY DEF Gateway!CostColumns, Every, Gateway!Models, Gateway!UsageModels, Gateway!Columns,
   Timely,
       Indexes, AuditTable, AuditIndex, UserColumn, UserIndex

LEMMA HeadInit == ASSUME EarlyFits, Gateway!Init PROVE HeadInv
<1>1. /\ held = database /\ inTx = FALSE /\ stage = "off" /\ nextOp = 1
      /\ owing = {} /\ missed = {}
    BY DEF Gateway!Init
<1>2. SUFFICES database \in Bases /\ Versioned(database, {}) /\ Paired(database, {}, {})
    <2>1. (IF inTx THEN {} ELSE owing) = {}
        BY <1>1
    <2>2. database \in Bases => HeadTyped
        <3>1. owing \subseteq Indexes /\ missed \subseteq Indexes
            BY <1>1
        <3>2. nextOp \in Nat \ {0} /\ inTx \in BOOLEAN
            <4>1. nextOp = 1
                BY <1>1
            <4>2. inTx \in BOOLEAN
                BY <1>1, Zenon
            <4>3. QED
                BY <4>1, <4>2
        <3>3. stage \in {"off", "adopt", "version", "stamp", "upgrade", "raised", "up"}
            BY <1>1
        <3>4. held = database
            BY <1>1
        <3>5. QED
            BY <3>1, <3>2, <3>3, <3>4 DEF HeadTyped
    <2>3. Placed /\ Progress
        BY <1>1 DEF Placed, Progress
    <2>4. QED
        BY <1>1, <2>1, <2>2, <2>3 DEF HeadInv
<1>3. ASSUME NEW k \in 0 .. 17, database = Gateway!Database(Gateway!Shape[k], k)
      PROVE  database \in Bases /\ Versioned(database, {}) /\ Paired(database, {}, {})
    <2>1. Gateway!Shape[k] \subseteq Every
        BY ShapeHas, BroughtIs
    <2>2. /\ database.items = Gateway!Shape[k] /\ database.version = k
          /\ database.vtable = (k # 0) /\ database \in Bases
        BY <1>3, <2>1 DEF Gateway!Database, Bases
    <2>3. QED
        BY <2>2, TimelyShapes DEF Versioned, Paired
<1>4. ASSUME NEW S \in Early, NEW n \in 0 .. 4,
             database = Gateway!Database({Gateway!Table(t) : t \in S}
                                           \cup {Gateway!CostColumns[i] : i \in 1 .. n}, 0)
      PROVE  database \in Bases /\ Versioned(database, {}) /\ Paired(database, {}, {})
    <2>1. \A x \in Gateway!Elements(Gateway!Baseline.does) : x \in Every \ Timely
        <3>1. \A i \in 1 .. Len(Gateway!Baseline.does) : Gateway!Baseline.does[i] \in Every \ Timely
            BY ChainIs, RevisionsFit DEF Fits, Adds, Halved
        <3>2. DOMAIN Gateway!Baseline.does = 1 .. Len(Gateway!Baseline.does)
            BY DEF Gateway!Baseline, Gateway!Revision
        <3>3. QED
            BY <3>1, <3>2 DEF Gateway!Elements
    <2>2. \A t \in S : Gateway!Table(t) \in Every \ Timely
        BY <2>1 DEF EarlyFits
    <2>3. \A i \in 1 .. n : Gateway!CostColumns[i] \in Every \ Timely
        BY CostsAre
    <2>4. /\ database.items \subseteq Every \ Timely /\ database.version = 0
          /\ database \in Bases
        BY <1>4, <2>2, <2>3 DEF Gateway!Database, Bases
    <2>5. QED
        BY <2>4 DEF Versioned, Paired, Timely, Indexes
<1>5. QED
    BY <1>3, <1>4, ChainIs, CostsAre DEF Gateway!Init

\* A statement of the connection, of whatever leaves the rules in force.
LEMMA Ran ==
    ASSUME HeadInv, NEW new, new \in Bases, NEW rows, rows \in BOOLEAN,
           Gateway!Runs(new, rows), missed' = missed,
           Versioned(new, missed), Paired(new, owing', missed), rows => owing = {}
    PROVE  /\ held' = new /\ (rows => inTx') /\ (~ rows => inTx' = inTx)
           /\ database' \in Bases /\ inTx' \in BOOLEAN
           /\ ~ inTx' => held' = database'
           /\ Versioned(held, missed)' /\ Versioned(database, missed)'
           /\ Paired(held, owing, missed)'
           /\ Paired(database, IF inTx THEN {} ELSE owing, missed)'
<1>1. /\ held' = new /\ inTx' = (inTx \/ rows)
      /\ database' = IF inTx \/ rows THEN database ELSE new
    BY DEF Gateway!Runs
<1>2. database \in Bases /\ inTx \in BOOLEAN /\ inTx' \in BOOLEAN
      /\ (rows => inTx') /\ (~ rows => inTx' = inTx)
    BY <1>1 DEF HeadInv, HeadTyped
<1>3. Versioned(database, missed) /\ Paired(database, IF inTx THEN {} ELSE owing, missed)
    BY DEF HeadInv
<1>4. CASE inTx \/ rows
    <2>1. Paired(database, {}, missed)
        BY <1>3, <1>4
    <2>2. inTx' /\ database' = database
        BY <1>1, <1>4
    <2>3. Paired(database, IF inTx THEN {} ELSE owing, missed)'
        BY <2>1, <2>2 DEF Paired
    <2>4. Versioned(held, missed)' /\ Versioned(database, missed)' /\ Paired(held, owing, missed)'
        BY <1>1, <1>3, <2>2 DEF Versioned, Paired
    <2>5. QED
        BY <1>1, <1>2, <2>2, <2>3, <2>4
<1>5. CASE ~ (inTx \/ rows)
    <2>1. ~ inTx' /\ database' = new
        BY <1>1, <1>5
    <2>2. Paired(database, IF inTx THEN {} ELSE owing, missed)'
        BY <2>1 DEF Paired
    <2>3. Versioned(held, missed)' /\ Versioned(database, missed)' /\ Paired(held, owing, missed)'
        BY <1>1, <2>1 DEF Versioned, Paired
    <2>4. QED
        BY <1>1, <1>2, <2>1, <2>2, <2>3
<1>6. QED
    BY <1>4, <1>5

LEMMA HeadBoots == ASSUME HeadInv, Gateway!Boot PROVE HeadInv'
<1>1. /\ stage = "off" /\ stage' \in {"adopt", "version"} /\ nextOp' = 1 /\ owing' = {}
      /\ UNCHANGED <<database, held, inTx, missed>>
      /\ stage' = "adopt" => ~ database.vtable
    BY DEF Gateway!Boot
<1>2. owing = {} /\ ~ inTx /\ held = database
    BY <1>1 DEF HeadInv, HeadTyped, Placed
<1>3. stage' = "adopt" => held'.version = 0
    BY <1>1, <1>2 DEF HeadInv, Versioned
<1>4. HeadTyped'
    BY <1>1 DEF HeadInv, HeadTyped
<1>5. Placed' /\ Progress'
    BY <1>1, <1>2, <1>3 DEF Placed, Progress
<1>6. QED
    BY <1>1, <1>2, <1>4, <1>5 DEF HeadInv, Versioned, Paired

-----------------------------------------------------------------------------
(* The adoption. *)

LEMMA SortedAre ==
    /\ DOMAIN Gateway!Sorted = 1 .. 12
    /\ \A t : Gateway!Index(t) \in Gateway!Models => t \in {"audit_events", "usage_events"}
    /\ AuditTable \in Gateway!Models /\ AuditIndex \in Gateway!Models
    /\ UserColumn \in Gateway!Models /\ UserIndex \in Gateway!Models
<1>1. DOMAIN Gateway!Sorted = 1 .. 12
    BY DEF Gateway!Sorted
<1>2. QED
    BY <1>1 DEF AuditTable, AuditIndex, UserColumn, UserIndex, Gateway!Models,
       Gateway!UsageModels,
           Gateway!BillingModels, Gateway!ConfigModels, Gateway!AuditModel, Gateway!SplitModel,
           Gateway!Columns, Gateway!Table, Gateway!Index

LEMMA Missing ==
    ASSUME NEW T \in SUBSET Nat, T # {}
    PROVE  (CHOOSE i \in T : \A j \in T : i <= j) \in T
BY Least

LEMMA TablesMade == ASSUME HeadInv, Gateway!CreateTable PROVE HeadInv'
<1> DEFINE M == Gateway!MissingTables
           i == CHOOSE i \in M : \A j \in M : i <= j
           t == Gateway!Sorted[i]
           model == {m \in Gateway!Models : m[1] = t}
           X == Gateway!Index(t)
           new == [held EXCEPT !.items = @ \cup (model \ {X})]
<1>1. /\ stage = "adopt" /\ owing = {} /\ M # {}
      /\ Gateway!Runs(new, FALSE) /\ owing' = model \cap {X}
      /\ UNCHANGED <<stage, nextOp, missed>>
    BY DEF Gateway!CreateTable, Gateway!Makes
<1>2. i \in 1 .. 12
    <2>1. M \subseteq 1 .. 12
        BY SortedAre DEF Gateway!MissingTables
    <2>2. M \in SUBSET Nat
        BY <2>1
    <2> HIDE DEF M
    <2>3. i \in M
        BY <1>1, <2>2, Missing
    <2>4. QED
        BY <2>1, <2>3
<1> HIDE DEF i
<1>3. held \in Bases /\ held.version = 0 /\ nextOp = 1
    BY <1>1 DEF HeadInv, HeadTyped, Placed
<1>4. /\ new \in Bases /\ new.version = 0
      /\ new.items = held.items \cup (model \ {X})
    BY <1>3 DEF Bases, Every
<1>5. owing' \subseteq Indexes
    BY <1>1, SortedAre DEF Gateway!Index, Indexes, AuditIndex, UserIndex
<1>6. Paired(new, owing', missed)
    <2>1. AuditTable \in model => AuditIndex \in owing'
        BY <1>1, SortedAre DEF AuditTable, AuditIndex, Gateway!Index
    <2>2. UserColumn \in model => UserIndex \in owing'
        BY <1>1, SortedAre DEF UserColumn, UserIndex, Gateway!Index
    <2>3. AuditIndex \in model => AuditTable \in model \ {X} /\ AuditIndex \notin model \ {X}
        BY SortedAre DEF AuditTable, AuditIndex, Gateway!Index
    <2>4. UserIndex \in model => UserColumn \in model \ {X} /\ UserIndex \notin model \ {X}
        BY SortedAre DEF UserColumn, UserIndex, Gateway!Index
    <2>5. Paired(held, {}, missed)
        BY <1>1 DEF HeadInv
    <2> HIDE DEF model, X, new
    <2>6. QED
        BY <1>1, <1>4, <2>1, <2>2, <2>3, <2>4, <2>5 DEF Paired
<1>7. Versioned(new, missed)
    BY <1>4 DEF Versioned
<1> HIDE DEF new
<1>8. /\ held' = new /\ inTx' = inTx /\ database' \in Bases /\ inTx' \in BOOLEAN
      /\ ~ inTx' => held' = database'
      /\ Versioned(held, missed)' /\ Versioned(database, missed)' /\ Paired(held, owing, missed)'
      /\ Paired(database, IF inTx THEN {} ELSE owing, missed)'
    BY <1>1, <1>4, <1>6, <1>7, Ran
<1>9. HeadTyped'
    BY <1>1, <1>4, <1>5, <1>8 DEF HeadInv, HeadTyped
<1>10. Placed' /\ Progress'
    BY <1>1, <1>3, <1>4, <1>8 DEF HeadInv, Placed, Progress
<1>11. QED
    BY <1>8, <1>9, <1>10 DEF HeadInv

LEMMA IndexesMade == ASSUME HeadInv, Gateway!CreateIndex PROVE HeadInv'
<1> DEFINE new == [held EXCEPT !.items = @ \cup owing]
<1>1. /\ stage = "adopt" /\ Gateway!Runs(new, FALSE) /\ owing' = {}
      /\ UNCHANGED <<stage, nextOp, missed>>
    BY DEF Gateway!CreateIndex, Gateway!Makes
<1>2. held \in Bases /\ held.version = 0 /\ nextOp = 1 /\ owing \subseteq Every
    BY <1>1, SortedAre DEF HeadInv, HeadTyped, Placed, Indexes, Every
<1>3. new \in Bases /\ new.version = 0 /\ new.items = held.items \cup owing
    BY <1>2 DEF Bases
<1>4. Paired(new, owing', missed)
    BY <1>1, <1>3 DEF HeadInv, HeadTyped, Paired, Indexes, AuditTable, AuditIndex,
       UserColumn, UserIndex
<1>5. Versioned(new, missed)
    BY <1>3 DEF Versioned
<1> HIDE DEF new
<1>6. /\ held' = new /\ inTx' = inTx /\ database' \in Bases /\ inTx' \in BOOLEAN
      /\ ~ inTx' => held' = database'
      /\ Versioned(held, missed)' /\ Versioned(database, missed)' /\ Paired(held, owing, missed)'
      /\ Paired(database, IF inTx THEN {} ELSE owing, missed)'
    BY <1>1, <1>3, <1>4, <1>5, Ran
<1>7. HeadTyped'
    BY <1>1, <1>3, <1>6 DEF HeadInv, HeadTyped
<1>8. Placed' /\ Progress'
    BY <1>1, <1>2, <1>3, <1>6 DEF HeadInv, Placed, Progress
<1>9. QED
    BY <1>6, <1>7, <1>8 DEF HeadInv

LEMMA CostsLifted == ASSUME HeadInv, Gateway!LiftCosts PROVE HeadInv'
<1> DEFINE M == Gateway!MissingCosts
           i == CHOOSE i \in M : \A j \in M : i <= j
           c == Gateway!CostColumns[i]
           new == [held EXCEPT !.items = @ \cup {c}]
<1>1. /\ stage = "adopt" /\ owing = {} /\ M # {} /\ Gateway!Runs(new, FALSE)
      /\ UNCHANGED <<stage, nextOp, owing, missed>>
    BY DEF Gateway!LiftCosts, Gateway!Makes
<1>2. c \in Every \ Timely
    <2>1. M \subseteq 1 .. 4
        BY CostsAre DEF Gateway!MissingCosts
    <2>2. M \in SUBSET Nat
        BY <2>1
    <2> HIDE DEF M
    <2>3. i \in M
        BY <1>1, <2>2, Missing
    <2> HIDE DEF i
    <2>4. QED
        BY <2>1, <2>3, CostsAre
<1> HIDE DEF c
<1>3. held \in Bases /\ held.version = 0 /\ nextOp = 1
    BY <1>1 DEF HeadInv, HeadTyped, Placed
<1>4. new \in Bases /\ new.version = 0 /\ new.items = held.items \cup {c}
    BY <1>2, <1>3 DEF Bases
<1>5. Paired(new, owing', missed)
    BY <1>1, <1>2, <1>4 DEF HeadInv, Paired, Timely, Indexes
<1>6. Versioned(new, missed)
    BY <1>4 DEF Versioned
<1> HIDE DEF new
<1>7. /\ held' = new /\ inTx' = inTx /\ database' \in Bases /\ inTx' \in BOOLEAN
      /\ ~ inTx' => held' = database'
      /\ Versioned(held, missed)' /\ Versioned(database, missed)' /\ Paired(held, owing, missed)'
      /\ Paired(database, IF inTx THEN {} ELSE owing, missed)'
    BY <1>1, <1>4, <1>5, <1>6, Ran
<1>8. HeadTyped'
    BY <1>1, <1>4, <1>7 DEF HeadInv, HeadTyped
<1>9. Placed' /\ Progress'
    BY <1>1, <1>3, <1>4, <1>7 DEF HeadInv, Placed, Progress
<1>10. QED
    BY <1>7, <1>8, <1>9 DEF HeadInv

\* Adopted, a database has all tables of the baseline, as they were then at least.
LEMMA Adopted ==
    ASSUME Gateway!MissingTables = {}, Gateway!MissingCosts = {}
    PROVE  Gateway!Shape[1] \subseteq held.items
<1>1. \A j \in 1 .. 12 : <<Gateway!Sorted[j], "table">> \in held.items
    BY SortedAre DEF Gateway!MissingTables, Gateway!Table
<1>2. \A j \in 1 .. 4 : Gateway!CostColumns[j] \in held.items
    BY CostsAre DEF Gateway!MissingCosts
<1>3. Gateway!Elements(Gateway!CostColumns) \subseteq held.items
    BY <1>2, CostsAre DEF Gateway!Elements
<1>4. \A j \in 1 .. Len(Gateway!Baseline.does) : Gateway!Baseline.does[j] \in held.items
    <2>1. \A j \in 1 .. Len(Gateway!Baseline.does) :
              \E n \in 1 .. 12 : Gateway!Baseline.does[j] = <<Gateway!Sorted[n], "table">>
        BY DEF Gateway!Baseline, Gateway!Revision, Gateway!Table, Gateway!Sorted
    <2>2. QED
        BY <1>1, <2>1
<1>5. Brought(1) \subseteq held.items
    <2>1. \A x : Gateway!Brings(x) \subseteq {x} \cup Gateway!Elements(Gateway!CostColumns)
        BY DEF Gateway!Brings
    <2>2. \A j \in 1 .. Len(Gateway!Baseline.does) :
              Gateway!Brings(Gateway!Baseline.does[j]) \subseteq held.items
        BY <1>3, <1>4, <2>1
    <2>3. QED
        BY <2>2, ChainIs, BroughtIs
<1>6. QED
    BY <1>5, ShapeHas

LEMMA VersionTables == ASSUME HeadInv, Gateway!VersionTable PROVE HeadInv'
<1> DEFINE new == [held EXCEPT !.vtable = TRUE]
<1>1. /\ \/ stage = "version" /\ stage' = "upgrade"
         \/ /\ stage = "adopt" /\ stage' = "stamp"
            /\ Gateway!MissingTables = {} /\ Gateway!MissingCosts = {}
      /\ owing = {} /\ Gateway!Runs(new, FALSE) /\ UNCHANGED <<nextOp, owing, missed>>
    BY DEF Gateway!VersionTable, HeadInv, Placed
<1>2. held \in Bases /\ nextOp = 1 /\ ~ inTx
    BY <1>1 DEF HeadInv, HeadTyped, Placed
<1>3. /\ new \in Bases /\ new.version = held.version /\ new.items = held.items /\ new.vtable
    BY <1>2 DEF Bases
<1>4. Paired(new, owing', missed) /\ Versioned(new, missed)
    BY <1>1, <1>3 DEF HeadInv, Paired, Versioned
<1>5. stage = "adopt" => held.version = 0 /\ Gateway!Shape[1] \subseteq new.items
    BY <1>1, <1>3, Adopted DEF HeadInv, Placed
<1> HIDE DEF new
<1>6. /\ held' = new /\ inTx' = inTx /\ database' \in Bases /\ inTx' \in BOOLEAN
      /\ ~ inTx' => held' = database'
      /\ Versioned(held, missed)' /\ Versioned(database, missed)' /\ Paired(held, owing, missed)'
      /\ Paired(database, IF inTx THEN {} ELSE owing, missed)'
    BY <1>1, <1>3, <1>4, Ran
<1>7. HeadTyped'
    BY <1>1, <1>3, <1>6 DEF HeadInv, HeadTyped
<1>8. Placed'
    BY <1>1, <1>2, <1>3, <1>5, <1>6 DEF HeadInv, Placed
<1>9. Progress'
    <2>1. held'.version \in 0 .. 17
        BY <1>3, <1>6 DEF Bases
    <2>2. held'.version + 1 < 18 => Len(Gateway!Chain[held'.version + 1].does) \in Nat \ {0}
        <3>1. \A k \in 1 .. 17 : Len(Gateway!Chain[k].does) \in Nat \ {0}
            BY RevisionsFit DEF Fits, Guards
        <3>2. held'.version + 1 < 18 => held'.version + 1 \in 1 .. 17
            BY <2>1
        <3>3. QED
            BY <3>1, <3>2
    <2>3. QED
        BY <1>1, <1>2, <2>1, <2>2 DEF Progress
<1>10. QED
    BY <1>6, <1>7, <1>8, <1>9 DEF HeadInv

LEMMA Stamps == ASSUME HeadInv, Gateway!Stamp PROVE HeadInv'
<1> DEFINE new == [held EXCEPT !.version = 1]
<1>1. /\ stage = "stamp" /\ stage' = "upgrade" /\ owing = {}
      /\ Gateway!Runs(new, TRUE) /\ UNCHANGED <<nextOp, owing, missed>>
    BY DEF Gateway!Stamp, HeadInv, Placed
<1>2. /\ held \in Bases /\ nextOp = 1 /\ held.vtable /\ Gateway!Shape[1] \subseteq held.items
    BY <1>1 DEF HeadInv, HeadTyped, Placed
<1>3. /\ new \in Bases /\ new.version = 1 /\ new.items = held.items /\ new.vtable
    BY <1>2 DEF Bases
<1>4. Paired(new, owing', missed) /\ Versioned(new, missed)
    BY <1>1, <1>2, <1>3 DEF HeadInv, Paired, Versioned
<1> HIDE DEF new
<1>5. /\ held' = new /\ inTx' /\ database' \in Bases /\ inTx' \in BOOLEAN
      /\ Versioned(held, missed)' /\ Versioned(database, missed)' /\ Paired(held, owing, missed)'
      /\ Paired(database, IF inTx THEN {} ELSE owing, missed)'
    BY <1>1, <1>3, <1>4, Ran
<1>6. HeadTyped'
    BY <1>1, <1>3, <1>5 DEF HeadInv, HeadTyped
<1>7. Placed'
    BY <1>1, <1>3, <1>5 DEF HeadInv, Placed
<1>8. Progress'
    <2>1. Len(Gateway!Chain[2].does) \in Nat \ {0}
        BY RevisionsFit DEF Fits, Guards
    <2>2. QED
        BY <1>1, <1>2, <1>3, <1>5, <2>1 DEF Progress
<1>9. QED
    BY <1>5, <1>6, <1>7, <1>8 DEF HeadInv

-----------------------------------------------------------------------------
(* The upgrade. *)

LEMMA AtRevision ==
    ASSUME HeadInv, Gateway!Upgrading
    PROVE  LET k == held.version + 1
               r == Gateway!Chain[k]
           IN  /\ k \in 1 .. 17 /\ held.version = k - 1 /\ Gateway!Pending = r /\ Fits(r, k)
               /\ held \in Bases /\ stage = "upgrade" /\ held.vtable
               /\ nextOp \in 1 .. Len(r.does) + 1
               /\ \A i \in 1 .. nextOp - 1 :
                     Gateway!Brings(r.does[i]) \subseteq held.items \cup missed
               /\ nextOp = 2 /\ k \in Halved => r.does[2] \notin held.items
               /\ owing # {} => nextOp = 2 /\ k \in Halved /\ owing = {r.does[2]}
<1> DEFINE k == held.version + 1
<1>1. held \in Bases /\ stage = "upgrade" /\ held.version < 17 /\ held.vtable
    BY ChainIs DEF Gateway!Upgrading, HeadInv, HeadTyped, Placed
<1>2. k \in 1 .. 17 /\ held.version = k - 1
    BY <1>1 DEF Bases
<1>3. Fits(Gateway!Chain[k], k)
    BY <1>2, RevisionsFit
<1>4. QED
    BY <1>1, <1>2, <1>3 DEF HeadInv, Progress, Gateway!Pending

\* The table that a statement is about is there, or is what it makes.
LEMMA TableOf ==
    ASSUME HeadInv, Gateway!Upgrading, NEW item, item = Gateway!Item,
           nextOp <= Len(Gateway!Pending.does), item \notin Gateway!Rewrites
    PROVE  item = Gateway!Table(item[1]) \/ Gateway!Table(item[1]) \in held.items
<1> DEFINE k == held.version + 1
           r == Gateway!Chain[k]
<1>1. /\ k \in 1 .. 17 /\ held.version = k - 1 /\ Fits(r, k) /\ nextOp \in 1 .. Len(r.does)
      /\ item = r.does[nextOp] /\ Len(r.does) \in Nat
      /\ \A i \in 1 .. nextOp - 1 : Gateway!Brings(r.does[i]) \subseteq held.items \cup missed
    <2>1. Fits(r, k)
        BY AtRevision
    <2>2. Len(r.does) \in Nat
        BY <2>1 DEF Fits, Guards
    <2>3. QED
        BY <2>1, <2>2, AtRevision DEF Gateway!Item
<1>2. missed \subseteq Indexes
    BY DEF HeadInv, HeadTyped
<1>3. CASE k # 1 /\ item[1] \in Earlier(k)
    <2>1. k \in 2 .. 17 /\ k - 1 # 0
        BY <1>1, <1>3
    <2> DEFINE x == <<item[1], "table">>
    <2>2. x \in Gateway!Shape[held.version]
        BY <1>1, <1>3, <2>1, TablesThere
    <2>3. x \in held.items \cup missed
        BY <1>1, <2>1, <2>2 DEF HeadInv, Versioned
    <2>4. x \notin Indexes
        BY DEF Indexes, AuditIndex, UserIndex
    <2>5. QED
        BY <1>2, <2>3, <2>4 DEF Gateway!Table
<1>4. CASE k = 11 /\ item = AuditIndex
    <2>1. nextOp = 2 /\ r.does[1] = AuditTable
        <3>1. Len(r.does) = 2 /\ r.does[1] = AuditTable
            BY <1>1, <1>4 DEF Fits, Guards, Halved
        <3>2. AuditTable # AuditIndex
            BY DEF AuditTable, AuditIndex
        <3>3. nextOp \in 1 .. 2
            BY <1>1, <3>1
        <3>4. nextOp # 1
            BY <1>1, <1>4, <3>1, <3>2
        <3>5. QED
            BY <3>1, <3>3, <3>4
    <2>2. AuditTable \in held.items \cup missed
        BY <1>1, <2>1, Brings1
    <2>3. AuditTable \in held.items
        BY <1>2, <2>2 DEF Indexes, AuditTable, AuditIndex, UserIndex
    <2>4. QED
        BY <1>4, <2>3 DEF AuditTable, AuditIndex, Gateway!Table
<1>5. \/ item = Gateway!Table(item[1]) \/ (k # 1 /\ item[1] \in Earlier(k))
      \/ (k = 11 /\ item = AuditIndex)
    BY <1>1 DEF Fits, Adds
<1>6. QED
    BY <1>3, <1>4, <1>5

LEMMA Skipped ==
    ASSUME HeadInv, stage = "upgrade", held.version < 17,
           UNCHANGED <<database, held, inTx, stage, owing, missed>>,
           nextOp' \in 1 .. Len(Gateway!Chain[held.version + 1].does) + 1,
           \A i \in 1 .. nextOp' - 1 :
               Gateway!Brings(Gateway!Chain[held.version + 1].does[i]) \subseteq held.items \cup missed,
           nextOp' = 2 => held.version + 1 \notin Halved, owing = {}
    PROVE  HeadInv'
<1>1. nextOp' \in Nat \ {0}
    OBVIOUS
<1>2. HeadTyped'
    BY <1>1 DEF HeadInv, HeadTyped
<1>3. Placed' /\ Progress'
    BY DEF HeadInv, Placed, Progress
<1>4. QED
    BY <1>2, <1>3 DEF HeadInv, Versioned, Paired

LEMMA Skips == ASSUME HeadInv, Gateway!Skip PROVE HeadInv'
<1> DEFINE k == held.version + 1
           r == Gateway!Chain[k]
           n == Len(r.does)
           item == r.does[nextOp]
<1>1. /\ Gateway!Upgrading /\ Gateway!Guarded /\ nextOp <= Len(Gateway!Pending.does)
      /\ nextOp' = IF Gateway!Pending.guard = "each" THEN nextOp + 1
                   ELSE Len(Gateway!Pending.does) + 1
      /\ UNCHANGED <<database, held, inTx, stage, owing, missed>>
    BY DEF Gateway!Skip
<1>2. /\ k \in 1 .. 17 /\ Gateway!Pending = r /\ Fits(r, k) /\ stage = "upgrade"
      /\ held.version < 17 /\ nextOp \in 1 .. n + 1 /\ Gateway!Item = item
      /\ \A i \in 1 .. nextOp - 1 : Gateway!Brings(r.does[i]) \subseteq held.items \cup missed
      /\ owing # {} => nextOp = 2 /\ k \in Halved
    <2>1. /\ k \in 1 .. 17 /\ held.version = k - 1 /\ Gateway!Pending = r /\ Fits(r, k)
          /\ stage = "upgrade" /\ nextOp \in 1 .. n + 1
          /\ \A i \in 1 .. nextOp - 1 :
                Gateway!Brings(r.does[i]) \subseteq held.items \cup missed
          /\ owing # {} => nextOp = 2 /\ k \in Halved
        BY <1>1, AtRevision
    <2>2. held.version < 17
        BY <1>1, ChainIs DEF Gateway!Upgrading
    <2>3. QED
        BY <2>1, <2>2 DEF Gateway!Item
<1>3. n \in Nat \ {0} /\ nextOp \in 1 .. n
    BY <1>1, <1>2 DEF Fits, Guards
<1>4. Gateway!Brings(item) = {item}
    <2>1. k # 1
        BY <1>1, <1>2 DEF Gateway!Guarded, Fits, Guards
    <2>2. item # <<"usage_daily", "table">>
        BY <1>2, <1>3, <2>1 DEF Fits, Adds
    <2>3. QED
        BY <2>2, Brings1
<1>5. item \in held.items
    <2>1. CASE r.guard = "lenient"
        <3>1. item[1] \in Earlier(k) /\ item \notin Gateway!Rewrites
            BY <1>2, <1>3, <2>1 DEF Fits, Adds
        <3>2. Gateway!Table(item[1]) \in held.items
            <4>1. item # Gateway!Table(item[1])
                BY <1>2, <1>3, <2>1 DEF Fits, Adds
            <4>2. QED
                BY <1>1, <1>2, <3>1, <4>1, TableOf
        <3>3. QED
            BY <1>1, <1>2, <3>2 DEF Gateway!Guarded
    <2>2. CASE r.guard # "lenient"
        BY <1>1, <1>2, <2>2 DEF Gateway!Guarded
    <2>3. QED
        BY <2>1, <2>2
<1>6. CASE r.guard = "each"
    <2>1. nextOp' = nextOp + 1 /\ k \notin Halved
        BY <1>1, <1>2, <1>6 DEF Fits, Guards
    <2>2. \A i \in 1 .. nextOp : Gateway!Brings(r.does[i]) \subseteq held.items \cup missed
        BY <1>2, <1>3, <1>4, <1>5
    <2>3. QED
        BY <1>1, <1>2, <1>3, <2>1, <2>2, Skipped
<1>7. CASE r.guard # "each"
    <2>1. nextOp = 1 /\ nextOp' = n + 1 /\ owing = {}
        <3>1. r.guard = "lenient" => n = 1
            BY <1>2 DEF Fits, Guards
        <3>2. nextOp = 1
            BY <1>1, <1>2, <1>3, <1>7, <3>1 DEF Gateway!Guarded
        <3>3. QED
            BY <1>1, <1>2, <1>7, <3>2
    <2>2. CASE k \notin Halved
        <3>1. n = 1
            BY <1>1, <1>2, <1>7, <2>2 DEF Fits, Guards, Gateway!Guarded
        <3>2. \A i \in 1 .. nextOp' - 1 : Gateway!Brings(r.does[i]) \subseteq held.items \cup missed
            BY <1>4, <1>5, <2>1, <3>1
        <3>3. QED
            BY <1>1, <1>2, <1>3, <2>1, <2>2, <3>2, Skipped
    <2>3. CASE k \in Halved
        <3>1. n = 2 /\ r.guard = "first"
            BY <1>2, <2>3 DEF Fits, Guards
        <3>2. r.does[2] \in held.items \cup missed
            BY <1>2, <1>5, <2>1, <2>3 DEF HeadInv, Paired, Fits, Guards, Halved
        <3>3. r.does[2] # <<"usage_daily", "table">>
            BY <1>2, <2>3, <3>1 DEF Fits, Adds, Halved
        <3>4. \A i \in 1 .. nextOp' - 1 : Gateway!Brings(r.does[i]) \subseteq held.items \cup missed
            BY <1>4, <1>5, <2>1, <3>1, <3>2, <3>3, Brings1
        <3>5. QED
            BY <1>1, <1>2, <1>3, <2>1, <3>1, <3>4, Skipped
    <2>4. QED
        BY <2>2, <2>3
<1>8. QED
    BY <1>6, <1>7

\* What a statement leaves owed: the rest of a revision that its first guards.
LEMMA LeftOwed ==
    ASSUME HeadInv, Gateway!Statement
    PROVE  LET k == held.version + 1
               r == Gateway!Chain[k]
           IN  owing' = IF k \in Halved /\ nextOp = 1 THEN {r.does[2]} ELSE {}
<1> DEFINE k == held.version + 1
           r == Gateway!Chain[k]
           n == Len(r.does)
<1>1. /\ Gateway!Upgrading /\ nextOp <= n /\ Gateway!Pending = r
      /\ owing' = IF r.guard = "first" THEN {r.does[i] : i \in nextOp + 1 .. n} ELSE {}
    <2>1. Gateway!Upgrading
        BY DEF Gateway!Statement
    <2>2. Gateway!Pending = r
        BY <2>1, AtRevision
    <2>3. QED
        BY <2>1, <2>2 DEF Gateway!Statement
<1>2. k \in 1 .. 17 /\ nextOp \in 1 .. n + 1 /\ Fits(r, k)
    BY <1>1, AtRevision
<1>3. n \in Nat \ {0}
    BY <1>2 DEF Fits, Guards
<1>4. CASE k \in Halved
    <2>1. n = 2 /\ r.guard = "first"
        BY <1>2, <1>4 DEF Fits, Guards
    <2>2. nextOp = 1 \/ nextOp = 2
        BY <1>1, <1>2, <2>1
    <2>3. nextOp = 1 => nextOp + 1 .. n = {2}
        BY <2>1
    <2>4. nextOp = 2 => nextOp + 1 .. n = {}
        BY <2>1
    <2>5. owing' = {r.does[i] : i \in nextOp + 1 .. n}
        BY <1>1, <2>1
    <2> HIDE DEF n, r
    <2>6. CASE nextOp = 1
        <3>1. owing' = {r.does[i] : i \in {2}}
            BY <2>3, <2>5, <2>6
        <3>2. owing' = {r.does[2]}
            BY <3>1
        <3>3. k \in Halved /\ nextOp = 1
            BY <1>4, <2>6
        <3>4. QED
            BY <3>2, <3>3 DEF r
    <2>7. CASE nextOp = 2
        <3>1. owing' = {r.does[i] : i \in {}}
            BY <2>4, <2>5, <2>7
        <3>2. QED
            BY <2>7, <3>1
    <2>8. QED
        BY <2>2, <2>6, <2>7
<1>5. CASE k \notin Halved
    <2>1. r.guard = "first" => n = 1
        BY <1>2, <1>5 DEF Fits, Guards
    <2>2. n = 1 => nextOp + 1 .. n = {}
        BY <1>2
    <2> HIDE DEF n, r
    <2>3. QED
        BY <1>1, <1>5, <2>1, <2>2
<1>6. QED
    BY <1>4, <1>5

LEMMA Statements == ASSUME HeadInv, Gateway!Statement PROVE HeadInv'
<1> DEFINE k == held.version + 1
           r == Gateway!Chain[k]
           n == Len(r.does)
           item == r.does[nextOp]
           new == [held EXCEPT !.items = @ \cup Gateway!Brings(item)]
           rows == item \in Gateway!Rewrites
<1>1. /\ Gateway!Upgrading /\ nextOp <= n /\ Gateway!Pending = r /\ Gateway!Item = item
      /\ ~ Gateway!Guarded /\ Gateway!Legal /\ nextOp' = nextOp + 1
      /\ Gateway!Runs(new, rows) /\ UNCHANGED <<stage, missed>>
    <2>1. Gateway!Upgrading
        BY DEF Gateway!Statement
    <2>2. Gateway!Pending = r
        BY <2>1, AtRevision
    <2>3. QED
        BY <2>1, <2>2 DEF Gateway!Statement, Gateway!Item
<1>2. /\ k \in 1 .. 17 /\ held.version = k - 1 /\ Fits(r, k) /\ held \in Bases
      /\ stage = "upgrade" /\ held.vtable /\ nextOp \in 1 .. n + 1
      /\ \A i \in 1 .. nextOp - 1 : Gateway!Brings(r.does[i]) \subseteq held.items \cup missed
      /\ owing # {} => nextOp = 2 /\ k \in Halved /\ owing = {r.does[2]}
    BY <1>1, AtRevision
<1>3. n \in Nat \ {0} /\ nextOp \in 1 .. n /\ missed \subseteq Indexes
    <2>1. n \in Nat \ {0}
        BY <1>2 DEF Fits, Guards
    <2>2. QED
        BY <1>1, <1>2, <2>1 DEF HeadInv, HeadTyped
<1>4. owing' = IF k \in Halved /\ nextOp = 1 THEN {r.does[2]} ELSE {}
    BY LeftOwed
<1>5. item \in Every /\ Gateway!Brings(item) \subseteq Every /\ item \in Gateway!Brings(item)
    BY <1>2, <1>3, Brings1 DEF Fits, Adds
<1>6. rows => owing = {} /\ k \notin Halved
    BY <1>2, <1>3 DEF Fits, Adds, Guards
<1>7. /\ new \in Bases /\ new.version = k - 1 /\ new.vtable
      /\ new.items = held.items \cup Gateway!Brings(item)
    BY <1>2, <1>5 DEF Bases
<1>8. Versioned(new, missed)
    BY <1>2, <1>7 DEF HeadInv, Versioned
<1>9. k \in Halved => /\ Gateway!Brings(item) = {item} /\ n = 2 /\ item \notin held.items
                      /\ nextOp = 1 \/ nextOp = 2
    <2>1. SUFFICES ASSUME k \in Halved
                   PROVE  /\ Gateway!Brings(item) = {item} /\ n = 2 /\ item \notin held.items
                          /\ nextOp = 1 \/ nextOp = 2
        OBVIOUS
    <2>2. n = 2
        BY <1>2, <2>1 DEF Fits, Guards
    <2>3. Gateway!Brings(item) = {item}
        BY <1>2, <1>3, <2>1, Brings1 DEF Fits, Adds, Halved
    <2>4. item \notin held.items
        BY <1>1, <1>6, <2>1 DEF Gateway!Legal
    <2>5. nextOp = 1 \/ nextOp = 2
        BY <1>3, <2>2
    <2>6. QED
        BY <2>2, <2>3, <2>4, <2>5
<1>10. Paired(new, owing', missed) /\ owing' \subseteq Indexes
       /\ (k \in Halved /\ nextOp = 1 => r.does[2] \notin new.items)
    <2>1. CASE k \notin Halved
        <3>1. Gateway!Brings(item) \cap Timely = {}
            BY <1>2, <1>3, <2>1, Brings1 DEF Fits, Adds
        <3>2. owing' = {} /\ owing = {}
            BY <1>2, <1>4, <2>1
        <3>3. Paired(held, {}, missed)
            BY <3>2 DEF HeadInv
        <3> HIDE DEF new
        <3>4. QED
            BY <1>7, <2>1, <3>1, <3>2, <3>3 DEF Paired, Timely, Indexes
    <2>2. CASE k \in Halved
        <3>1. /\ k = 11 => r.does[1] = AuditTable /\ r.does[2] = AuditIndex
              /\ k = 15 => r.does[1] = UserColumn /\ r.does[2] = UserIndex
              /\ k = 11 \/ k = 15
            BY <1>2, <2>2 DEF Fits, Guards, Halved
        <3>2. Paired(held, owing, missed)
            BY DEF HeadInv
        <3>3. AuditTable # AuditIndex /\ UserColumn # UserIndex /\ AuditTable # UserColumn
              /\ AuditTable # UserIndex /\ AuditIndex # UserColumn /\ AuditIndex # UserIndex
            BY DEF AuditTable, AuditIndex, UserColumn, UserIndex
        <3>4. CASE nextOp = 1
            <4>1. owing = {} /\ owing' = {r.does[2]} /\ item = r.does[1]
                  /\ new.items = held.items \cup {item} /\ item \notin held.items
                BY <1>2, <1>4, <1>7, <1>9, <2>2, <3>4
            <4> HIDE DEF new, r, item
            <4>2. QED
                BY <3>1, <3>2, <3>3, <4>1 DEF Paired, Indexes
        <3>5. CASE nextOp = 2
            <4>1. owing' = {} /\ item = r.does[2] /\ new.items = held.items \cup {item}
                  /\ owing \subseteq {item} /\ item \notin held.items
                BY <1>2, <1>4, <1>7, <1>9, <2>2, <3>5
            <4>2. r.does[1] \in held.items
                <5>1. r.does[1] \in held.items \cup missed
                    BY <1>2, <3>5, Brings1
                <5>2. QED
                    BY <1>3, <3>1, <3>3, <5>1 DEF Indexes
            <4> HIDE DEF new, r, item
            <4>3. QED
                BY <3>1, <3>2, <3>3, <3>5, <4>1, <4>2 DEF Paired, Indexes
        <3>6. QED
            BY <1>9, <2>2, <3>4, <3>5
    <2>3. QED
        BY <2>1, <2>2
<1> HIDE DEF new, rows
<1>11. /\ held' = new /\ (~ rows => inTx' = inTx) /\ database' \in Bases /\ inTx' \in BOOLEAN
       /\ ~ inTx' => held' = database'
       /\ Versioned(held, missed)' /\ Versioned(database, missed)' /\ Paired(held, owing, missed)'
       /\ Paired(database, IF inTx THEN {} ELSE owing, missed)'
    <2>1. rows => owing = {}
        BY <1>6
    <2>2. rows \in BOOLEAN
        BY DEF rows
    <2>3. missed' = missed
        BY <1>1
    <2>4. QED
        BY <1>1, <1>7, <1>8, <1>10, <2>1, <2>2, <2>3, Ran
<1>12. HeadTyped'
    <2>1. nextOp' \in Nat \ {0}
        BY <1>1, <1>3
    <2>2. QED
        BY <1>1, <1>7, <1>10, <1>11, <2>1 DEF HeadInv, HeadTyped
<1>13. Placed'
    <2>1. inTx' => held'.version # 0
        <3>1. rows => k # 1
            BY <1>2, <1>3 DEF rows, Fits, Guards, Adds
        <3>2. inTx => held.version # 0
            BY DEF HeadInv, Placed
        <3>3. rows \/ inTx => k # 1
            BY <1>2, <3>1, <3>2
        <3>4. inTx' => rows \/ inTx
            BY <1>11
        <3>5. held'.version = k - 1
            BY <1>7, <1>11
        <3>6. k # 1 => k - 1 # 0
            BY <1>2
        <3>7. QED
            BY <3>3, <3>4, <3>5, <3>6
    <2>2. QED
        BY <1>1, <1>2, <1>7, <1>11, <2>1 DEF Placed
<1>14. Progress'
    <2>1. held'.version + 1 = k /\ nextOp' \in 1 .. n + 1
        BY <1>1, <1>2, <1>3, <1>7, <1>11
    <2>2. \A i \in 1 .. nextOp' - 1 :
              Gateway!Brings(r.does[i]) \subseteq held'.items \cup missed'
        <3>1. ASSUME NEW i \in 1 .. nextOp' - 1
              PROVE  Gateway!Brings(r.does[i]) \subseteq new.items \cup missed
            <4>1. i \in 1 .. nextOp - 1 \/ i = nextOp
                BY <1>1, <1>3
            <4>2. i = nextOp => Gateway!Brings(r.does[i]) \subseteq new.items
                BY <1>7
            <4>3. QED
                BY <1>2, <1>7, <4>1, <4>2
        <3>2. QED
            BY <1>1, <1>11, <3>1
    <2>3. nextOp' = 2 /\ k \in Halved => r.does[2] \notin held'.items
        BY <1>1, <1>3, <1>10, <1>11
    <2>4. owing' # {} => nextOp' = 2 /\ k \in Halved /\ owing' = {r.does[2]}
        BY <1>1, <1>4
    <2>5. stage' = "upgrade"
        BY <1>1, <1>2
    <2>6. /\ (held'.version + 1) = k /\ Gateway!Chain[held'.version + 1].does = r.does
        BY <2>1
    <2> HIDE DEF r, k, n
    <2>7. /\ nextOp' \in 1 .. Len(r.does) + 1
        BY <2>1 DEF n
    <2>8. QED
        BY <2>2, <2>3, <2>4, <2>5, <2>6, <2>7 DEF Progress
<1>15. QED
    BY <1>8, <1>11, <1>12, <1>13, <1>14 DEF HeadInv

LEMMA Raised == ASSUME HeadInv, Gateway!Raises PROVE HeadInv'
<1> DEFINE k == held.version + 1
           r == Gateway!Chain[k]
           item == r.does[nextOp]
<1>1. /\ Gateway!Upgrading /\ nextOp <= Len(r.does) /\ Gateway!Pending = r
      /\ Gateway!Item = item /\ ~ Gateway!Guarded /\ ~ Gateway!Legal
      /\ stage' = "raised" /\ held' = database /\ inTx' = FALSE /\ nextOp' = 1
      /\ UNCHANGED <<database, owing, missed>>
    <2>1. Gateway!Upgrading
        BY DEF Gateway!Raises
    <2>2. Gateway!Pending = r
        BY <2>1, AtRevision
    <2>3. QED
        BY <2>1, <2>2 DEF Gateway!Raises, Gateway!Item
<1>2. /\ k \in 1 .. 17 /\ held.version = k - 1 /\ Fits(r, k) /\ held \in Bases /\ held.vtable
      /\ stage = "upgrade" /\ nextOp \in 1 .. Len(r.does) + 1
      /\ owing # {} => nextOp = 2 /\ k \in Halved /\ owing = {r.does[2]}
      /\ nextOp = 2 /\ k \in Halved => r.does[2] \notin held.items
    BY <1>1, AtRevision
<1>3. Len(r.does) \in Nat \ {0} /\ nextOp \in 1 .. Len(r.does)
    <2>1. Len(r.does) \in Nat \ {0}
        BY <1>2 DEF Fits, Guards
    <2>2. QED
        BY <1>1, <1>2, <2>1
<1>4. item \notin Gateway!Rewrites /\ item \in held.items
    <2>1. item \notin Gateway!Rewrites
        BY <1>1 DEF Gateway!Legal
    <2>2. item = Gateway!Table(item[1]) \/ Gateway!Table(item[1]) \in held.items
        BY <1>1, <2>1, TableOf
    <2>3. QED
        BY <1>1, <2>1, <2>2 DEF Gateway!Legal
<1>5. owing = {}
    <2>1. ~ (nextOp = 2 /\ k \in Halved)
        BY <1>2, <1>4
    <2>2. QED
        BY <1>2, <2>1
\* The statement is one of the baseline: every other is guarded by its own absence.
<1>6. k = 1
    <2>1. SUFFICES ASSUME k # 1 PROVE FALSE
        OBVIOUS
    <2>2. r.guard \in {"each", "first", "lenient"}
        BY <1>2, <2>1 DEF Fits, Guards
    <2>3. CASE r.guard = "each"
        BY <1>1, <1>4, <2>3 DEF Gateway!Guarded
    <2>4. CASE r.guard # "each"
        <3>1. nextOp # 1
            BY <1>1, <1>4, <2>2, <2>4 DEF Gateway!Guarded
        <3>2. Len(r.does) # 1
            <4> DEFINE n == Len(r.does)
            <4>1. n \in Nat /\ nextOp \in 1 .. n
                BY <1>3
            <4> HIDE DEF n
            <4>2. n # 1
                BY <3>1, <4>1
            <4>3. QED
                BY <4>2 DEF n
        <3>3. k \in Halved /\ Len(r.does) = 2
            BY <1>2, <2>2, <2>4, <3>2 DEF Fits, Guards
        <3>4. nextOp = 2
            BY <1>3, <3>1, <3>3
        <3>5. QED
            BY <1>2, <1>4, <3>3, <3>4
    <2>5. QED
        BY <2>3, <2>4
<1>7. Gateway!Torn(database)
    <2>1. held = database
        BY <1>2, <1>6 DEF HeadInv, Placed
    <2>2. QED
        BY <1>2, <1>4, <1>6, <2>1 DEF Gateway!Torn, Gateway!HasTables
<1>8. HeadTyped'
    <2>1. nextOp' \in Nat \ {0}
        BY <1>1
    <2>2. inTx' \in BOOLEAN
        BY <1>1, Zenon
    <2>3. /\ database' \in Bases /\ held' \in Bases
          /\ owing' \subseteq Indexes /\ missed' \subseteq Indexes
        BY <1>1 DEF HeadInv, HeadTyped
    <2>4. QED
        BY <1>1, <2>1, <2>2, <2>3 DEF HeadTyped
<1>9. Placed' /\ Progress'
    BY <1>1, <1>5, <1>7 DEF Placed, Progress, Gateway!Torn, Gateway!HasTables
<1>10. Paired(database, {}, missed) /\ Versioned(database, missed)
    BY <1>5 DEF HeadInv
<1>11. QED
    BY <1>1, <1>5, <1>8, <1>9, <1>10 DEF HeadInv, Versioned, Paired

LEMMA Bumps == ASSUME HeadInv, Gateway!Bump PROVE HeadInv'
<1> DEFINE k == held.version + 1
           r == Gateway!Chain[k]
           n == Len(r.does)
           new == [held EXCEPT !.version = @ + 1]
<1>1. /\ Gateway!Upgrading /\ nextOp = n + 1 /\ Gateway!Pending = r /\ Gateway!Runs(new, TRUE)
      /\ nextOp' = 1 /\ owing' = {} /\ UNCHANGED <<stage, missed>>
    <2>1. Gateway!Upgrading
        BY DEF Gateway!Bump
    <2>2. Gateway!Pending = r
        BY <2>1, AtRevision
    <2>3. QED
        BY <2>1, <2>2 DEF Gateway!Bump
<1>2. /\ k \in 1 .. 17 /\ held.version = k - 1 /\ Fits(r, k) /\ held \in Bases /\ held.vtable
      /\ stage = "upgrade"
      /\ \A i \in 1 .. nextOp - 1 : Gateway!Brings(r.does[i]) \subseteq held.items \cup missed
      /\ owing # {} => nextOp = 2 /\ k \in Halved
    BY <1>1, AtRevision
<1>3. n \in Nat \ {0} /\ (k \in Halved => n = 2)
    BY <1>2 DEF Fits, Guards
<1>4. owing = {}
    <2>1. nextOp = n + 1 /\ n \in Nat \ {0} /\ (k \in Halved => n = 2)
        BY <1>1, <1>3
    <2>2. owing # {} => nextOp = 2 /\ k \in Halved
        BY <1>2
    <2> HIDE DEF n, k
    <2>3. QED
        BY <2>1, <2>2
<1>5. Brought(k) \subseteq held.items \cup missed
    <2>1. \A i \in 1 .. n : Gateway!Brings(r.does[i]) \subseteq held.items \cup missed
        BY <1>1, <1>2, <1>3
    <2>2. Brought(k) = UNION {Gateway!Brings(r.does[i]) : i \in 1 .. n}
        BY <1>2, BroughtIs
    <2> HIDE DEF k, r, n
    <2>3. QED
        BY <2>1, <2>2
<1>6. Gateway!Shape[k] \subseteq held.items \cup missed
    <2>1. Gateway!Shape[k] = Gateway!Shape[k - 1] \cup Brought(k)
        <3>1. k \in 0 .. 17 /\ k - 1 \in 0 .. 17 /\ 1 .. k = (1 .. k - 1) \cup {k}
            BY <1>2
        <3>2. Gateway!Shape[k] = Through(k) /\ Gateway!Shape[k - 1] = Through(k - 1)
            BY <3>1, ShapesAre
        <3> HIDE DEF k
        <3>3. QED
            BY <3>1, <3>2 DEF Through
    <2>2. Gateway!Shape[k - 1] \subseteq held.items \cup missed
        <3>1. CASE k = 1
            <4>1. Gateway!Shape[0] = {}
                BY ShapesAre DEF Through
            <4>2. QED
                BY <3>1, <4>1
        <3>2. CASE k # 1
            BY <1>2, <3>2 DEF HeadInv, Versioned
        <3>3. QED
            BY <3>1, <3>2
    <2>3. QED
        BY <1>5, <2>1, <2>2
<1>7. new \in Bases /\ new.version = k /\ new.items = held.items /\ new.vtable
    BY <1>2 DEF Bases
<1>8. Paired(new, owing', missed) /\ Versioned(new, missed)
    BY <1>1, <1>4, <1>6, <1>7 DEF HeadInv, Paired, Versioned
<1> HIDE DEF new
<1>9. /\ held' = new /\ inTx' /\ database' \in Bases /\ inTx' \in BOOLEAN
      /\ Versioned(held, missed)' /\ Versioned(database, missed)' /\ Paired(held, owing, missed)'
      /\ Paired(database, IF inTx THEN {} ELSE owing, missed)'
    BY <1>1, <1>4, <1>7, <1>8, Ran
<1>10. HeadTyped'
    <2>1. nextOp' \in Nat \ {0} /\ owing' \subseteq Indexes
        BY <1>1
    <2>2. QED
        BY <1>1, <1>7, <1>9, <2>1 DEF HeadInv, HeadTyped
<1>11. Placed'
    <2>1. held'.version # 0 /\ held'.vtable
        BY <1>2, <1>7, <1>9
    <2>2. QED
        BY <1>1, <1>2, <1>9, <2>1 DEF Placed
<1>12. Progress'
    <2>1. held'.version + 1 < 18 => Len(Gateway!Chain[held'.version + 1].does) \in Nat \ {0}
        <3>1. \A j \in 1 .. 17 : Len(Gateway!Chain[j].does) \in Nat \ {0}
            BY RevisionsFit DEF Fits, Guards
        <3>2. held'.version + 1 < 18 => held'.version + 1 \in 1 .. 17
            BY <1>2, <1>7, <1>9
        <3>3. QED
            BY <3>1, <3>2
    <2>2. QED
        BY <1>1, <2>1 DEF Progress
<1>13. QED
    BY <1>8, <1>9, <1>10, <1>11, <1>12 DEF HeadInv

LEMMA CommitsHead == ASSUME HeadInv, Gateway!Commit PROVE HeadInv'
<1>1. /\ stage = "upgrade" /\ held.version = 17 /\ database' = held /\ inTx' = FALSE
      /\ stage' = "up" /\ UNCHANGED <<held, nextOp, owing, missed>>
    BY ChainIs DEF Gateway!Commit
<1>2. owing = {}
    BY <1>1 DEF HeadInv, Progress, Halved
<1>3. HeadTyped'
    BY <1>1 DEF HeadInv, HeadTyped
<1>4. Placed' /\ Progress'
    BY <1>1, <1>2 DEF Placed, Progress
<1>5. QED
    BY <1>1, <1>2, <1>3, <1>4 DEF HeadInv, Versioned, Paired

LEMMA GoesDown == ASSUME HeadInv, Gateway!Down PROVE HeadInv'
<1>1. /\ stage' = "off" /\ held' = database /\ inTx' = FALSE /\ nextOp' = 1 /\ owing' = {}
      /\ database' = database
      /\ missed' = (IF inTx THEN missed ELSE missed \cup owing)
    BY DEF Gateway!Down
<1>2. missed \subseteq missed' /\ missed' \subseteq Indexes
    BY <1>1 DEF HeadInv, HeadTyped
<1>3. Paired(database, {}, missed')
    <2>1. Paired(database, IF inTx THEN {} ELSE owing, missed)
        BY DEF HeadInv
    <2>2. CASE inTx
        BY <1>1, <2>1, <2>2
    <2>3. CASE ~ inTx
        BY <1>1, <2>1, <2>3 DEF Paired
    <2>4. QED
        BY <2>2, <2>3
<1>4. Versioned(database, missed')
    BY <1>2 DEF HeadInv, Versioned
<1>5. HeadTyped'
    <2>1. nextOp' \in Nat \ {0} /\ owing' \subseteq Indexes
        BY <1>1
    <2>2. inTx' \in BOOLEAN
        BY <1>1, Zenon
    <2>3. QED
        BY <1>1, <1>2, <2>1, <2>2 DEF HeadInv, HeadTyped
<1>6. Placed' /\ Progress'
    BY <1>1 DEF Placed, Progress
<1>7. QED
    BY <1>1, <1>3, <1>4, <1>5, <1>6 DEF HeadInv, Versioned, Paired

LEMMA HeadStep == ASSUME HeadInv, Gateway!Next PROVE HeadInv'
BY HeadBoots, TablesMade, IndexesMade, CostsLifted, VersionTables, Stamps, Skips,
   Statements,
   Raised, Bumps, CommitsHead, GoesDown DEF Gateway!Next

LEMMA HeadStays == ASSUME HeadInv, UNCHANGED Gateway!vars PROVE HeadInv'
BY DEF Gateway!vars, HeadInv, HeadTyped, Placed, Progress, Versioned, Paired,
   Gateway!Torn,
   Gateway!HasTables

LEMMA HeadMeant == ASSUME HeadInv PROVE Gateway!TablesAtHead
<1>1. stage = "raised" => Gateway!Torn(database)
    BY DEF HeadInv, Placed
<1>2. database.version # 0 => Gateway!Shape[database.version] \subseteq database.items \cup missed
    BY DEF HeadInv, Versioned
<1>3. ASSUME stage = "up"
      PROVE  /\ database.version = Gateway!Latest
             /\ database.items \subseteq Gateway!Models \cup Gateway!Rewrites
             /\ (Gateway!Models \cup Gateway!Rewrites) \ database.items \subseteq missed
    <2>1. database.version = 17 /\ database.items \subseteq Every
        BY <1>3 DEF HeadInv, HeadTyped, Placed, Bases
    <2>2. Every \subseteq database.items \cup missed
        BY <1>2, <2>1, ShapesEnd
    <2>3. QED
        BY <2>1, <2>2, ChainIs DEF Every
<1>4. QED
    BY <1>1, <1>2, <1>3 DEF Gateway!TablesAtHead

LEMMA HeadMove ==
    /\ Init /\ focus = "head" => Gateway!Init
    /\ focus = "head" /\ [Next]_vars => [Gateway!Next]_(Gateway!vars)
BY DEF Init, Next, Same8, Same9, vars, Gateway!vars

\* Whatever release left the gateway's database and wherever earlier starts were
\* killed, a start raises on no migration, and one that finishes has committed what
\* the models of today describe, rewritten rows included; but for a database torn
\* before its first version was committed, and an index cut off from its table. At
\* all times a versioned database has what its version says (db._migrate_to_head).
THEOREM HeadIsReached ==
    /\ Gateway!Spec => []Gateway!TablesAtHead
    /\ Spec => []TablesAtHead
<1> DEFINE InFocus == focus = "head" => HeadInv
<1>0. EarlyFits
    BY ServicesAssumption DEF EarlyFits
<1>1. Gateway!Init => HeadInv
    BY <1>0, HeadInit
<1>2. HeadInv /\ [Gateway!Next]_(Gateway!vars) => HeadInv'
    BY HeadStep, HeadStays
<1>3. HeadInv => Gateway!TablesAtHead
    BY HeadMeant
<1>4. Init => InFocus
    BY <1>1, HeadMove
<1>5. InFocus /\ [Next]_vars => InFocus'
    BY <1>2, HeadMove, FocusStays
<1>6. InFocus => TablesAtHead
    BY <1>3 DEF TablesAtHead
<1> HIDE DEF InFocus
<1>7. Gateway!Spec => []Gateway!TablesAtHead
    BY <1>1, <1>2, <1>3, PTL DEF Gateway!Spec
<1>8. Spec => []TablesAtHead
    BY <1>4, <1>5, <1>6, PTL DEF Spec
<1>9. QED
    BY <1>7, <1>8

HIDE DEF database, held, inTx, stage, nextOp, owing, missed

=============================================================================
