-------------------------- MODULE InferenceProofs ---------------------------
(***************************************************************************)
(* For every set of requests and every sequence of replicas: the types of  *)
(* the handlers, that the pool counts exactly the requests at a replica,   *)
(* that a pinned request goes nowhere else, and that the books are kept.   *)
(***************************************************************************)
EXTENDS Inference, FiniteSetTheorems, WellFoundedInduction, TLAPS

-----------------------------------------------------------------------------
(* What is strictly ordered can be put in order, if it is finite; by       *)
(* induction, in the form that the provers take: a set of subsets of a     *)
(* finite set has a member that contains no other.                         *)

LEMMA Smallest ==
    ASSUME NEW S, IsFiniteSet(S), NEW C \in SUBSET SUBSET S, C # {}
    PROVE  \E X \in C : \A Y \in C : Y \subseteq X => Y = X
<1>1. IsWellFoundedOn(StrictSubsetOrdering(S), SUBSET S)
    BY FS_FiniteSubsetsOfFinite, FS_StrictSubsetOrderingWellFounded
<1>2. \E X \in C : \A Y \in C : <<Y, X>> \notin StrictSubsetOrdering(S)
    BY <1>1, WFMin
<1>3. QED
    BY <1>2 DEF StrictSubsetOrdering

\* R orders S: of two members one comes first.
Orders(R, S) ==
    /\ \A x, y \in S : x # y => <<x, y>> \in R \/ <<y, x>> \in R
    /\ \A x, y, z \in S : <<x, y>> \in R /\ <<y, z>> \in R => <<x, z>> \in R

LEMMA OneIsLast ==
    ASSUME NEW S, IsFiniteSet(S), NEW R, Orders(R, S), S # {}
    PROVE  \E m \in S : \A x \in S \ {m} : <<x, m>> \in R
<1> DEFINE HasLast(T) == \E m \in T : \A x \in T \ {m} : <<x, m>> \in R
           C == {T \in SUBSET S : T # {} /\ ~ HasLast(T)}
<1>1. ASSUME C # {} PROVE FALSE
    <2>1. PICK X \in C : \A Y \in C : Y \subseteq X => Y = X
        <3>1. C \in SUBSET SUBSET S
            OBVIOUS
        <3> HIDE DEF C
        <3>2. QED
            BY <1>1, <3>1, Smallest
    <2>2. PICK a \in X : TRUE
        OBVIOUS
    <2>3. X \ {a} \notin C
        BY <2>1, <2>2
    <2>4. CASE X \ {a} = {}
        BY <2>2, <2>4
    <2>5. CASE X \ {a} # {}
        <3>1. PICK m \in X \ {a} : \A x \in (X \ {a}) \ {m} : <<x, m>> \in R
            BY <2>3, <2>5
        <3>2. CASE <<a, m>> \in R
            BY <3>1, <3>2
        <3>3. CASE <<m, a>> \in R
            <4>1. \A x \in X \ {a} : <<x, a>> \in R
                BY <2>2, <3>1, <3>3 DEF Orders
            <4>2. QED
                BY <2>2, <4>1
        <3>4. QED
            BY <2>2, <3>1, <3>2, <3>3 DEF Orders
    <2>6. QED
        BY <2>4, <2>5
<1>2. QED
    BY <1>1

\* q lists T in the order R.
Lists(q, T, R) ==
    /\ q \in [1 .. Cardinality(T) -> T]
    /\ \A i, j \in DOMAIN q : i < j => <<q[i], q[j]>> \in R

LEMMA CanBeListed ==
    ASSUME NEW S, IsFiniteSet(S), NEW R, Orders(R, S)
    PROVE  \E q : Lists(q, S, R)
<1> DEFINE C == {T \in SUBSET S : ~ \E q : Lists(q, T, R)}
<1>1. ASSUME C # {} PROVE FALSE
    <2>1. PICK X \in C : \A Y \in C : Y \subseteq X => Y = X
        <3>1. C \in SUBSET SUBSET S
            OBVIOUS
        <3> HIDE DEF C
        <3>2. QED
            BY <1>1, <3>1, Smallest
    <2>2. IsFiniteSet(X) /\ Orders(R, X)
        BY FS_Subset DEF Orders
    <2>3. CASE X = {}
        <3>1. Lists(<<>>, X, R)
            BY <2>3, FS_EmptySet DEF Lists
        <3>2. QED
            BY <3>1
    <2>4. CASE X # {}
        <3>1. PICK m \in X : \A x \in X \ {m} : <<x, m>> \in R
            BY <2>2, <2>4, OneIsLast
        <3>2. PICK q : Lists(q, X \ {m}, R)
            BY <2>1, <3>1
        <3> DEFINE n == Cardinality(X)
        <3>3. n \in Nat /\ n > 0 /\ Cardinality(X \ {m}) = n - 1
            BY <2>2, <2>4, <3>1, FS_RemoveElement, FS_CardinalityType, FS_EmptySet
        <3> DEFINE p == [i \in 1 .. n |-> IF i < n THEN q[i] ELSE m]
        <3> HIDE DEF n
        <3>4. q \in [1 .. n - 1 -> X \ {m}]
            BY <3>2, <3>3 DEF Lists
        <3>5. p \in [1 .. n -> X]
            BY <3>1, <3>3, <3>4
        <3>6. ASSUME NEW i \in 1 .. n, NEW j \in 1 .. n, i < j
              PROVE  <<p[i], p[j]>> \in R
            <4>1. i \in 1 .. n - 1 /\ p[i] = q[i] /\ q[i] \in X \ {m}
                BY <3>3, <3>4, <3>6
            <4>2. CASE j < n
                <5>1. j \in 1 .. n - 1 /\ p[j] = q[j]
                    BY <3>3, <4>2
                <5>2. QED
                    BY <3>2, <3>4, <3>6, <4>1, <5>1 DEF Lists
            <4>3. CASE j = n
                <5>1. p[j] = m
                    BY <3>3, <4>3
                <5>2. QED
                    BY <3>1, <4>1, <5>1
            <4>4. QED
                BY <3>3, <4>2, <4>3
        <3>7. Lists(p, X, R)
            BY <3>5, <3>6 DEF Lists, n
        <3>8. QED
            BY <3>7
    <2>5. QED
        BY <2>3, <2>4
<1>2. QED
    BY <1>1

-----------------------------------------------------------------------------
(* The order of the candidates: the pool's load is a strict order of the   *)
(* replicas, whatever it is at the moment.                                 *)

\* Loads are compared as fractions, without dividing.
LEMMA FractionsCompare ==
    ASSUME NEW x \in Nat, NEW y \in Nat, NEW z \in Nat,
           NEW p \in Nat \ {0}, NEW q \in Nat \ {0}, NEW s \in Nat \ {0},
           x * q <= y * p, y * s <= z * q
    PROVE  /\ x * s <= z * p
           /\ x * q < y * p \/ y * s < z * q => x * s < z * p
<1>1. (x * q) * s <= (y * p) * s /\ (y * s) * p <= (z * q) * p
    OBVIOUS
<1>2. (x * q) * s = q * (x * s) /\ (y * p) * s = (y * s) * p /\ (z * q) * p = q * (z * p)
    OBVIOUS
<1>3. q * (x * s) <= q * (z * p)
    BY <1>1, <1>2
<1>4. x * s \in Nat /\ z * p \in Nat
    OBVIOUS
<1>5. x * s <= z * p
    BY <1>3, <1>4
<1>6. ASSUME x * q < y * p \/ y * s < z * q PROVE x * s < z * p
    <2>1. (x * q) * s < (y * p) * s \/ (y * s) * p < (z * q) * p
        BY <1>6
    <2>2. q * (x * s) < q * (z * p)
        BY <1>1, <1>2, <2>1
    <2>3. QED
        BY <1>4, <2>2
<1>7. QED
    BY <1>5, <1>6

Loads == inflight \in [Backends -> Nat] /\ busy \in [Backends -> Nat]

LEMMA PlaceIsThere ==
    ASSUME NEW b \in Backends
    PROVE  Place(b) \in Nat /\ Members[Place(b)] = b
<1>1. \E i \in DOMAIN Members : Members[i] = b
    BY DEF Backends
<1>2. DOMAIN Members \subseteq Nat
    BY InferenceAssumption
<1>3. QED
    BY <1>1, <1>2 DEF Place

Compared == {c \in Backends \X Backends : LessLoaded(c[1], c[2])}

LEMMA LoadOrders == Loads => Orders(Compared, Backends)
<1> SUFFICES ASSUME Loads PROVE Orders(Compared, Backends)
    OBVIOUS
<1>1. \A b \in Backends : Active(b) \in Nat /\ Per(b) \in Nat \ {0} /\ Place(b) \in Nat
    BY InferenceAssumption, PlaceIsThere DEF Loads, Active, Per
<1>2. ASSUME NEW a \in Backends, NEW b \in Backends, a # b
      PROVE  LessLoaded(a, b) \/ LessLoaded(b, a)
    <2>1. Place(a) # Place(b)
        BY <1>2, PlaceIsThere
    <2>2. Active(a) * Per(b) \in Nat /\ Active(b) * Per(a) \in Nat
        BY <1>1
    <2>3. \A x, y \in Nat : x < y \/ y < x \/ x = y
        OBVIOUS
    <2>4. Place(a) < Place(b) \/ Place(b) < Place(a)
        BY <1>1, <2>1, <2>3
    <2> DEFINE x == Active(a) * Per(b)
               y == Active(b) * Per(a)
    <2>5. x < y \/ y < x \/ x = y
        BY <2>2, <2>3
    <2>6. /\ LessLoaded(a, b) <=> x < y \/ (x = y /\ Place(a) < Place(b))
          /\ LessLoaded(b, a) <=> y < x \/ (y = x /\ Place(b) < Place(a))
        BY DEF LessLoaded
    <2> HIDE DEF x, y
    <2>7. QED
        BY <2>4, <2>5, <2>6
<1>3. ASSUME NEW a \in Backends, NEW b \in Backends, NEW c \in Backends,
             LessLoaded(a, b), LessLoaded(b, c)
      PROVE  LessLoaded(a, c)
    <2>1. Active(a) * Per(b) \in Nat /\ Active(b) * Per(a) \in Nat
          /\ Active(b) * Per(c) \in Nat /\ Active(c) * Per(b) \in Nat
          /\ Active(a) * Per(c) \in Nat /\ Active(c) * Per(a) \in Nat
        BY <1>1
    <2>2. Active(a) * Per(b) <= Active(b) * Per(a) /\ Active(b) * Per(c) <= Active(c) * Per(b)
        BY <1>3, <2>1 DEF LessLoaded
    <2>3. /\ Active(a) * Per(c) <= Active(c) * Per(a)
          /\ \/ Active(a) * Per(b) < Active(b) * Per(a)
             \/ Active(b) * Per(c) < Active(c) * Per(b)
             => Active(a) * Per(c) < Active(c) * Per(a)
        BY <1>1, <2>2, FractionsCompare
    <2>4. QED
        BY <1>1, <1>3, <2>1, <2>3 DEF LessLoaded
<1>4. QED
    BY <1>2, <1>3 DEF Orders, Compared

\* The candidates by load are those that were to be sorted, one at least.
LEMMA ByLoadLists ==
    ASSUME Loads, NEW S \in SUBSET Backends, S # {}
    PROVE  /\ Cardinality(S) \in Nat /\ Cardinality(S) > 0
           /\ ByLoad(S) \in [1 .. Cardinality(S) -> S]
<1>1. IsFiniteSet(S)
    BY InferenceAssumption, FS_Subset
<1>2. Cardinality(S) \in Nat /\ Cardinality(S) > 0
    BY <1>1, FS_EmptySet, FS_CardinalityType
<1>3. Orders(Compared, S)
    BY LoadOrders DEF Orders
<1>4. PICK q : Lists(q, S, Compared)
    BY <1>1, <1>3, CanBeListed
<1>5. q \in [1 .. Cardinality(S) -> S] /\ \A i, j \in DOMAIN q : i < j => LessLoaded(q[i], q[j])
    BY <1>4 DEF Lists, Compared
<1>6. QED
    BY <1>2, <1>5 DEF ByLoad

LEMMA ByLoadTyped ==
    ASSUME Loads, NEW S \in SUBSET Backends, S # {}
    PROVE  /\ ByLoad(S) \in Seq(Backends) /\ ByLoad(S) # <<>>
           /\ Head(ByLoad(S)) \in S
           /\ Tail(ByLoad(S)) \in Seq(Backends)
<1>1. PICK n \in Nat : n > 0 /\ ByLoad(S) \in [1 .. n -> S]
    BY ByLoadLists
<1> DEFINE q == ByLoad(S)
<1> HIDE DEF q
<1>2. q \in Seq(S) /\ Len(q) = n
    BY <1>1 DEF q
<1>3. q # <<>> /\ Head(q) \in S /\ Tail(q) \in Seq(S)
    BY <1>1, <1>2
<1>4. q \in Seq(Backends) /\ Tail(q) \in Seq(Backends)
    BY <1>2, <1>3
<1>5. QED
    BY <1>3, <1>4 DEF q

LEMMA NoneToList == Backends = {} => ByLoad(Backends) = <<>>
<1> SUFFICES ASSUME Backends = {} PROVE ByLoad(Backends) = <<>>
    OBVIOUS
<1>1. Cardinality(Backends) = 0
    BY FS_EmptySet
<1>2. \A q \in [1 .. 0 -> Backends] : q = <<>>
    OBVIOUS
<1>3. <<>> \in [1 .. 0 -> Backends]
    OBVIOUS
<1>4. \E q \in [1 .. Cardinality(Backends) -> Backends] :
          \A i, j \in DOMAIN q : i < j => LessLoaded(q[i], q[j])
    BY <1>1, <1>3
<1>5. QED
    BY <1>1, <1>2, <1>4 DEF ByLoad

LEMMA ByLoadOfOne ==
    ASSUME Loads, NEW b \in Backends
    PROVE  Head(ByLoad({b})) = b /\ Tail(ByLoad({b})) = <<>>
<1>1. Cardinality({b}) = 1
    BY FS_Singleton
<1>2. PICK q : q = ByLoad({b}) /\ q \in [1 .. 1 -> {b}]
    BY <1>1, ByLoadLists
<1>3. q = <<b>>
    BY <1>2
<1>4. Head(<<b>>) = b /\ Tail(<<b>>) = <<>>
    OBVIOUS
<1>5. QED
    BY <1>2, <1>3, <1>4

-----------------------------------------------------------------------------
(* Counting: F counts, per replica, the requests that A places there.      *)

Counts(F, A) == \A b \in Backends : F[b] = Cardinality({r \in Requests : A[r] = b})

LEMMA Claimed ==
    ASSUME NEW A \in [Requests -> Backends \cup {None}], NEW r \in Requests,
           A[r] = None, NEW b \in Backends,
           NEW F \in [Backends -> Nat], Counts(F, A)
    PROVE  /\ Claim(b, F) \in [Backends -> Nat]
           /\ Counts(Claim(b, F), [A EXCEPT ![r] = b])
<1> DEFINE B == [A EXCEPT ![r] = b]
           There(c) == {q \in Requests : A[q] = c}
<1>1. {q \in Requests : B[q] = b} = There(b) \cup {r}
    OBVIOUS
<1>2. \A c \in Backends : c # b => {q \in Requests : B[q] = c} = There(c)
    BY InferenceAssumption
<1>3. IsFiniteSet(There(b)) /\ r \notin There(b)
    BY InferenceAssumption, FS_Subset
<1>4. Cardinality(There(b) \cup {r}) = Cardinality(There(b)) + 1
    BY <1>3, FS_AddElement
<1>5. \A c \in Backends : Claim(b, F)[c] = Cardinality({q \in Requests : B[q] = c})
    BY <1>1, <1>2, <1>4 DEF Claim, Counts
<1>6. QED
    BY <1>5 DEF Counts, Claim

LEMMA Released ==
    ASSUME NEW A \in [Requests -> Backends \cup {None}], NEW r \in Requests,
           NEW b \in Backends, A[r] = b,
           NEW F \in [Backends -> Nat], Counts(F, A)
    PROVE  /\ Release(b, F) \in [Backends -> Nat]
           /\ Counts(Release(b, F), [A EXCEPT ![r] = None])
<1> DEFINE B == [A EXCEPT ![r] = None]
           There(c) == {q \in Requests : A[q] = c}
<1>1. {q \in Requests : B[q] = b} = There(b) \ {r}
    BY InferenceAssumption
<1>2. \A c \in Backends : c # b => {q \in Requests : B[q] = c} = There(c)
    BY InferenceAssumption
<1>3. IsFiniteSet(There(b)) /\ r \in There(b)
    BY InferenceAssumption, FS_Subset
<1>4. Cardinality(There(b) \ {r}) = Cardinality(There(b)) - 1
    BY <1>3, FS_RemoveElement
<1>5. F[b] = Cardinality(There(b)) /\ Cardinality(There(b) \ {r}) \in Nat
    BY <1>3, FS_RemoveElement, FS_CardinalityType DEF Counts
<1>6. \A c \in Backends : Release(b, F)[c] = Cardinality({q \in Requests : B[q] = c})
    BY <1>1, <1>2, <1>4, <1>5 DEF Release, Counts
<1>7. QED
    BY <1>6 DEF Counts, Release

-----------------------------------------------------------------------------
(* The inductive invariant.                                                *)

Typed ==
    /\ inflight \in [Backends -> Nat]
    /\ busy \in [Backends -> Nat]
    /\ unreachable \subseteq Backends
    /\ pc \in [Requests -> Places]
    /\ endpoint \in [Requests -> Endpoints \cup {None}]
    /\ pinned \in [Requests -> Pins \cup {None}]
    /\ queue \in [Requests -> Seq(Backends)]
    /\ usable \in [Requests -> Seq(Backends)]
    /\ at \in [Requests -> Backends \cup {None}]
    /\ book \in [Requests -> {"nothing", "usage", "settle", "refund"}]
    /\ made \in [Requests -> BOOLEAN]
    /\ rows \in [Requests -> 0 .. 2]
    /\ reserved \in [Requests -> BOOLEAN]
    /\ settles \in [Requests -> 0 .. 2]
    /\ lost \in [Requests -> SUBSET {"row", "settlement"}]

\* A request is at a replica exactly where its handler says that it is.
Placed ==
    \A r \in Requests : at[r] \in Backends <=> pc[r] \in Holding \cup {"torn"}

\* Whoever is to be forwarded has a candidate.
Stocked ==
    \A r \in Requests : pc[r] \in {"gate", "reserve", "forward"} => usable[r] # <<>>

\* A pin leaves one candidate, and none to fail over to.
Pinned ==
    \A r \in Requests : pinned[r] # None =>
        /\ pc[r] \in {"gate", "reserve", "forward"} => usable[r] = <<pinned[r]>>
        /\ pc[r] = "backend" => queue[r] = <<>>
        /\ at[r] \in {pinned[r], None}

\* Where a request with something to record may be, and what has been.
Booked == {"terminal", "served", "abandoned"}

Unrecorded(r) ==
    pc[r] \notin Booked =>
        book[r] = "nothing" /\ settles[r] = 0 /\ rows[r] = 0

Generated(r) ==
    pc[r] \notin Booked \cup {"unreadable"} => ~ made[r]

Unreserved(r) ==
    pc[r] \in {"idle", "health", "gate", "reserve", "declined"} => ~ reserved[r]

\* The handler that is at a place is one that goes there.
Streams(r) ==
    /\ pc[r] = "backend" => endpoint[r] # "stream"
    /\ pc[r] \in {"opened", "streaming", "terminal", "torn"} => endpoint[r] = "stream"

\* What is still to be recorded has not been.
Pending(r) ==
    /\ book[r] = "usage" => made[r] /\ rows[r] = 0
    /\ book[r] # "nothing" => settles[r] = 0
    /\ rows[r] # 0 => rows[r] = 1 /\ made[r]
    /\ settles[r] # 0 => settles[r] = 1 /\ reserved[r]

\* What is no longer to be recorded has been, or is lost, or never was to be.
RowWritten(r) ==
    pc[r] \in Booked /\ book[r] # "usage" /\ made[r] /\ rows[r] = 0 =>
        "row" \in lost[r] \/ (pc[r] = "abandoned" /\ endpoint[r] # "stream")

Corrected(r) ==
    pc[r] \in Booked /\ book[r] = "nothing" /\ reserved[r] /\ settles[r] = 0 =>
        "settlement" \in lost[r] \/ (pc[r] = "abandoned" /\ endpoint[r] = "chat")

Recorded(r) ==
    /\ Unrecorded(r) /\ Generated(r) /\ Unreserved(r) /\ Streams(r)
    /\ Pending(r) /\ RowWritten(r) /\ Corrected(r)

BookInv == \A r \in Requests : Recorded(r)

Counted == Counts(inflight, at)

Inv == Typed /\ Placed /\ Stocked /\ Pinned /\ BookInv /\ Counted

LEMMA SequenceParts ==
    ASSUME NEW q \in Seq(Backends), q # <<>>
    PROVE  /\ Head(q) \in Backends /\ Tail(q) \in Seq(Backends)
           /\ Elements(q) \in SUBSET Backends /\ Elements(q) # {}
<1>1. Head(q) \in Backends /\ Tail(q) \in Seq(Backends)
    OBVIOUS
<1>2. 1 \in DOMAIN q /\ \A i \in DOMAIN q : q[i] \in Backends
    OBVIOUS
<1>3. QED
    BY <1>1, <1>2 DEF Elements

LEMMA NoBackend == None \notin Backends /\ None \notin Pins
BY InferenceAssumption

\* Whatever else they do, these steps leave the pool's counts alone.
LEMMA CountsStay == Counted /\ UNCHANGED <<inflight, at>> => Counted'
BY DEF Counted, Counts

-----------------------------------------------------------------------------
(* Choosing a replica.                                                     *)

LEMMA AdmitStep ==
    ASSUME Inv, NEW r \in Requests, NEW e \in Endpoints, NEW b \in Pins \cup {None},
           Admit(r, e, b)
    PROVE  Inv'
<1>1. Typed'
    <2>1. CASE Backends = {}
        <3>1. ByLoad(Backends) = <<>>
            BY <2>1, NoneToList
        <3>2. QED
            BY <3>1 DEF Admit, Inv, Typed, Places, Goto, pool, choice, ledger
    <2>2. CASE Backends # {}
        <3>1. ByLoad(Backends) \in Seq(Backends)
            BY <2>2, ByLoadTyped DEF Inv, Typed, Loads
        <3>2. QED
            BY <3>1 DEF Admit, Inv, Typed, Places, Goto, pool, choice, ledger
    <2>3. QED
        BY <2>1, <2>2
<1>2. Placed'
    BY NoBackend DEF Inv, Typed, Placed, Holding, Admit, Goto, pool, choice, ledger
<1>3. Stocked'
    BY NoBackend DEF Inv, Typed, Stocked, Admit, Goto, pool, choice, ledger
<1>4. Pinned'
    BY NoBackend DEF Inv, Typed, Placed, Stocked, Pinned, Holding, Admit, Goto,
       pool, choice, ledger
<1>5. BookInv'
    <2>1. ASSUME NEW q \in Requests, q # r PROVE Recorded(q)'
        BY <2>1 DEF Inv, Typed, BookInv, Recorded, Booked, Unrecorded, Generated,
           Unreserved, Streams, Pending, RowWritten, Corrected, Admit, Goto, pool,
           choice, ledger
    <2>2. Recorded(r)'
        BY NoBackend DEF Inv, Typed, BookInv, Recorded, Booked, Unrecorded,
           Generated, Unreserved, Streams, Pending, RowWritten, Corrected, Admit,
           Goto, pool, choice, ledger
    <2>3. QED
        BY <2>1, <2>2 DEF BookInv
<1>6. Counted'
    BY CountsStay DEF Inv, Admit, Goto, pool, choice, ledger
<1>7. QED
    BY <1>1, <1>2, <1>3, <1>4, <1>5, <1>6 DEF Inv

LEMMA CheckMemberStep ==
    ASSUME Inv, NEW r \in Requests, CheckMember(r)
    PROVE  Inv'
<1>1. Typed'
    <2>1. Head(queue[r]) \in Backends /\ Tail(queue[r]) \in Seq(Backends)
        BY SequenceParts DEF CheckMember, Inv, Typed
    <2>2. Append(usable[r], Head(queue[r])) \in Seq(Backends)
        BY <2>1 DEF Inv, Typed
    <2>3. usable' \in [Requests -> Seq(Backends)]
        BY <2>2 DEF CheckMember, Inv, Typed
    <2>4. queue' \in [Requests -> Seq(Backends)]
        BY <2>1 DEF CheckMember, Inv, Typed
    <2>5. QED
        BY <2>3, <2>4 DEF CheckMember, Inv, Typed, Goto, pool, choice, ledger
<1>2. Placed'
    BY DEF Inv, Typed, Placed, Holding, CheckMember, Goto, pool, choice, ledger
<1>3. Stocked'
    <2>1. \A q \in Requests : q # r => usable'[q] = usable[q]
        BY DEF CheckMember, Inv, Typed
    <2>2. QED
        BY <2>1 DEF CheckMember, Inv, Stocked, Goto, pool, choice, ledger
<1>4. Pinned'
    <2>1. \A q \in Requests : q # r => usable'[q] = usable[q] /\ queue'[q] = queue[q]
        BY DEF CheckMember, Inv, Typed
    <2>2. QED
        BY <2>1 DEF CheckMember, Inv, Pinned, Goto, pool, choice, ledger
<1>5. BookInv'
    <2>1. ASSUME NEW q \in Requests, q # r PROVE Recorded(q)'
        BY <2>1 DEF Inv, Typed, BookInv, Recorded, Booked, Unrecorded, Generated,
           Unreserved, Streams, Pending, RowWritten, Corrected, CheckMember, Goto,
           pool, choice, ledger
    <2>2. Recorded(r)'
        BY DEF Inv, Typed, BookInv, Recorded, Booked, Unrecorded, Generated,
           Unreserved, Streams, Pending, RowWritten, Corrected, CheckMember, Goto,
           pool, choice, ledger
    <2>3. QED
        BY <2>1, <2>2 DEF BookInv
<1>6. Counted'
    BY CountsStay DEF Inv, CheckMember, Goto, pool, choice, ledger
<1>7. QED
    BY <1>1, <1>2, <1>3, <1>4, <1>5, <1>6 DEF Inv

LEMMA NoReplicaStep ==
    ASSUME Inv, NEW r \in Requests, NoReplica(r)
    PROVE  Inv'
<1>1. Typed'
    BY DEF Inv, Typed, NoReplica, Goto, pool, choice, ledger, Places, Ends, Holding
<1>2. Placed'
    BY DEF Inv, Typed, Placed, Holding, NoReplica, Goto, pool, choice, ledger
<1>3. Stocked'
    BY DEF Inv, Typed, Stocked, NoReplica, Goto, pool, choice, ledger
<1>4. Pinned'
    BY DEF Inv, Typed, Placed, Stocked, Pinned, Holding, NoReplica, Goto, pool,
       choice, ledger
<1>5. BookInv'
    <2>1. ASSUME NEW q \in Requests, q # r PROVE Recorded(q)'
        BY <2>1 DEF Inv, Typed, BookInv, Recorded, Booked, Unrecorded, Generated,
           Unreserved, Streams, Pending, RowWritten, Corrected, NoReplica, Goto,
           pool, choice, ledger
    <2>2. Recorded(r)'
        BY DEF Inv, Typed, BookInv, Recorded, Booked, Unrecorded, Generated,
           Unreserved, Streams, Pending, RowWritten, Corrected, NoReplica, Goto,
           pool, choice, ledger
    <2>3. QED
        BY <2>1, <2>2 DEF BookInv
<1>6. Counted'
    BY CountsStay DEF Inv, NoReplica, Goto, pool, choice, ledger
<1>7. QED
    BY <1>1, <1>2, <1>3, <1>4, <1>5, <1>6 DEF Inv

LEMMA ChooseStep ==
    ASSUME Inv, NEW r \in Requests, ChooseReplicas(r)
    PROVE  Inv'
<1>1. pinned[r] = None \/ pinned[r] \in Backends
    BY SequenceParts DEF ChooseReplicas, Inv, Typed
<1>2. Typed'
    BY <1>1, NoBackend DEF Inv, Typed, ChooseReplicas, Goto, pool, choice, ledger,
       Places, Ends, Holding
<1>3. Placed'
    BY <1>1, NoBackend DEF Inv, Typed, Placed, Holding, ChooseReplicas, Goto, pool,
       choice, ledger
<1>4. Stocked'
    BY <1>1, NoBackend DEF Inv, Typed, Stocked, ChooseReplicas, Goto, pool, choice,
       ledger
<1>5. Pinned'
    BY <1>1, NoBackend DEF Inv, Typed, Placed, Stocked, Pinned, Holding,
       ChooseReplicas, Goto, pool, choice, ledger
<1>6. BookInv'
    <2>1. ASSUME NEW q \in Requests, q # r PROVE Recorded(q)'
        BY <2>1 DEF Inv, Typed, BookInv, Recorded, Booked, Unrecorded, Generated,
           Unreserved, Streams, Pending, RowWritten, Corrected, ChooseReplicas,
           Goto, pool, choice, ledger
    <2>2. Recorded(r)'
        BY <1>1, NoBackend DEF Inv, Typed, BookInv, Recorded, Booked, Unrecorded,
           Generated, Unreserved, Streams, Pending, RowWritten, Corrected,
           ChooseReplicas, Goto, pool, choice, ledger
    <2>3. QED
        BY <2>1, <2>2 DEF BookInv
<1>7. Counted'
    BY CountsStay DEF Inv, ChooseReplicas, Goto, pool, choice, ledger
<1>8. QED
    BY <1>2, <1>3, <1>4, <1>5, <1>6, <1>7 DEF Inv

LEMMA GateStep ==
    ASSUME Inv, NEW r \in Requests, Gate(r)
    PROVE  Inv'
<1>1. Typed'
    BY DEF Inv, Typed, Gate, RerankGate, ImagesGate, Goto, pool, choice, ledger,
       Places, Ends, Holding
<1>2. Placed'
    BY DEF Inv, Typed, Placed, Holding, Gate, RerankGate, ImagesGate, Goto, pool,
       choice, ledger
<1>3. Stocked'
    BY DEF Inv, Typed, Stocked, Gate, RerankGate, ImagesGate, Goto, pool, choice,
       ledger
<1>4. Pinned'
    BY DEF Inv, Typed, Placed, Stocked, Pinned, Holding, Gate, RerankGate,
       ImagesGate, Goto, pool, choice, ledger
<1>5. BookInv'
    <2>1. ASSUME NEW q \in Requests, q # r PROVE Recorded(q)'
        BY <2>1 DEF Inv, Typed, BookInv, Recorded, Booked, Unrecorded, Generated,
           Unreserved, Streams, Pending, RowWritten, Corrected, Gate, RerankGate,
           ImagesGate, Goto, pool, choice, ledger
    <2>2. Recorded(r)'
        BY DEF Inv, Typed, BookInv, Recorded, Booked, Unrecorded, Generated,
           Unreserved, Streams, Pending, RowWritten, Corrected, Gate, RerankGate,
           ImagesGate, Goto, pool, choice, ledger
    <2>3. QED
        BY <2>1, <2>2 DEF BookInv
<1>6. Counted'
    BY CountsStay DEF Inv, Gate, RerankGate, ImagesGate, Goto, pool, choice, ledger
<1>7. QED
    BY <1>1, <1>2, <1>3, <1>4, <1>5, <1>6 DEF Inv

LEMMA ReserveStep ==
    ASSUME Inv, NEW r \in Requests, Reserve(r)
    PROVE  Inv'
<1>1. Typed'
    BY DEF Inv, Typed, Reserve, Goto, pool, choice, ledger, Places, Ends, Holding
<1>2. Placed'
    BY DEF Inv, Typed, Placed, Holding, Reserve, Goto, pool, choice, ledger
<1>3. Stocked'
    BY DEF Inv, Typed, Stocked, Reserve, Goto, pool, choice, ledger
<1>4. Pinned'
    BY DEF Inv, Typed, Placed, Stocked, Pinned, Holding, Reserve, Goto, pool,
       choice, ledger
<1>5. BookInv'
    <2>1. ASSUME NEW q \in Requests, q # r PROVE Recorded(q)'
        BY <2>1 DEF Inv, Typed, BookInv, Recorded, Booked, Unrecorded, Generated,
           Unreserved, Streams, Pending, RowWritten, Corrected, Reserve, Goto, pool,
           choice, ledger
    <2>2. Recorded(r)'
        BY DEF Inv, Typed, BookInv, Recorded, Booked, Unrecorded, Generated,
           Unreserved, Streams, Pending, RowWritten, Corrected, Reserve, Goto, pool,
           choice, ledger
    <2>3. QED
        BY <2>1, <2>2 DEF BookInv
<1>6. Counted'
    BY CountsStay DEF Inv, Reserve, Goto, pool, choice, ledger
<1>7. QED
    BY <1>1, <1>2, <1>3, <1>4, <1>5, <1>6 DEF Inv

-----------------------------------------------------------------------------
(* Forwarding.                                                             *)

LEMMA ForwardStep ==
    ASSUME Inv, NEW r \in Requests, Forward(r)
    PROVE  Inv'
<1> DEFINE S == Elements(usable[r])
           line == ByLoad(S)
<1>1. usable[r] \in Seq(Backends) /\ usable[r] # <<>> /\ Loads
    BY DEF Inv, Typed, Stocked, Forward, Loads
<1>2. S \in SUBSET Backends /\ S # {}
    BY <1>1, SequenceParts
<1>3. Head(line) \in Backends /\ Tail(line) \in Seq(Backends)
    BY <1>1, <1>2, ByLoadTyped
<1>4. ASSUME pinned[r] # None PROVE Head(line) = pinned[r] /\ Tail(line) = <<>>
    <2>1. usable[r] = <<pinned[r]>>
        BY <1>4 DEF Inv, Pinned, Forward
    <2>2. S = {pinned[r]}
        BY <2>1 DEF Elements
    <2>3. QED
        BY <1>1, <1>2, <2>2, ByLoadOfOne
<1>5. at[r] = None
    BY DEF Inv, Typed, Placed, Forward, Holding
<1>6. /\ at' = [at EXCEPT ![r] = Head(line)] /\ queue' = [queue EXCEPT ![r] = Tail(line)]
      /\ inflight' = Claim(Head(line), inflight)
    BY DEF Forward
<1> HIDE DEF line, S
<1>7. Typed'
    <2>1. inflight' \in [Backends -> Nat]
        BY <1>3, <1>6 DEF Inv, Typed, Claim
    <2>2. usable' \in [Requests -> Seq(Backends)]
        BY DEF Forward, Inv, Typed
    <2>3. at' \in [Requests -> Backends \cup {None}] /\ queue' \in [Requests -> Seq(Backends)]
        BY <1>3, <1>6 DEF Inv, Typed
    <2>4. pc' \in [Requests -> Places]
        BY DEF Forward, Inv, Typed, Goto, Places
    <2>5. QED
        BY <2>1, <2>2, <2>3, <2>4 DEF Inv, Typed, Forward, ledger
<1>8. Placed'
    BY <1>3, <1>4, <1>5, <1>6, NoBackend DEF Inv, Typed, Placed, Holding, Forward,
       Buffered, Goto, pool, choice, ledger
<1>9. Stocked'
    BY <1>3, <1>4, <1>5, <1>6, NoBackend DEF Inv, Typed, Stocked, Forward, Buffered,
       Goto, pool, choice, ledger
<1>10. Pinned'
    BY <1>3, <1>4, <1>5, <1>6, NoBackend DEF Inv, Typed, Placed, Stocked, Pinned,
       Holding, Forward, Buffered, Goto, pool, choice, ledger
<1>11. BookInv'
    <2>1. ASSUME NEW q \in Requests, q # r PROVE Recorded(q)'
        BY <2>1 DEF Inv, Typed, BookInv, Recorded, Booked, Unrecorded, Generated,
           Unreserved, Streams, Pending, RowWritten, Corrected, Forward, Buffered,
           Goto, pool, choice, ledger
    <2>2. /\ pc[r] = "forward" /\ pc'[r] = "backend" /\ endpoint[r] # "stream"
          /\ UNCHANGED <<endpoint, book, made, rows, reserved, settles, lost>>
        BY <1>3, <1>4, <1>5, <1>6, NoBackend DEF Inv, Typed, Placed, BookInv,
           Recorded, Streams, Holding, Forward, Buffered, Goto, pool, choice, ledger
    <2>3. Recorded(r)'
        BY <2>2 DEF Inv, Typed, BookInv, Recorded, Booked, Unrecorded, Generated,
           Unreserved, Streams, Pending, RowWritten, Corrected
    <2>4. QED
        BY <2>1, <2>3 DEF BookInv
<1>12. Counted'
    BY <1>3, <1>5, <1>6, Claimed DEF Inv, Typed, Counted
<1>13. QED
    BY <1>7, <1>8, <1>9, <1>10, <1>11, <1>12 DEF Inv

LEMMA FailOverStep ==
    ASSUME Inv, NEW r \in Requests, FailOver(r)
    PROVE  Inv'
<1>1. at[r] \in Backends /\ pinned[r] = None
    BY DEF Inv, Placed, Pinned, FailOver, Holding
<1>2. Head(queue[r]) \in Backends /\ Tail(queue[r]) \in Seq(Backends)
    BY SequenceParts DEF FailOver, Inv, Typed
<1> DEFINE F == Release(at[r], inflight)
           A == [at EXCEPT ![r] = None]
<1>3. F \in [Backends -> Nat] /\ Counts(F, A)
    BY <1>1, Released DEF Inv, Typed, Counted
<1>4. A \in [Requests -> Backends \cup {None}] /\ A[r] = None
    BY DEF Inv, Typed
<1> HIDE DEF F
<1>5. /\ Claim(Head(queue[r]), F) \in [Backends -> Nat]
      /\ Counts(Claim(Head(queue[r]), F), [A EXCEPT ![r] = Head(queue[r])])
    BY <1>2, <1>3, <1>4, Claimed
<1>6. at' = [A EXCEPT ![r] = Head(queue[r])] /\ inflight' = Claim(Head(queue[r]), F)
    BY DEF FailOver, F, Inv, Typed
<1>7. at' = [at EXCEPT ![r] = Head(queue[r])]
    BY DEF FailOver
<1> HIDE DEF A
<1>8. Typed'
    BY <1>2, <1>5, <1>6, <1>7 DEF Inv, Typed, FailOver, Goto, pool, choice, ledger
<1>9. Placed'
    BY <1>1, <1>2, <1>7, NoBackend DEF Inv, Typed, Placed, Holding, FailOver, Goto,
       pool, choice, ledger
<1>10. Stocked'
    BY <1>1, <1>2, <1>7, NoBackend DEF Inv, Typed, Stocked, FailOver, Goto, pool,
       choice, ledger
<1>11. Pinned'
    BY <1>1, <1>2, <1>7, NoBackend DEF Inv, Typed, Placed, Stocked, Pinned, Holding,
       FailOver, Goto, pool, choice, ledger
<1>12. BookInv'
    <2>1. ASSUME NEW q \in Requests, q # r PROVE Recorded(q)'
        BY <2>1 DEF Inv, Typed, BookInv, Recorded, Booked, Unrecorded, Generated,
           Unreserved, Streams, Pending, RowWritten, Corrected, FailOver, Goto,
           pool, choice, ledger
    <2>2. Recorded(r)'
        BY <1>1, <1>2, <1>7, NoBackend DEF Inv, Typed, BookInv, Recorded, Booked,
           Unrecorded, Generated, Unreserved, Streams, Pending, RowWritten,
           Corrected, FailOver, Goto, pool, choice, ledger
    <2>3. QED
        BY <2>1, <2>2 DEF BookInv
<1>13. Counted'
    BY <1>5, <1>6 DEF Counted
<1>14. QED
    BY <1>8, <1>9, <1>10, <1>11, <1>12, <1>13 DEF Inv

\* The request leaves its replica, answered or not.
LEMMA LeaveStep ==
    ASSUME Inv, NEW r \in Requests, NEW place \in {"served", "refused", "failed", "unreadable"},
           NEW todo \in {"nothing", "usage", "settle"}, NEW g \in BOOLEAN,
           Leave(r, place, todo, g),
           place = "served" => todo = (IF g THEN "usage" ELSE "settle"),
           place # "served" => todo = "nothing",
           place \in {"refused", "failed"} => ~ g
    PROVE  Inv'
<1>1. at[r] \in Backends
    BY DEF Inv, Placed, Leave, Holding
<1>2. Typed'
    <2>1. inflight' \in [Backends -> Nat]
        BY <1>1 DEF Leave, Inv, Typed, Release
    <2>2. QED
        BY <2>1 DEF Leave, Inv, Typed, Places, Ends, Holding, Goto, pool, choice,
           ledger
<1>3. Placed'
    BY <1>1, NoBackend DEF Inv, Typed, Placed, Holding, Leave, Goto, pool, choice,
       ledger
<1>4. Stocked'
    BY <1>1, NoBackend DEF Inv, Typed, Stocked, Leave, Goto, pool, choice, ledger
<1>5. Pinned'
    BY <1>1, NoBackend DEF Inv, Typed, Placed, Stocked, Pinned, Holding, Leave,
       Goto, pool, choice, ledger
<1>6. BookInv'
    <2>1. ASSUME NEW q \in Requests, q # r PROVE Recorded(q)'
        BY <2>1 DEF Inv, Typed, BookInv, Recorded, Booked, Unrecorded, Generated,
           Unreserved, Streams, Pending, RowWritten, Corrected, Leave, Goto, pool,
           choice, ledger
    <2>2. /\ pc[r] = "backend" /\ pc'[r] = place /\ endpoint[r] # "stream"
          /\ book'[r] = todo /\ made'[r] = g
          /\ UNCHANGED <<endpoint, rows, reserved, settles, lost>>
        BY <1>1, NoBackend DEF Inv, Typed, Placed, BookInv, Recorded, Streams,
           Holding, Leave, Goto, pool, choice, ledger
    <2>3. Recorded(r)'
        BY <2>2 DEF Inv, Typed, BookInv, Recorded, Booked, Unrecorded, Generated,
           Unreserved, Streams, Pending, RowWritten, Corrected
    <2>4. QED
        BY <2>1, <2>3 DEF BookInv
<1>7. Counted'
    BY <1>1, Released DEF Inv, Typed, Counted, Leave
<1>8. QED
    BY <1>2, <1>3, <1>4, <1>5, <1>6, <1>7 DEF Inv

\* Its caller hung up.
LEMMA GoneStep ==
    ASSUME Inv, NEW r \in Requests, NEW todo \in {"nothing", "refund"}, NEW g \in BOOLEAN,
           Leave(r, "abandoned", todo, g),
           \/ endpoint[r] = "chat" /\ todo = "nothing"
           \/ todo = (IF reserved[r] THEN "refund" ELSE "nothing")
    PROVE  Inv'
<1>1. at[r] \in Backends
    BY DEF Inv, Placed, Leave, Holding
<1>2. Typed'
    <2>1. inflight' \in [Backends -> Nat]
        BY <1>1 DEF Leave, Inv, Typed, Release
    <2>2. QED
        BY <2>1 DEF Leave, Inv, Typed, Places, Ends, Holding, Goto, pool, choice,
           ledger
<1>3. Placed'
    BY <1>1, NoBackend DEF Inv, Typed, Placed, Holding, Leave, Goto, pool, choice,
       ledger
<1>4. Stocked'
    BY <1>1, NoBackend DEF Inv, Typed, Stocked, Leave, Goto, pool, choice, ledger
<1>5. Pinned'
    BY <1>1, NoBackend DEF Inv, Typed, Placed, Stocked, Pinned, Holding, Leave,
       Goto, pool, choice, ledger
<1>6. BookInv'
    <2>1. ASSUME NEW q \in Requests, q # r PROVE Recorded(q)'
        BY <2>1 DEF Inv, Typed, BookInv, Recorded, Booked, Unrecorded, Generated,
           Unreserved, Streams, Pending, RowWritten, Corrected, Leave, Goto, pool,
           choice, ledger
    <2>2. /\ pc[r] = "backend" /\ pc'[r] = "abandoned" /\ endpoint[r] # "stream"
          /\ book'[r] = todo /\ made'[r] = g
          /\ UNCHANGED <<endpoint, rows, reserved, settles, lost>>
        BY <1>1, NoBackend DEF Inv, Typed, Placed, BookInv, Recorded, Streams,
           Holding, Leave, Goto, pool, choice, ledger
    <2>3. Recorded(r)'
        BY <2>2 DEF Inv, Typed, BookInv, Recorded, Booked, Unrecorded, Generated,
           Unreserved, Streams, Pending, RowWritten, Corrected
    <2>4. QED
        BY <2>1, <2>3 DEF BookInv
<1>7. Counted'
    BY <1>1, Released DEF Inv, Typed, Counted, Leave
<1>8. QED
    BY <1>2, <1>3, <1>4, <1>5, <1>6, <1>7 DEF Inv

LEMMA StreamRefusedStep ==
    ASSUME Inv, NEW r \in Requests, StreamRefused(r)
    PROVE  Inv'
<1>1. Typed'
    <2>1. usable' \in [Requests -> Seq(Backends)]
        BY DEF StreamRefused, Inv, Typed
    <2>2. pc' \in [Requests -> Places]
        BY DEF StreamRefused, Inv, Typed, Goto, Places, Ends
    <2>3. QED
        BY <2>1, <2>2 DEF StreamRefused, Inv, Typed, pool, ledger
<1>2. Placed'
    BY DEF Inv, Typed, Placed, Holding, StreamRefused, Goto, pool, choice, ledger
<1>3. Stocked'
    BY DEF Inv, Typed, Stocked, StreamRefused, Goto, pool, choice, ledger
<1>4. Pinned'
    BY DEF Inv, Typed, Placed, Stocked, Pinned, Holding, StreamRefused, Goto, pool,
       choice, ledger
<1>5. BookInv'
    <2>1. ASSUME NEW q \in Requests, q # r PROVE Recorded(q)'
        BY <2>1 DEF Inv, Typed, BookInv, Recorded, Booked, Unrecorded, Generated,
           Unreserved, Streams, Pending, RowWritten, Corrected, StreamRefused, Goto,
           pool, choice, ledger
    <2>2. Recorded(r)'
        BY DEF Inv, Typed, BookInv, Recorded, Booked, Unrecorded, Generated,
           Unreserved, Streams, Pending, RowWritten, Corrected, StreamRefused, Goto,
           pool, choice, ledger
    <2>3. QED
        BY <2>1, <2>2 DEF BookInv
<1>6. Counted'
    BY CountsStay DEF Inv, StreamRefused, Goto, pool, choice, ledger
<1>7. QED
    BY <1>1, <1>2, <1>3, <1>4, <1>5, <1>6 DEF Inv

LEMMA StreamOpenedStep ==
    ASSUME Inv, NEW r \in Requests, StreamOpened(r)
    PROVE  Inv'
<1>1. Head(usable[r]) \in Backends /\ (pinned[r] # None => Head(usable[r]) = pinned[r])
    BY SequenceParts DEF StreamOpened, Inv, Typed, Stocked, Pinned
<1>2. at[r] = None
    BY DEF Inv, Typed, Placed, StreamOpened, Holding
<1>3. Typed'
    <2>1. inflight' \in [Backends -> Nat]
        BY <1>1 DEF StreamOpened, Inv, Typed, Claim
    <2>2. QED
        BY <1>1, <2>1 DEF StreamOpened, Inv, Typed, Places, Holding, Goto, pool,
           choice, ledger
<1>4. Placed'
    BY <1>1, <1>2, NoBackend DEF Inv, Typed, Placed, Holding, StreamOpened, Goto,
       pool, choice, ledger
<1>5. Stocked'
    BY <1>1, <1>2, NoBackend DEF Inv, Typed, Stocked, StreamOpened, Goto, pool,
       choice, ledger
<1>6. Pinned'
    BY <1>1, <1>2, NoBackend DEF Inv, Typed, Placed, Stocked, Pinned, Holding,
       StreamOpened, Goto, pool, choice, ledger
<1>7. BookInv'
    <2>1. ASSUME NEW q \in Requests, q # r PROVE Recorded(q)'
        BY <2>1 DEF Inv, Typed, BookInv, Recorded, Booked, Unrecorded, Generated,
           Unreserved, Streams, Pending, RowWritten, Corrected, StreamOpened, Goto,
           pool, choice, ledger
    <2>2. Recorded(r)'
        BY <1>1, <1>2, NoBackend DEF Inv, Typed, BookInv, Recorded, Booked,
           Unrecorded, Generated, Unreserved, Streams, Pending, RowWritten,
           Corrected, StreamOpened, Goto, pool, choice, ledger
    <2>3. QED
        BY <2>1, <2>2 DEF BookInv
<1>8. Counted'
    BY <1>1, <1>2, Claimed DEF Inv, Typed, Counted, StreamOpened
<1>9. QED
    BY <1>3, <1>4, <1>5, <1>6, <1>7, <1>8 DEF Inv

LEMMA StreamStartsStep ==
    ASSUME Inv, NEW r \in Requests, StreamStarts(r) \/ StreamTorn(r)
    PROVE  Inv'
<1>1. Typed'
    BY DEF Inv, Typed, StreamStarts, StreamTorn, Goto, pool, choice, ledger, Places,
       Ends, Holding
<1>2. Placed'
    BY DEF Inv, Typed, Placed, Holding, StreamStarts, StreamTorn, Goto, pool,
       choice, ledger
<1>3. Stocked'
    BY DEF Inv, Typed, Stocked, StreamStarts, StreamTorn, Goto, pool, choice, ledger
<1>4. Pinned'
    BY DEF Inv, Typed, Placed, Stocked, Pinned, Holding, StreamStarts, StreamTorn,
       Goto, pool, choice, ledger
<1>5. BookInv'
    <2>1. ASSUME NEW q \in Requests, q # r PROVE Recorded(q)'
        BY <2>1 DEF Inv, Typed, BookInv, Recorded, Booked, Unrecorded, Generated,
           Unreserved, Streams, Pending, RowWritten, Corrected, StreamStarts,
           StreamTorn, Goto, pool, choice, ledger
    <2>2. Recorded(r)'
        BY DEF Inv, Typed, BookInv, Recorded, Booked, Unrecorded, Generated,
           Unreserved, Streams, Pending, RowWritten, Corrected, StreamStarts,
           StreamTorn, Goto, pool, choice, ledger
    <2>3. QED
        BY <2>1, <2>2 DEF BookInv
<1>6. Counted'
    BY CountsStay DEF Inv, StreamStarts, StreamTorn, Goto, pool, choice, ledger
<1>7. QED
    BY <1>1, <1>2, <1>3, <1>4, <1>5, <1>6 DEF Inv

LEMMA StreamEndsStep ==
    ASSUME Inv, NEW r \in Requests, StreamEnds(r)
    PROVE  Inv'
<1>1. Typed'
    BY DEF Inv, Typed, StreamEnds, Goto, pool, choice, ledger, Places, Ends, Holding
<1>2. Placed'
    BY DEF Inv, Typed, Placed, Holding, StreamEnds, Goto, pool, choice, ledger
<1>3. Stocked'
    BY DEF Inv, Typed, Stocked, StreamEnds, Goto, pool, choice, ledger
<1>4. Pinned'
    BY DEF Inv, Typed, Placed, Stocked, Pinned, Holding, StreamEnds, Goto, pool,
       choice, ledger
<1>5. BookInv'
    <2>1. ASSUME NEW q \in Requests, q # r PROVE Recorded(q)'
        BY <2>1 DEF Inv, Typed, BookInv, Recorded, Booked, Unrecorded, Generated,
           Unreserved, Streams, Pending, RowWritten, Corrected, StreamEnds, Goto,
           pool, choice, ledger
    <2>2. /\ pc[r] = "streaming" /\ pc'[r] = "terminal" /\ endpoint[r] = "stream"
          /\ made'[r] \in BOOLEAN /\ book'[r] = (IF made'[r] THEN "usage" ELSE "settle")
          /\ UNCHANGED <<endpoint, rows, reserved, settles, lost>>
        BY DEF Inv, Typed, Placed, BookInv, Recorded, Streams, Holding, StreamEnds,
           Goto, pool, choice, ledger
    <2>3. Recorded(r)'
        BY <2>2 DEF Inv, Typed, BookInv, Recorded, Booked, Unrecorded, Generated,
           Unreserved, Streams, Pending, RowWritten, Corrected
    <2>4. QED
        BY <2>1, <2>3 DEF BookInv
<1>6. Counted'
    BY CountsStay DEF Inv, StreamEnds, Goto, pool, choice, ledger
<1>7. QED
    BY <1>1, <1>2, <1>3, <1>4, <1>5, <1>6 DEF Inv

LEMMA StreamLeftStep ==
    ASSUME Inv, NEW r \in Requests, StreamLeft(r)
    PROVE  Inv'
<1>1. at[r] \in Backends
    BY DEF Inv, Placed, StreamLeft, Holding
<1>2. Typed'
    <2>1. inflight' \in [Backends -> Nat]
        BY <1>1 DEF StreamLeft, Inv, Typed, Release
    <2>2. QED
        BY <2>1 DEF StreamLeft, Inv, Typed, Places, Ends, Holding, Goto, pool,
           choice, ledger
<1>3. Placed'
    BY <1>1, NoBackend DEF Inv, Typed, Placed, Holding, StreamLeft, Goto, pool,
       choice, ledger
<1>4. Stocked'
    BY <1>1, NoBackend DEF Inv, Typed, Stocked, StreamLeft, Goto, pool, choice,
       ledger
<1>5. Pinned'
    BY <1>1, NoBackend DEF Inv, Typed, Placed, Stocked, Pinned, Holding, StreamLeft,
       Goto, pool, choice, ledger
<1>6. BookInv'
    <2>1. ASSUME NEW q \in Requests, q # r PROVE Recorded(q)'
        BY <2>1 DEF Inv, Typed, BookInv, Recorded, Booked, Unrecorded, Generated,
           Unreserved, Streams, Pending, RowWritten, Corrected, StreamLeft, Goto,
           pool, choice, ledger
    <2>2. /\ pc[r] = "streaming" /\ pc'[r] = "abandoned" /\ endpoint[r] = "stream"
          /\ made'[r] \in BOOLEAN /\ book'[r] = (IF made'[r] THEN "usage" ELSE "settle")
          /\ UNCHANGED <<endpoint, rows, reserved, settles, lost>>
        BY <1>1, NoBackend DEF Inv, Typed, Placed, BookInv, Recorded, Streams,
           Holding, StreamLeft, Goto, pool, choice, ledger
    <2>3. Recorded(r)'
        BY <2>2 DEF Inv, Typed, BookInv, Recorded, Booked, Unrecorded, Generated,
           Unreserved, Streams, Pending, RowWritten, Corrected
    <2>4. QED
        BY <2>1, <2>3 DEF BookInv
<1>7. Counted'
    BY <1>1, Released DEF Inv, Typed, Counted, StreamLeft
<1>8. QED
    BY <1>2, <1>3, <1>4, <1>5, <1>6, <1>7 DEF Inv

LEMMA StreamReleasedStep ==
    ASSUME Inv, NEW r \in Requests, StreamReleased(r)
    PROVE  Inv'
<1>1. at[r] \in Backends
    BY DEF Inv, Placed, StreamReleased, Holding
<1>2. Typed'
    <2>1. inflight' \in [Backends -> Nat]
        BY <1>1 DEF StreamReleased, Inv, Typed, Release
    <2>2. QED
        BY <2>1 DEF StreamReleased, Inv, Typed, Places, Ends, Holding, Goto, pool,
           choice, ledger
<1>3. Placed'
    BY <1>1, NoBackend DEF Inv, Typed, Placed, Holding, StreamReleased, Goto, pool,
       choice, ledger
<1>4. Stocked'
    BY <1>1, NoBackend DEF Inv, Typed, Stocked, StreamReleased, Goto, pool, choice,
       ledger
<1>5. Pinned'
    BY <1>1, NoBackend DEF Inv, Typed, Placed, Stocked, Pinned, Holding,
       StreamReleased, Goto, pool, choice, ledger
<1>6. BookInv'
    <2>1. ASSUME NEW q \in Requests, q # r PROVE Recorded(q)'
        BY <2>1 DEF Inv, Typed, BookInv, Recorded, Booked, Unrecorded, Generated,
           Unreserved, Streams, Pending, RowWritten, Corrected, StreamReleased,
           Goto, pool, choice, ledger
    <2>2. Recorded(r)'
        BY <1>1, NoBackend DEF Inv, Typed, BookInv, Recorded, Booked, Unrecorded,
           Generated, Unreserved, Streams, Pending, RowWritten, Corrected,
           StreamReleased, Goto, pool, choice, ledger
    <2>3. QED
        BY <2>1, <2>2 DEF BookInv
<1>7. Counted'
    BY <1>1, Released DEF Inv, Typed, Counted, StreamReleased
<1>8. QED
    BY <1>2, <1>3, <1>4, <1>5, <1>6, <1>7 DEF Inv

-----------------------------------------------------------------------------
(* The books, and the health monitor.                                      *)

LEMMA RecordUsageStep ==
    ASSUME Inv, NEW r \in Requests, RecordUsage(r)
    PROVE  Inv'
<1>1. Typed'
    <2> DEFINE n == rows[r]
    <2>0. n \in 0 .. 2 /\ lost[r] \in SUBSET {"row", "settlement"}
        BY DEF Inv, Typed
    <2> HIDE DEF n
    <2>1. More(n) \in 0 .. 2
        BY <2>0 DEF More
    <2>2. rows' \in [Requests -> 0 .. 2]
        BY <2>1 DEF Inv, Typed, RecordUsage, n
    <2>3. lost' \in [Requests -> SUBSET {"row", "settlement"}]
        <3>1. CASE UNCHANGED lost
            BY <3>1 DEF Inv, Typed
        <3>2. CASE lost' = [lost EXCEPT ![r] = lost[r] \cup {"row"}]
            <4>1. lost[r] \cup {"row"} \in SUBSET {"row", "settlement"}
                BY <2>0
            <4>2. QED
                BY <3>2, <4>1 DEF Inv, Typed
        <3>3. QED
            BY <3>1, <3>2 DEF RecordUsage
    <2>4. book' \in [Requests -> {"nothing", "usage", "settle", "refund"}]
        BY DEF Inv, Typed, RecordUsage
    <2>5. QED
        BY <2>2, <2>3, <2>4 DEF Inv, Typed, RecordUsage, pool, choice
<1>2. Placed'
    BY DEF Inv, Typed, Placed, Holding, RecordUsage, More, Goto, pool, choice,
       ledger
<1>3. Stocked'
    BY DEF Inv, Typed, Stocked, RecordUsage, More, Goto, pool, choice, ledger
<1>4. Pinned'
    BY DEF Inv, Typed, Placed, Stocked, Pinned, Holding, RecordUsage, More, Goto,
       pool, choice, ledger
<1>5. BookInv'
    <2>1. ASSUME NEW q \in Requests, q # r PROVE Recorded(q)'
        BY <2>1 DEF Inv, Typed, BookInv, Recorded, Booked, Unrecorded, Generated,
           Unreserved, Streams, Pending, RowWritten, Corrected, RecordUsage, More,
           Goto, pool, choice, ledger
    <2>2. Recorded(r)'
        BY DEF Inv, Typed, BookInv, Recorded, Booked, Unrecorded, Generated,
           Unreserved, Streams, Pending, RowWritten, Corrected, RecordUsage, More,
           Goto, pool, choice, ledger
    <2>3. QED
        BY <2>1, <2>2 DEF BookInv
<1>6. Counted'
    BY CountsStay DEF Inv, RecordUsage, More, Goto, pool, choice, ledger
<1>7. QED
    BY <1>1, <1>2, <1>3, <1>4, <1>5, <1>6 DEF Inv

LEMMA SettleStep ==
    ASSUME Inv, NEW r \in Requests, Settle(r)
    PROVE  Inv'
<1>1. Typed'
    <2> DEFINE n == settles[r]
    <2>0. n \in 0 .. 2 /\ lost[r] \in SUBSET {"row", "settlement"}
        BY DEF Inv, Typed
    <2> HIDE DEF n
    <2>1. More(n) \in 0 .. 2
        BY <2>0 DEF More
    <2>2. settles' \in [Requests -> 0 .. 2]
        BY <2>1 DEF Inv, Typed, Settle, n
    <2>3. lost' \in [Requests -> SUBSET {"row", "settlement"}]
        <3>1. CASE UNCHANGED lost
            BY <3>1 DEF Inv, Typed
        <3>2. CASE lost' = [lost EXCEPT ![r] = lost[r] \cup {"settlement"}]
            <4>1. lost[r] \cup {"settlement"} \in SUBSET {"row", "settlement"}
                BY <2>0
            <4>2. QED
                BY <3>2, <4>1 DEF Inv, Typed
        <3>3. QED
            BY <3>1, <3>2 DEF Settle
    <2>4. book' \in [Requests -> {"nothing", "usage", "settle", "refund"}]
        BY DEF Inv, Typed, Settle
    <2>5. QED
        BY <2>2, <2>3, <2>4 DEF Inv, Typed, Settle, pool, choice
<1>2. Placed'
    BY DEF Inv, Typed, Placed, Holding, Settle, More, Goto, pool, choice, ledger
<1>3. Stocked'
    BY DEF Inv, Typed, Stocked, Settle, More, Goto, pool, choice, ledger
<1>4. Pinned'
    BY DEF Inv, Typed, Placed, Stocked, Pinned, Holding, Settle, More, Goto, pool,
       choice, ledger
<1>5. BookInv'
    <2>1. ASSUME NEW q \in Requests, q # r PROVE Recorded(q)'
        BY <2>1 DEF Inv, Typed, BookInv, Recorded, Booked, Unrecorded, Generated,
           Unreserved, Streams, Pending, RowWritten, Corrected, Settle, More, Goto,
           pool, choice, ledger
    <2>2. Recorded(r)'
        BY DEF Inv, Typed, BookInv, Recorded, Booked, Unrecorded, Generated,
           Unreserved, Streams, Pending, RowWritten, Corrected, Settle, More, Goto,
           pool, choice, ledger
    <2>3. QED
        BY <2>1, <2>2 DEF BookInv
<1>6. Counted'
    BY CountsStay DEF Inv, Settle, More, Goto, pool, choice, ledger
<1>7. QED
    BY <1>1, <1>2, <1>3, <1>4, <1>5, <1>6 DEF Inv

LEMMA ProbeStep ==
    ASSUME Inv, ProbeOnce
    PROVE  Inv'
<1>1. Typed'
    BY InferenceAssumption DEF Inv, Typed, ProbeOnce, Goto, pool, choice, ledger,
       Places, Ends, Holding
<1>2. Placed'
    BY InferenceAssumption DEF Inv, Typed, Placed, Holding, ProbeOnce, Goto, pool,
       choice, ledger
<1>3. Stocked'
    BY InferenceAssumption DEF Inv, Typed, Stocked, ProbeOnce, Goto, pool, choice,
       ledger
<1>4. Pinned'
    BY InferenceAssumption DEF Inv, Typed, Placed, Stocked, Pinned, Holding,
       ProbeOnce, Goto, pool, choice, ledger
<1>5. BookInv'
    BY InferenceAssumption DEF Inv, Typed, BookInv, Recorded, Booked, Unrecorded,
       Generated, Unreserved, Streams, Pending, RowWritten, Corrected, ProbeOnce,
       Goto, pool, choice, ledger
<1>6. Counted'
    BY CountsStay DEF Inv, ProbeOnce, Goto, pool, choice, ledger
<1>7. QED
    BY <1>1, <1>2, <1>3, <1>4, <1>5, <1>6 DEF Inv

-----------------------------------------------------------------------------
(* The theorems.                                                           *)

LEMMA InvInit == Init => Inv
<1> SUFFICES ASSUME Init PROVE Inv
    OBVIOUS
<1>1. Typed
    BY DEF Init, Typed, Places
<1>2. Placed
    BY NoBackend DEF Init, Placed, Holding
<1>3. Stocked /\ Pinned
    BY DEF Init, Stocked, Pinned
<1>4. BookInv
    BY DEF Init, BookInv, Recorded, Booked, Unrecorded, Generated, Unreserved,
       Streams, Pending, RowWritten, Corrected
<1>5. Counted
    <2>1. \A b \in Backends : {r \in Requests : at[r] = b} = {}
        BY NoBackend DEF Init
    <2>2. QED
        BY <2>1, FS_EmptySet DEF Init, Counted, Counts
<1>6. QED
    BY <1>1, <1>2, <1>3, <1>4, <1>5 DEF Inv

LEMMA CallStep == ASSUME Inv, NEW r \in Requests, Call(r) PROVE Inv'
<1>1. ASSUME NEW e \in {"chat", "stream", "embeddings", "rerank", "images", "predict"},
             NEW b \in Pins \cup {None}, Admit(r, e, b)
      PROVE  Inv'
    <2>1. e \in Endpoints
        BY DEF Endpoints
    <2>2. QED
        BY <1>1, <2>1, AdmitStep
<1>2. QED
    BY <1>1 DEF Call, Chat, Embeddings, Rerank, Images, Predict

LEMMA RouteStep == ASSUME Inv, NEW r \in Requests, Route(r) PROVE Inv'
<1>1. CASE CheckMember(r) \/ NoReplica(r) \/ Gate(r)
    BY <1>1, CheckMemberStep, NoReplicaStep, GateStep
<1>2. CASE Picks(r)
    BY <1>2, ChooseStep DEF Picks, ChatPicks, EmbeddingsPicks, RerankPicks,
       ImagesPicks, PredictPicks
<1>3. CASE Reserves(r)
    BY <1>3, ReserveStep DEF Reserves, ChatReserves, EmbeddingsReserves,
       RerankReserves, ImagesReserves
<1>4. CASE Sends(r)
    BY <1>4, ForwardStep, StreamRefusedStep, StreamOpenedStep DEF Sends, ChatSends,
       EmbeddingsSends, RerankSends, ImagesSends, PredictSends
<1>5. QED
    BY <1>1, <1>2, <1>3, <1>4 DEF Route

LEMMA EngineStep == ASSUME Inv, NEW r \in Requests, Engine(r) PROVE Inv'
<1>1. ASSUME Served(r) PROVE Inv'
    <2>1. PICK g \in BOOLEAN : Leave(r, "served", IF g THEN "usage" ELSE "settle", g)
        BY <1>1 DEF Served
    <2>2. QED
        BY <2>1, LeaveStep
<1>2. ASSUME Leave(r, "unreadable", "nothing", TRUE) PROVE Inv'
    BY <1>2, LeaveStep
<1>3. CASE Answered(r)
    BY <1>1, <1>2, <1>3 DEF Answered, ChatAnswered, EmbeddingsAnswered,
       PredictAnswered, ImagesAnswered, RerankAnswered
<1>4. CASE BackendRefused(r)
    BY <1>4, LeaveStep DEF BackendRefused
<1>5. CASE Failed(r)
    <2>1. Leave(r, "failed", "nothing", FALSE)
        BY <1>5 DEF Failed, ChatFails, EmbeddingsFails, RerankFails, ImagesFails,
           PredictFails, Fails, Unreachable, UpstreamError
    <2>2. QED
        BY <2>1, LeaveStep
<1>6. CASE FailOver(r) \/ StreamStarts(r) \/ StreamEnds(r) \/ StreamReleased(r)
    BY <1>6, FailOverStep, StreamStartsStep, StreamEndsStep, StreamReleasedStep
<1>7. QED
    BY <1>3, <1>4, <1>5, <1>6 DEF Engine

LEMMA HangUpStep == ASSUME Inv, NEW r \in Requests, HangUp(r) PROVE Inv'
<1>1. CASE ChatGone(r)
    <2>1. PICK g \in BOOLEAN : Leave(r, "abandoned", "nothing", g)
        BY <1>1 DEF ChatGone, ClientGone
    <2>2. QED
        BY <1>1, <2>1, GoneStep DEF ChatGone
<1>2. CASE ImagesGone(r)
    <2>1. PICK g \in BOOLEAN :
              Leave(r, "abandoned", IF reserved[r] THEN "refund" ELSE "nothing", g)
        BY <1>2 DEF ImagesGone, ClientGone
    <2>2. QED
        BY <2>1, GoneStep
<1>3. CASE StreamTorn(r) \/ StreamLeft(r)
    BY <1>3, StreamStartsStep, StreamLeftStep
<1>4. QED
    BY <1>1, <1>2, <1>3 DEF HangUp

LEMMA InvStep == Inv /\ [Next]_vars => Inv'
<1> SUFFICES ASSUME Inv, [Next]_vars PROVE Inv'
    OBVIOUS
<1>1. CASE UNCHANGED vars
    BY <1>1 DEF vars, pool, choice, ledger, Inv, Typed, Placed, Stocked, Pinned,
       BookInv, Recorded, Unrecorded, Generated, Unreserved, Streams, Pending,
       RowWritten, Corrected, Counted, Counts
<1>2. ASSUME NEW r \in Requests, Books(r) PROVE Inv'
    BY <1>2, RecordUsageStep, SettleStep DEF Books
<1>3. QED
    BY <1>1, <1>2, CallStep, RouteStep, EngineStep, HangUpStep, ProbeStep DEF Next

LEMMA SlotsFollow == Inv => SlotsAccounted
<1> SUFFICES ASSUME Inv, NEW b \in Backends
             PROVE  inflight[b] = Cardinality({r \in Requests :
                                      at[r] = b /\ pc[r] \in Holding \cup {"torn"}})
    BY DEF SlotsAccounted
<1>1. {r \in Requests : at[r] = b /\ pc[r] \in Holding \cup {"torn"}} = {r \in Requests : at[r] = b}
    BY DEF Inv, Placed
<1>2. QED
    BY <1>1 DEF Inv, Counted, Counts

LEMMA BooksFollow == Inv => BooksKept
<1> SUFFICES ASSUME Inv, NEW r \in Requests
             PROVE  /\ rows[r] <= (IF made[r] THEN 1 ELSE 0)
                    /\ Closed(r) /\ made[r] /\ rows[r] = 0 =>
                          \/ "row" \in lost[r]
                          \/ pc[r] = "unreadable"
                          \/ pc[r] = "abandoned" /\ Buffered(r)
                    /\ settles[r] <= (IF reserved[r] THEN 1 ELSE 0)
                    /\ Closed(r) /\ reserved[r] /\ settles[r] = 0 =>
                          \/ "settlement" \in lost[r]
                          \/ pc[r] \in {"refused", "failed", "unreadable", "torn"}
                          \/ pc[r] = "abandoned" /\ endpoint[r] = "chat"
    BY DEF BooksKept, MeteredOnce, SettledOnce
<1>0. Recorded(r)
    BY DEF Inv, BookInv
<1>1. rows[r] <= (IF made[r] THEN 1 ELSE 0) /\ settles[r] <= (IF reserved[r] THEN 1 ELSE 0)
    BY <1>0 DEF Recorded, Pending
<1>2. ASSUME Closed(r), made[r], rows[r] = 0
      PROVE  \/ "row" \in lost[r]
             \/ pc[r] = "unreadable"
             \/ pc[r] = "abandoned" /\ Buffered(r)
    BY <1>0, <1>2 DEF Closed, Ended, Ends, Buffered, Recorded, Generated, RowWritten,
       Booked
<1>3. ASSUME Closed(r), reserved[r], settles[r] = 0
      PROVE  \/ "settlement" \in lost[r]
             \/ pc[r] \in {"refused", "failed", "unreadable", "torn"}
             \/ pc[r] = "abandoned" /\ endpoint[r] = "chat"
    BY <1>0, <1>3 DEF Closed, Ended, Ends, Recorded, Unreserved, Corrected, Booked
<1>4. QED
    BY <1>1, <1>2, <1>3

LEMMA TypesFollow == Inv => TypeOK
<1> SUFFICES ASSUME Inv PROVE TypeOK
    OBVIOUS
<1>1. ASSUME NEW b \in Backends PROVE inflight[b] \in 0 .. Cardinality(Requests)
    <2>1. {r \in Requests : at[r] = b} \subseteq Requests /\ IsFiniteSet(Requests)
        BY InferenceAssumption
    <2>2. /\ Cardinality({r \in Requests : at[r] = b}) \in Nat /\ Cardinality(Requests) \in Nat
          /\ Cardinality({r \in Requests : at[r] = b}) <= Cardinality(Requests)
        BY <2>1, FS_Subset, FS_CardinalityType
    <2>3. QED
        BY <2>2 DEF Inv, Counted, Counts
<1>2. inflight \in [Backends -> 0 .. Cardinality(Requests)]
    BY <1>1 DEF Inv, Typed
<1>3. QED
    BY <1>2 DEF Inv, Typed, TypeOK

\* Every variable keeps its type; the in-flight count of a replica is at most
\* the number of requests (models/backends.py).
THEOREM TypeCorrect == Spec => []TypeOK
<1>1. Spec => []Inv
    BY InvInit, InvStep, PTL DEF Spec
<1>2. QED
    BY <1>1, TypesFollow, PTL

\* track, acquire and release: the in-flight count of a replica is exactly the
\* requests there, however each of the others left (models/backends.py).
THEOREM SlotsAreAccounted == Spec => []SlotsAccounted
<1>1. Spec => []Inv
    BY InvInit, InvStep, PTL DEF Spec
<1>2. QED
    BY <1>1, SlotsFollow, PTL

\* X-Prometheus-Instance: a pinned request is sent to no other replica, not by
\* failover either (router.py).
THEOREM PinsAreHonoured == Spec => []PinHonoured
<1>1. Spec => []Inv
    BY InvInit, InvStep, PTL DEF Spec
<1>2. Inv => PinHonoured
    BY DEF Inv, Pinned, PinHonoured
<1>3. QED
    BY <1>1, <1>2, PTL

\* Whoever generated has one usage row and one settlement, or is one of the
\* exits that the property names, and nobody else has any (router.py).
THEOREM BooksAreKept == Spec => []BooksKept
<1>1. Spec => []Inv
    BY InvInit, InvStep, PTL DEF Spec
<1>2. QED
    BY <1>1, BooksFollow, PTL
=============================================================================
