-------------------------- MODULE ManagerSyncProofs --------------------------
(***************************************************************************)
(* The gateway's catalogue implements StaticStability, loses nothing of a  *)
(* node that is silent, and the loop that keeps it does not spin: for      *)
(* every fleet, every number of changes at the nodes and every sequence of *)
(* outages, restarts and changes of the fleet's list.                      *)
(***************************************************************************)
EXTENDS ManagerSync, WellFoundedInduction, TLAPS

Queries ==
    [is : {"asking", "none", "failed", "answered"}, blocks : BOOLEAN, version : Versions]

Typed ==
    /\ truth \in [Nodes -> 0 .. MaxVersion]
    /\ saved \in [Nodes -> Versions]
    /\ ask \in [Nodes -> Queries]
    /\ fleet \subseteq Nodes /\ nodes \subseteq Nodes /\ shown \subseteq Nodes
    /\ booting \in BOOLEAN

\* Nothing is ahead of its node.
NoneAhead ==
    \A n \in Nodes : /\ good[n].version \in Unheard .. truth[n]
                     /\ saved[n] \in Unheard .. truth[n]

\* What this process has heard of a node is no older than the disk's copy.
NewerThanDisk ==
    \A n \in Nodes : good[n].version = Unheard \/ saved[n] <= good[n].version

\* An answer that is waiting to be composed is no older than what it is to
\* replace, and no older than the disk's copy, which may still come first:
\* requests outlive a cycle that ended for want of a token.
AnswersForward ==
    \A n \in Nodes :
        ask[n].is = "answered" =>
            /\ ask[n].version \in 0 .. truth[n]
            /\ good[n].version <= ask[n].version
            /\ saved[n] <= ask[n].version

StableInv == Typed /\ NoneAhead /\ NewerThanDisk /\ AnswersForward

USE DEF Unheard, Versions

-----------------------------------------------------------------------------
(* What happens to the requests of a cycle. *)

LEMMA QueriesTyped ==
    /\ \A b \in BOOLEAN : Asking(b) \in Queries /\ Asking(b).is # "answered"
    /\ NotAsked \in Queries /\ NotAsked.is # "answered"
    /\ Failed \in Queries /\ Failed.is # "answered"
    /\ \A v \in 0 .. MaxVersion :
          /\ Answered(v) \in Queries
          /\ Answered(v).is = "answered" /\ Answered(v).version = v
<1>1. -1 \in Versions /\ \A v \in 0 .. MaxVersion : v \in Versions
    BY SyncAssumption
<1>2. \A b \in BOOLEAN : Asking(b) \in Queries /\ Asking(b).is # "answered"
    BY <1>1 DEF Queries, Asking
<1>3. /\ NotAsked \in Queries /\ NotAsked.is # "answered"
      /\ Failed \in Queries /\ Failed.is # "answered"
    BY <1>1 DEF Queries, NotAsked, Failed
<1>4. ASSUME NEW v \in 0 .. MaxVersion
      PROVE  /\ Answered(v) \in Queries
             /\ Answered(v).is = "answered" /\ Answered(v).version = v
    BY <1>1 DEF Queries, Answered
<1>5. QED
    BY <1>2, <1>3, <1>4

LEMMA AskAllTyped ==
    ASSUME NEW listed, AskAll(listed)
    PROVE  /\ ask' \in [Nodes -> Queries]
           /\ \A n \in Nodes : ask'[n].is # "answered"
<1>1. \A n \in Nodes : Blocks(n) \in BOOLEAN
    BY DEF Blocks
<1>2. ask' = [n \in Nodes |-> IF n \in listed THEN Asking(Blocks(n)) ELSE NotAsked]
    BY DEF AskAll
<1>3. \A n \in Nodes : ask'[n] \in Queries /\ ask'[n].is # "answered"
    BY <1>1, <1>2, QueriesTyped
<1>4. QED
    BY <1>2, <1>3

\* A step that brings no answer and keeps what is known.
LEMMA QuietStep ==
    ASSUME StableInv, Typed', UNCHANGED <<truth, saved, good>>,
           \A n \in Nodes : ask'[n] = ask[n] \/ ask'[n].is # "answered"
    PROVE  StableInv'
<1>1. NoneAhead'
    BY DEF StableInv, NoneAhead
<1>2. NewerThanDisk'
    BY DEF StableInv, NewerThanDisk
<1>3. AnswersForward'
    BY DEF StableInv, AnswersForward
<1>4. QED
    BY <1>1, <1>2, <1>3 DEF StableInv

\* A step that leaves all of it alone.
LEMMA IdleStep ==
    ASSUME StableInv, UNCHANGED <<truth, saved, good, ask, nodes, shown>>,
           fleet' \subseteq Nodes, booting' \in BOOLEAN
    PROVE  StableInv'
<1>1. Typed'
    BY DEF StableInv, Typed
<1>2. QED
    BY <1>1, QuietStep

\* A new cycle asks the nodes listed, and forgets what was not composed.
LEMMA AskingStep ==
    ASSUME StableInv, NEW listed, AskAll(listed), nodes' \subseteq Nodes,
           UNCHANGED <<truth, saved, good, fleet, shown, booting>>
    PROVE  StableInv'
<1>1. Typed'
    BY AskAllTyped DEF StableInv, Typed
<1>2. QED
    BY <1>1, AskAllTyped, QuietStep

\* One request comes back with nothing.
LEMMA LostStep ==
    ASSUME StableInv, NEW n \in Nodes, NEW q \in {NotAsked, Failed},
           ask' = [ask EXCEPT ![n] = q],
           UNCHANGED <<truth, saved, good, fleet, nodes, shown, booting>>
    PROVE  StableInv'
<1>1. q \in Queries /\ q.is # "answered"
    BY QueriesTyped
<1>2. Typed'
    BY <1>1 DEF StableInv, Typed
<1>3. \A m \in Nodes : ask'[m] = ask[m] \/ ask'[m].is # "answered"
    BY <1>1 DEF StableInv, Typed
<1>4. QED
    BY <1>2, <1>3, QuietStep

LEMMA AnswerStep ==
    ASSUME StableInv, NEW n \in Nodes, Answer(n)
    PROVE  StableInv'
<1>1. truth[n] \in 0 .. MaxVersion
    BY DEF StableInv, Typed
<1>2. /\ Answered(truth[n]) \in Queries
      /\ Answered(truth[n]).version = truth[n]
    BY <1>1, QueriesTyped
<1>3. /\ ask' = [ask EXCEPT ![n] = Answered(truth[n])]
      /\ UNCHANGED <<truth, saved, good, fleet, nodes, shown, booting>>
    BY DEF Answer, world, served
<1>4. Typed'
    BY <1>2, <1>3 DEF StableInv, Typed
<1>5. NoneAhead' /\ NewerThanDisk'
    BY <1>3 DEF StableInv, NoneAhead, NewerThanDisk
<1>6. AnswersForward'
    <2> SUFFICES ASSUME NEW m \in Nodes, ask'[m].is = "answered"
                 PROVE  /\ ask'[m].version \in 0 .. truth[m]
                        /\ good[m].version <= ask'[m].version
                        /\ saved[m] <= ask'[m].version
        BY <1>3 DEF AnswersForward
    <2>1. CASE m = n
        <3>1. ask'[n].version = truth[n]
            BY <1>2, <1>3 DEF StableInv, Typed
        <3>2. QED
            BY <2>1, <3>1, <1>1 DEF StableInv, NoneAhead
    <2>2. CASE m # n
        BY <2>2, <1>3 DEF StableInv, Typed, AnswersForward
    <2>3. QED
        BY <2>1, <2>2
<1>7. QED
    BY <1>4, <1>5, <1>6 DEF StableInv

-----------------------------------------------------------------------------
(* The steps that write what is known of a node. *)

\* Composed: what a node said, else what it had said.
LEMMA ComposeStep ==
    ASSUME StableInv, Compose
    PROVE  /\ StableInv'
           /\ \A n \in Nodes : good[n].version <= good'[n].version
<1>1. /\ UNCHANGED <<truth, saved, fleet, nodes, booting>>
      /\ shown' = nodes
      /\ ask' = [n \in Nodes |-> NotAsked]
      /\ good' = [n \in Nodes |-> IF n \in nodes \ Silent THEN Heard(n) ELSE good[n]]
    BY DEF Compose, world, known
<1>2. ASSUME NEW n \in Nodes
      PROVE  \/ good'[n].version = good[n].version
             \/ ask[n].is = "answered" /\ good'[n].version = ask[n].version
    <2>1. CASE n \in nodes \ Silent
        <3>1. ask[n].is = "answered"
            BY <2>1 DEF Silent
        <3>2. good'[n] = Heard(n)
            BY <1>1, <2>1
        <3>3. Heard(n).version = ask[n].version
            BY DEF Heard
        <3>4. QED
            BY <3>1, <3>2, <3>3
    <2>2. CASE n \notin nodes \ Silent
        BY <1>1, <2>2
    <2>3. QED
        BY <2>1, <2>2
<1>3. Typed'
    BY <1>1, QueriesTyped DEF StableInv, Typed
<1>4. \A n \in Nodes : truth[n] \in 0 .. MaxVersion
    BY DEF StableInv, Typed
<1>5. NoneAhead' /\ NewerThanDisk' /\ \A n \in Nodes : good[n].version <= good'[n].version
    <2> SUFFICES ASSUME NEW n \in Nodes
                 PROVE  /\ good'[n].version \in -1 .. truth[n]
                        /\ saved[n] \in -1 .. truth[n]
                        /\ good'[n].version = -1 \/ saved[n] <= good'[n].version
                        /\ good[n].version <= good'[n].version
        BY <1>1 DEF NoneAhead, NewerThanDisk
    <2>1. /\ good[n].version \in -1 .. truth[n]
          /\ saved[n] \in -1 .. truth[n]
          /\ good[n].version = -1 \/ saved[n] <= good[n].version
        BY DEF StableInv, NoneAhead, NewerThanDisk
    <2>2. CASE good'[n].version = good[n].version
        BY <2>1, <2>2, <1>4
    <2>3. CASE ask[n].is = "answered" /\ good'[n].version = ask[n].version
        <3>1. /\ ask[n].version \in 0 .. truth[n]
              /\ good[n].version <= ask[n].version
              /\ saved[n] <= ask[n].version
            BY <2>3 DEF StableInv, AnswersForward
        <3>2. QED
            BY <2>1, <2>3, <3>1, <1>4
    <2>4. QED
        BY <1>2, <2>2, <2>3
<1>6. AnswersForward'
    BY <1>1, QueriesTyped DEF AnswersForward
<1>7. QED
    BY <1>3, <1>5, <1>6 DEF StableInv

\* The disk's copy of a node moves forward, unless nothing is known of it.
LEMMA SaveStep ==
    ASSUME StableInv, SaveSnapshot
    PROVE  /\ StableInv'
           /\ \A n \in Nodes : saved'[n] = saved[n] \/ saved'[n] = good[n].version
<1>1. CASE UNCHANGED saved
    BY <1>1, IdleStep DEF SaveSnapshot, world, known, served, cycle,
       StableInv, Typed
<1>2. CASE saved' = [n \in Nodes |-> Snapshot(n)]
    <2>1. UNCHANGED <<truth, good, ask, fleet, nodes, shown, booting>>
        BY DEF SaveSnapshot, world, known, served, cycle
    <2>2. \A n \in Nodes : saved'[n] = good[n].version
        BY <1>2 DEF Snapshot
    <2>3. \A n \in Nodes : /\ truth[n] \in 0 .. MaxVersion
                           /\ good[n].version \in -1 .. truth[n]
        BY DEF StableInv, Typed, NoneAhead
    <2>4. ASSUME NEW n \in Nodes PROVE saved'[n] \in -1 .. MaxVersion
        <3>1. /\ saved'[n] \in -1 .. truth[n]
              /\ truth[n] \in 0 .. MaxVersion /\ MaxVersion \in Nat
            BY <2>2, <2>3, SyncAssumption
        <3>2. QED
            BY <3>1
    <2>5. Typed'
        BY <1>2, <2>1, <2>4 DEF StableInv, Typed
    <2>6. NoneAhead' /\ NewerThanDisk'
        BY <2>1, <2>2, <2>3 DEF NoneAhead, NewerThanDisk
    <2>7. AnswersForward'
        BY <2>1, <2>2 DEF StableInv, AnswersForward
    <2>8. QED
        BY <2>2, <2>5, <2>6, <2>7 DEF StableInv
<1>3. QED
    BY <1>1, <1>2 DEF SaveSnapshot

\* The disk's copy becomes what is known, or nothing changes.
LEMMA RestoreStep ==
    ASSUME StableInv, RestoreFromSnapshot
    PROVE  StableInv'
<1>1. /\ UNCHANGED <<truth, saved, ask, fleet, nodes>>
      /\ booting' = FALSE
    BY DEF RestoreFromSnapshot, world, known, cycle
<1>2. CASE UNCHANGED served
    BY <1>1, <1>2, IdleStep DEF served, StableInv, Typed
<1>3. CASE ~ UNCHANGED served
    <2> DEFINE stored == {n \in Nodes : saved[n] # -1}
               last(n) == [ids |-> Report[n][saved[n]], version |-> saved[n],
                           trusted |-> Trusted(n)]
    <2>1. /\ good' = [n \in Nodes |-> IF n \in stored THEN last(n) ELSE good[n]]
          /\ shown' = stored
        BY <1>3 DEF RestoreFromSnapshot
    <2>2. \A n \in Nodes :
             \/ saved[n] # -1 /\ good'[n].version = saved[n]
             \/ saved[n] = -1 /\ good'[n].version = good[n].version
        BY <2>1
    <2>3. Typed'
        BY <1>1, <2>1 DEF StableInv, Typed
    <2>4. \A n \in Nodes : truth[n] \in 0 .. MaxVersion
        BY DEF StableInv, Typed
    <2>5. NoneAhead' /\ NewerThanDisk'
        BY <1>1, <2>2, <2>4 DEF StableInv, NoneAhead, NewerThanDisk
    <2>6. AnswersForward'
        BY <1>1, <2>2 DEF StableInv, AnswersForward
    <2>7. QED
        BY <2>3, <2>5, <2>6 DEF StableInv
<1>4. QED
    BY <1>2, <1>3

\* A node's registry changes: what was heard of it falls behind.
LEMMA ChangeStep ==
    ASSUME StableInv, NodeChanges
    PROVE  StableInv'
<1>1. PICK n \in Nodes :
          truth[n] < MaxVersion /\ truth' = [truth EXCEPT ![n] = @ + 1]
    BY DEF NodeChanges
<1>2. UNCHANGED <<saved, good, ask, fleet, nodes, shown, booting>>
    BY DEF NodeChanges, known, served, cycle
<1>3. \A m \in Nodes : /\ truth[m] \in 0 .. MaxVersion
                       /\ truth'[m] \in 0 .. MaxVersion
                       /\ truth[m] <= truth'[m]
    BY <1>1, SyncAssumption DEF StableInv, Typed
<1>4. Typed'
    BY <1>1, <1>2, <1>3 DEF StableInv, Typed
<1>5. NoneAhead'
    BY <1>2, <1>3 DEF StableInv, NoneAhead
<1>6. NewerThanDisk'
    BY <1>2 DEF StableInv, NewerThanDisk
<1>7. AnswersForward'
    BY <1>2, <1>3 DEF StableInv, AnswersForward
<1>8. QED
    BY <1>4, <1>5, <1>6, <1>7 DEF StableInv

LEMMA RestartStep ==
    ASSUME StableInv, Restart
    PROVE  StableInv'
<1>1. /\ UNCHANGED <<truth, saved, fleet>>
      /\ nodes' = {} /\ shown' = {} /\ booting' = TRUE
      /\ ask' = [n \in Nodes |-> NotAsked]
      /\ good' = [n \in Nodes |-> Nothing]
    BY DEF Restart, Started
<1>2. Nothing.version = -1
    BY DEF Nothing
<1>3. Typed'
    BY <1>1, QueriesTyped DEF StableInv, Typed
<1>4. \A n \in Nodes : good'[n].version = -1 /\ truth[n] \in 0 .. MaxVersion
    BY <1>1, <1>2 DEF StableInv, Typed
<1>5. NoneAhead' /\ NewerThanDisk'
    BY <1>1, <1>4 DEF StableInv, NoneAhead, NewerThanDisk
<1>6. AnswersForward'
    BY <1>1, QueriesTyped DEF AnswersForward
<1>7. QED
    BY <1>3, <1>5, <1>6 DEF StableInv

-----------------------------------------------------------------------------
(* The invariant. *)

LEMMA StableInit == Init => StableInv
<1> SUFFICES ASSUME Init PROVE StableInv
    OBVIOUS
<1>1. Typed
    BY SyncAssumption, QueriesTyped DEF Init, Typed
<1>2. \A n \in Nodes : good[n].version = -1 /\ saved[n] = -1 /\ truth[n] = 0
    BY DEF Init, Nothing
<1>3. NoneAhead /\ NewerThanDisk
    BY <1>2 DEF NoneAhead, NewerThanDisk
<1>4. AnswersForward
    BY QueriesTyped DEF Init, AnswersForward
<1>5. QED
    BY <1>1, <1>3, <1>4 DEF StableInv

LEMMA StableNext == StableInv /\ [Next]_vars => StableInv'
<1> SUFFICES ASSUME StableInv, [Next]_vars PROVE StableInv'
    OBVIOUS
<1>1. fleet \subseteq Nodes /\ nodes \subseteq Nodes /\ booting \in BOOLEAN
    BY DEF StableInv, Typed
<1>2. CASE RefreshNodes
    BY <1>1, <1>2, AskingStep DEF RefreshNodes, world, served
<1>3. CASE KeepNodes
    <2>1. CASE AskAll(nodes)
        BY <1>1, <1>3, <2>1, AskingStep DEF KeepNodes, world, known, served
    <2>2. CASE UNCHANGED ask
        BY <1>1, <1>3, <2>2, IdleStep DEF KeepNodes, world, known, served
    <2>3. QED
        BY <1>3, <2>1, <2>2 DEF KeepNodes
<1>4. CASE Compose
    BY <1>4, ComposeStep
<1>5. CASE SaveSnapshot
    BY <1>5, SaveStep
<1>6. CASE RestoreFromSnapshot
    BY <1>6, RestoreStep
<1>7. CASE GoRound \/ Sleep
    BY <1>1, <1>7, IdleStep DEF GoRound, Sleep, world, known, served, cycle
<1>8. ASSUME NEW n \in Nodes, NoToken(n) PROVE StableInv'
    BY <1>8, LostStep DEF NoToken, world, known, served
<1>9. ASSUME NEW n \in Nodes, Answer(n) PROVE StableInv'
    BY <1>9, AnswerStep
<1>10. ASSUME NEW n \in Nodes, Unreachable(n) PROVE StableInv'
    BY <1>10, LostStep DEF Unreachable, world, served
<1>11. CASE NodeChanges
    BY <1>11, ChangeStep
<1>12. CASE Outage
    <2>1. /\ UNCHANGED <<truth, saved, good, ask, nodes, shown, booting>>
          /\ fleet' \subseteq Nodes
        BY <1>1, <1>12 DEF Outage, known, served, cycle
    <2>2. QED
        BY <1>1, <2>1, IdleStep
<1>13. CASE Recovery
    BY <1>1, <1>13, IdleStep DEF Recovery, known, served, cycle
<1>14. CASE Restart
    BY <1>14, RestartStep
<1>15. CASE UNCHANGED vars
    BY <1>1, <1>15, IdleStep DEF vars, world, known, served, cycle
<1>16. QED
    BY <1>2, <1>3, <1>4, <1>5, <1>6, <1>7, <1>8, <1>9, <1>10, <1>11, <1>12,
       <1>13, <1>14, <1>15 DEF Next, Loop, Request

-----------------------------------------------------------------------------
(* Every step is one of the catalogue's, or none. *)

USE DEF Served

HeardBy == [n \in Served |-> good[n].version]

\* The four steps of StaticStability, in this module's terms.
LEMMA AbstractSteps ==
    /\ Stability!Init <=> /\ truth = [n \in Nodes |-> 0]
                          /\ HeardBy = [n \in {} |-> -1]
                          /\ saved = [n \in Nodes |-> -1]
    /\ Stability!NodeChanges <=>
          /\ \E n \in Nodes : truth' = [truth EXCEPT ![n] = @ + 1]
          /\ UNCHANGED <<HeardBy, saved>>
    /\ Stability!Restarts <=> /\ HeardBy' = [n \in {} |-> -1]
                              /\ UNCHANGED <<truth, saved>>
BY DEF Stability!Init, Stability!NodeChanges, Stability!Restarts,
       Stability!Unheard, HeardBy

KnownBy(n) == IF n \in Served THEN good[n].version ELSE -1

\* What is served is replaced by what is no older.
LEMMA LearnsStep ==
    ASSUME StableInv, StableInv', UNCHANGED <<truth, saved>>,
           \A n \in Served' : KnownBy(n) <= good'[n].version
    PROVE  Stability!Learns
<1>1. Served' \in SUBSET Nodes
    BY DEF StableInv, Typed
<1>2. \A n \in Served' : n \in Nodes /\ good'[n].version \in -1 .. truth[n]
    BY <1>1 DEF StableInv, NoneAhead
<1>3. \A n \in Nodes : truth[n] \in 0 .. MaxVersion /\ MaxVersion \in Nat
    BY SyncAssumption DEF StableInv, Typed
<1>4. \A n \in Served' : good'[n].version \in -1 .. MaxVersion
    BY <1>2, <1>3
<1>5. \A n \in Served : good[n].version \in -1 .. truth[n] /\ n \in Nodes
    BY DEF StableInv, NoneAhead, Typed
<1>6. \A n \in Served' : good'[n].version \in KnownBy(n) .. truth[n]
    BY <1>2, <1>3, <1>5 DEF KnownBy
<1>7. HeardBy' \in [Served' -> -1 .. MaxVersion]
    BY <1>4 DEF HeardBy
<1>8. \A n \in Served' : HeardBy'[n] = good'[n].version
    BY DEF HeardBy
<1>9. \A n \in Nodes : Stability!Known(n) = KnownBy(n)
    BY DEF Stability!Known, Stability!Unheard, KnownBy
<1>10. QED
    BY <1>1, <1>6, <1>7, <1>8, <1>9
       DEF Stability!Learns, Stability!Versions, Stability!Unheard, HeardBy

\* The disk's copy moves forward, or nothing is known of the node.
LEMMA SavesStep ==
    ASSUME StableInv, StableInv', UNCHANGED <<truth, good, shown, booting>>,
           \A n \in Nodes : saved'[n] = saved[n] \/ saved'[n] = good[n].version
    PROVE  Stability!Saves
<1>1. /\ saved' \in [Nodes -> -1 .. MaxVersion]
      /\ \A n \in Nodes : /\ saved[n] \in -1 .. truth[n]
                          /\ saved'[n] \in -1 .. truth[n]
                          /\ truth[n] \in 0 .. MaxVersion
    BY DEF StableInv, Typed, NoneAhead
<1>2. ASSUME NEW n \in Nodes
      PROVE  \/ saved'[n] \in saved[n] .. truth[n]
             \/ saved'[n] = -1 /\ KnownBy(n) = -1
    <2>1. good[n].version = -1 \/ saved[n] <= good[n].version
        BY DEF StableInv, NewerThanDisk
    <2>2. CASE saved'[n] = saved[n]
        BY <1>1, <2>2
    <2>3. CASE saved'[n] = good[n].version /\ good[n].version = -1
        BY <2>3 DEF KnownBy
    <2>4. CASE saved'[n] = good[n].version /\ saved[n] <= good[n].version
        BY <1>1, <2>4
    <2>5. QED
        BY <2>1, <2>2, <2>3, <2>4
<1>3. \A n \in Nodes : Stability!Known(n) = KnownBy(n)
    BY DEF Stability!Known, Stability!Unheard, KnownBy
<1>4. HeardBy' = HeardBy
    BY DEF HeardBy
<1>5. QED
    BY <1>1, <1>2, <1>3, <1>4
       DEF Stability!Saves, Stability!Versions, Stability!Unheard, HeardBy

Stutter == UNCHANGED <<truth, saved, good, shown, booting>>

LEMMA StutterStep == Stutter => UNCHANGED Stability!stabilityVars
BY DEF Stutter, Stability!stabilityVars

\* The steps that no client of the catalogue can tell from none.
LEMMA UnseenSteps ==
    ASSUME \/ RefreshNodes \/ KeepNodes \/ GoRound \/ Sleep
           \/ \E n \in Nodes : NoToken(n) \/ Request(n)
           \/ Outage \/ Recovery \/ UNCHANGED vars
    PROVE  Stutter
BY DEF RefreshNodes, KeepNodes, GoRound, Sleep, NoToken, Request, Answer,
       Unreachable, Outage, Recovery, Stutter, vars, world, known, served, cycle

\* Before start returns nothing is served; after it, every composition learns.
LEMMA ComposeLearns ==
    ASSUME StableInv, StableInv', Compose
    PROVE  Stability!Learns
<1>1. UNCHANGED <<truth, saved, booting>>
    BY DEF Compose, world
<1>2. \A n \in Nodes : /\ good'[n].version \in -1 .. truth'[n]
                       /\ truth'[n] \in 0 .. MaxVersion
                       /\ good[n].version <= good'[n].version
    BY ComposeStep DEF StableInv, Typed, NoneAhead
<1>3. \A n \in Served' : n \in Nodes
    BY DEF StableInv, Typed
<1>4. \A n \in Served' : KnownBy(n) <= good'[n].version
    BY <1>2, <1>3 DEF KnownBy
<1>5. QED
    BY <1>1, <1>4, LearnsStep

\* The restored catalogue is the first that is served.
LEMMA RestoreLearns ==
    ASSUME StableInv, StableInv', RestoreFromSnapshot
    PROVE  Stability!Learns
<1>1. UNCHANGED <<truth, saved>> /\ booting
    BY DEF RestoreFromSnapshot, world
<1>2. \A n \in Served' : /\ n \in Nodes
                         /\ good'[n].version \in -1 .. truth'[n]
                         /\ truth'[n] \in 0 .. MaxVersion
    BY DEF StableInv, Typed, NoneAhead
<1>3. \A n \in Served' : KnownBy(n) = -1
    BY <1>1 DEF KnownBy
<1>4. \A n \in Served' : KnownBy(n) <= good'[n].version
    BY <1>2, <1>3
<1>5. QED
    BY <1>1, <1>4, LearnsStep

LEMMA StepsAreStable ==
    StableInv /\ StableInv' /\ [Next]_vars
        => [Stability!Next]_(Stability!stabilityVars)
<1> SUFFICES ASSUME StableInv, StableInv', [Next]_vars
             PROVE  [Stability!Next]_(Stability!stabilityVars)
    OBVIOUS
<1>1. CASE Compose
    BY <1>1, ComposeLearns DEF Stability!Next
<1>2. CASE RestoreFromSnapshot
    BY <1>2, RestoreLearns DEF Stability!Next
<1>3. CASE SaveSnapshot
    <2>1. UNCHANGED <<truth, good, shown, booting>>
        BY <1>3 DEF SaveSnapshot, world, served
    <2>2. QED
        BY <1>3, <2>1, SaveStep, SavesStep DEF Stability!Next
<1>4. CASE NodeChanges
    <2>1. \E n \in Nodes : truth' = [truth EXCEPT ![n] = @ + 1]
        BY <1>4 DEF NodeChanges
    <2>2. UNCHANGED <<good, shown, booting, saved>>
        BY <1>4 DEF NodeChanges, served
    <2>3. UNCHANGED <<HeardBy, saved>>
        BY <2>2 DEF HeardBy
    <2>4. QED
        BY <2>1, <2>3, AbstractSteps DEF Stability!Next
<1>5. CASE Restart
    <2>1. UNCHANGED <<truth, saved>> /\ booting' = TRUE
        BY <1>5 DEF Restart, Started
    <2>2. HeardBy' = [n \in {} |-> -1]
        BY <2>1 DEF HeardBy
    <2>3. QED
        BY <2>1, <2>2, AbstractSteps DEF Stability!Next
<1>6. CASE Stutter
    BY <1>6, StutterStep
<1>7. QED
    BY <1>1, <1>2, <1>3, <1>4, <1>5, <1>6, UnseenSteps DEF Next, Loop

LEMMA StableStart == Init => Stability!Init
<1> SUFFICES ASSUME Init PROVE Stability!Init
    OBVIOUS
<1>1. HeardBy = [n \in {} |-> -1]
    BY DEF Init, HeardBy
<1>2. QED
    BY <1>1, AbstractSteps DEF Init

\* The catalogue implements StaticStability (manager_sync.py, RM-98 and RM-99):
\* whatever fails, what is served of a node is something it has said, never
\* older than before, and no node is forgotten that the fleet lists.
THEOREM CatalogueIsStable == Spec => StaysStable
<1>1. Init => StableInv /\ Stability!Init
    BY StableInit, StableStart
<1>2. QED
    BY <1>1, StableNext, StepsAreStable, PTL DEF Spec, StaysStable, Stability!Spec

-----------------------------------------------------------------------------
(* Among nodes there is one before the others and one after them: the list *)
(* of the coordinator is finite and names every node once.                 *)

Below == {p \in Nat \X Nat : p[1] < p[2]}

LEMMA Least ==
    ASSUME NEW T \in SUBSET Nat, T # {}
    PROVE  \E n \in T : \A m \in T : n <= m
<1>1. IsWellFoundedOn(Below, Nat)
    BY NatLessThanWellFounded DEF OpToRel, Below
<1>2. PICK n \in T : \A m \in T : <<m, n>> \notin Below
    BY <1>1, WFMin
<1>3. ASSUME NEW m \in T PROVE n <= m
    <2>1. m \in Nat /\ n \in Nat
        OBVIOUS
    <2>2. m < n => <<m, n>> \in Below
        BY <2>1 DEF Below
    <2>3. QED
        BY <1>2, <2>1, <2>2
<1>4. QED
    BY <1>3

LEMMA Greatest ==
    ASSUME NEW b \in Nat, NEW T \in SUBSET (1 .. b), T # {}
    PROVE  \E n \in T : \A m \in T : m <= n
<1> DEFINE Gaps == {b - n : n \in T}
<1>1. Gaps \in SUBSET Nat /\ Gaps # {}
    <2>1. \A n \in 1 .. b : b - n \in Nat
        OBVIOUS
    <2>2. \A n \in T : n \in 1 .. b
        OBVIOUS
    <2>3. \A d \in Gaps : d \in Nat
        BY <2>1, <2>2
    <2>4. PICK n \in T : TRUE
        OBVIOUS
    <2>5. b - n \in Gaps
        BY <2>4
    <2> HIDE DEF Gaps
    <2>6. QED
        BY <2>3, <2>5
<1>2. PICK d \in Gaps : \A e \in Gaps : d <= e
    <2> HIDE DEF Gaps
    <2>1. QED
        BY <1>1, Least
<1>3. PICK n \in T : d = b - n
    BY <1>2
<1>4. ASSUME NEW m \in T PROVE m <= n
    <2>1. b - n <= b - m
        BY <1>2, <1>3
    <2>2. m \in Nat /\ n \in Nat
        OBVIOUS
    <2>3. QED
        BY <2>1, <2>2
<1>5. QED
    BY <1>4

Places(S) == {k \in DOMAIN Order : Order[k] \in S}

LEMMA PlacesFound ==
    ASSUME NEW S \in SUBSET Nodes, S # {}
    PROVE  /\ Places(S) # {} /\ Places(S) \in SUBSET (1 .. Len(Order))
           /\ Places(S) \in SUBSET Nat /\ Len(Order) \in Nat
<1>1. Len(Order) \in Nat /\ DOMAIN Order = 1 .. Len(Order)
    BY SyncAssumption
<1>2. Places(S) # {}
    BY SyncAssumption DEF Places
<1>3. Places(S) \in SUBSET (1 .. Len(Order))
    BY <1>1 DEF Places
<1>4. QED
    BY <1>1, <1>2, <1>3

LEMMA SomeLast ==
    ASSUME NEW S \in SUBSET Nodes, S # {}
    PROVE  \E n \in S : \A m \in S : ~ Before(n, m)
<1>1. PICK k \in Places(S) : \A l \in Places(S) : l <= k
    BY PlacesFound, Greatest
<1>2. Order[k] \in S /\ k \in DOMAIN Order
    BY DEF Places
<1>3. ASSUME NEW m \in S, Before(Order[k], m) PROVE FALSE
    <2>1. PICK i, j \in DOMAIN Order : i < j /\ Order[i] = Order[k] /\ Order[j] = m
        BY <1>3 DEF Before
    <2>2. i = k /\ j \in Places(S)
        BY <1>2, <2>1, SyncAssumption DEF Places
    <2>3. k \in Nat /\ j \in Nat /\ j <= k
        BY <1>1, <2>2, PlacesFound
    <2>4. QED
        BY <2>1, <2>2, <2>3
<1>4. QED
    BY <1>2, <1>3

LEMMA SomeFirst ==
    ASSUME NEW S \in SUBSET Nodes, S # {}
    PROVE  \E n \in S : \A m \in S : ~ Before(m, n)
<1>1. PICK k \in Places(S) : \A l \in Places(S) : k <= l
    BY PlacesFound, Least
<1>2. Order[k] \in S /\ k \in DOMAIN Order
    BY DEF Places
<1>3. ASSUME NEW m \in S, Before(m, Order[k]) PROVE FALSE
    <2>1. PICK i, j \in DOMAIN Order : i < j /\ Order[i] = m /\ Order[j] = Order[k]
        BY <1>3 DEF Before
    <2>2. j = k /\ i \in Places(S)
        BY <1>2, <2>1, SyncAssumption DEF Places
    <2>3. k \in Nat /\ i \in Nat /\ k <= i
        BY <1>1, <2>2, PlacesFound
    <2>4. QED
        BY <2>1, <2>2, <2>3
<1>4. QED
    BY <1>2, <1>3

\* An id that is offered is served from a node that offers it, and from one
\* that answered only if no silent one brought it.
LEMMA SourceFound ==
    ASSUME nodes \subseteq Nodes, NEW i \in UNION {Offers(n) : n \in nodes}
    PROVE  Source(i) \in nodes /\ i \in Offers(Source(i))
<1> DEFINE kept == {n \in Silent : i \in Offers(n)}
           now  == {n \in nodes \ Silent : i \in Offers(n)}
<1>1. kept \in SUBSET Nodes /\ now \in SUBSET Nodes
    BY DEF Silent
<1>2. Source(i) = IF kept # {} THEN CHOOSE n \in kept : \A m \in kept : ~ Before(n, m)
                  ELSE CHOOSE n \in now : \A m \in now : ~ Before(m, n)
    BY DEF Source
<1>3. kept # {} \/ now # {}
    OBVIOUS
<1>4. kept # {} => Source(i) \in kept
    <2> HIDE DEF kept, now
    <2>1. QED
        BY <1>1, <1>2, SomeLast
<1>5. kept = {} => Source(i) \in now
    <2> HIDE DEF kept, now
    <2>1. QED
        BY <1>1, <1>2, <1>3, SomeFirst
<1>6. QED
    BY <1>4, <1>5 DEF Silent

-----------------------------------------------------------------------------
(* Nothing a node brought is lost. What a composition establishes lasts    *)
(* until the next one: only a composition, the disk's copy and a restart   *)
(* touch the catalogue.                                                    *)

Kept ==
    /\ \A n \in shown :
          /\ good[n].ids \subseteq DOMAIN catalog
          /\ n \notin stale => Report[n][good[n].version] \subseteq DOMAIN catalog
    /\ \A i \in DOMAIN catalog : ~ catalog[i].trusted => catalog[i].node \in stale

LEMMA KeptImpliesNothingLost == Kept => NothingLost
BY DEF Kept, NothingLost

LEMMA ComposeKeeps ==
    ASSUME nodes \subseteq Nodes, Compose
    PROVE  Kept'
<1>1. /\ good' = [n \in Nodes |-> IF n \in nodes \ Silent THEN Heard(n) ELSE good[n]]
      /\ shown' = nodes /\ stale' = Silent
    BY DEF Compose
<1>2. PICK ids : ids = UNION {Offers(n) : n \in nodes}
    OBVIOUS
<1>3. catalog' = [i \in ids |-> Entry(Source(i), good'[Source(i)])]
    BY <1>2 DEF Compose
<1>4. \A n \in nodes : Offers(n) \subseteq ids
    BY <1>2
<1>5. DOMAIN catalog' = ids
    BY <1>3
<1>6. ASSUME NEW n \in nodes
      PROVE  /\ good'[n].ids \subseteq ids
             /\ n \notin Silent => Report[n][good'[n].version] \subseteq ids
    <2>1. CASE n \in Silent
        <3>1. good'[n] = good[n] /\ Offers(n) = good[n].ids
            BY <1>1, <2>1 DEF Silent, Offers
        <3>2. QED
            BY <1>4, <2>1, <3>1
    <2>2. CASE n \notin Silent
        <3>1. good'[n] = Heard(n)
            BY <1>1, <2>2
        <3>2. good'[n].ids = Fresh(n) /\ good'[n].version = ask[n].version
            BY <3>1 DEF Heard
        <3>3. Fresh(n) \subseteq Offers(n)
            BY DEF Fresh
        <3>4. Offers(n) = Report[n][ask[n].version]
            BY <2>2 DEF Silent, Offers
        <3>5. QED
            BY <1>4, <3>2, <3>3, <3>4
    <2>3. QED
        BY <2>1, <2>2
<1>7. ASSUME NEW i \in ids, ~ catalog'[i].trusted
      PROVE  catalog'[i].node \in Silent
    <2>1. Source(i) \in nodes
        BY <1>2, SourceFound
    <2>2. /\ catalog'[i].node = Source(i)
          /\ catalog'[i].trusted = good'[Source(i)].trusted
        BY <1>3 DEF Entry
    <2>3. ASSUME Source(i) \notin Silent PROVE FALSE
        <3>1. good'[Source(i)] = Heard(Source(i))
            BY <1>1, <2>1, <2>3
        <3>2. Heard(Source(i)).trusted = Trusted(Source(i))
            BY DEF Heard
        <3>3. Trusted(Source(i))
            BY <2>1 DEF Trusted
        <3>4. QED
            BY <1>7, <2>2, <3>1, <3>2, <3>3
    <2>4. QED
        BY <2>2, <2>3
<1>8. QED
    BY <1>1, <1>5, <1>6, <1>7 DEF Kept

\* All that is restored is of nodes that have not answered yet.
LEMMA RestoreKeeps ==
    ASSUME Kept, RestoreFromSnapshot
    PROVE  Kept'
<1>1. CASE UNCHANGED served
    BY <1>1 DEF Kept, served
<1>2. CASE ~ UNCHANGED served
    <2> DEFINE stored == {n \in Nodes : saved[n] # -1}
               last(n) == [ids |-> Report[n][saved[n]], version |-> saved[n],
                           trusted |-> Trusted(n)]
               from(i) == {n \in stored : i \in last(n).ids}
    <2>1. /\ good' = [n \in Nodes |-> IF n \in stored THEN last(n) ELSE good[n]]
          /\ catalog' \in
                {c \in [UNION {last(n).ids : n \in stored} ->
                          {Entry(n, last(n)) : n \in stored}] :
                   \A i \in DOMAIN c : c[i].node \in from(i)}
          /\ shown' = stored /\ stale' = stored
        BY <1>2 DEF RestoreFromSnapshot
    <2>2. DOMAIN catalog' = UNION {last(n).ids : n \in stored}
        BY <2>1
    <2>3. \A i \in DOMAIN catalog' : catalog'[i].node \in stored
        BY <2>1
    <2>4. \A n \in stored : good'[n].ids = last(n).ids
        BY <2>1
    <2>5. QED
        BY <2>1, <2>2, <2>3, <2>4 DEF Kept
<1>3. QED
    BY <1>1, <1>2

LEMMA KeptNext == StableInv /\ Kept /\ [Next]_vars => Kept'
<1> SUFFICES ASSUME StableInv, Kept, [Next]_vars PROVE Kept'
    OBVIOUS
<1>1. CASE Compose
    BY <1>1, ComposeKeeps DEF StableInv, Typed
<1>2. CASE RestoreFromSnapshot
    BY <1>2, RestoreKeeps
<1>3. CASE Restart
    <2>1. shown' = {} /\ catalog' = [i \in {} |-> {}]
        BY <1>3 DEF Restart, Started
    <2>2. QED
        BY <2>1 DEF Kept
<1>4. CASE UNCHANGED served
    BY <1>4 DEF served, Kept
<1>5. QED
    BY <1>1, <1>2, <1>3, <1>4
       DEF Next, Loop, Request, RefreshNodes, KeepNodes, SaveSnapshot, GoRound,
           Sleep, NoToken, Answer, Unreachable, NodeChanges, Outage, Recovery, vars

\* A node that does not answer takes nothing away (_sync, RM-98): what each
\* node on show last brought is in the catalogue, and an entry that is not
\* routed to is of a node that was silent.
THEOREM NothingIsLost == Spec => []NothingLost
<1>1. Init => Kept
    BY DEF Init, Kept
<1>2. QED
    BY <1>1, StableInit, StableNext, KeptNext, KeptImpliesNothingLost, PTL DEF Spec

-----------------------------------------------------------------------------
(* The loop does not spin. A cycle begins with every node asked; as long   *)
(* as nothing has come back, _held_last_request is what the last cycle     *)
(* left; what comes back says itself whether it was held.                  *)

AskingIsFetched == ~ fetched => ~ held /\ \A n \in Nodes : ask[n].is # "asking"

PaceInv ==
    /\ pc = "fetch" => (nodes = {} => excused)
    /\ pc = "fetch" /\ held /\ ~ waited /\ ~ excused =>
          \A n \in nodes : ask[n].is = "asking"
    /\ pc \in {"save", "pause"} /\ held => waited \/ excused
    /\ AskingIsFetched

LEMMA AskAllAsks ==
    ASSUME NEW listed, AskAll(listed)
    PROVE  \A n \in Nodes : n \in listed => ask'[n].is = "asking"
<1>1. \A b : Asking(b).is = "asking"
    BY DEF Asking
<1>2. ask' = [n \in Nodes |-> IF n \in listed THEN Asking(Blocks(n)) ELSE NotAsked]
    BY DEF AskAll
<1>3. QED
    BY <1>1, <1>2

LEMMA PaceNext == StableInv /\ PaceInv /\ [Next]_vars => PaceInv'
<1> SUFFICES ASSUME StableInv, PaceInv, [Next]_vars PROVE PaceInv'
    OBVIOUS
<1> USE DEF AskingIsFetched
<1>1. /\ nodes \subseteq Nodes /\ fleet \subseteq Nodes
      /\ ask \in [Nodes -> Queries]
    BY DEF StableInv, Typed
<1>2. NotAsked.is = "none" /\ Failed.is = "failed"
    BY DEF NotAsked, Failed
<1>3. CASE RefreshNodes
    <2>1. \A n \in nodes' : ask'[n].is = "asking"
        BY <1>1, <1>3, AskAllAsks DEF RefreshNodes
    <2>2. QED
        BY <1>3, <2>1 DEF RefreshNodes, PaceInv
<1>4. CASE KeepNodes
    <2>1. CASE fetched
        <3>1. AskAll(nodes) /\ UNCHANGED <<nodes, fetched>> /\ pc' = "fetch"
              /\ excused' = (nodes = {})
            BY <1>4, <2>1 DEF KeepNodes, known
        <3>2. \A n \in nodes : ask'[n].is = "asking"
            BY <1>1, <3>1, AskAllAsks
        <3>3. QED
            BY <2>1, <3>1, <3>2 DEF PaceInv
    <2>2. CASE ~ fetched
        BY <1>4, <2>2 DEF KeepNodes, known, PaceInv
    <2>3. QED
        BY <2>1, <2>2
<1>5. ASSUME NEW n \in Nodes, NoToken(n) PROVE PaceInv'
    <2>1. fetched
        BY <1>5 DEF NoToken, PaceInv
    <2>2. QED
        BY <1>5, <2>1 DEF NoToken, known, PaceInv
<1>6. ASSUME NEW n \in Nodes, Answer(n) PROVE PaceInv'
    <2>1. fetched
        BY <1>6 DEF Answer, PaceInv
    <2>2. held' => waited'
        BY <1>6 DEF Answer
    <2>3. UNCHANGED <<pc, nodes, fetched, excused>>
        BY <1>6 DEF Answer
    <2>4. QED
        BY <2>1, <2>2, <2>3 DEF PaceInv
<1>7. ASSUME NEW n \in Nodes, Unreachable(n) PROVE PaceInv'
    <2>1. fetched
        BY <1>7 DEF Unreachable, PaceInv
    <2>2. QED
        BY <1>7, <2>1 DEF Unreachable, PaceInv
<1>8. CASE Compose
    <2>1. /\ pc = "fetch" /\ \A n \in nodes : ask[n].is # "asking"
          /\ pc' \in {"save", "pause"}
          /\ ask' = [n \in Nodes |-> NotAsked]
          /\ UNCHANGED <<held, waited, excused, fetched>>
        BY <1>8 DEF Compose, known
    <2>2. held => waited \/ excused
        BY <2>1 DEF PaceInv
    <2>3. QED
        BY <1>2, <2>1, <2>2 DEF PaceInv
<1>9. CASE SaveSnapshot \/ RestoreFromSnapshot \/ GoRound \/ Sleep
    BY <1>9 DEF SaveSnapshot, RestoreFromSnapshot, GoRound, Sleep, known, cycle,
       PaceInv
<1>10. CASE NodeChanges \/ Outage \/ Recovery \/ UNCHANGED vars
    BY <1>10 DEF NodeChanges, Outage, Recovery, vars, known, cycle, PaceInv
<1>11. CASE Restart
    BY <1>2, <1>11 DEF Restart, Started, PaceInv
<1>12. QED
    BY <1>3, <1>4, <1>5, <1>6, <1>7, <1>8, <1>9, <1>10, <1>11
       DEF Next, Loop, Request

\* The loop goes round without sleeping only after a request that a node
\* held, or after a cycle that had no token or no node to ask (_poll_loop).
THEOREM LoopIsPaced == Spec => Paced
<1>1. Init => PaceInv
    BY DEF Init, PaceInv, AskingIsFetched, NotAsked
<1>2. PaceInv /\ [Next]_vars
        => [pc = "pause" /\ held /\ pc' = "refresh" /\ ~ booting' => waited \/ excused]_vars
    BY DEF PaceInv
<1>3. QED
    BY <1>1, <1>2, StableInit, StableNext, PaceNext, PTL DEF Spec, Paced
=============================================================================
