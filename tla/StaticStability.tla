--------------------------- MODULE StaticStability ---------------------------
(***************************************************************************)
(* What manager_sync.py promises of the catalogue the gateway serves, node *)
(* by node: it is something the node has said, it only ever moves forward, *)
(* a node is forgotten only when the fleet's list leaves it out, and what  *)
(* a restart falls back to is what was saved. No failure appears here:     *)
(* that is the promise.                                                    *)
(***************************************************************************)
EXTENDS Integers

CONSTANTS Nodes, MaxVersion

Unheard == -1

VARIABLES
    truth,      \* per node: the version of its registry
    heard,      \* per node the gateway lists: the version it serves
    saved       \* per node: the version on disk

stabilityVars == <<truth, heard, saved>>

Versions == Unheard .. MaxVersion

Init ==
    /\ truth = [n \in Nodes |-> 0]
    /\ heard = [n \in {} |-> Unheard]
    /\ saved = [n \in Nodes |-> Unheard]

\* A model is registered, started, stopped or retired at a node.
NodeChanges ==
    /\ \E n \in Nodes : truth' = [truth EXCEPT ![n] = @ + 1]
    /\ UNCHANGED <<heard, saved>>

Known(n) == IF n \in DOMAIN heard THEN heard[n] ELSE Unheard

\* The catalogue moves to another list of nodes and to newer versions: what is
\* already served of a node that stays listed is never lost or set back.
Learns ==
    /\ \E listed \in SUBSET Nodes :
          /\ heard' \in [listed -> Versions]
          /\ \A n \in listed : heard'[n] \in Known(n) .. truth[n]
    /\ UNCHANGED <<truth, saved>>

\* The disk copy moves forward too. It may lose a node that nothing has been
\* heard of since the restart, and no other.
Saves ==
    /\ saved' \in [Nodes -> Versions]
    /\ \A n \in Nodes :
          \/ saved'[n] \in saved[n] .. truth[n]
          \/ saved'[n] = Unheard /\ Known(n) = Unheard
    /\ UNCHANGED <<truth, heard>>

Restarts ==
    /\ heard' = [n \in {} |-> Unheard]
    /\ UNCHANGED <<truth, saved>>

Next == NodeChanges \/ Learns \/ Saves \/ Restarts

Spec == Init /\ [][Next]_stabilityVars
=============================================================================
