--------------------------- MODULE MCDataStructures ---------------------------
(***************************************************************************)
(* The containers and the graph algorithms of utils/DataStructures for     *)
(* TLC.  A behaviour is one of a single container, or one call of a single *)
(* algorithm, and everything else stays as it began.                       *)
(***************************************************************************)
EXTENDS GraphAlgorithms, FiniteSets, TLC

CONSTANTS
    Threads, ListNodes, Priorities, MaxLevel, Sentinel, Null  \* of Containers

VARIABLES
    use,
    lHead, lTail, lNext, lSize, lFree, lPc, lNode, lNear, lGot,
    sHead, sNext, sSize, sFree, sGone, sPc, sItem, sNear, sGot,
    pNext, pPriority, pLevel, pSize, pUsed, pGot

ASSUME ContainersAssumption ==
    /\ IsFiniteSet(ListNodes) /\ IsFiniteSet(Threads)
    /\ Priorities \subseteq Int /\ MaxLevel \in Nat \ {0}
    /\ Null \notin ListNodes /\ Sentinel \notin ListNodes \cup {Null}

Held == INSTANCE Containers WITH Nodes <- ListNodes

containerVars ==
    <<use, lHead, lTail, lNext, lSize, lFree, lPc, lNode, lNear, lGot,
      sHead, sNext, sSize, sFree, sGone, sPc, sItem, sNear, sGot,
      pNext, pPriority, pLevel, pSize, pUsed, pGot>>

\* Callers are alike, and so are the nodes of the containers.  No algorithm has
\* to do with either, so that the liveness property below is checked on all of
\* its behaviours.
Symmetry == Permutations(Threads) \cup Permutations(ListNodes)

StructuresInit ==
    \/ AlgorithmsInit /\ use = "none" /\ Held!Empty
    \/ call = "none" /\ NoSearch /\ NoLevels /\ NoPath /\ Held!Init

StructuresNext ==
    \/ use = "none" /\ AlgorithmsNext /\ UNCHANGED containerVars
    \/ call = "none" /\ Held!Next /\ UNCHANGED allVars

StructuresSpec ==
    /\ StructuresInit
    /\ [][StructuresNext]_<<allVars, containerVars>>
    /\ WF_allVars(AlgorithmsStep)
-------------------------------------------------------------------------------
\* Callers see a deque in IntrusiveList and LockFreeStack.
AreDeques == Held!AreDeques

\* LockFreePriorityQueue serves by descending priority, the newest first among
\* equals.
SkipListIsSorted == Held!SkipListIsSorted

\* Each level of the skip list is made of the nodes that are high enough, in the
\* order of level 0.
LevelsAgree == Held!LevelsAgree

\* Between operations size_ is the number of nodes, a list's tail its last node,
\* and no node that was put in and not taken is out of reach.
NoneLost == Held!NoneLost
===============================================================================
