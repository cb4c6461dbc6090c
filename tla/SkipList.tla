------------------------------- MODULE SkipList -------------------------------
(***************************************************************************)
(* LockFreePriorityQueue of utils/DataStructures, a skip list.  Its        *)
(* callers hold queue_mutex_, so an operation is one step; a node's level  *)
(* is a random number, hence any.  The loop over the levels in enqueue has *)
(* lost its header in the source; it is read as the loop from MAX_LEVEL    *)
(* down to 0 that the rest of the function needs.  A deleted node's fields  *)
(* are reset, so that states which differ in freed memory alone coincide.  *)
(***************************************************************************)
EXTENDS Integers, Sequences, FiniteSets

CONSTANTS
    Nodes,        \* list nodes; a node that was deleted may be used again
    Priorities,   \* the priorities enqueue is called with
    MaxLevel,     \* MAX_LEVEL
    head,         \* head_, the sentinel
    Null          \* nullptr

VARIABLES
    next,       \* Node::next, by level and node
    priority,   \* Node::priority
    level,      \* Node::level
    size,       \* size_
    used,       \* the nodes that are allocated
    got         \* what the last dequeue returned

vars == <<next, priority, level, size, used, got>>

Levels == 0..(MaxLevel - 1)

Unlinked == [i \in Levels |-> [m \in Nodes \cup {head} |-> Null]]

-------------------------------------------------------------------------------
\* Does enqueue walk past a node of priority q to place one of priority p?
PassesEqual(q, p) == q >= p
Passes(q, p) == q > p

\* The node on level i, from node n on, behind which priority p belongs.
Walk(i, n, p) ==
    LET w[m \in Nodes \cup {head}] ==
            IF next[i][m] # Null /\ Passes(priority[next[i][m]], p)
            THEN w[next[i][m]] ELSE m
    IN  w[n]

\* update[], found from the top level down; each level starts where the one
\* above it stopped.
Update(p) ==
    LET u[i \in Levels] ==
            Walk(i, IF i = MaxLevel - 1 THEN head ELSE u[i + 1], p)
    IN  u

\* The levels on which a node of level l is linked.
Linked(l) == 0..(l - 1)

enqueue(n, p, l) ==
    LET update == Update(p)
    IN  /\ n \notin used
        /\ next' = [i \in Levels |->
                       IF i \in Linked(l)
                       THEN [next[i] EXCEPT ![n] = next[i][update[i]],
                                            ![update[i]] = n]
                       ELSE [next[i] EXCEPT ![n] = Null]]
        /\ priority' = [priority EXCEPT ![n] = p]
        /\ level'    = [level EXCEPT ![n] = l]
        /\ size'     = size + 1
        /\ used'     = used \cup {n}
        /\ UNCHANGED got

First == next[0][head]

\* The first node is unlinked on each of its levels.  Were it not the first on
\* one of them the exchange would fail for ever: the step is not enabled then.
UnlinkLevelsShort(n) == 0..0
UnlinkLevels(n) == 0..(level[n] - 1)
dequeue ==
    /\ First # Null
    /\ \A i \in 0..(level[First] - 1) : next[i][head] = First
    /\ next' = [i \in Levels |->
                   IF i \in UnlinkLevels(First)
                   THEN [next[i] EXCEPT ![head] = next[i][First], ![First] = Null]
                   ELSE next[i]]
    /\ got'  = First
    /\ size' = size - 1
    /\ used' = used \ {First}
    /\ priority' = [priority EXCEPT ![First] = 0]
    /\ level'    = [level EXCEPT ![First] = 1]

dequeueNone ==
    /\ First = Null
    /\ got' = Null
    /\ UNCHANGED <<next, priority, level, size, used>>

clear ==
    /\ next'     = Unlinked
    /\ priority' = [n \in Nodes |-> 0]
    /\ level'    = [n \in Nodes |-> 1]
    /\ size' = 0
    /\ used' = {}
    /\ UNCHANGED got

-------------------------------------------------------------------------------
Init ==
    /\ next     = Unlinked
    /\ priority = [n \in Nodes |-> 0]
    /\ level    = [n \in Nodes |-> 1]
    /\ size = 0
    /\ used = {}
    /\ got = Null

Next ==
    \/ \E n \in Nodes, p \in Priorities, l \in 1..MaxLevel : enqueue(n, p, l)
    \/ dequeue
    \/ dequeueNone
    \/ clear

Spec == Init /\ [][Next]_vars

-------------------------------------------------------------------------------
(* Properties.                                                             *)

\* The nodes of level i in order.
Hop(i) ==
    LET h[k \in 0..Cardinality(Nodes)] ==
            IF k = 0 THEN next[i][head]
            ELSE IF h[k - 1] = Null THEN Null ELSE next[i][h[k - 1]]
    IN  h
Chain(i) ==
    LET h == Hop(i)
        reached == {k \in DOMAIN h : h[k] # Null}
    IN  [k \in 1..Cardinality(reached) |-> h[k - 1]]

\* Each level is made of the nodes that are high enough, in the order of level 0:
\* what dequeue relies on when it takes the first node out of all its levels.
LevelsAgree ==
    \A i \in Levels :
        Chain(i) = SelectSeq(Chain(0), LAMBDA n : level[n] > i)

\* size() is the number of nodes, and none is lost or linked after its delete.
SizeIsLength ==
    /\ size = Len(Chain(0))
    /\ used = {Chain(0)[k] : k \in 1..Len(Chain(0))}

\* The queue keeps the order of its specification.
Sorted == INSTANCE PriorityList
          WITH items <- [k \in 1..Len(Chain(0)) |->
                            <<Chain(0)[k], priority[Chain(0)[k]]>>]
RefinesPriorityList == Sorted!Spec

===============================================================================
