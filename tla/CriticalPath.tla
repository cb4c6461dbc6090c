----------------------------- MODULE CriticalPath -----------------------------
(***************************************************************************)
(* utils::findCriticalPath on the graph below a root task, as              *)
(* QueueManager::getCriticalPath calls it: a topological sort, one pass    *)
(* over the reversed order, and the path read back from the parents.  Maps *)
(* and sets are unordered, so ties are broken in any way.  On a graph with *)
(* a cycle hasCycle, the module CycleSearch, makes it return no path.      *)
(***************************************************************************)
EXTENDS Integers, SequencesExt, FiniteSetsExt

CONSTANTS
    Tasks,      \* task ids, numbered so that dependencies have greater ones
    None        \* no parent

VARIABLES
    graph,      \* the argument: the tasks below the root, and their dependencies
    inDegree,   \* the local map inDegree
    queue,      \* the local vector queue
    order,      \* topologicalOrder
    done,       \* how many tasks of the reversed order are relaxed
    distance,   \* the local map distance
    parent,     \* the local map parent
    path        \* what findCriticalPath returns

vars == <<graph, inDegree, queue, order, done, distance, parent, path>>

InGraph == DOMAIN graph

\* getSubgraph: what is reached from the root, each with its dependencies.
Reached(g, r) ==
    LET below[n \in Tasks] == {n} \cup UNION {below[m] : m \in g[n]}
    IN  below[r]
getSubgraph(g, r) == [n \in Reached(g, r) |-> g[n]]

Incoming(n) == Cardinality({m \in InGraph : n \in graph[m]})
-------------------------------------------------------------------------------
\* queue.back(), and its neighbours whose last edge it was, in any order.
Sort ==
    /\ queue # <<>>
    /\ LET current == Last(queue)
           free    == {m \in graph[current] : inDegree[m] = 1}
       IN  /\ inDegree' = [m \in InGraph |->
                              inDegree[m] - (IF m \in graph[current] THEN 1 ELSE 0)]
           /\ order' = Append(order, current)
           /\ \E s \in SetToSeqs(free) : queue' = Front(queue) \o s
    /\ UNCHANGED <<graph, done, distance, parent, path>>

Sorted == queue = <<>> /\ Len(order) = Cardinality(InGraph)

\* The next task of the reversed order gives its dependencies a distance.
Relaxed == order[Len(order) - done]
Relaxes(m) == distance[m] < distance[Relaxed] + 1
Relax ==
    /\ Sorted
    /\ done < Len(order)
    /\ LET better == {m \in graph[Relaxed] : Relaxes(m)}
       IN  /\ distance' = [m \in InGraph |->
                              IF m \in better THEN distance[Relaxed] + 1 ELSE distance[m]]
           /\ parent' = [m \in InGraph |-> IF m \in better THEN Relaxed ELSE parent[m]]
    /\ done' = done + 1
    /\ UNCHANGED <<graph, inDegree, queue, order, path>>

\* The first of the reversed order, or a task at a greater distance.
EndNodes ==
    LET first == Last(order)
        far   == Max({distance[n] : n \in InGraph})
    IN  IF distance[first] = far THEN {first} ELSE {n \in InGraph : distance[n] = far}

\* The path to n along the parents.
PathBackwards(n) ==
    LET p[m \in InGraph] == IF parent[m] = None THEN <<m>> ELSE <<m>> \o p[parent[m]]
    IN  p[n]
PathTo(n) ==
    LET p[m \in InGraph] == IF parent[m] = None THEN <<m>> ELSE Append(p[parent[m]], m)
    IN  p[n]

Return ==
    /\ Sorted
    /\ done = Len(order)
    /\ path = <<>>
    /\ \E n \in EndNodes : path' = PathTo(n)
    /\ UNCHANGED <<graph, inDegree, queue, order, done, distance, parent>>

-------------------------------------------------------------------------------
Init ==
    /\ \E E \in SUBSET {e \in Tasks \X Tasks : e[1] < e[2]}, r \in Tasks :
          graph = getSubgraph([n \in Tasks |-> {m \in Tasks : <<n, m>> \in E}], r)
    /\ inDegree = [n \in InGraph |-> Incoming(n)]
    /\ queue \in SetToSeqs({n \in InGraph : Incoming(n) = 0})
    /\ order = <<>>
    /\ done = 0
    /\ distance = [n \in InGraph |-> 0]
    /\ parent = [n \in InGraph |-> None]
    /\ path = <<>>

Step == Sort \/ Relax \/ Return

Next == Step \/ (path # <<>> /\ UNCHANGED vars)

Spec == Init /\ [][Next]_vars
-------------------------------------------------------------------------------
(* Properties.                                                             *)

IsPath(p) == \A k \in 1..(Len(p) - 1) : p[k + 1] \in graph[p[k]]

\* What findCriticalPath returns is a chain of dependencies that begins at the root and ends at a
\* task without dependencies: no part of it is cut off.
PathIsWhole ==
    path # <<>> =>
        /\ IsPath(path)
        /\ Incoming(path[1]) = 0
        /\ graph[Last(path)] = {}

\* The length of the longest chain of dependencies from a task.
Height ==
    LET h[n \in InGraph] ==
            IF graph[n] = {} THEN 1 ELSE 1 + Max({h[m] : m \in graph[n]})
    IN  h

\* DataStructures.cpp, "Parent in longest path": the path read back from the
\* parents is the longest one.
PathIsLongest == path # <<>> => Len(path) = Max({Height[n] : n \in InGraph})

===============================================================================
