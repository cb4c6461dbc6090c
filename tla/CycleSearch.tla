----------------------------- MODULE CycleSearch -----------------------------
(***************************************************************************)
(* utils::hasCycle: a depth-first search over a graph of tasks.  The       *)
(* recursion is a stack of calls, a call being a node and the neighbours   *)
(* it has still to look at.  Tasks and neighbours are visited in the order *)
(* of unordered containers, hence in any order.  A task that is no key of  *)
(* the map is a node without neighbours.                                   *)
(***************************************************************************)
EXTENDS Integers, Sequences

CONSTANT Nodes        \* task ids

VARIABLES
    graph,      \* the argument, the neighbours of each task
    states,     \* the local map states
    stack,      \* the calls of dfs under way, the innermost last
    result      \* what hasCycle returns

searchVars == <<graph, states, stack, result>>

State == {"UNVISITED", "IN_PROGRESS", "VISITED"}

Frame(n) == [node |-> n, rest |-> graph[n]]
Top == stack[Len(stack)]
Marked(n, s) == [states EXCEPT ![n] = s]

\* The call on top has done with neighbour m.
Advanced(m) == [stack EXCEPT ![Len(stack)].rest = @ \ {m}]
-------------------------------------------------------------------------------
\* The loop over the tasks calls dfs.
Enter(n) ==
    /\ result = "running"
    /\ stack = <<>>
    /\ states[n] = "UNVISITED"
    /\ states' = Marked(n, "IN_PROGRESS")
    /\ stack' = <<Frame(n)>>
    /\ UNCHANGED <<graph, result>>

\* The loop over the tasks is done.
Finish ==
    /\ result = "running"
    /\ stack = <<>>
    /\ \A n \in Nodes : states[n] # "UNVISITED"
    /\ result' = "acyclic"
    /\ UNCHANGED <<graph, states, stack>>

Running == result = "running" /\ stack # <<>>

\* A neighbour is in progress; every call returns true.
FoundSeen(m) ==
    /\ Running
    /\ m \in Top.rest
    /\ states[m] # "UNVISITED"
    /\ result' = "cycle"
    /\ stack' = <<>>
    /\ UNCHANGED <<graph, states>>
Found(m) ==
    /\ Running
    /\ m \in Top.rest
    /\ states[m] = "IN_PROGRESS"
    /\ result' = "cycle"
    /\ stack' = <<>>
    /\ UNCHANGED <<graph, states>>

SkipStuck(m) ==
    /\ Running
    /\ m \in Top.rest
    /\ states[m] = "VISITED"
    /\ UNCHANGED searchVars
Skip(m) ==
    /\ Running
    /\ m \in Top.rest
    /\ states[m] = "VISITED"
    /\ stack' = Advanced(m)
    /\ UNCHANGED <<graph, states, result>>

Descend(m) ==
    /\ Running
    /\ m \in Top.rest
    /\ states[m] = "UNVISITED"
    /\ states' = Marked(m, "IN_PROGRESS")
    /\ stack' = Append(Advanced(m), Frame(m))
    /\ UNCHANGED <<graph, result>>

Leave ==
    /\ Running
    /\ Top.rest = {}
    /\ states' = Marked(Top.node, "VISITED")
    /\ stack' = SubSeq(stack, 1, Len(stack) - 1)
    /\ UNCHANGED <<graph, result>>

-------------------------------------------------------------------------------
SearchInit ==
    /\ graph \in [Nodes -> SUBSET Nodes]
    /\ states = [n \in Nodes |-> "UNVISITED"]
    /\ stack = <<>>
    /\ result = "running"

Step ==
    \/ \E n \in Nodes : Enter(n) \/ Found(n) \/ Skip(n) \/ Descend(n)
    \/ Leave
    \/ Finish

\* The function has returned.
Returned == result # "running" /\ UNCHANGED searchVars

SearchNext == Step \/ Returned

SearchSpec == SearchInit /\ [][SearchNext]_searchVars
-------------------------------------------------------------------------------
(* Properties.                                                             *)

\* A graph has a cycle iff some nodes each have a neighbour among themselves.
Looping(S) == S # {} /\ \A s \in S : graph[s] \cap S # {}
Cyclic == \E S \in SUBSET Nodes : Looping(S)

\* hasCycle is right in both answers, in whatever order it visits the tasks.
AnswersRight ==
    /\ result = "cycle" => Cyclic
    /\ result = "acyclic" => ~Cyclic

-------------------------------------------------------------------------------
(* What the search relies on, the inductive invariant of the proof.        *)

SearchTypeOK ==
    /\ graph \in [Nodes -> SUBSET Nodes]
    /\ states \in [Nodes -> State]
    /\ stack \in Seq([node : Nodes, rest : SUBSET Nodes])
    /\ result \in {"running", "cycle", "acyclic"}

\* The calls under way are the nodes in progress, each once, and each call but
\* the last made the one that follows it.
StackIsPath ==
    result = "running" =>
        /\ \A n \in Nodes : states[n] = "IN_PROGRESS" <=>
              \E k \in 1..Len(stack) : stack[k].node = n
        /\ \A j, k \in 1..Len(stack) : stack[j].node = stack[k].node => j = k
        /\ \A k \in 1..(Len(stack) - 1) :
              stack[k + 1].node \in graph[stack[k].node]

\* A call has visited the neighbours that it no longer has to look at, but for
\* the one it is waiting for.
LookedAt ==
    result = "running" =>
        \A k \in 1..Len(stack) :
            /\ stack[k].rest \subseteq graph[stack[k].node]
            /\ \A m \in graph[stack[k].node] \ stack[k].rest :
                  \/ states[m] = "VISITED"
                  \/ k < Len(stack) /\ m = stack[k + 1].node

\* Nodes that have been visited lead to visited nodes only, and not in a circle.
VisitedClosed ==
    /\ \A n \in Nodes : states[n] = "VISITED" =>
          \A m \in graph[n] : states[m] = "VISITED"
    /\ \A S \in SUBSET Nodes :
          (\A s \in S : states[s] = "VISITED") => ~Looping(S)

SearchInv == SearchTypeOK /\ StackIsPath /\ LookedAt /\ VisitedClosed

===============================================================================
