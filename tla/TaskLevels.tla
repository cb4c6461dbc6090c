------------------------------ MODULE TaskLevels ------------------------------
(***************************************************************************)
(* utils::calculateTaskLevels: a memoising recursion over a graph of tasks *)
(* as a stack of calls of calcLevel, in any order of visits.  The graphs   *)
(* have no cycle: on one that has, calcLevel calls itself without end.     *)
(***************************************************************************)
EXTENDS Integers, Sequences, FiniteSetsExt

CONSTANTS
    Nodes,      \* task ids
    None        \* no level yet

VARIABLES
    graph,      \* the argument, the dependencies of each task
    levels,     \* the local map levels
    stack       \* the calls of calcLevel under way, the innermost last

vars == <<graph, levels, stack>>

Acyclic(g) ==
    \A S \in SUBSET Nodes \ {{}} : \E s \in S : g[s] \cap S = {}

Call(n) == [node |-> n, rest |-> graph[n], maxLevel |-> -1]
Top == stack[Len(stack)]

\* std::max(maxLevel, calcLevel(m)), with m's level known.
RaisedLast(m) == levels[m]
Raised(m) == Max({Top.maxLevel, levels[m]})
-------------------------------------------------------------------------------
\* The loop over the tasks; a task whose level is known returns at once.
Enter(n) ==
    /\ stack = <<>>
    /\ levels[n] = None
    /\ stack' = <<Call(n)>>
    /\ UNCHANGED <<graph, levels>>

\* The loop over the dependencies: m's level is known, or has to be found.
Use(m) ==
    /\ stack # <<>>
    /\ m \in Top.rest
    /\ levels[m] # None
    /\ stack' = [stack EXCEPT ![Len(stack)] =
                    [@ EXCEPT !.rest = @ \ {m}, !.maxLevel = Raised(m)]]
    /\ UNCHANGED <<graph, levels>>

Descend(m) ==
    /\ stack # <<>>
    /\ m \in Top.rest
    /\ levels[m] = None
    /\ stack' = Append(stack, Call(m))
    /\ UNCHANGED <<graph, levels>>

\* A leaf gets level 0, as maxLevel + 1 does.
Leave ==
    /\ stack # <<>>
    /\ Top.rest = {}
    /\ levels' = [levels EXCEPT ![Top.node] = Top.maxLevel + 1]
    /\ stack' = SubSeq(stack, 1, Len(stack) - 1)
    /\ UNCHANGED graph

Init ==
    /\ graph \in {g \in [Nodes -> SUBSET Nodes] : Acyclic(g)}
    /\ levels = [n \in Nodes |-> None]
    /\ stack = <<>>

Step ==
    \/ \E n \in Nodes : Enter(n) \/ Use(n) \/ Descend(n)
    \/ Leave

Done == stack = <<>> /\ \A n \in Nodes : levels[n] # None

Next == Step \/ (Done /\ UNCHANGED vars)

Spec == Init /\ [][Next]_vars
-------------------------------------------------------------------------------
(* Properties.                                                             *)

\* The length of the longest chain of dependencies below a task.
Height ==
    LET h[n \in Nodes] ==
            IF graph[n] = {} THEN 0 ELSE 1 + Max({h[m] : m \in graph[n]})
    IN  h

\* A level, once known, is the length of the longest chain of dependencies.
LevelsRight == \A n \in Nodes : levels[n] \in {None, Height[n]}

===============================================================================
