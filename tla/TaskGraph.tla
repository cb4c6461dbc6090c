------------------------------ MODULE TaskGraph ------------------------------
(***************************************************************************)
(* utils::TaskGraph, which records dependencies in both directions under   *)
(* one mutex, and the operations of QueueManager and Task around it: a     *)
(* task also keeps a list of its own, and areDependenciesMet reads the     *)
(* graph, lets go of its mutex and then looks at the tasks one by one.     *)
(***************************************************************************)
EXTENDS Integers, FiniteSets

CONSTANTS
    TaskIds,    \* task ids
    Clients     \* callers of QueueManager

VARIABLES
    dependencies,   \* TaskGraph::dependencies_, an entry per task that was named
    dependents,     \* TaskGraph::dependents_
    removed,        \* the tasks removeTask was called with
    own,            \* Task::dependencies_ of each task
    task_map,       \* the tasks QueueManager knows
    completed,      \* the tasks whose status is COMPLETED
    at,             \* where each caller is
    asked,          \* the arguments of its call
    todo,           \* the dependencies areDependenciesMet has still to look at
    met             \* the ones it has found completed

maps      == <<dependencies, dependents>>
taskVars  == <<own, task_map, completed>>
callVars  == <<at, asked, todo, met>>
graphVars == <<maps, removed, taskVars, callVars>>

\* What a lookup of t finds.
Lookup(f, t) == IF t \in DOMAIN f THEN f[t] ELSE {}
With(f, t, S) == [u \in DOMAIN f \cup {t} |-> IF u = t THEN S ELSE f[u]]
Changed(f, t, S) == [u \in DOMAIN f |-> IF u = t THEN S ELSE f[u]]
Without(f, t) == [u \in DOMAIN f \ {t} |-> f[u]]
-------------------------------------------------------------------------------
(* TaskGraph.                                                              *)

addDependency(t, d) ==
    /\ dependencies' = With(dependencies, t, Lookup(dependencies, t) \cup {d})
    /\ dependents'   = With(dependents, d, Lookup(dependents, d) \cup {t})
    /\ UNCHANGED removed

removeDependency(t, d) ==
    /\ dependencies' = Changed(dependencies, t, Lookup(dependencies, t) \ {d})
    /\ dependents'   = Changed(dependents, d, Lookup(dependents, d) \ {t})
    /\ UNCHANGED removed

\* The entries of t go, and t as a dependency; t stays in the dependents_ of
\* the tasks it depended on.
removeTaskEntries(t) ==
    /\ dependencies' = Without(dependencies, t)
    /\ dependents'   = Without(dependents, t)
    /\ removed' = removed \cup {t}
    /\ UNCHANGED <<taskVars, callVars>>
removeTask(t) ==
    /\ dependencies' = [u \in DOMAIN dependencies \ {t} |-> dependencies[u] \ {t}]
    /\ dependents'   = Without(dependents, t)
    /\ removed' = removed \cup {t}
    /\ UNCHANGED <<taskVars, callVars>>

getDependencies(t) == Lookup(dependencies, t)
-------------------------------------------------------------------------------
(* QueueManager and the command depend.                                    *)

Free(th) == at[th] = "idle"

\* addDependency: the graph first, then, under task_mutex_, the task's list.
AddGraph(th, t, d) ==
    /\ Free(th)
    /\ addDependency(t, d)
    /\ at' = [at EXCEPT ![th] = "add_own"]
    /\ asked' = [asked EXCEPT ![th] = <<t, d>>]
    /\ UNCHANGED <<taskVars, todo, met>>

AddOwn(th) ==
    LET t == asked[th][1]
        d == asked[th][2]
    IN  /\ at[th] = "add_own"
        /\ own' = [own EXCEPT ![t] = IF {t, d} \subseteq task_map THEN @ \cup {d} ELSE @]
        /\ at' = [at EXCEPT ![th] = "idle"]
        /\ asked' = [asked EXCEPT ![th] = <<>>]
        /\ UNCHANGED <<maps, removed, task_map, completed, todo, met>>

RemoveDependency(th, t, d) ==
    /\ Free(th)
    /\ removeDependency(t, d)
    /\ UNCHANGED <<taskVars, callVars>>

\* The command depend adds to the task's list only.
Depend(th, t, d) ==
    /\ Free(th)
    /\ {t, d} \subseteq task_map
    /\ own' = [own EXCEPT ![t] = @ \cup {d}]
    /\ UNCHANGED <<maps, removed, task_map, completed, callVars>>

\* areDependenciesMet: a copy of the dependencies, then task_mutex_, shared.
MetRead(th, t) ==
    LET deps == getDependencies(t)
    IN  /\ Free(th)
        /\ todo' = [todo EXCEPT ![th] = deps]
        /\ met'  = [met EXCEPT ![th] = {}]
        /\ at'   = [at EXCEPT ![th] = IF deps = {} THEN "true" ELSE "scan"]
        /\ UNCHANGED <<maps, removed, taskVars, asked>>

MetLook(th, d) ==
    /\ at[th] = "scan"
    /\ d \in todo[th]
    /\ \/ /\ d \in task_map \cap completed
          /\ todo' = [todo EXCEPT ![th] = @ \ {d}]
          /\ met'  = [met EXCEPT ![th] = @ \cup {d}]
          /\ at'   = [at EXCEPT ![th] = IF todo[th] = {d} THEN "true" ELSE "scan"]
       \/ /\ d \notin task_map \cap completed
          /\ at' = [at EXCEPT ![th] = "false"]
          /\ UNCHANGED <<todo, met>>
    /\ UNCHANGED <<maps, removed, taskVars, asked>>

\* The answer is given and task_mutex_ released.
MetReturn(th) ==
    /\ at[th] \in {"true", "false"}
    /\ at' = [at EXCEPT ![th] = "idle"]
    /\ todo' = [todo EXCEPT ![th] = {}]
    /\ met' = [met EXCEPT ![th] = {}]
    /\ UNCHANGED <<maps, removed, taskVars, asked>>

\* Nobody is in the part of areDependenciesMet that holds task_mutex_, once it
\* has looked at a task.
TaskMutexIgnored == TRUE
TaskMutexFree == \A th \in Clients : met[th] = {}

\* enqueue registers a task, clear and cancelTask forget it.
Register(t) ==
    /\ TaskMutexFree
    /\ task_map' = task_map \cup {t}
    /\ UNCHANGED <<maps, removed, own, completed, callVars>>

Forget(S) ==
    /\ TaskMutexFree
    /\ task_map' = task_map \ S
    /\ UNCHANGED <<maps, removed, own, completed, callVars>>

\* A worker executes a task it dequeued, whatever that depends on.
Execute(t) ==
    /\ t \in task_map
    /\ completed' = completed \cup {t}
    /\ UNCHANGED <<maps, removed, own, task_map, callVars>>

-------------------------------------------------------------------------------
GraphInit ==
    /\ dependencies = [t \in {} |-> {}]
    /\ dependents = [t \in {} |-> {}]
    /\ removed = {}
    /\ own = [t \in TaskIds |-> {}]
    /\ task_map = {}
    /\ completed = {}
    /\ at = [th \in Clients |-> "idle"]
    /\ asked = [th \in Clients |-> <<>>]
    /\ todo = [th \in Clients |-> {}]
    /\ met = [th \in Clients |-> {}]

Caller(th) ==
    \/ AddOwn(th)
    \/ MetReturn(th)
    \/ \E t \in TaskIds : MetRead(th, t) \/ MetLook(th, t)
    \/ \E t, d \in TaskIds : AddGraph(th, t, d) \/ RemoveDependency(th, t, d) \/ Depend(th, t, d)

Others ==
    \/ \E t \in TaskIds : Register(t) \/ Forget({t}) \/ Execute(t)
    \/ Forget(TaskIds)

GraphNext ==
    \/ \E th \in Clients : Caller(th)
    \/ Others
    \/ \E t \in TaskIds : removeTask(t)

GraphSpec == GraphInit /\ [][GraphNext]_graphVars
-------------------------------------------------------------------------------
(* Properties.                                                             *)

\* getDependents finds every task that depends on a given one, and names no other
\* task, after any sequence of additions and removals; except that a task
\* removeTask was called with may go on being named.
DependentsAgree ==
    \A t, d \in TaskIds :
        /\ d \in Lookup(dependencies, t) => t \in Lookup(dependents, d)
        /\ t \in Lookup(dependents, d) =>
              d \in Lookup(dependencies, t) \/ t \in removed

\* An answer true of areDependenciesMet speaks of one moment: everything it has
\* found completed is still known and completed when it answers.
AnswerIsCurrent ==
    \A th \in Clients : at[th] \in {"scan", "true"} => met[th] \subseteq task_map \cap completed

\* README.md, "Support for complex task graphs and workflows": no task is
\* executed before the tasks it depends on.
WorkflowOrder ==
    [][\A t \in completed' \ completed :
          own[t] \cup getDependencies(t) \subseteq completed]_graphVars

===============================================================================
