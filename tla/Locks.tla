--------------------------------- MODULE Locks --------------------------------
(***************************************************************************)
(* The std::shared_mutexes that CLICommands, QueueManager, TaskGraph and   *)
(* Storage lock, one inside the other.  An operation is the sequence of    *)
(* its lock and unlock calls; scoped locks are released in reverse order.  *)
(* Which operation a thread calls, and when it runs, is open.              *)
(* What a thread that asks for a shared lock does while another one waits  *)
(* for the exclusive one is left open by C++: policy is either "reader",   *)
(* where it gets the lock, or "writer", where it waits.                    *)
(***************************************************************************)
EXTENDS Integers, Sequences, FiniteSets, Functions

CONSTANTS
    Lockers,
    Policies     \* the values of policy to try

ASSUME PoliciesAssumption == Policies \subseteq {"reader", "writer"} /\ Policies # {}

VARIABLES
    policy,
    todo,        \* the lock and unlock calls each thread has yet to make
    held,        \* the locks it holds, the latest one first
    announced    \* it waits for an exclusive lock

lockVars == <<policy, todo, held, announced>>

Shared(m) == <<"shared", m>>
Unique(m) == <<"unique", m>>
Unlock    == <<"unlock", "">>
Scope(l, body) == <<l>> \o body \o <<Unlock>>
-------------------------------------------------------------------------------
(* QueueManager and its TaskGraph.  Its mutexes are "task", "queue" and    *)
(* "config"; that of the graph is "graph".                                 *)

qmFindTask == Scope(Shared("task"), <<>>)
qmEnqueueNested ==
    Scope(Unique("task"), Scope(Unique("queue"), <<>>))
qmEnqueue  == Scope(Unique("task"), <<>>) \o Scope(Unique("queue"), <<>>)
qmDequeue  == Scope(Unique("queue"), <<>>)
qmPeek     == Scope(Shared("queue"), <<>>)
qmClear    == Scope(Unique("queue"), Scope(Unique("task"), <<>>))
qmCancelTask == Scope(Unique("task"), <<>>)
qmAddDependency ==
    Scope(Unique("graph"), <<>>) \o Scope(Shared("task"), qmFindTask \o qmFindTask)
qmRemoveDependency == Scope(Unique("graph"), <<>>)
qmAreDependenciesMet ==
    Scope(Shared("graph"), <<>>) \o Scope(Shared("task"), qmFindTask)
qmGenerateDependencyGraph ==
    Scope(Shared("task"), Scope(Shared("graph"), <<>>) \o qmFindTask)
qmGetCriticalPath == Scope(Shared("task"), Scope(Shared("graph"), <<>>))
qmSetMode  == Scope(Unique("config"), Scope(Unique("queue"), <<>>))
-------------------------------------------------------------------------------
(* CLICommands, whose own mutexes are "cli_task", "cli_config" and         *)
(* "cli_graph", over QueueManager and a Storage.                           *)

store == Scope(Unique("storage"), <<>>)

cmdEnqueue == Scope(Shared("cli_config"), Scope(Unique("cli_task"), qmEnqueue \o store))
cmdDequeue == Scope(Shared("cli_task"), qmDequeue)
cmdRun     == Scope(Unique("cli_task"), qmFindTask) \o Scope(Unique("cli_task"), store)
cmdCancel  == qmCancelTask \o store
cmdEdit    == qmFindTask \o store
cmdList    == Scope(Shared("cli_task"), Scope(Shared("storage"), <<>>))
cmdSetMode == Scope(Unique("cli_config"), qmSetMode)
cmdDepend  == Scope(Unique("cli_graph"), qmFindTask \o qmFindTask \o store)
cmdImport  == store \o qmEnqueue

Operations ==
    {cmdEnqueue, cmdDequeue, cmdRun, cmdCancel, cmdEdit, cmdList, cmdSetMode,
     cmdDepend, cmdImport, qmDequeue, qmPeek, qmClear, qmAddDependency,
     qmRemoveDependency, qmAreDependenciesMet, qmGenerateDependencyGraph,
     qmGetCriticalPath}
-------------------------------------------------------------------------------
Holds(th, l)     == l \in Range(held[th])
HoldsAny(th, m)  == Holds(th, Shared(m)) \/ Holds(th, Unique(m))

\* th waits for the exclusive lock of m.
Awaits(th, m) == announced[th] /\ Head(todo[th]) = Unique(m)

CanLock(th, l) ==
    CASE l[1] = "unique" ->
            announced[th] /\ \A u \in Lockers : ~HoldsAny(u, l[2])
      [] l[1] = "shared" ->
            /\ \A u \in Lockers : ~Holds(u, Unique(l[2]))
            /\ policy = "writer" => \A u \in Lockers : ~Awaits(u, l[2])
      [] OTHER -> FALSE

Busy == {th \in Lockers : todo[th] # <<>>}

Call(th, o) ==
    /\ th \notin Busy
    /\ todo' = [todo EXCEPT ![th] = o]
    /\ UNCHANGED <<policy, held, announced>>

Announce(th) ==
    /\ th \in Busy /\ ~announced[th]
    /\ Head(todo[th])[1] = "unique"
    /\ announced' = [announced EXCEPT ![th] = TRUE]
    /\ UNCHANGED <<policy, todo, held>>

Lock(th) ==
    /\ th \in Busy
    /\ CanLock(th, Head(todo[th]))
    /\ held' = [held EXCEPT ![th] = <<Head(todo[th])>> \o @]
    /\ todo' = [todo EXCEPT ![th] = Tail(@)]
    /\ announced' = [announced EXCEPT ![th] = FALSE]
    /\ UNCHANGED policy

Release(th) ==
    /\ th \in Busy
    /\ Head(todo[th]) = Unlock
    /\ held' = [held EXCEPT ![th] = Tail(@)]
    /\ todo' = [todo EXCEPT ![th] = Tail(@)]
    /\ UNCHANGED <<policy, announced>>

LockInit ==
    /\ policy \in Policies
    /\ todo = [th \in Lockers |-> <<>>]
    /\ held = [th \in Lockers |-> <<>>]
    /\ announced = [th \in Lockers |-> FALSE]

LockNext == \E th \in Lockers :
    Announce(th) \/ Lock(th) \/ Release(th) \/ \E o \in Operations : Call(th, o)

LockSpec == LockInit /\ [][LockNext]_lockVars
-------------------------------------------------------------------------------
\* A thread that asks for a shared lock it already has.
Relocks(th) ==
    LET l == Head(todo[th]) IN l[1] = "shared" /\ HoldsAny(th, l[2])

Moves(th) ==
    LET l == Head(todo[th])
    IN  l = Unlock \/ CanLock(th, l) \/ (l[1] = "unique" /\ ~announced[th])

\* The order in which the mutexes are locked.
Order == <<"cli_config", "cli_graph", "cli_task", "config", "queue", "task",
           "graph", "storage">>
Before(m, n) == \E i, j \in DOMAIN Order : i < j /\ Order[i] = m /\ Order[j] = n

\* The threads inside operations never all wait for each other, with one
\* exception: a writer-preferring mutex that a thread locks shared a second time
\* (addDependency, areDependenciesMet and generateDependencyGraph call findTask
\* with task_mutex_ held) while another thread waits for it.  Apart from these,
\* a thread locks a mutex only after all those it holds in the order above, so
\* that no number of threads can wait in a cycle.
DeadlockOnlyByRelock ==
    /\ (\A th \in Busy : ~Moves(th)) =>
          Busy = {} \/ (policy = "writer" /\ \E th \in Busy : Relocks(th))
    /\ \A th \in Busy : \/ Head(todo[th]) = Unlock
                        \/ Relocks(th)
                        \/ \A l \in Range(held[th]) : Before(l[2], Head(todo[th])[2])
===============================================================================
