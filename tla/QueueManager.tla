----------------------------- MODULE QueueManager -----------------------------
(***************************************************************************)
(* The queue manager of TaskQueueX (core/QueueManager): the threads of the *)
(* network workers and of the thread pool call enqueue, dequeue, peek,     *)
(* cancelTask, clear and setMode on one shared object.                     *)
(*                                                                         *)
(* A step is a critical section, or one access to an atomic made outside   *)
(* one.  What queue_mutex_ protects (mode_, the containers, group_names_,  *)
(* current_group_index_) changes in a single step; so does task_map_ under *)
(* task_mutex_, except that cancelTask keeps that mutex over its accesses  *)
(* to the task's status.  The counters move in steps of their own, since   *)
(* the code moves them after it has released its mutexes.                  *)
(*                                                                         *)
(* Definitions named after a slip (IncForgotten, SlotInFront, ...) are     *)
(* faulty variants of the definition that follows them.  No action uses    *)
(* them: they show, one by one, that the properties notice the slip.       *)
(***************************************************************************)
EXTENDS Integers, Sequences, FiniteSets, Functions

CONSTANTS
    Threads,    \* the threads that call the manager
    Tasks,      \* the Task objects the callers construct, one per enqueue
    Groups,     \* group names, strings: "" is a name a client may give
    Modes,      \* the modes setMode is called with
    Ids,        \* task identifiers
    Id,         \* Task::id_ of each task
    Priority,   \* Task::priority_ of each task, as an int
    Imported,   \* tasks whose JSON file gave them the status QUEUED
    NoTask,     \* nullptr
    NoGroup,    \* the group of a thread that is not inside enqueue
    MaxSize,    \* the largest size_t
    IntMin,     \* numeric_limits<int>::min()
    MaxPeeks    \* bound on the calls of peek

VARIABLES
    mode, queues, group_names, current_group_index,  \* queue_mutex_
    task_map,                                        \* task_mutex_
    status,                                          \* Task::status_
    total_tasks, enqueue_count, dequeue_count,       \* atomics
    peek_count, cancel_count,
    op, arg, grp,    \* where each thread is, and the task and group it carries
    fresh,           \* tasks not yet handed to enqueue
    arrived,         \* tasks in the order in which they entered a container
    delivered,       \* tasks that a dequeue has taken
    leaked           \* tasks of which a TaskNode was dropped without delete

queueVars == <<mode, queues, group_names, current_group_index>>
counters  == <<enqueue_count, dequeue_count, peek_count, cancel_count>>
history   == <<fresh, arrived, delivered, leaked>>
vars == <<queueVars, task_map, status, total_tasks, counters, op, arg, grp,
          history>>

AllModes   == {"FIFO", "LIFO", "ROUND_ROBIN", "PRIORITY"}
Containers == {"fifo", "lifo", "priority"}

TaskStatus == {"CREATED", "QUEUED", "RUNNING", "COMPLETED", "FAILED",
               "CANCELLED"}

\* What a thread that is inside an operation does next.
Cancelling == {"can_load", "can_store", "can_erase", "can_total"}
Ops == {"idle", "enq_insert", "enq_count", "enq_total",
        "deq_count", "deq_total"} \cup Cancelling

ASSUME ConstantsAssumption ==
    /\ IsFiniteSet(Threads) /\ IsFiniteSet(Tasks) /\ IsFiniteSet(Groups)
    /\ Modes \subseteq AllModes
    /\ Id \in [Tasks -> Ids]
    /\ IntMin \in Int
    /\ Priority \in [Tasks -> Int]
    /\ \A t \in Tasks : Priority[t] >= IntMin
    /\ Imported \subseteq Tasks
    /\ NoTask \notin Tasks
    /\ NoGroup \notin Groups
    /\ MaxPeeks \in Nat

\* size_t is wide enough to count the tasks and the threads together.
ASSUME WidthAssumption ==
    /\ MaxSize \in Nat
    /\ Cardinality(Tasks) + Cardinality(Threads) <= MaxSize

-------------------------------------------------------------------------------
(* size_t and the containers.                                              *)

IncForgotten(n) == n
Inc(n) == IF n = MaxSize THEN 0 ELSE n + 1

DecSaturating(n) == IF n = 0 THEN 0 ELSE n - 1
Dec(n) == IF n = 0 THEN MaxSize ELSE n - 1

\* task_mutex_ is held by a thread only between the steps of cancelTask.
TaskMutexIgnored == TRUE
TaskMutexFree == \A th \in Threads : op[th] \notin Cancelling

\* FIFO and ROUND_ROBIN share fifo_queues_.
Container == [m \in AllModes |->
                 IF m = "LIFO" THEN "lifo"
                 ELSE IF m = "PRIORITY" THEN "priority" ELSE "fifo"]

\* The containers of the current mode, one per group; the first element of a
\* container is the one that its dequeue or pop takes.
Active == queues[Container[mode]]

\* The tasks in the containers q, and those that are queued.
Contents(q) == {t \in Tasks : \E c \in Containers, g \in Groups :
                                 t \in Range(q[c][g])}
Queued == Contents(queues)

\* A container with a node for t at position i.
Inserted(s, i, t) == SubSeq(s, 1, i - 1) \o <<t>> \o SubSeq(s, i, Len(s))

\* What dequeue or pop leaves of a container.
PoppedNothing(s) == s
Popped(s) == Tail(s)

\* Task t enters container s at position i: at the back of the list, on top of
\* the stack, or in the skip list behind every node of greater priority.
SlotInFront(m, s, t, i) == i = 1
Slot(m, s, t, i) ==
    \/ m \in {"FIFO", "ROUND_ROBIN"} /\ i = Len(s) + 1
    \/ m = "LIFO" /\ i = 1
    \/ /\ m = "PRIORITY"
       /\ \A j \in 1..(i - 1) : Priority[s[j]] > Priority[t]
       /\ i <= Len(s) => Priority[s[i]] <= Priority[t]

\* Of the i-th and j-th task that setMode drained, which one is in front of the
\* other once they have been added, in that order, to a container of mode m.
InFront(m, s, i, j) ==
    \/ m \in {"FIFO", "ROUND_ROBIN"} /\ i < j
    \/ m = "LIFO" /\ i > j
    \/ /\ m = "PRIORITY"
       /\ \/ Priority[s[i]] > Priority[s[j]]
          \/ Priority[s[i]] = Priority[s[j]] /\ i > j

\* The container of mode m that the drained sequence s is added to.
RefillsNothing(m, s) == {<<>>}
Refills(m, s) ==
    {[i \in DOMAIN s |-> s[p[i]]] :
        p \in {f \in Bijection(DOMAIN s, DOMAIN s) :
                  \A i, j \in DOMAIN s : i < j => InFront(m, s, f[i], f[j])}}

\* The containers after setMode: those of the old mode are cleared.
RefilledUncleared(m, filled) == [queues EXCEPT ![Container[m]] = filled]
Refilled(m, filled) ==
    [c \in Containers |-> IF c = Container[m] THEN filled
                          ELSE [g \in Groups |-> <<>>]]

-------------------------------------------------------------------------------
(* Which group a dequeue takes from.  The code iterates over unordered     *)
(* maps, so among groups it does not rank the choice is open.              *)

\* The greatest head priority, found with a strict > that starts at INT_MIN.
HighestFirstGroup(g) == Priority[Head(Active[g])] > IntMin
Highest(g) ==
    /\ Priority[Head(Active[g])] > IntMin
    /\ \A h \in Groups : Active[h] # <<>> =>
          Priority[Head(Active[h])] <= Priority[Head(Active[g])]

\* current_group_index_ after n draws of getNextRoundRobinGroup.
AdvancedWide(n) == current_group_index + n
AdvancedNot(n) == current_group_index
Advanced(n) == (current_group_index + n) % (MaxSize + 1)

\* The group that getNextRoundRobinGroup returns at its (k+1)-st call.
RoundRobinGroup(k) ==
    group_names[1 + (Advanced(k) % Len(group_names))]

\* getTaskRoundRobin finds its task in group g at its n-th attempt.
RoundRobinHit(g, n) ==
    /\ g = RoundRobinGroup(n - 1)
    /\ \A k \in 0..(n - 2) : Active[RoundRobinGroup(k)] = <<>>

\* dequeue takes from group g after n draws of a round robin index.
SelectedShortScan(g, n) ==
    /\ Active[g] # <<>>
    /\ \/ mode \in {"FIFO", "LIFO"} /\ n = 0
       \/ mode = "PRIORITY" /\ Highest(g) /\ g # "" /\ n = 0
       \/ mode = "ROUND_ROBIN" /\ n \in 1..(Len(group_names) - 1)
          /\ RoundRobinHit(g, n)
Selected(g, n) ==
    /\ Active[g] # <<>>
    /\ \/ mode \in {"FIFO", "LIFO"} /\ n = 0
       \/ mode = "PRIORITY" /\ Highest(g) /\ g # "" /\ n = 0
       \/ mode = "ROUND_ROBIN" /\ n > 0 /\ RoundRobinHit(g, n)

\* peek returns the head of group g: it ignores the round robin index.
PeekableUnranked(g) == Active[g] # <<>>
Peekable(g) == Active[g] # <<>> /\ (mode = "PRIORITY" => Highest(g))
-------------------------------------------------------------------------------
(* enqueue: register the task, insert its node, then count it.             *)

\* updateTaskInMap
Registered(t) == [task_map EXCEPT ![Id[t]] = t]

EnqueueRegister(th, t, g) ==
    /\ op[th] = "idle"
    /\ t \in fresh
    /\ TaskMutexFree
    /\ task_map' = Registered(t)
    /\ op'    = [op EXCEPT ![th] = "enq_insert"]
    /\ arg'   = [arg EXCEPT ![th] = t]
    /\ grp'   = [grp EXCEPT ![th] = g]
    /\ fresh' = fresh \ {t}
    /\ UNCHANGED <<queueVars, status, total_tasks, counters,
                   arrived, delivered, leaked>>

EnqueueInsert(th) ==
    LET t == arg[th]
        g == grp[th]
        c == Container[mode]
        s == queues[c][g]
    IN  /\ op[th] = "enq_insert"
        /\ \E i \in 1..(Len(s) + 1) :
              /\ Slot(mode, s, t, i)
              /\ queues' = [queues EXCEPT ![c][g] = Inserted(s, i, t)]
        /\ group_names' = IF g \in Range(group_names) THEN group_names
                          ELSE Append(group_names, g)
        /\ op'      = [op EXCEPT ![th] = "enq_count"]
        /\ arg'     = [arg EXCEPT ![th] = NoTask]
        /\ grp'     = [grp EXCEPT ![th] = NoGroup]
        /\ arrived' = Append(arrived, t)
        /\ UNCHANGED <<mode, current_group_index, task_map, status,
                       total_tasks, counters, fresh, delivered, leaked>>

EnqueueCount(th) ==
    /\ op[th] = "enq_count"
    /\ enqueue_count' = enqueue_count + 1
    /\ op' = [op EXCEPT ![th] = "enq_total"]
    /\ UNCHANGED <<queueVars, task_map, status, total_tasks, dequeue_count,
                   peek_count, cancel_count, arg, grp, history>>

EnqueueTotal(th) ==
    /\ op[th] = "enq_total"
    /\ total_tasks' = Inc(total_tasks)
    /\ op' = [op EXCEPT ![th] = "idle"]
    /\ UNCHANGED <<queueVars, task_map, status, counters, arg, grp, history>>

-------------------------------------------------------------------------------
(* dequeue: take a node under queue_mutex_, count it after the unlock.     *)
(* getTaskFromPriority does not delete the TaskNode it unpacks.            *)

DequeueTake(th) ==
    /\ op[th] = "idle"
    /\ total_tasks # 0
    /\ \E g \in Groups, n \in 0..Len(group_names) :
          /\ Selected(g, n)
          /\ queues' = [queues EXCEPT ![Container[mode]][g] = Popped(@)]
          /\ current_group_index' = Advanced(n)
          /\ arg' = [arg EXCEPT ![th] = Head(Active[g])]
          /\ delivered' = delivered \cup {Head(Active[g])}
          /\ leaked' = IF mode = "PRIORITY"
                       THEN leaked \cup {Head(Active[g])} ELSE leaked
    /\ op' = [op EXCEPT ![th] = "deq_count"]
    /\ UNCHANGED <<mode, group_names, task_map, status, total_tasks, counters,
                   grp, fresh, arrived>>

\* nullptr: empty() said so, or no group was selected; in the second case the
\* round robin scan has drawn one index per group.
DequeueNone(th) ==
    /\ op[th] = "idle"
    /\ \/ total_tasks = 0 /\ UNCHANGED current_group_index
       \/ /\ total_tasks # 0
          /\ \A g \in Groups, n \in 0..Len(group_names) : ~Selected(g, n)
          /\ current_group_index' =
                IF mode = "ROUND_ROBIN"
                THEN Advanced(Len(group_names)) ELSE current_group_index
    /\ UNCHANGED <<mode, queues, group_names, task_map, status, total_tasks,
                   counters, op, arg, grp, history>>

DequeueCount(th) ==
    /\ op[th] = "deq_count"
    /\ dequeue_count' = dequeue_count + 1
    /\ op' = [op EXCEPT ![th] = "deq_total"]
    /\ UNCHANGED <<queueVars, task_map, status, total_tasks, enqueue_count,
                   peek_count, cancel_count, arg, grp, history>>

DequeueTotal(th) ==
    /\ op[th] = "deq_total"
    /\ total_tasks' = Dec(total_tasks)
    /\ op'  = [op EXCEPT ![th] = "idle"]
    /\ arg' = [arg EXCEPT ![th] = NoTask]
    /\ UNCHANGED <<queueVars, task_map, status, counters, grp, history>>

Peek(th) ==
    /\ op[th] = "idle"
    /\ peek_count < MaxPeeks
    /\ peek_count' = peek_count + 1
    /\ UNCHANGED <<queueVars, task_map, status, total_tasks, enqueue_count,
                   dequeue_count, cancel_count, op, arg, grp, history>>

-------------------------------------------------------------------------------
(* cancelTask, under task_mutex_ throughout.  An id that is unknown, or    *)
(* whose task is not QUEUED, changes nothing.  Its node stays queued.      *)

CancelBegin(th, id) ==
    /\ op[th] = "idle"
    /\ TaskMutexFree
    /\ task_map[id] # NoTask
    /\ status[task_map[id]] = "QUEUED"
    /\ op'  = [op EXCEPT ![th] = "can_load"]
    /\ arg' = [arg EXCEPT ![th] = task_map[id]]
    /\ UNCHANGED <<queueVars, task_map, status, total_tasks, counters, grp,
                   history>>

\* Task::cancel reads the status, then stores CANCELLED in a second access.
CancelLoad(th) ==
    /\ op[th] = "can_load"
    /\ op' = [op EXCEPT ![th] =
                 IF status[arg[th]] \in {"COMPLETED", "FAILED", "CANCELLED"}
                 THEN "can_erase" ELSE "can_store"]
    /\ UNCHANGED <<queueVars, task_map, status, total_tasks, counters, arg,
                   grp, history>>

CancelStore(th) ==
    /\ op[th] = "can_store"
    /\ status' = [status EXCEPT ![arg[th]] = "CANCELLED"]
    /\ op' = [op EXCEPT ![th] = "can_erase"]
    /\ UNCHANGED <<queueVars, task_map, total_tasks, counters, arg, grp,
                   history>>

CancelErase(th) ==
    /\ op[th] = "can_erase"
    /\ task_map' = [task_map EXCEPT ![Id[arg[th]]] = NoTask]
    /\ cancel_count' = cancel_count + 1
    /\ op' = [op EXCEPT ![th] = "can_total"]
    /\ UNCHANGED <<queueVars, status, total_tasks, enqueue_count,
                   dequeue_count, peek_count, arg, grp, history>>

CancelTotal(th) ==
    /\ op[th] = "can_total"
    /\ total_tasks' = Dec(total_tasks)
    /\ op'  = [op EXCEPT ![th] = "idle"]
    /\ arg' = [arg EXCEPT ![th] = NoTask]
    /\ UNCHANGED <<queueVars, task_map, status, counters, grp, history>>

-------------------------------------------------------------------------------
(* clear and setMode.                                                      *)

\* Destroying a container frees none of the TaskNodes in it.
Clear(th) ==
    /\ op[th] = "idle"
    /\ TaskMutexFree
    /\ queues'      = [c \in Containers |-> [g \in Groups |-> <<>>]]
    /\ task_map'    = [id \in Ids |-> NoTask]
    /\ total_tasks' = 0
    /\ leaked'      = leaked \cup Queued
    /\ UNCHANGED <<mode, group_names, current_group_index, status, counters,
                   op, arg, grp, fresh, arrived, delivered>>

\* Every group is drained from the front, all containers are cleared, and the
\* tasks are added to those of the new mode.  Draining the skip lists leaves
\* the TaskNodes undeleted.
SetMode(th, m) ==
    /\ op[th] = "idle"
    /\ m # mode
    /\ mode' = m
    /\ \E filled \in [Groups -> UNION {Refills(m, Active[g]) : g \in Groups}] :
          /\ \A g \in Groups : filled[g] \in Refills(m, Active[g])
          /\ queues' = Refilled(m, filled)
    /\ leaked' = IF mode = "PRIORITY" THEN leaked \cup Queued ELSE leaked
    /\ UNCHANGED <<group_names, current_group_index, task_map, status,
                   total_tasks, counters, op, arg, grp, fresh, arrived,
                   delivered>>

-------------------------------------------------------------------------------
Init ==
    /\ mode = "FIFO"
    /\ queues = [c \in Containers |-> [g \in Groups |-> <<>>]]
    /\ group_names = <<>>
    /\ current_group_index = 0
    /\ task_map = [id \in Ids |-> NoTask]
    /\ status = [t \in Tasks |-> IF t \in Imported THEN "QUEUED" ELSE "CREATED"]
    /\ total_tasks = 0
    /\ enqueue_count = 0
    /\ dequeue_count = 0
    /\ peek_count = 0
    /\ cancel_count = 0
    /\ op = [th \in Threads |-> "idle"]
    /\ arg = [th \in Threads |-> NoTask]
    /\ grp = [th \in Threads |-> NoGroup]
    /\ fresh = Tasks
    /\ arrived = <<>>
    /\ delivered = {}
    /\ leaked = {}

Enqueue(th) ==
    \/ \E t \in Tasks, g \in Groups : EnqueueRegister(th, t, g)
    \/ EnqueueInsert(th)
    \/ EnqueueCount(th)
    \/ EnqueueTotal(th)

Dequeue(th) ==
    \/ DequeueTake(th)
    \/ DequeueNone(th)
    \/ DequeueCount(th)
    \/ DequeueTotal(th)

Cancel(th) ==
    \/ \E id \in Ids : CancelBegin(th, id)
    \/ CancelLoad(th)
    \/ CancelStore(th)
    \/ CancelErase(th)
    \/ CancelTotal(th)

\* Everything but clear and cancelTask, ...
CoreNext ==
    \E th \in Threads :
        \/ Enqueue(th)
        \/ Dequeue(th)
        \/ Peek(th)
        \/ \E m \in Modes : SetMode(th, m)

\* ... everything but clear, and everything.
CancelNext == CoreNext \/ \E th \in Threads : Cancel(th)
Next       == CancelNext \/ \E th \in Threads : Clear(th)

CoreSpec   == Init /\ [][CoreNext]_vars
CancelSpec == Init /\ [][CancelNext]_vars
Spec       == Init /\ [][Next]_vars
-------------------------------------------------------------------------------
(* Properties.                                                             *)

\* The types of the members of QueueManager; in particular the two size_t that
\* wrap stay in range, and a thread that inserts or cancels carries a task.
TypeOK ==
    /\ mode \in AllModes
    /\ queues \in [Containers -> [Groups -> Seq(Tasks)]]
    /\ group_names \in Seq(Groups)
    /\ current_group_index \in 0..MaxSize
    /\ task_map \in [Ids -> Tasks \cup {NoTask}]
    /\ status \in [Tasks -> TaskStatus]
    /\ total_tasks \in 0..MaxSize
    /\ enqueue_count \in Nat
    /\ dequeue_count \in Nat
    /\ peek_count \in Nat
    /\ cancel_count \in Nat
    /\ op \in [Threads -> Ops]
    /\ arg \in [Threads -> Tasks \cup {NoTask}]
    /\ grp \in [Threads -> Groups \cup {NoGroup}]
    /\ fresh \in SUBSET Tasks
    /\ arrived \in Seq(Tasks)
    /\ delivered \in SUBSET Tasks
    /\ leaked \in SUBSET Tasks
    /\ \A th \in Threads :
          /\ op[th] = "enq_insert" => arg[th] # NoTask /\ grp[th] # NoGroup
          /\ op[th] \in Cancelling => arg[th] # NoTask

\* A task is in at most one place of one container, and a task that a dequeue
\* took is in none: whatever setMode, clear and cancelTask do in between, no
\* task can be handed out twice.
PlacedOnce(q) ==
    \A c, d \in Containers, g, h \in Groups :
        /\ IsInjective(q[c][g])
        /\ c # d \/ g # h => Range(q[c][g]) \cap Range(q[d][h]) = {}
DeliveredOnce == PlacedOnce(queues) /\ Queued \cap delivered = {}

\* What makes it inductive: a task no enqueue has inserted yet is in one place
\* only, with the callers or with the one thread that is about to insert it.
PendingApart ==
    /\ fresh \cap (Queued \cup delivered) = {}
    /\ \A th \in Threads : op[th] = "enq_insert" =>
          /\ arg[th] \notin fresh \cup Queued \cup delivered
          /\ \A u \in Threads \ {th} : op[u] = "enq_insert" => arg[u] # arg[th]

\* Only the containers of the current mode hold tasks, so dequeue, which looks
\* nowhere else, can reach every task (setMode races with enqueue).
OnlyActiveUsed ==
    \A c \in Containers \ {Container[mode]}, g \in Groups : queues[c][g] = <<>>

\* Without clear no task is lost: what was inserted is still queued or has been
\* taken, across any change of mode.
NothingLost == Range(arrived) = Queued \cup delivered

\* The threads that inserted a task total_tasks_ does not count yet, and those
\* that took a task it still counts.
Uncounted == {th \in Threads : op[th] \in {"enq_count", "enq_total"}}
Overcounted == {th \in Threads : op[th] \in {"deq_count", "deq_total"}}

Balance == Cardinality(Queued) + Cardinality(Overcounted)
              - Cardinality(Uncounted)

\* Without clear and cancelTask total_tasks_ is, modulo the width of size_t, the
\* number of queued tasks up to the operations that are under way; it wraps
\* below zero when a dequeue takes a task before its enqueue has counted it.
SizeAccounted ==
    total_tasks = IF Balance < 0 THEN Balance + MaxSize + 1 ELSE Balance

\* Hence size(), and the difference of the two metrics, is the queue depth
\* whenever no operation is under way.
AtRest == \A th \in Threads : op[th] = "idle"
SizeAtRest ==
    AtRest => /\ total_tasks = Cardinality(Queued)
              /\ enqueue_count - dequeue_count = Cardinality(Queued)

\* CLICommands::dequeue answers "No tasks available" when dequeue finds size() to
\* be zero: at rest that means that no task waits, but for cancelled ones.
NotStranded ==
    AtRest /\ total_tasks = 0 => \A t \in Queued : status[t] = "CANCELLED"

\* A task is cancelled at most once, and cancel_count_ counts those that are:
\* of two racing calls for one id only one finds it in the map.
CancelledOnce ==
    TaskMutexFree =>
        cancel_count = Cardinality({t \in Tasks : status[t] = "CANCELLED"})

\* In PRIORITY mode dequeue takes a task no queued task of any group precedes:
\* every skip list stays in descending order of priority.
HighestFirst ==
    [][mode = "PRIORITY" =>
          \A t \in delivered' \ delivered :
              \A u \in Queued : Priority[u] <= Priority[t]]_vars

\* In FIFO and ROUND_ROBIN mode each group is served in order of arrival.
ArrivalOrder ==
    mode \in {"FIFO", "ROUND_ROBIN"} =>
        \A g \in Groups : \A i, j \in DOMAIN Active[g], k, l \in DOMAIN arrived :
            (i < j /\ arrived[k] = Active[g][i] /\ arrived[l] = Active[g][j])
               => k < l

\* If a task is queued and size() is not zero, dequeue finds a task.
ServesQueued ==
    Queued # {} /\ total_tasks # 0 =>
        \E g \in Groups, n \in 0..Len(group_names) : Selected(g, n)

\* peek, which selects with code of its own, looks at the groups that dequeue
\* would take from, except that it does not follow the round robin order.
PeekAgrees ==
    mode # "ROUND_ROBIN" => \A g \in Groups : Peekable(g) <=> Selected(g, 0)

\* README.md, "Cancel a Task": the task a client enqueued can be cancelled while
\* it waits in its queue, that is, cancelTask finds it QUEUED.
WaitingIsCancellable ==
    \A t \in Queued : task_map[Id[t]] = t => status[t] = "QUEUED"

\* setMode and getTaskFromPriority say "Node is deleted inside dequeue": no
\* TaskNode is dropped without being deleted.
NodesDeleted == leaked = {}

\* Every task that is queued is taken eventually, also when size() was zero for
\* a moment although it was queued.
EventuallyTaken == \A t \in Tasks : t \in Queued ~> t \in delivered

===============================================================================
