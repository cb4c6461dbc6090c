------------------------------ MODULE RoundRobin ------------------------------
(***************************************************************************)
(* How long a group can wait in ROUND_ROBIN mode: QueueManager with a      *)
(* history variable that counts, for each group that has a task, the       *)
(* dequeues that served another group.                                     *)
(***************************************************************************)
EXTENDS QueueManager

VARIABLE bypassed

Waits(g) == queues'["fifo"][g] # <<>>
Served(g) == Len(queues'["fifo"][g]) < Len(queues["fifo"][g])

\* A new group changes what the index means: the count starts again.
CountAgain(g) ==
    \/ ~Waits(g)
    \/ Served(g)
    \/ mode' # "ROUND_ROBIN"
    \/ group_names' # group_names

RRInit == Init /\ bypassed = [g \in Groups |-> 0]

RRNext ==
    /\ CoreNext
    /\ bypassed' = [g \in Groups |->
                       IF CountAgain(g) THEN 0
                       ELSE IF delivered' # delivered THEN bypassed[g] + 1
                       ELSE bypassed[g]]

RRSpec == RRInit /\ [][RRNext]_<<vars, bypassed>>

\* A thread inside an operation goes on, and the workers of the thread pool
\* poll for ever (ThreadPool::workerFunction sleeps 1 ms between two calls).
RRFairSpec ==
    /\ RRSpec
    /\ \A th \in Threads : WF_vars(Enqueue(th) /\ op[th] # "idle")
    /\ \A th \in Threads : WF_vars(Dequeue(th))

\* While the list of groups stays the same, getTaskRoundRobin passes over a
\* group that has a task at most once for each of the other groups, whatever is
\* enqueued and dequeued meanwhile.
BoundedBypass ==
    \A g \in Groups : bypassed[g] > 0 => bypassed[g] < Len(group_names)

===============================================================================
