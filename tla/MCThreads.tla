------------------------------- MODULE MCThreads -------------------------------
(***************************************************************************)
(* The two groups of threads of the process for TLC: the server's, with    *)
(* its sessions and main's shutdown, and the thread pool's.  They meet     *)
(* only in the QueueManager, so a behaviour is one of a single group, the  *)
(* variable part, and the other one stays as it began.                     *)
(***************************************************************************)
EXTENDS Server, ThreadPool

VARIABLE part

allVars == <<part, vars, poolVars>>

ThreadsInit ==
    /\ part \in {"server", "pool"}
    /\ Init
    /\ PoolInit
    /\ part = "server" => Len(threads) = 1

ThreadsNext ==
    /\ UNCHANGED part
    /\ \/ part = "server" /\ Next /\ UNCHANGED poolVars
       \/ part = "pool" /\ PoolNext /\ UNCHANGED vars

\* The fairness of both specifications, each for its own behaviours.
ThreadsFairness ==
    /\ \A w \in Workers : WF_vars(part = "server" /\ workerThreadFunction(w))
    /\ WF_vars(part = "server" /\ monitorConnections)
    /\ WF_vars(part = "server" /\ Shutdown)
    /\ WF_poolVars(part = "pool" /\ Join)
    /\ \A i \in 1..MaxThreads :
          WF_poolVars(part = "pool" /\ i \in Indices /\ Worker(i))

ThreadsSpec == ThreadsInit /\ [][ThreadsNext]_allVars /\ ThreadsFairness
-------------------------------------------------------------------------------
\* Both stop functions return, whatever the threads they join are doing.
StopReturns == PoolStops /\ ShutdownEnds

\* What is accepted is executed: a task in the queue of a pool that has workers,
\* and a command in the work queue of a server that is not stopped.
Served == PoolServes /\ Answered
===============================================================================
