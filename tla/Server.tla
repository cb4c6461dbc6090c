-------------------------------- MODULE Server --------------------------------
(***************************************************************************)
(* TCPServer and its Sessions (network/TCPServer), and the shutdown of     *)
(* main.cpp.  One thread, main's, runs the io_context: it accepts, reads,  *)
(* completes writes and, on a signal or an exception that leaves a         *)
(* handler, shuts the process down.  Worker threads execute the commands   *)
(* and answer; a detached thread prunes sessions.                          *)
(* A Session is an object in one of a few slots of memory.  It lives as    *)
(* long as sessions_ or a pending operation refers to it; the commands in  *)
(* work_queue_ hold a plain `this`, so a slot is all they know.  Using a   *)
(* destroyed Session finds whatever is in the slot, or ends the process.   *)
(***************************************************************************)
EXTENDS Integers, Sequences, FiniteSets

CONSTANTS
    Slots,          \* the memory Sessions are allocated in
    Workers,        \* worker_threads_
    MaxConnections, \* bound: connections accepted in one run
    MaxRequests     \* bound: messages received in one run

ASSUME ServerAssumption ==
    MaxConnections \in Nat /\ MaxRequests \in Nat /\ IsFiniteSet(Workers)

VARIABLES
    session,         \* the object in each slot, or Free
    running,         \* running_, and an accept is pending
    workers_running, \* workers_running_
    work_queue,      \* work_queue_: the slot of each command, and who sent it
    worker,          \* where each worker is, and its command
    monitor,         \* where the monitor thread is
    main,            \* how far main's thread is
    storage_open,    \* storage->shutdown() has not run
    connections,     \* total_connections_
    active_connections, \* active_connections_
    requests,        \* request_count_ of all sessions
    expired,         \* history: the connections pruned for being idle
    answered         \* history: who sent the command, who got the answer

process == <<running, monitor, main, storage_open>>
workers == <<workers_running, work_queue, worker>>
counts  == <<connections, active_connections, requests>>
history == <<expired, answered>>
vars    == <<session, process, workers, counts, history>>

Connections == 1..MaxConnections
Free == [conn |-> 0, active |-> FALSE, listed |-> FALSE, reads |-> 0,
         writes |-> 0, idle |-> FALSE]
NoJob == [slot |-> 0, conn |-> 0]

\* std::shared_ptr: an object nothing refers to is destroyed.
Settled(o) == IF o.listed \/ o.reads > 0 \/ o.writes > 0 THEN o ELSE Free

Alive(s) == session[s].conn # 0
Listed == {s \in Slots : session[s].listed}
Waiting == {w \in Workers : worker[w].at = "wait"}

\* The commands taken over and not yet answered.
Outstanding == ({work_queue[i] : i \in DOMAIN work_queue}
                   \cup {worker[w].job : w \in Workers}) \ {NoJob}
Commands(c) == Cardinality({i \in DOMAIN work_queue : work_queue[i].conn = c})
               + Cardinality({w \in Workers : worker[w].job.conn = c})
-------------------------------------------------------------------------------
(* The io_context's handlers, all on main's thread.                        *)

Handling == main = "run"

handleAccept(s) ==
    /\ Handling /\ running
    /\ ~Alive(s)
    /\ connections < MaxConnections
    /\ session' = [session EXCEPT ![s] =
           [Free EXCEPT !.conn = connections + 1, !.active = TRUE,
                        !.listed = TRUE, !.reads = 1]]
    /\ connections' = connections + 1
    /\ active_connections' = active_connections + 1
    /\ UNCHANGED <<process, workers, requests, history>>

queueWorkSilently(job) ==
    /\ work_queue' = Append(work_queue, job)
    /\ UNCHANGED worker
\* notify_one wakes one waiting worker, if there is one.
queueWork(job) ==
    /\ work_queue' = Append(work_queue, job)
    /\ IF Waiting = {}
       THEN UNCHANGED worker
       ELSE \E w \in Waiting : worker' = [worker EXCEPT ![w].at = "lock"]

\* A message is complete.  A command goes to the workers; anything else is
\* answered at once.
handleMessageReadingOn(s) ==
    /\ Handling
    /\ session[s].reads > 0 /\ session[s].active
    /\ requests < MaxRequests
    /\ requests' = requests + 1
    /\ session' = [session EXCEPT ![s].idle = FALSE]
    /\ queueWork([slot |-> s, conn |-> session[s].conn])
    /\ UNCHANGED <<process, workers_running, connections, active_connections,
                   history>>
handleMessage(s) ==
    /\ Handling
    /\ session[s].reads > 0 /\ session[s].active
    /\ requests < MaxRequests
    /\ requests' = requests + 1
    /\ LET o == [session[s] EXCEPT !.idle = FALSE, !.reads = @ - 1]
       IN  \/ /\ queueWork([slot |-> s, conn |-> o.conn])
              /\ session' = [session EXCEPT ![s] = Settled(o)]
              /\ UNCHANGED answered
           \/ /\ session' = [session EXCEPT ![s] = [o EXCEPT !.writes = @ + 1]]
              /\ answered' = answered \cup {<<o.conn, o.conn>>}
              /\ UNCHANGED <<work_queue, worker>>
    /\ UNCHANGED <<process, workers_running, connections, active_connections,
                   expired>>

\* A read or a write ends with an error, as everything pending on a closed
\* socket does: Session::stop, and the handler lets go of the session.
fail(s) ==
    /\ Handling
    /\ \/ /\ session[s].reads > 0
          /\ session' = [session EXCEPT ![s] =
                 Settled([session[s] EXCEPT !.active = FALSE, !.reads = @ - 1])]
       \/ /\ session[s].writes > 0
          /\ session' = [session EXCEPT ![s] =
                 Settled([session[s] EXCEPT !.active = FALSE, !.writes = @ - 1])]
    /\ UNCHANGED <<process, workers, counts, history>>

\* The answer is sent; the next header is read.
written(s) ==
    /\ Handling
    /\ session[s].writes > 0 /\ session[s].active
    /\ session' = [session EXCEPT ![s].writes = @ - 1, ![s].reads = @ + 1]
    /\ UNCHANGED <<process, workers, counts, history>>
-------------------------------------------------------------------------------
(* workerThreadFunction.  The predicate of the wait and the taking of the  *)
(* newest command are one critical section.                                *)

WorkerTest(w) ==
    /\ worker[w].at = "test"
    /\ worker' = [worker EXCEPT ![w].at =
           IF workers_running THEN "lock" ELSE "exited"]
    /\ UNCHANGED <<session, process, workers_running, work_queue, counts,
                   history>>

WorkerLock(w) ==
    /\ worker[w].at = "lock"
    /\ \/ /\ work_queue # <<>>
          /\ worker' = [worker EXCEPT ![w] =
                 [at |-> "run", job |-> work_queue[Len(work_queue)]]]
          /\ work_queue' = SubSeq(work_queue, 1, Len(work_queue) - 1)
       \/ /\ work_queue = <<>>
          /\ worker' = [worker EXCEPT ![w].at =
                 IF workers_running THEN "wait" ELSE "exited"]
          /\ UNCHANGED work_queue
    /\ UNCHANGED <<session, process, workers_running, counts, history>>

\* executeCommand answers every command: a handler's response, an error that
\* was thrown, or "Unknown command".
executeCommand(w) ==
    /\ worker[w].at = "run"
    /\ worker' = [worker EXCEPT ![w].at = "respond"]
    /\ UNCHANGED <<session, process, workers_running, work_queue, counts,
                   history>>

\* writeResponse of whatever Session is in the slot; nothing unless it is
\* active.
writeResponse(w) ==
    LET s == worker[w].job.slot
    IN  IF session[s].active
        THEN /\ session' = [session EXCEPT ![s].writes = @ + 1]
             /\ answered' = answered
                    \cup {<<worker[w].job.conn, session[s].conn>>}
        ELSE UNCHANGED <<session, answered>>

\* If the Session is gone, the uses of `this` around executeCommand and here may
\* end the process.
WorkerRespond(w) ==
    /\ worker[w].at = "respond"
    /\ \/ /\ writeResponse(w)
          /\ UNCHANGED main
       \/ /\ session[worker[w].job.slot].conn # worker[w].job.conn
          /\ main' = "crashed"
          /\ UNCHANGED <<session, answered>>
    /\ worker' = [worker EXCEPT ![w] = [at |-> "test", job |-> NoJob]]
    /\ UNCHANGED <<running, monitor, storage_open, workers_running, work_queue,
                   counts, expired>>
-------------------------------------------------------------------------------
(* Pruning.  isActive is FALSE for a session that was closed, and for one  *)
(* whose last message is five minutes old.                                 *)

grow_idle(s) ==
    /\ Alive(s) /\ ~session[s].idle
    /\ session' = [session EXCEPT ![s].idle = TRUE]
    /\ UNCHANGED <<process, workers, counts, history>>

isActive(s) == session[s].active /\ ~session[s].idle

cleanupCountingOnce ==
    LET pruned == {s \in Listed : ~isActive(s)}
    IN  /\ session' = [s \in Slots |->
               IF s \in pruned
               THEN Settled([session[s] EXCEPT !.listed = FALSE])
               ELSE session[s]]
        /\ active_connections' =
               IF pruned = {} THEN active_connections ELSE active_connections - 1
        /\ expired' = expired \cup
               {session[s].conn : s \in {t \in pruned : session[t].active}}
cleanupInactiveSessions ==
    LET pruned == {s \in Listed : ~isActive(s)}
    IN  /\ session' = [s \in Slots |->
               IF s \in pruned
               THEN Settled([session[s] EXCEPT !.listed = FALSE])
               ELSE session[s]]
        /\ active_connections' = active_connections - Cardinality(pruned)
        /\ expired' = expired \cup
               {session[s].conn : s \in {t \in pruned : session[t].active}}

monitorTest ==
    /\ monitor = "test"
    /\ monitor' = IF running THEN "clean" ELSE "exited"
    /\ UNCHANGED <<session, running, main, storage_open, workers, counts,
                   history>>

\* stop holds sessions_mutex_ until the workers are joined.
SessionsLocked == main \in {"closed", "join"}

monitorClean ==
    /\ monitor = "clean"
    /\ ~SessionsLocked
    /\ cleanupInactiveSessions
    /\ monitor' = "test"
    /\ UNCHANGED <<running, main, storage_open, workers, connections, requests,
                   answered>>
-------------------------------------------------------------------------------
(* Shutdown: the signal handler, and the same order of destructors when an *)
(* exception leaves a handler.                                             *)

\* TCPServer::stop as far as sessions_.clear().
stop ==
    /\ main = "run"
    /\ main' = "closed"
    /\ running' = FALSE
    /\ session' = [s \in Slots |->
           IF session[s].listed
           THEN Settled([session[s] EXCEPT !.active = FALSE, !.listed = FALSE])
           ELSE session[s]]
    /\ UNCHANGED <<monitor, storage_open, workers, counts, history>>

Awoken(W) == [w \in Workers |->
    IF w \in W THEN [worker[w] EXCEPT !.at = "lock"] ELSE worker[w]]

stopWorkerThreadsNotifyOne ==
    /\ main = "closed"
    /\ main' = "join"
    /\ workers_running' = FALSE
    /\ work_queue' = <<>>
    /\ IF Waiting = {} THEN UNCHANGED worker
       ELSE \E w \in Waiting : worker' = Awoken({w})
    /\ UNCHANGED <<session, running, monitor, storage_open, counts, history>>
stopWorkerThreads ==
    /\ main = "closed"
    /\ main' = "join"
    /\ workers_running' = FALSE
    /\ work_queue' = <<>>
    /\ worker' = Awoken(Waiting)
    /\ UNCHANGED <<session, running, monitor, storage_open, counts, history>>

joinWorkers ==
    /\ main = "join"
    /\ \A w \in Workers : worker[w].at = "exited"
    /\ main' = "pool"
    /\ UNCHANGED <<session, running, monitor, storage_open, workers, counts,
                   history>>

\* thread_pool->stop() (module ThreadPool), storage->shutdown(), io_context.stop().
finishEarly ==
    /\ main \in {"join", "pool"}
    /\ main' = "exited"
    /\ storage_open' = FALSE
    /\ UNCHANGED <<session, running, monitor, workers, counts, history>>
finish ==
    /\ main = "pool"
    /\ main' = "exited"
    /\ storage_open' = FALSE
    /\ UNCHANGED <<session, running, monitor, workers, counts, history>>
-------------------------------------------------------------------------------
\* Init is the state after TCPServer::start.
Init ==
    /\ session = [s \in Slots |-> Free]
    /\ running = TRUE
    /\ workers_running = TRUE
    /\ work_queue = <<>>
    /\ worker = [w \in Workers |-> [at |-> "test", job |-> NoJob]]
    /\ monitor = "test"
    /\ main = "run"
    /\ storage_open = TRUE
    /\ connections = 0
    /\ active_connections = 0
    /\ requests = 0
    /\ expired = {}
    /\ answered = {}

Up == main \notin {"exited", "crashed"}

workerThreadFunction(w) ==
    Up /\ (WorkerTest(w) \/ WorkerLock(w) \/ executeCommand(w) \/ WorkerRespond(w))
monitorConnections == Up /\ (monitorTest \/ monitorClean)
handle(s) == handleAccept(s) \/ handleMessage(s) \/ fail(s) \/ written(s)
Shutdown == stopWorkerThreads \/ joinWorkers \/ finish

Next ==
    \/ \E s \in Slots : handle(s) \/ (Up /\ grow_idle(s))
    \/ \E w \in Workers : workerThreadFunction(w)
    \/ monitorConnections
    \/ stop \/ Shutdown

\* Threads that can run do run; clients, time and signals promise nothing.
Fairness ==
    /\ \A w \in Workers : WF_vars(workerThreadFunction(w))
    /\ WF_vars(monitorConnections)
    /\ WF_vars(Shutdown)

Spec     == Init /\ [][Next]_vars
FairSpec == Spec /\ Fairness
-------------------------------------------------------------------------------
(* Properties.                                                             *)

\* Types; while the server runs, active_connections_ is the size of sessions_,
\* and only a session of sessions_ or one with a pending operation is in memory.
TypeOK ==
    /\ session \in [Slots -> [conn : 0..MaxConnections, active : BOOLEAN,
                              listed : BOOLEAN, reads : Nat, writes : Nat,
                              idle : BOOLEAN]]
    /\ running \in BOOLEAN /\ workers_running \in BOOLEAN
    /\ work_queue \in Seq([slot : Slots, conn : Connections])
    /\ \A w \in Workers :
           worker[w].at \in {"test", "lock", "wait", "run", "respond", "exited"}
    /\ monitor \in {"test", "clean", "exited"}
    /\ main \in {"run", "closed", "join", "pool", "exited", "crashed"}
    /\ Handling => active_connections = Cardinality(Listed)
    /\ \A s \in Slots : session[s] = Settled(session[s])

Misled(c) == \E p \in answered : p[2] = c /\ p[1] # c

\* A session has one operation under way: it reads a message, or a worker has
\* its command, or it writes the answer, which is why read_buffer_ needs no
\* lock and answers keep the order of their requests.  A session that is open
\* always has one, so no client waits on a session that no handler will resume.
\* (Unless it was given the answer to a command of a destroyed session.)
OneAtATime ==
    \A s \in Slots :
        LET o == session[s]
            n == o.reads + o.writes + Commands(o.conn)
        IN  Alive(s) /\ ~Misled(o.conn) => n <= 1 /\ (o.active => n = 1)

\* The `this` that handleMessage gives to queueWork stays valid until the
\* command is answered, whatever reads and writes fail meanwhile, for a session
\* that was not pruned for being idle and a server that is not stopped.
SessionOutlivesCommand ==
    \A j \in Outstanding :
        \/ session[j.slot].conn = j.conn
        \/ j.conn \in expired \/ Misled(j.conn)
        \/ ~Handling

\* architecture.md, "Each connection is managed independently in a `Session`
\* object": an answer goes to the connection that sent the command.
AnswersOwn == \A p \in answered : p[1] = p[2]

\* No command is executed when main has shut the storage down: stop joins the
\* workers before.
CommandsHaveStorage ==
    \A w \in Workers : worker[w].at \in {"run", "respond"} => storage_open

\* No wake-up of the workers is lost: every command that was queued is executed,
\* or is dropped by stop, unless the process dies.
Answered ==
    \A c \in Connections :
        (Commands(c) > 0) ~> (Commands(c) = 0 \/ main = "crashed")

\* stop ends: the workers that wait, that test workers_running_ and that execute
\* a command all come to be joined, with sessions_mutex_ held meanwhile.
ShutdownEnds == (main = "closed") ~> ~Up
===============================================================================
