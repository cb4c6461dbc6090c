------------------------------ MODULE ThreadPool ------------------------------
(***************************************************************************)
(* core/ThreadPool: the workers, which poll the QueueManager and execute   *)
(* what they get, and one controller that starts, stops and resizes the    *)
(* pool.  The QueueManager is a set of tasks here (the module QueueManager *)
(* shows that none is handed out twice); QueueManager::tryDequeue, which   *)
(* the source lacks, is read as dequeue, and pause and resume as nothing.  *)
(***************************************************************************)
EXTENDS Integers, FiniteSets, Sequences

CONSTANTS
    Tasks,         \* tasks submitted to the pool
    MaxThreads,    \* the greatest argument of setNumThreads
    MaxCalls,      \* bound on the controller's calls
    None           \* no task

ASSUME PoolAssumption ==
    /\ IsFiniteSet(Tasks) /\ None \notin Tasks
    /\ MaxThreads \in Nat \ {0} /\ MaxCalls \in Nat

VARIABLES
    threads,       \* threads_: where each worker is and the task it holds
    should_stop,   \* should_stop_
    paused,        \* paused_
    active,        \* active_threads_
    processed,     \* tasks_processed_
    queue,         \* the tasks in the QueueManager
    status,        \* Task::status_
    executed,      \* how often each task was executed
    ctl,           \* where the controller is: idle, in stop, or in setNumThreads' stop
    target,        \* the argument of setNumThreads
    calls          \* calls the controller has made

poolVars == <<threads, should_stop, paused, active, processed, queue, status,
              executed, ctl, target, calls>>
control == <<should_stop, paused, ctl, target, calls>>

TaskStatus == {"new", "CREATED", "QUEUED", "RUNNING", "COMPLETED", "FAILED",
               "CANCELLED"}
Indices == 1..Len(threads)
Joinable(i) == threads[i].at # "none"

Unstarted == [at |-> "none", task |-> None]
Started   == [at |-> "test", task |-> None]
Moved(i, l, t) == [threads EXCEPT ![i] = [at |-> l, task |-> t]]
-------------------------------------------------------------------------------
(* workerFunction.                                                         *)

TestStopNever(i) ==
    /\ threads[i].at = "test"
    /\ threads' = Moved(i, "poll", None)
    /\ UNCHANGED <<active, processed, queue, status, executed>>
TestStop(i) ==
    /\ threads[i].at = "test"
    /\ threads' = Moved(i, IF should_stop THEN "exited" ELSE "poll", None)
    /\ UNCHANGED <<active, processed, queue, status, executed>>

TakeKeeps(i, t) ==
    /\ threads[i].at = "poll"
    /\ t \in queue
    /\ threads' = Moved(i, "start", t)
    /\ active' = active + 1
    /\ UNCHANGED <<processed, queue, status, executed>>
Take(i, t) ==
    /\ threads[i].at = "poll"
    /\ t \in queue
    /\ queue' = queue \ {t}
    /\ threads' = Moved(i, "start", t)
    /\ active' = active + 1
    /\ UNCHANGED <<processed, status, executed>>

SleepExits(i) ==
    /\ threads[i].at = "poll"
    /\ queue = {}
    /\ threads' = Moved(i, "exited", None)
    /\ UNCHANGED <<active, processed, queue, status, executed>>
Sleep(i) ==
    /\ threads[i].at = "poll"
    /\ queue = {}
    /\ threads' = Moved(i, "test", None)
    /\ UNCHANGED <<active, processed, queue, status, executed>>

\* markStarted: an exchange that does nothing unless the task is QUEUED.
MarkStarted(i) ==
    LET t == threads[i].task
    IN  /\ threads[i].at = "start"
        /\ status' = [status EXCEPT ![t] = IF @ = "QUEUED" THEN "RUNNING" ELSE @]
        /\ threads' = Moved(i, "execute", t)
        /\ UNCHANGED <<active, processed, queue, executed>>

\* The task's own code returns, or throws.
Execute(i) ==
    LET t == threads[i].task
    IN  /\ threads[i].at = "execute"
        /\ executed' = [executed EXCEPT ![t] = @ + 1]
        /\ \E l \in {"complete", "fail"} : threads' = Moved(i, l, t)
        /\ UNCHANGED <<active, processed, queue, status>>

\* markCompleted or markFailed; a failed task has retries left or not, and is
\* CREATED again if it has.
Outcomes(i) == IF threads[i].at = "complete" THEN {"COMPLETED"} ELSE {"FAILED", "CREATED"}
FinishFailingLeaks(i) ==
    LET t == threads[i].task
    IN  /\ threads[i].at \in {"complete", "fail"}
        /\ \E s \in Outcomes(i) :
              status' = [status EXCEPT ![t] = IF @ = "RUNNING" THEN s ELSE @]
        /\ threads' = Moved(i, "test", None)
        /\ active' = IF threads[i].at = "complete" THEN active - 1 ELSE active
        /\ processed' = processed + 1
        /\ UNCHANGED <<queue, executed>>
Finish(i) ==
    LET t == threads[i].task
    IN  /\ threads[i].at \in {"complete", "fail"}
        /\ \E s \in Outcomes(i) :
              status' = [status EXCEPT ![t] = IF @ = "RUNNING" THEN s ELSE @]
        /\ threads' = Moved(i, "test", None)
        /\ active' = active - 1
        /\ processed' = processed + 1
        /\ UNCHANGED <<queue, executed>>

Worker(i) ==
    /\ \/ TestStop(i) \/ Sleep(i) \/ MarkStarted(i) \/ Execute(i) \/ Finish(i)
       \/ \E t \in Tasks : Take(i, t)
    /\ UNCHANGED control

-------------------------------------------------------------------------------
(* The controller.                                                         *)

Idle == ctl = "idle" /\ calls < MaxCalls /\ calls' = calls + 1

\* start() launches every thread that is not joinable.
Launched(s) == [i \in 1..Len(s) |-> IF s[i].at = "none" THEN Started ELSE s[i]]
start ==
    /\ Idle
    /\ should_stop' = FALSE
    /\ paused' = FALSE
    /\ threads' = Launched(threads)
    /\ UNCHANGED <<active, processed, queue, status, executed, ctl, target>>

\* adjustThreadPool: new threads run unless the pool is stopped; it never shrinks.
AdjustedRuns(s, n, stopped) ==
    s \o [i \in 1..(IF n > Len(s) THEN n - Len(s) ELSE 0) |-> Started]
Adjusted(s, n, stopped) ==
    s \o [i \in 1..(IF n > Len(s) THEN n - Len(s) ELSE 0) |->
             IF stopped THEN Unstarted ELSE Started]

\* stop() up to the joins; then, in setNumThreads, adjustThreadPool(n).
stopPool ==
    /\ Idle
    /\ should_stop' = TRUE
    /\ ctl' = "stop"
    /\ UNCHANGED <<threads, paused, active, processed, queue, status, executed, target>>

\* The threads stop waits for.
Joins == {i \in Indices : Joinable(i)}
Join ==
    /\ ctl # "idle"
    /\ \A i \in Joins : threads[i].at = "exited"
    /\ active' = 0
    /\ threads' = Adjusted(<<>>, IF ctl = "stop" THEN 0 ELSE target, should_stop)
    /\ ctl' = "idle"
    /\ target' = 0
    /\ UNCHANGED <<should_stop, paused, processed, queue, status, executed, calls>>

setNumThreads(n) ==
    /\ Idle
    /\ n # Len(threads)
    /\ \/ /\ n < Len(threads)
          /\ should_stop' = TRUE
          /\ ctl' = "shrink"
          /\ target' = n
          /\ UNCHANGED <<threads, paused>>
       \/ /\ n > Len(threads)
          /\ threads' = IF should_stop THEN Adjusted(threads, n, TRUE)
                                       ELSE Launched(Adjusted(threads, n, FALSE))
          /\ paused' = (paused /\ should_stop)
          /\ UNCHANGED <<should_stop, ctl, target>>
    /\ UNCHANGED <<active, processed, queue, status, executed>>

\* paused_ is set and never read.
pause ==
    /\ Idle
    /\ paused' = TRUE
    /\ UNCHANGED <<threads, should_stop, active, processed, queue, status, executed, ctl, target>>
resume ==
    /\ Idle
    /\ paused' = FALSE
    /\ UNCHANGED <<threads, should_stop, active, processed, queue, status, executed, ctl, target>>

-------------------------------------------------------------------------------
(* The clients.                                                            *)

\* A client's task stays CREATED in the queue; an imported one may be QUEUED.
submit(t, s) ==
    /\ status[t] = "new"
    /\ status' = [status EXCEPT ![t] = s]
    /\ queue' = queue \cup {t}
    /\ UNCHANGED <<threads, active, processed, executed, control>>

\* QueueManager::cancelTask leaves the task where it is.
cancelTask(t) ==
    /\ status[t] = "QUEUED"
    /\ status' = [status EXCEPT ![t] = "CANCELLED"]
    /\ UNCHANGED <<threads, active, processed, queue, executed, control>>

-------------------------------------------------------------------------------
PoolInit ==
    /\ threads \in {[i \in 1..n |-> Started] : n \in 1..MaxThreads}
    /\ should_stop = FALSE
    /\ paused = FALSE
    /\ active = 0
    /\ processed = 0
    /\ queue = {}
    /\ status = [t \in Tasks |-> "new"]
    /\ executed = [t \in Tasks |-> 0]
    /\ ctl = "idle"
    /\ target = 0
    /\ calls = 0

Controller ==
    \/ start \/ stopPool \/ Join \/ pause \/ resume
    \/ \E n \in 0..MaxThreads : setNumThreads(n)

Client == \E t \in Tasks : cancelTask(t) \/ \E s \in {"CREATED", "QUEUED"} : submit(t, s)

PoolNext == Controller \/ Client \/ \E i \in Indices : Worker(i)

\* The operating system runs every thread, and the controller's join goes on;
\* the code of a task ends.
PoolFairness ==
    /\ WF_poolVars(Join)
    /\ \A i \in 1..MaxThreads : WF_poolVars(i \in Indices /\ Worker(i))

PoolSpec == PoolInit /\ [][PoolNext]_poolVars
PoolFairSpec == PoolSpec /\ PoolFairness
-------------------------------------------------------------------------------
(* Properties.                                                             *)

Held == {i \in Indices : threads[i].task # None}

\* The types.
PoolTypeOK ==
    /\ threads \in Seq([at : {"none", "test", "poll", "start", "execute", "complete",
                              "fail", "exited"}, task : Tasks \cup {None}])
    /\ status \in [Tasks -> TaskStatus]
    /\ should_stop \in BOOLEAN /\ paused \in BOOLEAN
    /\ active \in Nat /\ processed \in Nat

\* No task is dropped or executed twice by a stop or a resize: it waits, or one
\* worker has it, or it was executed once.  getActiveThreads() is the number of
\* workers with a task, through failures, stops and resizes, and no task counts
\* as processed twice.
TaskAccounted ==
    /\ active = Cardinality(Held)
    /\ processed <= Cardinality(Tasks)
    /\ \A t \in Tasks :
          LET waits == IF t \in queue THEN 1 ELSE 0
              begun == Cardinality({i \in Held : threads[i].task = t
                                        /\ threads[i].at \in {"start", "execute"}})
          IN  waits + begun + executed[t] = IF status[t] = "new" THEN 0 ELSE 1

\* Once stop() has returned nothing runs, until start() or a new pool size.
StopQuiesces ==
    (should_stop /\ ctl = "idle") => \A i \in Indices : threads[i].at = "none"

\* stop() returns, whatever the workers were doing.
PoolStops == (ctl # "idle") ~> (ctl = "idle")

\* As long as the pool has workers that are not told to stop, what is queued is
\* executed.
Serving == ~should_stop /\ \E i \in Indices : Joinable(i)
PoolServes == \A t \in Tasks : (t \in queue) ~> (executed[t] > 0 \/ ~Serving)

\* README.md, "Cancel a Task": a task that was cancelled before a worker began
\* to execute it is not executed.
CancelledIsNotExecuted ==
    [][\A t \in Tasks : status[t] = "CANCELLED" => executed'[t] = executed[t]]_poolVars

\* README.md, "priority, status tracking": a task whose code has returned is
\* COMPLETED when its worker goes on, unless it was cancelled.
ExecutedIsRecorded ==
    [][\A i \in Indices :
          (threads[i].at = "complete" /\ threads'[i] # threads[i])
             => status'[threads[i].task] \in {"COMPLETED", "CANCELLED"}]_poolVars

\* README.md, "Manages worker threads and task execution": a running pool that
\* one call of setNumThreads sets to n > 0 threads has threads that run.
ResizedRuns ==
    (ctl = "idle" /\ Len(threads) > 0) => \E i \in Indices : Joinable(i)

===============================================================================
