----------------------------- MODULE ThreadProofs -----------------------------
(***************************************************************************)
(* Proofs about the threads: the pool whose workers execute the tasks, and *)
(* the mutexes that the threads of the process lock.                       *)
(***************************************************************************)
EXTENDS ThreadPool, Locks, FiniteSetTheorems, TLAPS

\* The time that a step may take.
USE SMTT(20), ZenonT(30), SMTT(25)

-------------------------------------------------------------------------------
(* The thread pool: no task is dropped or executed twice by a stop or a    *)
(* resize, the counters are right, and nothing runs once stop() has        *)
(* returned, for any finite set of tasks and any sizes of the pool.        *)

(* The inductive invariant.                                                *)

Begun == {"start", "execute"}
Ended == {"complete", "fail"}
Places == {"none", "test", "poll", "exited"} \cup Begun \cup Ended
Thread == [at : Places, task : Tasks \cup {None}]

\* Workers that have executed their task and not yet counted it, and tasks that
\* were executed.
Ending == {i \in Indices : threads[i].at \in Ended}
Done == {t \in Tasks : executed[t] = 1}

\* A worker has a task from the dequeue until it has counted it.
Shape ==
    /\ threads \in Seq(Thread)
    /\ status \in [Tasks -> TaskStatus] /\ executed \in [Tasks -> {0, 1}]
    /\ queue \subseteq Tasks
    /\ should_stop \in BOOLEAN /\ paused \in BOOLEAN
    /\ target \in Nat
    /\ \A i \in Indices : threads[i].task # None <=> threads[i].at \in Begun \cup Ended

\* stop() and setNumThreads hold should_stop_ until they have joined, and leave
\* only threads that were not launched.
Stopping ==
    /\ ctl # "idle" => should_stop
    /\ StopQuiesces

\* Where each task is.
Placed ==
    /\ \A i, j \in Held : threads[i].task = threads[j].task => i = j
    /\ \A i \in Held : /\ threads[i].task \notin queue
                       /\ status[threads[i].task] # "new"
                       /\ executed[threads[i].task] =
                             IF threads[i].at \in Begun THEN 0 ELSE 1
    /\ \A t \in queue : status[t] # "new" /\ executed[t] = 0
    /\ \A t \in Tasks : executed[t] = 1 => status[t] # "new"
    /\ \A t \in Tasks : status[t] # "new" =>
          t \in queue \/ executed[t] = 1 \/ \E i \in Held : threads[i].task = t

\* The counters.
Counters ==
    /\ active = Cardinality(Held)
    /\ processed \in Nat
    /\ processed + Cardinality(Ending) = Cardinality(Done)

PoolInv == Shape /\ Stopping /\ Placed /\ Counters

-------------------------------------------------------------------------------
(* One worker moves.                                                       *)

\* The sets that are counted are finite.
LEMMA Finite ==
    ASSUME Shape
    PROVE  /\ Len(threads) \in Nat
           /\ IsFiniteSet(Held) /\ IsFiniteSet(Ending) /\ IsFiniteSet(Done)
           /\ Cardinality(Held) \in Nat /\ Cardinality(Ending) \in Nat
           /\ Cardinality(Done) \in Nat
<1>1. Len(threads) \in Nat
  BY DEF Shape
<1>2. IsFiniteSet(Indices)
  BY <1>1, FS_Interval DEF Indices
<1>3. Held \subseteq Indices /\ Ending \subseteq Indices /\ Done \subseteq Tasks
  BY DEF Held, Ending, Done
<1>4. IsFiniteSet(Held) /\ IsFiniteSet(Ending) /\ IsFiniteSet(Done)
  BY <1>2, <1>3, FS_Subset, PoolAssumption
<1> QED  BY <1>1, <1>4, FS_CardinalityType

\* What is known of a worker.
LEMMA AThread ==
    ASSUME Shape
    PROVE  /\ \A i \in Indices : /\ threads[i] \in Thread
                                 /\ threads[i].task \in Tasks \cup {None}
                                 /\ threads[i].at \in Places
           /\ \A i \in Held : threads[i].task \in Tasks
<1>1. \A i \in Indices : threads[i] \in Thread
  BY DEF Shape, Indices
<1> QED  BY <1>1 DEF Thread, Held

\* Moving one worker leaves the others.
LEMMA MovedThreads ==
    ASSUME threads \in Seq(Thread), NEW i \in Indices, NEW l \in Places,
           NEW t \in Tasks \cup {None}, threads' = Moved(i, l, t)
    PROVE  /\ threads' \in Seq(Thread) /\ Len(threads') = Len(threads)
           /\ Indices' = Indices
           /\ threads'[i].at = l /\ threads'[i].task = t
           /\ \A j \in Indices : j # i => threads'[j] = threads[j]
<1>1. PICK r \in Thread : r = [at |-> l, task |-> t]
  BY Zenon DEF Thread
<1>2. threads' = [threads EXCEPT ![i] = r]
  BY <1>1 DEF Moved
<1>3. threads' \in Seq(Thread) /\ Len(threads') = Len(threads)
  BY <1>2 DEF Indices
<1>4. threads'[i] = r /\ \A j \in Indices : j # i => threads'[j] = threads[j]
  BY <1>2 DEF Indices
<1> QED  BY <1>1, <1>3, <1>4 DEF Indices

\* A step after which the same workers have the same tasks, where they were,
\* leaves the tasks where they are and the counters right.
LEMMA SameTasks ==
    ASSUME Placed, Counters, Held' = Held, Ending' = Ending,
           \A i \in Held : threads'[i] = threads[i],
           UNCHANGED <<active, processed, queue, executed>>,
           \A t \in Tasks : status'[t] = "new" <=> status[t] = "new",
           Shape
    PROVE  Placed' /\ Counters'
<1>1. Done' = Done
  BY DEF Done
<1>2. \A i \in Held : threads[i].task \in Tasks
  BY AThread
<1>3. Placed'
  <2>1. \A i, j \in Held : threads'[i].task = threads'[j].task => i = j
    BY DEF Placed
  <2>2. \A i \in Held : /\ threads'[i].task \notin queue'
                        /\ status'[threads'[i].task] # "new"
                        /\ executed'[threads'[i].task] =
                              IF threads'[i].at \in Begun THEN 0 ELSE 1
    BY <1>2 DEF Placed
  <2>3. /\ \A t \in queue' : status'[t] # "new" /\ executed'[t] = 0
        /\ \A t \in Tasks : executed'[t] = 1 => status'[t] # "new"
        /\ \A t \in Tasks : status'[t] # "new" =>
              \/ t \in queue' \/ executed'[t] = 1
              \/ \E i \in Held : threads'[i].task = t
    BY DEF Placed, Shape
  <2> QED  BY <2>1, <2>2, <2>3 DEF Placed
<1>4. Counters'
  BY <1>1 DEF Counters
<1> QED  BY <1>3, <1>4

\* A worker's step that changes nothing but where a worker without a task is.
LEMMA IdleMoves ==
    ASSUME PoolInv, NEW i \in Indices, NEW l \in {"test", "poll", "exited"},
           threads[i].at \in {"test", "poll"}, threads' = Moved(i, l, None),
           UNCHANGED <<active, processed, queue, status, executed, control>>
    PROVE  PoolInv'
<1>1. Shape /\ Placed /\ Counters /\ Stopping
  BY DEF PoolInv
<1>2. /\ threads' \in Seq(Thread) /\ Len(threads') = Len(threads)
      /\ Indices' = Indices
      /\ threads'[i].at = l /\ threads'[i].task = None
      /\ \A j \in Indices : j # i => threads'[j] = threads[j]
  BY <1>1, MovedThreads DEF Shape, Places
<1>3. threads[i].task = None
  BY <1>1 DEF Shape, Begun, Ended
<1>4. Held' = Held /\ Ending' = Ending /\ \A j \in Held : threads'[j] = threads[j]
  BY <1>2, <1>3 DEF Held, Ending, Ended
<1>5. Shape'
  BY <1>1, <1>2, Zenon DEF Shape, control, Begun, Ended
<1>6. Placed' /\ Counters'
  BY <1>1, <1>4, SameTasks
<1>7. Stopping'
  BY <1>1 DEF Stopping, StopQuiesces, control
<1> QED  BY <1>5, <1>6, <1>7 DEF PoolInv

\* A dequeue moves a task from the queue to one worker.
LEMMA TakeStep ==
    ASSUME PoolInv, NEW i \in Indices, NEW t \in Tasks, Take(i, t),
           UNCHANGED control
    PROVE  PoolInv'
<1>1. Shape /\ Placed /\ Counters /\ Stopping
  BY DEF PoolInv
<1>2. /\ threads' \in Seq(Thread) /\ Len(threads') = Len(threads)
      /\ Indices' = Indices
      /\ threads'[i].at = "start" /\ threads'[i].task = t
      /\ \A j \in Indices : j # i => threads'[j] = threads[j]
  BY <1>1, MovedThreads DEF Shape, Places, Begun, Take
<1>3. threads[i].task = None /\ threads[i].at = "poll" /\ t # None
  BY <1>1, PoolAssumption DEF Shape, Begun, Ended, Take
<1>4. Held' = Held \cup {i} /\ i \notin Held /\ Ending' = Ending
  BY <1>2, <1>3 DEF Held, Ending, Ended
<1>5. Shape'
  BY <1>1, <1>2, <1>3, ZenonT(30) DEF Shape, control, Begun, Ended, Take
<1>6. Placed'
  <2>1. t \in queue /\ \A j \in Held : threads[j].task # t
    BY <1>1 DEF Take, Placed
  <2>2. \A j \in Held : threads'[j] = threads[j]
    BY <1>2, <1>4 DEF Held
  <2>3. \A j, k \in Held' : threads'[j].task = threads'[k].task => j = k
    BY <1>1, <1>2, <1>4, <2>1, <2>2 DEF Placed
  <2>4. \A j \in Held' : /\ threads'[j].task \notin queue'
                         /\ status'[threads'[j].task] # "new"
                         /\ executed'[threads'[j].task] =
                               IF threads'[j].at \in Begun THEN 0 ELSE 1
    BY <1>1, <1>2, <1>4, <2>1, <2>2 DEF Placed, Take, Begun
  <2>5. \A u \in Tasks : status'[u] # "new" =>
           \/ u \in queue' \/ executed'[u] = 1
           \/ \E j \in Held' : threads'[j].task = u
    <3> SUFFICES ASSUME NEW u \in Tasks, status'[u] # "new", u \notin queue',
                        executed'[u] # 1
                 PROVE  \E j \in Held' : threads'[j].task = u
      OBVIOUS
    <3>1. CASE u = t
      BY <1>2, <1>4, <3>1
    <3>2. CASE u # t
      BY <1>1, <1>4, <2>2, <3>2 DEF Placed, Take
    <3> QED  BY <3>1, <3>2
  <2> QED  BY <1>1, <2>3, <2>4, <2>5 DEF Placed, Take
<1>7. Counters'
  <2>1. Cardinality(Held') = Cardinality(Held) + 1
    BY <1>1, <1>4, Finite, FS_AddElement, Zenon
  <2>2. Done' = Done
    BY DEF Done, Take
  <2> QED  BY <1>1, <1>4, <2>1, <2>2 DEF Counters, Take
<1>8. Stopping'
  BY <1>1, <1>3 DEF Stopping, StopQuiesces, control
<1> QED  BY <1>5, <1>6, <1>7, <1>8 DEF PoolInv

\* markStarted keeps the task with its worker.
LEMMA StartStep ==
    ASSUME PoolInv, NEW i \in Indices, MarkStarted(i), UNCHANGED control
    PROVE  PoolInv'
<1>1. Shape /\ Placed /\ Counters /\ Stopping
  BY DEF PoolInv
<1>2. PICK t \in Tasks : t = threads[i].task
  BY <1>1, AThread DEF Shape, MarkStarted, Begun
<1>3. /\ threads' \in Seq(Thread) /\ Len(threads') = Len(threads)
      /\ Indices' = Indices
      /\ threads'[i].at = "execute" /\ threads'[i].task = t
      /\ \A j \in Indices : j # i => threads'[j] = threads[j]
  BY <1>1, <1>2, MovedThreads DEF Shape, Places, Begun, MarkStarted
<1>4. t # None /\ threads[i].at = "start"
  BY <1>2, PoolAssumption DEF MarkStarted
<1>5. Held' = Held /\ i \in Held /\ Ending' = Ending
  BY <1>2, <1>3, <1>4, Zenon DEF Held, Ending, Ended
<1>6. /\ status' \in [Tasks -> TaskStatus]
      /\ \A u \in Tasks : status'[u] = "new" <=> status[u] = "new"
  BY <1>1, <1>2, Zenon DEF Shape, MarkStarted, TaskStatus
<1>7. Shape'
  BY <1>1, <1>3, <1>4, <1>6 DEF Shape, control, Begun, Ended, MarkStarted
<1>8. \A j \in Held : /\ threads'[j].task = threads[j].task
                      /\ threads'[j].at \in Begun <=> threads[j].at \in Begun
  BY <1>2, <1>3, <1>4 DEF Held, Begun
<1>9. Placed'
  <2>1. \A j, k \in Held' : threads'[j].task = threads'[k].task => j = k
    BY <1>1, <1>5, <1>8 DEF Placed
  <2>2. \A j \in Held' : /\ threads'[j].task \notin queue'
                         /\ status'[threads'[j].task] # "new"
                         /\ executed'[threads'[j].task] =
                               IF threads'[j].at \in Begun THEN 0 ELSE 1
    BY <1>1, <1>5, <1>6, <1>8, AThread DEF Placed, MarkStarted
  <2>3. \A u \in Tasks : status'[u] # "new" =>
           \/ u \in queue' \/ executed'[u] = 1
           \/ \E j \in Held' : threads'[j].task = u
    BY <1>1, <1>5, <1>6, <1>8 DEF Placed, MarkStarted
  <2>4. /\ \A u \in queue' : status'[u] # "new" /\ executed'[u] = 0
        /\ \A u \in Tasks : executed'[u] = 1 => status'[u] # "new"
    BY <1>1, <1>6 DEF Placed, MarkStarted, Shape
  <2> QED  BY <2>1, <2>2, <2>3, <2>4 DEF Placed
<1>10. Counters'
  <2>1. Done' = Done
    BY DEF Done, MarkStarted
  <2> QED  BY <1>1, <1>5, <2>1 DEF Counters, MarkStarted
<1>11. Stopping'
  BY <1>1, <1>4 DEF Stopping, StopQuiesces, control
<1> QED  BY <1>7, <1>9, <1>10, <1>11 DEF PoolInv

\* A task is executed by the one worker that has it, and was not executed before.
LEMMA ExecuteStep ==
    ASSUME PoolInv, NEW i \in Indices, Execute(i), UNCHANGED control
    PROVE  PoolInv'
<1>1. Shape /\ Placed /\ Counters /\ Stopping
  BY DEF PoolInv
<1>2. PICK t \in Tasks : t = threads[i].task
  BY <1>1, AThread DEF Shape, Execute, Begun
<1>3. PICK l \in Ended : threads' = Moved(i, l, t)
  BY <1>2 DEF Execute, Ended
<1>4. /\ threads' \in Seq(Thread) /\ Len(threads') = Len(threads)
      /\ Indices' = Indices
      /\ threads'[i].at = l /\ threads'[i].task = t
      /\ \A j \in Indices : j # i => threads'[j] = threads[j]
  BY <1>1, <1>3, MovedThreads, Zenon DEF Shape, Places
<1>5. t # None /\ threads[i].at = "execute"
  BY <1>2, PoolAssumption DEF Execute
<1>6. Held' = Held /\ i \in Held /\ Ending' = Ending \cup {i} /\ i \notin Ending
  BY <1>2, <1>3, <1>4, <1>5 DEF Held, Ending, Ended
<1>7. executed[t] = 0 /\ t \notin queue /\ status[t] # "new"
  BY <1>1, <1>2, <1>5, <1>6 DEF Placed, Begun
<1>8. /\ executed' \in [Tasks -> {0, 1}] /\ executed'[t] = 1
      /\ \A u \in Tasks : u # t => executed'[u] = executed[u]
  BY <1>1, <1>2, <1>7 DEF Shape, Execute
<1>9. Shape'
  BY <1>1, <1>3, <1>4, <1>5, <1>8 DEF Shape, control, Begun, Ended, Execute
<1>10. \A j \in Held : /\ threads'[j].task = threads[j].task
                       /\ j # i => threads'[j] = threads[j] /\ threads[j].task # t
  BY <1>1, <1>2, <1>4, <1>6 DEF Held, Placed
<1>11. Placed'
  <2>1. \A j, k \in Held' : threads'[j].task = threads'[k].task => j = k
    BY <1>1, <1>6, <1>10 DEF Placed
  <2>2. \A j \in Held' : /\ threads'[j].task \notin queue'
                         /\ status'[threads'[j].task] # "new"
    BY <1>1, <1>6, <1>10 DEF Placed, Execute
  <2>3. \A j \in Held' : executed'[threads'[j].task] =
                            IF threads'[j].at \in Begun THEN 0 ELSE 1
    <3>1. executed'[threads'[i].task] = IF threads'[i].at \in Begun THEN 0 ELSE 1
      BY <1>3, <1>4, <1>8 DEF Begun, Ended
    <3>2. ASSUME NEW j \in Held, j # i
          PROVE  executed'[threads'[j].task] =
                    IF threads'[j].at \in Begun THEN 0 ELSE 1
      BY <1>1, <1>8, <1>10, <3>2, AThread DEF Placed
    <3> QED  BY <1>6, <3>1, <3>2
  <2>4. /\ \A u \in queue' : status'[u] # "new" /\ executed'[u] = 0
        /\ \A u \in Tasks : executed'[u] = 1 => status'[u] # "new"
        /\ \A u \in Tasks : status'[u] # "new" =>
              \/ u \in queue' \/ executed'[u] = 1
              \/ \E j \in Held' : threads'[j].task = u
    BY <1>1, <1>6, <1>7, <1>8, <1>10 DEF Placed, Execute, Shape
  <2> QED  BY <2>1, <2>2, <2>3, <2>4, Zenon DEF Placed
<1>12. Counters'
  <2>1. Done' = Done \cup {t} /\ t \notin Done
    BY <1>7, <1>8 DEF Done
  <2>2. /\ Cardinality(Done') = Cardinality(Done) + 1
        /\ Cardinality(Ending') = Cardinality(Ending) + 1
    BY <1>1, <1>6, <2>1, Finite, FS_AddElement, Zenon
  <2> QED  BY <1>1, <1>6, <2>2, Finite DEF Counters, Execute
<1>13. Stopping'
  BY <1>1, <1>5, Zenon DEF Stopping, StopQuiesces, control
<1> QED  BY <1>9, <1>11, <1>12, <1>13 DEF PoolInv

\* A worker that has executed its task counts it and lets go of it.
LEMMA FinishStep ==
    ASSUME PoolInv, NEW i \in Indices, Finish(i), UNCHANGED control
    PROVE  PoolInv'
<1>1. Shape /\ Placed /\ Counters /\ Stopping
  BY DEF PoolInv
<1>2. PICK t \in Tasks : t = threads[i].task
  BY <1>1, AThread DEF Shape, Finish, Ended
<1>3. /\ threads' \in Seq(Thread) /\ Len(threads') = Len(threads)
      /\ Indices' = Indices
      /\ threads'[i].at = "test" /\ threads'[i].task = None
      /\ \A j \in Indices : j # i => threads'[j] = threads[j]
  BY <1>1, MovedThreads, Zenon DEF Shape, Places, Finish
<1>4. t # None /\ threads[i].at \in Ended
  BY <1>2, PoolAssumption DEF Finish, Ended
<1>5. /\ Held' = Held \ {i} /\ i \in Held
      /\ Ending' = Ending \ {i} /\ i \in Ending
  BY <1>2, <1>3, <1>4 DEF Held, Ending, Ended
<1>6. executed[t] = 1 /\ t \notin queue /\ status[t] # "new"
  BY <1>1, <1>2, <1>4, <1>5 DEF Placed, Begun, Ended
<1>7. /\ status' \in [Tasks -> TaskStatus]
      /\ \A u \in Tasks : status'[u] = "new" <=> status[u] = "new"
  <2>1. PICK o \in {"COMPLETED", "FAILED", "CREATED"} :
           status' = [status EXCEPT ![t] = IF @ = "RUNNING" THEN o ELSE @]
    BY <1>2, Zenon DEF Finish, Outcomes
  <2> QED  BY <1>1, <2>1 DEF Shape, TaskStatus
<1>8. Shape'
  <2>1. /\ executed' \in [Tasks -> {0, 1}] /\ queue' \subseteq Tasks
        /\ should_stop' \in BOOLEAN /\ paused' \in BOOLEAN /\ target' \in Nat
    BY <1>1, ZenonT(30) DEF Shape, control, Finish
  <2>2. "test" \notin Begun \cup Ended
    BY DEF Begun, Ended
  <2>3. \A j \in Indices' :
           threads'[j].task # None <=> threads'[j].at \in Begun \cup Ended
    BY <1>1, <1>3, <2>2, ZenonT(30) DEF Shape
  <2> QED  BY <1>3, <1>7, <2>1, <2>3, ZenonT(30) DEF Shape
<1>9. \A j \in Held' : j \in Held /\ threads'[j] = threads[j]
  BY <1>3, <1>5 DEF Held
<1>10. Placed'
  <2>1. \A j, k \in Held' : threads'[j].task = threads'[k].task => j = k
    BY <1>1, <1>9 DEF Placed
  <2>2. \A j \in Held' : /\ threads'[j].task \notin queue'
                         /\ status'[threads'[j].task] # "new"
                         /\ executed'[threads'[j].task] =
                               IF threads'[j].at \in Begun THEN 0 ELSE 1
    BY <1>1, <1>7, <1>9, AThread DEF Placed, Finish
  <2>3. /\ \A u \in queue' : status'[u] # "new" /\ executed'[u] = 0
        /\ \A u \in Tasks : executed'[u] = 1 => status'[u] # "new"
    BY <1>1, <1>7 DEF Placed, Finish, Shape
  <2>4. \A u \in Tasks : status'[u] # "new" =>
           \/ u \in queue' \/ executed'[u] = 1
           \/ \E j \in Held' : threads'[j].task = u
    <3> SUFFICES ASSUME NEW u \in Tasks, status[u] # "new", u \notin queue,
                        executed[u] # 1
                 PROVE  \E j \in Held' : threads'[j].task = u
      BY <1>7 DEF Finish
    <3>1. PICK j \in Held : threads[j].task = u
      BY <1>1 DEF Placed
    <3>2. j # i
      BY <1>2, <1>6, <3>1
    <3> QED  BY <1>5, <1>9, <3>1, <3>2, Zenon
  <2> QED  BY <2>1, <2>2, <2>3, <2>4 DEF Placed
<1>11. Counters'
  <2>1. Done' = Done
    BY DEF Done, Finish
  <2>2. /\ Cardinality(Held') = Cardinality(Held) - 1
        /\ Cardinality(Ending') = Cardinality(Ending) - 1
    BY <1>1, <1>5, Finite, FS_RemoveElement, Zenon
  <2> QED  BY <1>1, <2>1, <2>2, Finite DEF Counters, Finish
<1>12. Stopping'
  BY <1>1, <1>4 DEF Stopping, StopQuiesces, control, Ended
<1> QED  BY <1>8, <1>10, <1>11, <1>12 DEF PoolInv

\* Whatever a worker does.
LEMMA WorkerStep ==
    ASSUME PoolInv, NEW i \in Indices, Worker(i)
    PROVE  PoolInv'
<1>1. CASE TestStop(i)
  BY <1>1, IdleMoves DEF TestStop, Worker
<1>2. CASE Sleep(i)
  BY <1>2, IdleMoves DEF Sleep, Worker
<1> QED
  BY <1>1, <1>2, TakeStep, StartStep, ExecuteStep, FinishStep, Zenon DEF Worker
-------------------------------------------------------------------------------
(* The controller and the clients.                                         *)

\* start() launches what was not launched and leaves the rest.
LEMMA LaunchedThreads ==
    ASSUME NEW s \in Seq(Thread)
    PROVE  /\ Launched(s) \in Seq(Thread) /\ Len(Launched(s)) = Len(s)
           /\ \A i \in 1..Len(s) : Launched(s)[i] = IF s[i].at = "none" THEN Started
                                                                        ELSE s[i]
<1>1. Started \in Thread
  BY DEF Started, Thread, Places
<1>2. \A i \in 1..Len(s) : s[i] \in Thread
  OBVIOUS
<1> QED  BY <1>1, <1>2 DEF Launched

\* adjustThreadPool leaves the threads there are and adds some without a task.
LEMMA AdjustedThreads ==
    ASSUME NEW s \in Seq(Thread), NEW n \in Nat, NEW stopped \in BOOLEAN
    PROVE  /\ Adjusted(s, n, stopped) \in Seq(Thread)
           /\ Len(Adjusted(s, n, stopped)) = IF n > Len(s) THEN n ELSE Len(s)
           /\ \A i \in 1..Len(Adjusted(s, n, stopped)) :
                 Adjusted(s, n, stopped)[i] =
                    IF i <= Len(s) THEN s[i]
                    ELSE IF stopped THEN Unstarted ELSE Started
<1>1. PICK r \in Thread : r = IF stopped THEN Unstarted ELSE Started
  BY Zenon DEF Started, Unstarted, Thread, Places
<1>2. PICK k \in Nat : k = IF n > Len(s) THEN n - Len(s) ELSE 0
  OBVIOUS
<1>3. PICK e : e = [i \in 1..k |-> r]
  BY Zenon
<1>4. e \in Seq(Thread) /\ Len(e) = k /\ \A i \in 1..k : e[i] = r
  BY <1>3
<1>5. Adjusted(s, n, stopped) = s \o e
  BY <1>1, <1>2, <1>3 DEF Adjusted
<1>6. /\ s \o e \in Seq(Thread) /\ Len(s \o e) = Len(s) + k
      /\ \A i \in 1..(Len(s) + k) : (s \o e)[i] = IF i <= Len(s) THEN s[i] ELSE r
  BY <1>4
<1> QED  BY <1>1, <1>2, <1>5, <1>6

\* Threads that are launched or added have no task, and those that have one stay.
LEMMA PoolGrows ==
    ASSUME Shape, Placed, Counters,
           threads' \in Seq(Thread), Len(threads) <= Len(threads'),
           \A i \in Indices : threads[i].at # "none" => threads'[i] = threads[i],
           \A i \in Indices' : \/ i \in Indices /\ threads[i].at # "none"
                               \/ threads'[i] \in {Started, Unstarted},
           should_stop' \in BOOLEAN, paused' \in BOOLEAN, target' \in Nat,
           UNCHANGED <<active, processed, queue, status, executed>>
    PROVE  Shape' /\ Placed' /\ Counters'
<1>1. Indices \subseteq Indices'
  <2>1. Len(threads) \in Nat /\ Len(threads') \in Nat
    BY DEF Shape
  <2> QED  BY <2>1 DEF Indices
<1>2. /\ Started.task = None /\ Unstarted.task = None
      /\ Started.at \notin Begun \cup Ended /\ Unstarted.at \notin Begun \cup Ended
  BY DEF Started, Unstarted, Begun, Ended
<1>3. \A i \in Indices : i \in Held \/ i \in Ending => threads[i].at # "none"
  BY DEF Held, Ending, Shape, Begun, Ended
<1>4. Held' = Held /\ Ending' = Ending /\ \A i \in Held : threads'[i] = threads[i]
  BY <1>1, <1>2, <1>3 DEF Held, Ending
<1>5. Placed' /\ Counters'
  BY <1>4, SameTasks
<1>6. \A i \in Indices' : threads'[i].task # None <=> threads'[i].at \in Begun \cup Ended
  BY <1>2 DEF Shape
<1> QED  BY <1>5, <1>6 DEF Shape

\* What the controller does between its waits.
LEMMA CallStep ==
    ASSUME PoolInv,
           \/ start \/ stopPool \/ pause \/ resume
           \/ \E n \in 0..MaxThreads : setNumThreads(n)
    PROVE  PoolInv'
<1>1. Shape /\ Placed /\ Counters /\ Stopping
  BY DEF PoolInv
<1>2. Len(threads) \in Nat /\ threads \in Seq(Thread)
  BY <1>1 DEF Shape
<1>3. CASE start
  <2>1. /\ threads' \in Seq(Thread) /\ Len(threads') = Len(threads)
        /\ \A i \in Indices : threads'[i] = IF threads[i].at = "none" THEN Started
                                                                     ELSE threads[i]
    BY <1>2, <1>3, LaunchedThreads DEF start, Indices
  <2>2. Indices' = Indices
    BY <2>1 DEF Indices
  <2>3. UNCHANGED <<active, processed, queue, status, executed, ctl, target>>
        /\ should_stop' = FALSE /\ paused' = FALSE /\ ctl = "idle"
    BY <1>3 DEF start, Idle
  <2>4. Shape' /\ Placed' /\ Counters'
    <3>1. target' \in Nat
      BY <1>1, <2>3 DEF Shape
    <3>2. paused' \in BOOLEAN /\ should_stop' \in BOOLEAN
      BY <2>3, Zenon
    <3>4. Len(threads) <= Len(threads')
      BY <1>2, <2>1
    <3>3. /\ \A i \in Indices : threads[i].at # "none" => threads'[i] = threads[i]
          /\ \A i \in Indices' : \/ i \in Indices /\ threads[i].at # "none"
                                 \/ threads'[i] \in {Started, Unstarted}
      BY <2>1, <2>2
    <3> QED  BY <1>1, <2>1, <2>3, <3>1, <3>2, <3>3, <3>4, PoolGrows, Zenon
  <2>5. Stopping'
    BY <2>3 DEF Stopping, StopQuiesces
  <2> QED  BY <2>4, <2>5 DEF PoolInv
<1>4. CASE stopPool \/ pause \/ resume
  <2>1. UNCHANGED <<threads, active, processed, queue, status, executed, target>>
    BY <1>4 DEF stopPool, pause, resume
  <2>2. paused' \in BOOLEAN /\ should_stop' \in BOOLEAN
    BY <1>1, <1>4, Zenon DEF stopPool, pause, resume, Shape
  <2>3. Shape'
    BY <1>1, <2>1, <2>2 DEF Shape, Indices
  <2>4. Held' = Held /\ Ending' = Ending
    BY <2>1 DEF Held, Ending, Indices
  <2>5. Placed' /\ Counters'
    BY <1>1, <2>1, <2>4, SameTasks, Zenon
  <2>6. Stopping'
    BY <1>1, <1>4 DEF Stopping, StopQuiesces, stopPool, pause, resume, Idle, Indices
  <2> QED  BY <2>3, <2>5, <2>6 DEF PoolInv
<1>5. CASE \E n \in 0..MaxThreads : setNumThreads(n)
  <2>1. PICK n \in 0..MaxThreads : setNumThreads(n)
    BY <1>5
  <2>2. n \in Nat
    BY PoolAssumption
  <2>3. CASE n < Len(threads)
    <3>1. /\ UNCHANGED <<threads, paused, active, processed, queue, status, executed>>
          /\ should_stop' = TRUE /\ target' = n /\ ctl' = "shrink"
      <4>1. ~(n > Len(threads))
        BY <1>2, <2>2, <2>3
      <4> QED  BY <2>1, <4>1, Zenon DEF setNumThreads
    <3>2. Shape'
      BY <1>1, <2>2, <3>1 DEF Shape, Indices
    <3>3. Held' = Held /\ Ending' = Ending
      BY <3>1 DEF Held, Ending, Indices
    <3>4. Placed' /\ Counters'
      BY <1>1, <3>1, <3>3, SameTasks
    <3> QED  BY <3>1, <3>2, <3>4 DEF PoolInv, Stopping, StopQuiesces
  <2>4. CASE n > Len(threads)
    <3>1. /\ UNCHANGED <<should_stop, ctl, target, active, processed, queue, status,
                         executed>>
          /\ paused' = (paused /\ should_stop) /\ ctl = "idle"
          /\ threads' = IF should_stop THEN Adjusted(threads, n, TRUE)
                                       ELSE Launched(Adjusted(threads, n, FALSE))
      <4>1. ~(n < Len(threads))
        BY <1>2, <2>2, <2>4
      <4> QED  BY <2>1, <4>1, Zenon DEF setNumThreads, Idle
    <3>2. PICK a \in Seq(Thread) :
             /\ a = Adjusted(threads, n, should_stop) /\ Len(a) = n
             /\ \A i \in 1..n : a[i] = IF i <= Len(threads) THEN threads[i]
                                       ELSE IF should_stop THEN Unstarted ELSE Started
      BY <1>1, <1>2, <2>2, <2>4, AdjustedThreads DEF Shape
    <3>3. threads' = IF should_stop THEN a ELSE Launched(a)
      <4>1. should_stop = TRUE \/ should_stop = FALSE
        BY <1>1 DEF Shape
      <4> QED  BY <3>1, <3>2, <4>1, Zenon
    <3>4. /\ threads' \in Seq(Thread) /\ Len(threads') = n
          /\ \A i \in 1..n : threads'[i] = IF ~should_stop /\ a[i].at = "none"
                                           THEN Started ELSE a[i]
      BY <3>2, <3>3, LaunchedThreads
    <3>5. Indices' = 1..n /\ Indices = 1..Len(threads)
      BY <3>4 DEF Indices
    <3>6. /\ \A i \in Indices : threads[i].at # "none" => threads'[i] = threads[i]
          /\ \A i \in Indices' : \/ i \in Indices /\ threads[i].at # "none"
                                 \/ threads'[i] \in {Started, Unstarted}
      <4>1. ASSUME NEW i \in Indices, threads[i].at # "none"
            PROVE  threads'[i] = threads[i]
        BY <1>2, <2>2, <2>4, <3>2, <3>4, <3>5, <4>1
      <4>2. ASSUME NEW i \in Indices', i \in Indices, threads[i].at = "none"
            PROVE  threads'[i] \in {Started, Unstarted}
        <5>1. threads[i].task = None /\ threads[i] \in Thread
          BY <1>1, <4>2, AThread DEF Shape, Begun, Ended
        <5>2. threads[i] = Unstarted
          BY <4>2, <5>1 DEF Thread, Unstarted
        <5> QED  BY <1>2, <2>2, <3>2, <3>4, <3>5, <4>2, <5>2, Zenon
      <4>3. ASSUME NEW i \in Indices', i \notin Indices
            PROVE  threads'[i] \in {Started, Unstarted}
        BY <1>2, <2>2, <3>2, <3>4, <3>5, <4>3
      <4> QED  BY <4>1, <4>2, <4>3
    <3>7. paused' \in BOOLEAN /\ should_stop' \in BOOLEAN /\ target' \in Nat
      BY <1>1, <3>1 DEF Shape
    <3>8. Shape' /\ Placed' /\ Counters'
      <4>1. Len(threads) <= Len(threads')
        BY <1>2, <2>2, <2>4, <3>4
      <4> QED  BY <1>1, <3>1, <3>4, <3>6, <3>7, <4>1, PoolGrows, Zenon
    <3>9. Stopping'
      <4>1. Unstarted.at = "none"
        BY DEF Unstarted
      <4>2. ASSUME should_stop, NEW i \in 1..n PROVE threads'[i].at = "none"
        <5>1. threads'[i] = a[i]
          BY <3>4, <4>2
        <5>2. CASE i <= Len(threads)
          <6>1. i \in Indices /\ a[i] = threads[i]
            BY <1>2, <2>2, <3>2, <3>5, <5>2
          <6>2. threads[i].at = "none"
            BY <1>1, <3>1, <4>2, <6>1 DEF Stopping, StopQuiesces
          <6> QED  BY <5>1, <6>1, <6>2
        <5>3. CASE ~(i <= Len(threads))
          BY <3>2, <4>1, <4>2, <5>1, <5>3, Zenon
        <5> QED  BY <5>2, <5>3
      <4> QED  BY <3>1, <3>5, <4>2, Zenon DEF Stopping, StopQuiesces
    <3> QED  BY <3>8, <3>9 DEF PoolInv
  <2> QED  BY <1>2, <2>1, <2>2, <2>3, <2>4 DEF setNumThreads
<1> QED  BY <1>3, <1>4, <1>5

\* stop() and setNumThreads join when no worker has a task.
LEMMA JoinStep ==
    ASSUME PoolInv, Join
    PROVE  PoolInv'
<1>1. Shape /\ Placed /\ Counters /\ Stopping
  BY DEF PoolInv
<1>2. should_stop = TRUE
  BY <1>1 DEF Stopping, Join, Shape
<1>3. PICK n \in Nat : threads' = Adjusted(<<>>, n, TRUE)
  BY <1>1, <1>2, Zenon DEF Join, Shape
<1>4. <<>> \in Seq(Thread) /\ Len(<<>>) = 0
  OBVIOUS
<1>5. /\ threads' \in Seq(Thread) /\ Len(threads') = n
      /\ \A i \in 1..n : threads'[i] = Unstarted
  <2>1. /\ Adjusted(<<>>, n, TRUE) \in Seq(Thread)
        /\ Len(Adjusted(<<>>, n, TRUE)) = IF n > 0 THEN n ELSE 0
        /\ \A i \in 1..Len(Adjusted(<<>>, n, TRUE)) :
              Adjusted(<<>>, n, TRUE)[i] = IF i <= 0 THEN <<>>[i] ELSE Unstarted
    BY <1>4, AdjustedThreads, ZenonT(30)
  <2>2. Len(threads') = n
    <3>1. n = IF n > 0 THEN n ELSE 0
      OBVIOUS
    <3> QED  BY <1>3, <2>1, <3>1, Zenon
  <2>3. ASSUME NEW i \in 1..n PROVE threads'[i] = Unstarted
    <3>1. ~(i <= 0) /\ i \in 1..Len(threads')
      BY <2>2
    <3> QED  BY <1>3, <2>1, <3>1, Zenon
  <2> QED  BY <1>3, <2>1, <2>2, <2>3, Zenon
<1>6. \A i \in Indices : threads[i].at \in {"none", "exited"}
  BY DEF Join, Joins, Joinable
<1>7. Held = {} /\ Ending = {}
  BY <1>1, <1>6 DEF Held, Ending, Shape, Begun, Ended
<1>8. Unstarted.at = "none" /\ Unstarted.task = None
  BY DEF Unstarted
<1>9. Indices' = 1..n /\ \A i \in Indices' : threads'[i].at = "none" /\ threads'[i].task = None
  BY <1>5, <1>8 DEF Indices
<1>10. Held' = {} /\ Ending' = {}
  BY <1>9 DEF Held, Ending, Ended
<1>11. Shape'
  BY <1>1, <1>5, <1>9 DEF Shape, Join, Begun, Ended
<1>12. active = 0
  BY <1>1, <1>7, FS_EmptySet, Zenon DEF Counters
<1>13. Placed' /\ Counters'
  BY <1>1, <1>7, <1>10, <1>12, SameTasks DEF Join
<1>14. Stopping'
  BY <1>9 DEF Stopping, StopQuiesces, Join
<1> QED  BY <1>11, <1>13, <1>14 DEF PoolInv

\* A task is submitted once; cancelling it leaves it where it is.
LEMMA ClientStep ==
    ASSUME PoolInv, Client
    PROVE  PoolInv'
<1>1. Shape /\ Placed /\ Counters /\ Stopping
  BY DEF PoolInv
<1>2. PICK t \in Tasks : cancelTask(t) \/ \E s \in {"CREATED", "QUEUED"} : submit(t, s)
  BY DEF Client
<1>3. UNCHANGED <<threads, active, processed, executed, control>>
  BY <1>2 DEF cancelTask, submit
<1>4. Held' = Held /\ Ending' = Ending /\ Done' = Done /\ Indices' = Indices
  BY <1>3 DEF Held, Ending, Done, Indices
<1>5. status' \in [Tasks -> TaskStatus] /\ queue' \subseteq Tasks
  BY <1>1, <1>2 DEF Shape, cancelTask, submit, TaskStatus
<1>6. Shape'
  BY <1>1, <1>3, <1>4, <1>5 DEF Shape, control
<1>7. Stopping'
  BY <1>1, <1>3 DEF Stopping, StopQuiesces, control, Indices
<1>8. Counters'
  BY <1>1, <1>3, <1>4 DEF Counters
<1>9. CASE cancelTask(t)
  <2>1. \A u \in Tasks : status'[u] = "new" <=> status[u] = "new"
    BY <1>1, <1>9 DEF Shape, cancelTask
  <2>2. Placed'
    BY <1>1, <1>3, <1>4, <1>9, <2>1, SameTasks, Zenon DEF cancelTask
  <2> QED  BY <1>6, <1>7, <1>8, <2>2 DEF PoolInv
<1>10. CASE \E s \in {"CREATED", "QUEUED"} : submit(t, s)
  <2>1. /\ status[t] = "new" /\ status'[t] # "new" /\ queue' = queue \cup {t}
        /\ \A u \in Tasks : u # t => status'[u] = status[u]
    BY <1>1, <1>10, Zenon DEF Shape, submit
  <2>2. executed[t] = 0 /\ \A i \in Held : threads[i].task # t
    BY <1>1, <2>1 DEF Placed, Shape
  <2>3. \A i, j \in Held' : threads'[i].task = threads'[j].task => i = j
    BY <1>1, <1>3, <1>4, Zenon DEF Placed
  <2>4. \A i \in Held' : /\ threads'[i].task \notin queue'
                         /\ status'[threads'[i].task] # "new"
                         /\ executed'[threads'[i].task] =
                               IF threads'[i].at \in Begun THEN 0 ELSE 1
    BY <1>1, <1>3, <1>4, <2>1, <2>2, AThread DEF Placed
  <2>5. /\ \A u \in queue' : status'[u] # "new" /\ executed'[u] = 0
        /\ \A u \in Tasks : executed'[u] = 1 => status'[u] # "new"
        /\ \A u \in Tasks : status'[u] # "new" =>
              \/ u \in queue' \/ executed'[u] = 1
              \/ \E i \in Held' : threads'[i].task = u
    BY <1>1, <1>3, <1>4, <2>1, <2>2 DEF Placed, Shape
  <2>6. Placed'
    BY <2>3, <2>4, <2>5 DEF Placed
  <2> QED  BY <1>6, <1>7, <1>8, <2>6 DEF PoolInv
<1> QED  BY <1>2, <1>9, <1>10
-------------------------------------------------------------------------------
(* The theorems.                                                           *)

\* Every pool begins with workers that have no task.
LEMMA PoolBegins ==
    ASSUME PoolInit
    PROVE  PoolInv
<1>1. PICK n \in 1..MaxThreads : threads = [i \in 1..n |-> Started]
  BY DEF PoolInit
<1>2. n \in Nat /\ Started \in Thread
  BY PoolAssumption DEF Started, Thread, Places
<1>3. threads \in Seq(Thread) /\ Indices = 1..n
  BY <1>1, <1>2 DEF Indices
<1>4. \A i \in Indices : threads[i].at = "test" /\ threads[i].task = None
  BY <1>1, <1>3 DEF Started
<1>5. Held = {} /\ Ending = {}
  BY <1>4 DEF Held, Ending, Ended
<1>6. Done = {}
  BY DEF PoolInit, Done
<1>7. Shape
  BY <1>3, <1>4, ZenonT(30) DEF Shape, PoolInit, Begun, Ended, TaskStatus
<1>8. Placed
  BY <1>5 DEF Placed, PoolInit
<1>9. Counters
  BY <1>5, <1>6, FS_EmptySet DEF Counters, PoolInit
<1>10. Stopping
  BY DEF Stopping, StopQuiesces, PoolInit
<1> QED  BY <1>7, <1>8, <1>9, <1>10 DEF PoolInv

\* The invariant holds at every point of every run.
LEMMA PoolStep ==
    ASSUME PoolInv, [PoolNext]_poolVars
    PROVE  PoolInv'
<1>1. CASE UNCHANGED poolVars
  <2>1. /\ Indices' = Indices /\ Held' = Held /\ Ending' = Ending /\ Done' = Done
    BY <1>1 DEF poolVars, Indices, Held, Ending, Done
  <2> QED  BY <1>1, <2>1 DEF poolVars, PoolInv, Shape, Placed, Counters, Stopping,
                             StopQuiesces
<1> QED
  BY <1>1, CallStep, JoinStep, ClientStep, WorkerStep, ZenonT(30) DEF PoolNext, Controller

\* At most one worker has a task that was not executed.
LEMMA AtMostOne ==
    ASSUME NEW T, \A x, y \in T : x = y
    PROVE  Cardinality(T) = IF T = {} THEN 0 ELSE 1
<1>1. CASE T = {}
  BY <1>1, FS_EmptySet
<1>2. CASE T # {}
  <2>1. PICK x : T = {x}
    BY <1>2
  <2> QED  BY <1>2, <2>1, FS_Singleton
<1> QED  BY <1>1, <1>2

\* The pool keeps its invariant.
LEMMA PoolInvariant == PoolSpec => []PoolInv
<1>1. PoolInit => PoolInv
  BY PoolBegins
<1>2. PoolInv /\ [PoolNext]_poolVars => PoolInv'
  BY PoolStep
<1> QED  BY <1>1, <1>2, PTL DEF PoolSpec

\* No task is dropped or executed twice by a stop or a resize, getActiveThreads()
\* is the number of workers with a task, and no task is counted twice: for any
\* finite set of tasks, any sizes of the pool and any calls of the controller.
THEOREM EveryTaskAccounted ==
    PoolSpec => [](TaskAccounted /\ PoolTypeOK)
<1>1. PoolInv => TaskAccounted /\ PoolTypeOK
  <2> SUFFICES ASSUME PoolInv PROVE TaskAccounted /\ PoolTypeOK
    OBVIOUS
  <2>1. Shape /\ Placed /\ Counters
    BY DEF PoolInv
  <2>4. PoolTypeOK
    <3>1. Places = {"none", "test", "poll", "start", "execute", "complete",
                    "fail", "exited"}
      BY DEF Places, Begun, Ended
    <3>2. active \in Nat /\ processed \in Nat
      BY <2>1, Finite DEF Counters
    <3> QED  BY <2>1, <3>1, <3>2, Zenon DEF PoolTypeOK, Shape, Thread
  <2>2. processed <= Cardinality(Tasks)
    <3>1. Done \subseteq Tasks
      BY DEF Done
    <3>2. Cardinality(Done) <= Cardinality(Tasks) /\ Cardinality(Tasks) \in Nat
      BY <3>1, FS_Subset, FS_CardinalityType, PoolAssumption, Zenon
    <3> QED  BY <2>1, <3>2, Finite DEF Counters
  <2>3. ASSUME NEW t \in Tasks
        PROVE  LET waits == IF t \in queue THEN 1 ELSE 0
                   begun == Cardinality({i \in Held : threads[i].task = t
                                             /\ threads[i].at \in {"start", "execute"}})
               IN  waits + begun + executed[t] = IF status[t] = "new" THEN 0 ELSE 1
    <3> DEFINE B == {i \in Held : threads[i].task = t
                                     /\ threads[i].at \in {"start", "execute"}}
    <3>1. \A i, j \in B : i = j
      BY <2>1 DEF Placed
    <3>2. B # {} => executed[t] = 0 /\ t \notin queue /\ status[t] # "new"
      BY <2>1 DEF Placed, Begun
    <3>3. status[t] # "new" => t \in queue \/ executed[t] = 1 \/ B # {}
      <4> SUFFICES ASSUME status[t] # "new", t \notin queue, executed[t] # 1
                   PROVE  B # {}
        OBVIOUS
      <4>1. PICK i \in Held : threads[i].task = t
        BY <2>1 DEF Placed
      <4>2. threads[i].at \in {"start", "execute"}
        BY <2>1, <4>1 DEF Placed, Begun
      <4> QED  BY <4>1, <4>2
    <3> HIDE DEF B
    <3>4. Cardinality(B) = IF B = {} THEN 0 ELSE 1
      BY <3>1, AtMostOne, Zenon
    <3>5. t \in queue => status[t] # "new" /\ executed[t] = 0
      BY <2>1 DEF Placed
    <3>6. executed[t] \in {0, 1} /\ (executed[t] = 1 => status[t] # "new")
      BY <2>1 DEF Shape, Placed
    <3>7. (IF t \in queue THEN 1 ELSE 0) + Cardinality(B) + executed[t]
             = IF status[t] = "new" THEN 0 ELSE 1
      BY <3>2, <3>3, <3>4, <3>5, <3>6
    <3> QED  BY <3>7, Zenon DEF B
  <2> QED  BY <2>1, <2>2, <2>3, <2>4 DEF TaskAccounted, Counters
<1> QED  BY <1>1, PoolInvariant, PTL

\* Once stop() has returned no thread of the pool runs until start() or a new
\* size, whatever the workers were doing when it was called.
THEOREM NothingRunsAfterStop ==
    PoolSpec => []StopQuiesces
<1>1. PoolInv => StopQuiesces
  BY DEF PoolInv, Stopping
<1> QED  BY <1>1, PoolInvariant, PTL

\* A worker ends in stop() or a resize without a task: joining loses none.
THEOREM JoinedWithoutTask ==
    PoolSpec => [][Join => Held = {} /\ queue' = queue /\ executed' = executed]_poolVars
<1>1. PoolInv /\ Join => Held = {} /\ queue' = queue /\ executed' = executed
  BY DEF PoolInv, Shape, Join, Joins, Joinable, Held, Begun, Ended
<1> QED  BY <1>1, PoolInvariant, PTL

-------------------------------------------------------------------------------
(* The mutexes of module Locks, for every number of threads.  That the     *)
(* calls of an operation come in order is shown once, for the operation by *)
(* itself: Fine(h, s) says that a thread which holds h and has the calls s *)
(* to make keeps the order to the end.  The invariant is then that every   *)
(* thread is Fine and that an exclusive lock excludes the others.          *)

Mutexes   == {Order[i] : i \in DOMAIN Order}
LockCalls == {"shared", "unique"} \X Mutexes
AllCalls  == LockCalls \cup {Unlock}

\* A thread that holds the stack h may make the call c: unlock what it has, lock
\* a mutex after all those it holds, or lock shared what it has shared.
Fits(c, h) ==
    \/ c = Unlock /\ h # <<>>
    \/ c \in LockCalls /\ \A k \in Range(h) : Before(k[2], c[2])
    \/ c \in LockCalls /\ c[1] = "shared" /\ c \in Range(h)
       /\ Unique(c[2]) \notin Range(h)

After(c, h) == IF c = Unlock THEN Tail(h) ELSE <<c>> \o h

\* Every pair of F makes a call that fits and is then a pair of F again, until
\* it has nothing to do and holds nothing.
Sound(F) == \A p \in F :
    /\ p[2] = <<>> => p[1] = <<>>
    /\ p[2] # <<>> => /\ Fits(Head(p[2]), p[1])
                      /\ <<After(Head(p[2]), p[1]), Tail(p[2])>> \in F

Fine(h, s) == \E F \in SUBSET (Seq(LockCalls) \X Seq(AllCalls)) :
                 <<h, s>> \in F /\ Sound(F)

\* The calls b can be made with h held, and give back what they lock.
Runs(h, b) == /\ b \in Seq(AllCalls)
              /\ \A s \in Seq(AllCalls) : Fine(h, s) => Fine(h, b \o s)
-------------------------------------------------------------------------------
\* A pair that is Fine has the types of its parts.
LEMMA FineType ==
    ASSUME NEW h, NEW s, Fine(h, s)
    PROVE  h \in Seq(LockCalls) /\ s \in Seq(AllCalls)
BY DEF Fine

\* What a Fine thread does next fits, and leaves it Fine.
LEMMA FineStep ==
    ASSUME NEW h, NEW s, Fine(h, s)
    PROVE  /\ s = <<>> => h = <<>>
           /\ s # <<>> => Fits(Head(s), h) /\ Fine(After(Head(s), h), Tail(s))
<1>1. PICK F \in SUBSET (Seq(LockCalls) \X Seq(AllCalls)) : <<h, s>> \in F /\ Sound(F)
  BY DEF Fine
<1>2. /\ s = <<>> => h = <<>>
      /\ s # <<>> => Fits(Head(s), h) /\ <<After(Head(s), h), Tail(s)>> \in F
  BY <1>1, Zenon DEF Sound
<1>3. QED
  BY <1>1, <1>2 DEF Fine

\* Having nothing to do and nothing held is Fine.
LEMMA FineEnd == Fine(<<>>, <<>>)
<1> DEFINE F == {<< <<>>, <<>> >>}
<1>1. F \in SUBSET (Seq(LockCalls) \X Seq(AllCalls))
  <2>1. <<>> \in Seq(LockCalls) /\ <<>> \in Seq(AllCalls)
    OBVIOUS
  <2>2. << <<>>, <<>> >> \in Seq(LockCalls) \X Seq(AllCalls)
    BY <2>1, Zenon
  <2>3. QED
    BY <2>2
<1>2. Sound(F)
  BY DEF Sound
<1>3. QED
  BY <1>1, <1>2 DEF Fine

\* A call that fits, before calls that are Fine after it.
LEMMA FineCall ==
    ASSUME NEW h \in Seq(LockCalls), NEW s \in Seq(AllCalls), NEW c \in AllCalls,
           Fits(c, h), Fine(After(c, h), s)
    PROVE  Fine(h, <<c>> \o s)
<1>1. PICK G \in SUBSET (Seq(LockCalls) \X Seq(AllCalls)) :
           <<After(c, h), s>> \in G /\ Sound(G)
  BY DEF Fine
<1> DEFINE t == <<c>> \o s
           F == G \cup {<<h, t>>}
<1>2. t \in Seq(AllCalls) /\ t # <<>> /\ Head(t) = c /\ Tail(t) = s
  OBVIOUS
<1> HIDE DEF t
<1>3. F \in SUBSET (Seq(LockCalls) \X Seq(AllCalls))
  BY <1>2
<1>4. ASSUME NEW p \in F
      PROVE  /\ p[2] = <<>> => p[1] = <<>>
             /\ p[2] # <<>> => /\ Fits(Head(p[2]), p[1])
                               /\ <<After(Head(p[2]), p[1]), Tail(p[2])>> \in F
  <2>1. CASE p \in G
    BY <1>1, <2>1 DEF Sound
  <2>2. CASE p = <<h, t>>
    <3>1. p[1] = h /\ p[2] = t
      BY <2>2
    <3>2. Fits(Head(p[2]), p[1]) /\ <<After(Head(p[2]), p[1]), Tail(p[2])>> \in G
      BY <1>1, <1>2, <3>1, Zenon
    <3>3. QED
      BY <1>2, <3>1, <3>2
  <2>3. QED
    BY <2>1, <2>2
<1>5. Sound(F)
  BY <1>4 DEF Sound
<1>6. <<h, t>> \in F
  OBVIOUS
<1>7. Fine(h, t)
  BY <1>3, <1>5, <1>6 DEF Fine
<1>8. QED
  BY <1>7 DEF t
-------------------------------------------------------------------------------
\* No calls at all can be made whatever is held.
LEMMA RunsNothing ==
    ASSUME NEW h
    PROVE  Runs(h, <<>>)
BY DEF Runs

\* What can be made one after the other.
LEMMA RunsBoth ==
    ASSUME NEW h, NEW b, NEW c, Runs(h, b), Runs(h, c)
    PROVE  Runs(h, b \o c)
<1>1. b \in Seq(AllCalls) /\ c \in Seq(AllCalls) /\ b \o c \in Seq(AllCalls)
  BY DEF Runs
<1>2. ASSUME NEW s \in Seq(AllCalls), Fine(h, s)
      PROVE  Fine(h, (b \o c) \o s)
  <2>1. Fine(h, c \o s) /\ c \o s \in Seq(AllCalls)
    BY <1>1, <1>2 DEF Runs
  <2>2. Fine(h, b \o (c \o s))
    BY <2>1, Zenon DEF Runs
  <2>3. (b \o c) \o s = b \o (c \o s)
    BY <1>1
  <2>4. QED
    BY <2>2, <2>3
<1>3. QED
  BY <1>1, <1>2 DEF Runs

\* A scope whose lock fits, around what can be made with the lock held.
LEMMA RunsScope ==
    ASSUME NEW h \in Seq(LockCalls), NEW l \in LockCalls, NEW b,
           Fits(l, h), Runs(<<l>> \o h, b)
    PROVE  Runs(h, Scope(l, b))
<1>1. b \in Seq(AllCalls) /\ Unlock \in AllCalls /\ l \in AllCalls
  BY DEF Runs, AllCalls
<1>2. <<l>> \in Seq(AllCalls) /\ <<Unlock>> \in Seq(AllCalls)
  BY <1>1
<1>3. Scope(l, b) \in Seq(AllCalls)
  BY <1>1, <1>2 DEF Scope
<1>4. <<l>> \o h \in Seq(LockCalls) /\ <<l>> \o h # <<>> /\ Tail(<<l>> \o h) = h
  OBVIOUS
<1>5. l # Unlock
  <2>1. l[1] \in {"shared", "unique"} /\ Unlock[1] = "unlock"
    BY DEF LockCalls, Unlock
  <2>2. QED
    BY <2>1
<1>6. ASSUME NEW s \in Seq(AllCalls), Fine(h, s)
      PROVE  Fine(h, Scope(l, b) \o s)
  <2>1. Fits(Unlock, <<l>> \o h) /\ After(Unlock, <<l>> \o h) = h
    BY <1>4 DEF Fits, After
  <2>2. <<Unlock>> \o s \in Seq(AllCalls) /\ b \o (<<Unlock>> \o s) \in Seq(AllCalls)
    BY <1>1, <1>2
  <2>3. Fine(<<l>> \o h, <<Unlock>> \o s)
    BY <1>1, <1>4, <1>6, <2>1, FineCall, Zenon
  <2>4. Fine(<<l>> \o h, b \o (<<Unlock>> \o s))
    BY <2>2, <2>3, Zenon DEF Runs
  <2>5. After(l, h) = <<l>> \o h
    BY <1>5 DEF After
  <2>6. Fine(h, <<l>> \o (b \o (<<Unlock>> \o s)))
    BY <1>1, <2>2, <2>4, <2>5, FineCall, Zenon
  <2>7. Scope(l, b) \o s = <<l>> \o (b \o (<<Unlock>> \o s))
    BY <1>1, <1>2 DEF Scope
  <2>8. QED
    BY <2>6, <2>7, Zenon
<1>7. QED
  BY <1>3, <1>6 DEF Runs
-------------------------------------------------------------------------------
\* The order, mutex by mutex.
LEMMA OrderIs ==
    /\ DOMAIN Order = 1..8
    /\ Order[1] = "cli_config" /\ Order[2] = "cli_graph" /\ Order[3] = "cli_task"
    /\ Order[4] = "config" /\ Order[5] = "queue" /\ Order[6] = "task"
    /\ Order[7] = "graph" /\ Order[8] = "storage"
BY DEF Order

\* No mutex is twice in the order.
LEMMA OrderOnce ==
    ASSUME NEW i \in DOMAIN Order, NEW j \in DOMAIN Order, Order[i] = Order[j]
    PROVE  i = j
BY OrderIs

\* The calls that lock a mutex.
LEMMA LockNames ==
    /\ Mutexes = {"cli_config", "cli_graph", "cli_task", "config", "queue", "task",
                  "graph", "storage"}
    /\ \A m \in Mutexes : /\ Shared(m) \in LockCalls /\ Unique(m) \in LockCalls
                          /\ Shared(m)[1] = "shared" /\ Unique(m)[1] = "unique"
                          /\ Shared(m)[2] = m /\ Unique(m)[2] = m
<1>1. Mutexes = {"cli_config", "cli_graph", "cli_task", "config", "queue", "task",
                 "graph", "storage"}
  BY OrderIs DEF Mutexes
<1>2. QED
  BY <1>1 DEF LockCalls, Shared, Unique

\* A call that locks is the shared or the unique one of its mutex, and does not
\* unlock.
LEMMA LockShape ==
    ASSUME NEW c \in LockCalls
    PROVE  /\ c[1] \in {"shared", "unique"} /\ c[2] \in Mutexes
           /\ c[1] = "shared" => c = Shared(c[2])
           /\ c[1] = "unique" => c = Unique(c[2])
           /\ c # Unlock
<1>1. c[1] \in {"shared", "unique"} /\ c[2] \in Mutexes /\ c = <<c[1], c[2]>>
  BY DEF LockCalls
<1>2. Unlock[1] = "unlock"
  BY DEF Unlock
<1>3. QED
  BY <1>1, <1>2 DEF Shared, Unique

\* The pairs of mutexes that some operation locks one inside the other.
LEMMA Nested ==
    /\ Before("cli_config", "cli_task") /\ Before("cli_config", "config")
    /\ Before("cli_config", "queue") /\ Before("cli_config", "task")
    /\ Before("cli_config", "storage") /\ Before("cli_task", "queue")
    /\ Before("cli_task", "task") /\ Before("cli_task", "storage")
    /\ Before("cli_graph", "task") /\ Before("cli_graph", "storage")
    /\ Before("config", "queue") /\ Before("queue", "task")
    /\ Before("task", "graph")
<1>1. \A i, j \in 1..8 : i < j => Before(Order[i], Order[j])
  BY OrderIs DEF Before
<1>2. QED
  BY <1>1, OrderIs

\* The mutexes of h all come before m.
Below(h, m) == \A k \in Range(h) : Before(k[2], m)

\* Nothing is below every mutex.
LEMMA BelowNothing ==
    ASSUME NEW m
    PROVE  Below(<<>>, m)
BY DEF Below, Range

\* What a stack with one more lock holds.
LEMMA Pushed ==
    ASSUME NEW h \in Seq(LockCalls), NEW l \in LockCalls
    PROVE  <<l>> \o h \in Seq(LockCalls) /\ Range(<<l>> \o h) = {l} \cup Range(h)
<1>1. <<l>> \o h \in Seq(LockCalls) /\ Len(<<l>> \o h) = Len(h) + 1
  OBVIOUS
<1>2. (<<l>> \o h)[1] = l /\ \A i \in 1..Len(h) : (<<l>> \o h)[i + 1] = h[i]
  OBVIOUS
<1>3. \A i \in 2..(Len(h) + 1) : (<<l>> \o h)[i] = h[i - 1]
  OBVIOUS
<1> DEFINE g == <<l>> \o h
<1> HIDE DEF g
<1>4. DOMAIN g = 1..(Len(h) + 1) /\ DOMAIN h = 1..Len(h) /\ Len(h) \in Nat
  BY <1>1 DEF g
<1>5. \A i \in DOMAIN g : g[i] \in {l} \cup Range(h)
  <2>1. SUFFICES ASSUME NEW i \in DOMAIN g, i # 1
                 PROVE  g[i] \in Range(h)
    BY <1>2 DEF g
  <2>2. i - 1 \in DOMAIN h /\ g[i] = h[i - 1]
    BY <1>3, <1>4, <2>1 DEF g
  <2>3. QED
    BY <2>2 DEF Range
<1>6. \A i \in DOMAIN h : h[i] \in Range(g)
  <2>1. \A i \in DOMAIN h : i + 1 \in DOMAIN g /\ g[i + 1] = h[i]
    BY <1>2, <1>4 DEF g
  <2>2. QED
    BY <2>1 DEF Range
<1>7. l \in Range(g)
  BY <1>2, <1>4 DEF Range, g
<1>8. Range(g) = {l} \cup Range(h)
  BY <1>5, <1>6, <1>7 DEF Range
<1>9. QED
  BY <1>1, <1>8 DEF g

\* Below, with one more lock.
LEMMA BelowPush ==
    ASSUME NEW h \in Seq(LockCalls), NEW l \in LockCalls, NEW m,
           Below(h, m), Before(l[2], m)
    PROVE  Below(<<l>> \o h, m)
BY Pushed DEF Below

\* A scope around nothing, of a mutex after all those held.
LEMMA RunsLeaf ==
    ASSUME NEW h \in Seq(LockCalls), NEW l \in LockCalls, Below(h, l[2])
    PROVE  Runs(h, Scope(l, <<>>))
<1>1. Fits(l, h)
  BY DEF Fits, Below
<1>2. QED
  BY <1>1, RunsNothing, RunsScope, Zenon

\* A scope of a mutex after all those held.
LEMMA RunsBelow ==
    ASSUME NEW h \in Seq(LockCalls), NEW l \in LockCalls, NEW b, Below(h, l[2]),
           Runs(<<l>> \o h, b)
    PROVE  Runs(h, Scope(l, b))
<1>1. Fits(l, h)
  BY DEF Fits, Below
<1>2. QED
  BY <1>1, RunsScope

\* findTask where "task" may be locked, and store where "storage" may be.
LEMMA RunsFind ==
    ASSUME NEW h \in Seq(LockCalls), Below(h, "task")
    PROVE  Runs(h, qmFindTask)
BY RunsLeaf, LockNames DEF qmFindTask

\* findTask with task_mutex_ held shared already.
LEMMA RunsRelock ==
    ASSUME NEW h \in Seq(LockCalls), Shared("task") \in Range(h),
           Unique("task") \notin Range(h)
    PROVE  Runs(h, qmFindTask)
<1>1. Shared("task") \in LockCalls /\ Shared("task")[1] = "shared"
      /\ Shared("task")[2] = "task"
  BY LockNames
<1>2. Fits(Shared("task"), h)
  BY <1>1 DEF Fits
<1>3. QED
  BY <1>1, <1>2, RunsNothing, RunsScope, Zenon DEF qmFindTask

\* The stores of a command, and QueueManager::enqueue.
LEMMA RunsStore ==
    ASSUME NEW h \in Seq(LockCalls), Below(h, "storage")
    PROVE  Runs(h, store)
BY RunsLeaf, LockNames DEF store

\* enqueue locks first the one mutex and then the other.
LEMMA RunsEnqueue ==
    ASSUME NEW h \in Seq(LockCalls), Below(h, "task"), Below(h, "queue")
    PROVE  Runs(h, qmEnqueue)
<1>1. Runs(h, Scope(Unique("task"), <<>>)) /\ Runs(h, Scope(Unique("queue"), <<>>))
  BY RunsLeaf, LockNames
<1>2. QED
  BY <1>1, RunsBoth, Zenon DEF qmEnqueue
-------------------------------------------------------------------------------
\* The operations of QueueManager and TaskGraph keep the order.
LEMMA ManagerRuns ==
    /\ Runs(<<>>, qmDequeue) /\ Runs(<<>>, qmPeek) /\ Runs(<<>>, qmClear)
    /\ Runs(<<>>, qmAddDependency) /\ Runs(<<>>, qmRemoveDependency)
    /\ Runs(<<>>, qmAreDependenciesMet) /\ Runs(<<>>, qmGenerateDependencyGraph)
    /\ Runs(<<>>, qmGetCriticalPath)
<1> DEFINE e == <<>>
           g == <<Shared("task")>> \o e
           q == <<Unique("queue")>> \o e
<1>1. e \in Seq(LockCalls) /\ \A m : Below(e, m)
  BY BelowNothing
<1>2. g \in Seq(LockCalls) /\ Below(g, "graph") /\ q \in Seq(LockCalls) /\ Below(q, "task")
  <2> HIDE DEF e
  <2>1. g \in Seq(LockCalls) /\ q \in Seq(LockCalls)
    BY <1>1, Pushed, LockNames, Zenon
  <2>2. Below(g, "graph")
    BY <1>1, BelowPush, LockNames, Nested
  <2>3. Below(q, "task")
    BY <1>1, BelowPush, LockNames, Nested
  <2>4. QED
    BY <2>1, <2>2, <2>3
<1>3. Shared("task") \in Range(g) /\ Unique("task") \notin Range(g)
  <2>1. Range(g) = {Shared("task")}
    <3>1. Shared("task") \in LockCalls
      BY LockNames
    <3>2. Range(g) = {Shared("task")} \cup Range(e)
      BY <1>1, <3>1, Pushed, Zenon
    <3>3. Range(e) = {}
      BY DEF Range
    <3>4. QED
      BY <3>2, <3>3
  <2>2. QED
    BY <2>1, LockNames
<1> HIDE DEF e, g, q
<1>4. Runs(e, qmDequeue) /\ Runs(e, qmPeek) /\ Runs(e, qmRemoveDependency)
  BY <1>1, RunsLeaf, LockNames, Zenon DEF qmDequeue, qmPeek, qmRemoveDependency
<1>5. Runs(g, qmFindTask) /\ Runs(g, qmFindTask \o qmFindTask)
      /\ Runs(g, Scope(Shared("graph"), <<>>))
  BY <1>2, <1>3, RunsRelock, RunsBoth, RunsLeaf, LockNames, ZenonT(30)
<1>6. Runs(e, qmClear)
  <2>1. Runs(q, Scope(Unique("task"), <<>>))
    BY <1>2, RunsLeaf, LockNames
  <2>2. QED
    BY <1>1, <2>1, RunsBelow, LockNames DEF qmClear, q
<1>7. ASSUME NEW b, Runs(g, b)
      PROVE  Runs(e, Scope(Shared("task"), b))
  BY <1>1, <1>7, RunsBelow, LockNames, Zenon DEF g
<1>8. Runs(e, Scope(Unique("graph"), <<>>)) /\ Runs(e, Scope(Shared("graph"), <<>>))
  BY <1>1, RunsLeaf, LockNames
<1>9. Runs(e, qmAddDependency) /\ Runs(e, qmAreDependenciesMet)
  BY <1>5, <1>7, <1>8, RunsBoth DEF qmAddDependency, qmAreDependenciesMet
<1>10. Runs(e, qmGenerateDependencyGraph) /\ Runs(e, qmGetCriticalPath)
  BY <1>5, <1>7, RunsBoth DEF qmGenerateDependencyGraph, qmGetCriticalPath
<1>11. QED
  BY <1>4, <1>6, <1>9, <1>10 DEF e

\* The commands of CLICommands keep the order.
LEMMA CommandsRun ==
    /\ Runs(<<>>, cmdEnqueue) /\ Runs(<<>>, cmdDequeue) /\ Runs(<<>>, cmdRun)
    /\ Runs(<<>>, cmdCancel) /\ Runs(<<>>, cmdEdit) /\ Runs(<<>>, cmdList)
    /\ Runs(<<>>, cmdSetMode) /\ Runs(<<>>, cmdDepend) /\ Runs(<<>>, cmdImport)
<1> DEFINE e == <<>>
           c == <<Shared("cli_config")>> \o e
           ct == <<Unique("cli_task")>> \o c
           st == <<Shared("cli_task")>> \o e
           ut == <<Unique("cli_task")>> \o e
           uc == <<Unique("cli_config")>> \o e
           cc == <<Unique("config")>> \o uc
           ug == <<Unique("cli_graph")>> \o e
<1>1. e \in Seq(LockCalls) /\ \A m : Below(e, m)
  BY BelowNothing
<1> HIDE DEF e
<1>2. /\ c \in Seq(LockCalls) /\ st \in Seq(LockCalls) /\ ut \in Seq(LockCalls)
      /\ uc \in Seq(LockCalls) /\ ug \in Seq(LockCalls)
  BY <1>1, Pushed, LockNames
<1>3. ct \in Seq(LockCalls) /\ cc \in Seq(LockCalls)
  BY <1>2, Pushed, LockNames, Zenon
<1>4. /\ Below(c, "cli_task") /\ Below(c, "task") /\ Below(c, "queue")
      /\ Below(c, "storage") /\ Below(uc, "config") /\ Below(uc, "queue")
      /\ Below(st, "queue") /\ Below(st, "storage") /\ Below(ut, "task")
      /\ Below(ut, "storage") /\ Below(ug, "task") /\ Below(ug, "storage")
  <2>1. ASSUME NEW l \in LockCalls, NEW m, Before(l[2], m)
        PROVE  Below(<<l>> \o e, m)
    BY <1>1, <2>1, BelowPush, Zenon
  <2>2. Below(c, "cli_task") /\ Below(c, "task") /\ Below(c, "queue") /\ Below(c, "storage")
    BY <2>1, LockNames, Nested
  <2>3. Below(uc, "config") /\ Below(uc, "queue") /\ Below(ug, "task") /\ Below(ug, "storage")
    BY <2>1, LockNames, Nested
  <2>4. Below(st, "queue") /\ Below(st, "storage") /\ Below(ut, "task") /\ Below(ut, "storage")
    BY <2>1, LockNames, Nested
  <2>5. QED
    BY <2>2, <2>3, <2>4
<1> HIDE DEF c, uc, st, ut, ug
<1>5. /\ Below(ct, "task") /\ Below(ct, "queue") /\ Below(ct, "storage")
      /\ Below(cc, "queue")
  BY <1>2, <1>4, BelowPush, LockNames, Nested
<1> HIDE DEF ct, cc
<1>6. Runs(e, cmdEnqueue)
  <2>1. Runs(ct, qmEnqueue \o store)
    BY <1>3, <1>5, RunsEnqueue, RunsStore, RunsBoth, Zenon
  <2>2. Runs(c, Scope(Unique("cli_task"), qmEnqueue \o store))
    BY <1>2, <1>4, <2>1, RunsBelow, LockNames, Zenon DEF ct
  <2>3. QED
    BY <1>1, <2>2, RunsBelow, LockNames, Zenon DEF cmdEnqueue, c
<1>7. Runs(e, cmdDequeue) /\ Runs(e, cmdList)
  <2>1. Runs(st, qmDequeue) /\ Runs(st, Scope(Shared("storage"), <<>>))
    BY <1>2, <1>4, RunsLeaf, LockNames DEF qmDequeue
  <2>2. QED
    BY <1>1, <2>1, RunsBelow, LockNames, Zenon DEF cmdDequeue, cmdList, st
<1>8. Runs(e, cmdRun)
  <2>1. Runs(ut, qmFindTask) /\ Runs(ut, store)
    BY <1>2, <1>4, RunsFind, RunsStore, Zenon
  <2>2. Runs(e, Scope(Unique("cli_task"), qmFindTask)) /\ Runs(e, Scope(Unique("cli_task"), store))
    BY <1>1, <2>1, RunsBelow, LockNames, Zenon DEF ut
  <2>3. QED
    BY <2>2, RunsBoth DEF cmdRun
<1>9. Runs(e, qmFindTask) /\ Runs(e, store) /\ Runs(e, qmEnqueue) /\ Runs(e, qmCancelTask)
  BY <1>1, RunsFind, RunsStore, RunsEnqueue, RunsLeaf, LockNames, Zenon DEF qmCancelTask
<1>10. Runs(e, cmdCancel) /\ Runs(e, cmdEdit) /\ Runs(e, cmdImport)
  BY <1>9, RunsBoth DEF cmdCancel, cmdEdit, cmdImport
<1>11. Runs(e, cmdSetMode)
  <2>1. Runs(cc, Scope(Unique("queue"), <<>>))
    BY <1>3, <1>5, RunsLeaf, LockNames, Zenon
  <2>2. Runs(uc, qmSetMode)
    BY <1>2, <1>4, <2>1, RunsBelow, LockNames, Zenon DEF qmSetMode, cc
  <2>3. QED
    BY <1>1, <2>2, RunsBelow, LockNames, Zenon DEF cmdSetMode, uc
<1>12. Runs(e, cmdDepend)
  <2>1. Runs(ug, qmFindTask) /\ Runs(ug, store)
    BY <1>2, <1>4, RunsFind, RunsStore
  <2>2. Runs(ug, qmFindTask \o qmFindTask \o store)
    BY <2>1, RunsBoth
  <2>3. QED
    BY <1>1, <2>2, RunsBelow, LockNames, Zenon DEF cmdDepend, ug
<1>13. QED
  BY <1>6, <1>7, <1>8, <1>10, <1>11, <1>12, Zenon DEF e

\* Whatever a thread calls, it is Fine when it begins.
LEMMA OperationsFine ==
    ASSUME NEW o \in Operations
    PROVE  Fine(<<>>, o)
<1>1. Runs(<<>>, o)
  BY ManagerRuns, CommandsRun DEF Operations
<1>2. o \in Seq(AllCalls) /\ <<>> \in Seq(AllCalls)
  BY <1>1 DEF Runs
<1>3. Fine(<<>>, o \o <<>>)
  BY <1>1, <1>2, FineEnd, Zenon DEF Runs
<1>4. o \o <<>> = o
  BY <1>2
<1>5. QED
  BY <1>3, <1>4
-------------------------------------------------------------------------------
\* Who has a mutex exclusively has it alone.
Exclusive == \A p, u \in Lockers, m \in Mutexes :
    Holds(p, Unique(m)) /\ HoldsAny(u, m) => p = u

\* The inductive invariant.
LockInv ==
    /\ todo \in [Lockers -> Seq(AllCalls)]
    /\ held \in [Lockers -> Seq(LockCalls)]
    /\ announced \in [Lockers -> BOOLEAN]
    /\ \A p \in Lockers : Fine(held[p], todo[p])
    /\ \A p \in Lockers :
          announced[p] => todo[p] # <<>> /\ Head(todo[p])[1] = "unique"
    /\ Exclusive

\* Init: no thread is inside an operation.
LEMMA LockBegins == LockInit => LockInv
<1> SUFFICES ASSUME LockInit PROVE LockInv
  OBVIOUS
<1>1. /\ todo \in [Lockers -> Seq(AllCalls)]
      /\ held \in [Lockers -> Seq(LockCalls)]
      /\ announced \in [Lockers -> BOOLEAN]
  BY DEF LockInit
<1>2. \A p \in Lockers : Fine(held[p], todo[p])
  BY FineEnd DEF LockInit
<1>3. Exclusive
  BY DEF LockInit, Exclusive, Holds, Range
<1>4. QED
  BY <1>1, <1>2, <1>3 DEF LockInit, LockInv

\* Call: the operation is Fine, and the thread holds nothing when it begins.
LEMMA LockCall ==
    ASSUME LockInv, NEW p \in Lockers, NEW o \in Operations, Call(p, o)
    PROVE  LockInv'
<1>1. Fine(<<>>, o) /\ o \in Seq(AllCalls)
  BY OperationsFine, FineType
<1>2. held[p] = <<>> /\ ~announced[p]
  BY FineStep DEF LockInv, Call, Busy
<1>3. todo' \in [Lockers -> Seq(AllCalls)] /\ held' = held /\ announced' = announced
  BY <1>1 DEF LockInv, Call
<1>4. \A u \in Lockers : todo'[u] = IF u = p THEN o ELSE todo[u]
  BY DEF LockInv, Call
<1>5. \A u \in Lockers : Fine(held'[u], todo'[u])
  BY <1>1, <1>2, <1>3, <1>4, Zenon DEF LockInv
<1>6. \A u \in Lockers : announced'[u] => todo'[u] # <<>> /\ Head(todo'[u])[1] = "unique"
  BY <1>2, <1>3, <1>4, Zenon DEF LockInv
<1>7. Exclusive'
  BY <1>3, Zenon DEF LockInv, Exclusive, Holds, HoldsAny
<1>8. QED
  BY <1>3, <1>5, <1>6, <1>7 DEF LockInv

\* Announce: only the announcement changes.
LEMMA AnnounceStep ==
    ASSUME LockInv, NEW p \in Lockers, Announce(p)
    PROVE  LockInv'
<1>1. todo' = todo /\ held' = held /\ announced' \in [Lockers -> BOOLEAN]
  BY DEF LockInv, Announce
<1>2. \A u \in Lockers : announced'[u] => todo'[u] # <<>> /\ Head(todo'[u])[1] = "unique"
  BY DEF LockInv, Announce, Busy
<1>3. Exclusive'
  BY <1>1, Zenon DEF LockInv, Exclusive, Holds, HoldsAny
<1>4. QED
  BY <1>1, <1>2, <1>3 DEF LockInv

\* Lock: the mutex is free, or it is shared and nobody has it exclusively.
LEMMA LockStep ==
    ASSUME LockInv, NEW p \in Lockers, Lock(p)
    PROVE  LockInv'
<1> DEFINE l == Head(todo[p])
<1>1. todo[p] \in Seq(AllCalls) /\ todo[p] # <<>> /\ held[p] \in Seq(LockCalls)
      /\ Fine(held[p], todo[p])
  BY DEF LockInv, Lock, Busy
<1>2. l \in LockCalls
  <2>1. l \in AllCalls
    BY <1>1
  <2>2. l # Unlock
    <3>1. Unlock[1] = "unlock"
      BY DEF Unlock
    <3>2. ~CanLock(p, Unlock)
      BY <3>1, Zenon DEF CanLock
    <3>3. QED
      BY <3>2 DEF Lock
  <2>3. QED
    BY <2>1, <2>2 DEF AllCalls
<1>3. Fine(<<l>> \o held[p], Tail(todo[p]))
  BY <1>1, <1>2, FineStep, LockShape DEF After
<1>4. <<l>> \o held[p] \in Seq(LockCalls) /\ Tail(todo[p]) \in Seq(AllCalls)
  BY <1>3, FineType, Zenon
<1> HIDE DEF l
<1>5. /\ todo' = [todo EXCEPT ![p] = Tail(todo[p])]
      /\ held' = [held EXCEPT ![p] = <<l>> \o held[p]]
      /\ announced' = [announced EXCEPT ![p] = FALSE]
      /\ CanLock(p, l)
  BY DEF Lock, l
<1>6. /\ todo' \in [Lockers -> Seq(AllCalls)]
      /\ held' \in [Lockers -> Seq(LockCalls)]
      /\ announced' \in [Lockers -> BOOLEAN]
  BY <1>4, <1>5, Zenon DEF LockInv
<1>7. \A u \in Lockers : /\ todo'[u] = IF u = p THEN Tail(todo[p]) ELSE todo[u]
                         /\ held'[u] = IF u = p THEN <<l>> \o held[p] ELSE held[u]
                         /\ announced'[u] = IF u = p THEN FALSE ELSE announced[u]
  BY <1>5 DEF LockInv
<1>8. \A u \in Lockers : Fine(held'[u], todo'[u])
  BY <1>3, <1>7, Zenon DEF LockInv
<1>9. \A u \in Lockers : announced'[u] => todo'[u] # <<>> /\ Head(todo'[u])[1] = "unique"
  <2> SUFFICES ASSUME NEW u \in Lockers, announced'[u]
               PROVE  todo'[u] # <<>> /\ Head(todo'[u])[1] = "unique"
    OBVIOUS
  <2>1. announced[u] /\ todo'[u] = todo[u]
    BY <1>7, Zenon
  <2>2. QED
    BY <2>1, Zenon DEF LockInv
<1>10. Exclusive'
  <2>1. Range(<<l>> \o held[p]) = {l} \cup Range(held[p])
    BY <1>1, <1>2, Pushed
  <2>2. \A u \in Lockers : Range(held'[u]) = IF u = p THEN {l} \cup Range(held[p])
                                                       ELSE Range(held[u])
    <3> SUFFICES ASSUME NEW u \in Lockers
                 PROVE  Range(held'[u]) = IF u = p THEN {l} \cup Range(held[p])
                                                    ELSE Range(held[u])
      OBVIOUS
    <3>1. held'[u] = IF u = p THEN <<l>> \o held[p] ELSE held[u]
      BY <1>7, Zenon
    <3>2. QED
      BY <2>1, <3>1, Zenon
  <2>3. SUFFICES ASSUME NEW t \in Lockers, NEW u \in Lockers, NEW m \in Mutexes, t # u,
                        Unique(m) \in Range(held'[t]),
                        Shared(m) \in Range(held'[u]) \/ Unique(m) \in Range(held'[u])
                 PROVE  FALSE
    BY Zenon DEF Exclusive, Holds, HoldsAny
  <2>4. ~(/\ Unique(m) \in Range(held[t])
          /\ Shared(m) \in Range(held[u]) \/ Unique(m) \in Range(held[u]))
    BY <2>3, Zenon DEF LockInv, Exclusive, Holds, HoldsAny
  <2>5. CASE t = p
    <3>1. l = Unique(m)
      BY <2>2, <2>3, <2>4, <2>5
    <3>2. ~HoldsAny(u, m)
      BY <1>5, <3>1, LockNames, ZenonT(30) DEF CanLock
    <3>3. QED
      BY <2>2, <2>3, <2>5, <3>2, ZenonT(30) DEF HoldsAny, Holds
  <2>6. CASE u = p
    <3>1. l \in {Shared(m), Unique(m)}
      BY <2>2, <2>3, <2>4, <2>6
    <3>2. ~Holds(t, Unique(m))
      BY <1>5, <3>1, LockNames DEF CanLock, HoldsAny
    <3>3. QED
      BY <2>2, <2>3, <2>6, <3>2, Zenon DEF Holds
  <2>7. QED
    BY <2>2, <2>3, <2>4, <2>5, <2>6, Zenon
<1>11. QED
  BY <1>6, <1>8, <1>9, <1>10, Zenon DEF LockInv

\* Release: the thread has a lock, and gives back the latest.
LEMMA ReleaseStep ==
    ASSUME LockInv, NEW p \in Lockers, Release(p)
    PROVE  LockInv'
<1>1. todo[p] \in Seq(AllCalls) /\ todo[p] # <<>> /\ held[p] \in Seq(LockCalls)
      /\ Fine(held[p], todo[p]) /\ Head(todo[p]) = Unlock
  BY DEF LockInv, Release, Busy
<1>2. held[p] # <<>> /\ Fine(Tail(held[p]), Tail(todo[p]))
  <2>1. Fits(Unlock, held[p]) /\ Fine(After(Unlock, held[p]), Tail(todo[p]))
    BY <1>1, FineStep, Zenon
  <2>2. held[p] # <<>>
    BY <2>1, LockShape DEF Fits
  <2>3. QED
    BY <2>1, <2>2, Zenon DEF After
<1>3. Tail(held[p]) \in Seq(LockCalls) /\ Tail(todo[p]) \in Seq(AllCalls)
  BY <1>2, FineType, Zenon
<1>4. ~announced[p]
  <2>1. Unlock[1] = "unlock"
    BY DEF Unlock
  <2>2. QED
    BY <1>1, <2>1 DEF LockInv
<1>5. /\ todo' \in [Lockers -> Seq(AllCalls)]
      /\ held' \in [Lockers -> Seq(LockCalls)]
      /\ announced' = announced
  BY <1>3 DEF LockInv, Release
<1>6. \A u \in Lockers : /\ todo'[u] = IF u = p THEN Tail(todo[p]) ELSE todo[u]
                         /\ held'[u] = IF u = p THEN Tail(held[p]) ELSE held[u]
  BY Zenon DEF LockInv, Release
<1>7. \A u \in Lockers : Fine(held'[u], todo'[u])
  BY <1>2, <1>6, Zenon DEF LockInv
<1>8. \A u \in Lockers : announced'[u] => todo'[u] # <<>> /\ Head(todo'[u])[1] = "unique"
  BY <1>4, <1>5, <1>6, Zenon DEF LockInv
<1>9. Exclusive'
  <2>1. Range(Tail(held[p])) \subseteq Range(held[p])
    BY <1>1, <1>2 DEF Range
  <2>2. \A u \in Lockers : Range(held'[u]) \subseteq Range(held[u])
    BY <1>6, <2>1
  <2>3. SUFFICES ASSUME NEW t \in Lockers, NEW u \in Lockers, NEW m \in Mutexes,
                        Holds(t, Unique(m))', HoldsAny(u, m)'
                 PROVE  t = u
    BY Zenon DEF Exclusive
  <2>4. Holds(t, Unique(m)) /\ HoldsAny(u, m)
    BY <2>2, <2>3 DEF Holds, HoldsAny
  <2>5. QED
    BY <2>4 DEF LockInv, Exclusive
<1>10. QED
  BY <1>5, <1>7, <1>8, <1>9, Zenon DEF LockInv

\* Every step keeps the invariant.
LEMMA LockKeeps == LockInv /\ [LockNext]_lockVars => LockInv'
<1> SUFFICES ASSUME LockInv, [LockNext]_lockVars PROVE LockInv'
  OBVIOUS
<1>1. CASE UNCHANGED lockVars
  <2>1. Exclusive'
    BY <1>1 DEF lockVars, LockInv, Exclusive, Holds, HoldsAny
  <2>2. QED
    BY <1>1, <2>1, Zenon DEF lockVars, LockInv
<1>2. CASE LockNext
  BY <1>2, LockCall, AnnounceStep, LockStep, ReleaseStep, Zenon DEF LockNext
<1>3. QED
  BY <1>1, <1>2, Zenon
-------------------------------------------------------------------------------
\* The second half of DeadlockOnlyByRelock: a thread that is Fine locks in order,
\* or locks shared what it has shared and not exclusively.
LEMMA NextCall ==
    ASSUME LockInv, NEW p \in Busy, Head(todo[p]) # Unlock
    PROVE  LET c == Head(todo[p])
           IN  /\ c \in LockCalls
               /\ \/ \A l \in Range(held[p]) : Before(l[2], c[2])
                  \/ /\ c[1] = "shared" /\ Relocks(p)
                     /\ Unique(c[2]) \notin Range(held[p])
<1> DEFINE c == Head(todo[p])
<1>1. p \in Lockers /\ todo[p] # <<>> /\ Fine(held[p], todo[p])
  BY Zenon DEF Busy, LockInv
<1>2. Fits(c, held[p]) /\ c # Unlock
  BY <1>1, FineStep, Zenon
<1> HIDE DEF c
<1>3. c \in LockCalls
  BY <1>2 DEF Fits
<1>4. ASSUME c[1] = "shared", c \in Range(held[p])
      PROVE  Relocks(p)
  BY <1>3, <1>4, LockShape DEF Relocks, HoldsAny, Holds, c
<1>5. QED
  BY <1>2, <1>3, <1>4 DEF Fits, c

\* In a set of mutexes that is not empty one comes last.
LEMMA LastMutex ==
    ASSUME NEW S \in SUBSET DOMAIN Order, S # {}
    PROVE  \E i \in S : \A j \in S : j <= i
<1>1. DOMAIN Order = 1..8
  BY OrderIs
<1>2. QED
  BY <1>1

\* If nobody can move, whoever waits for a mutex waits for a thread that is
\* itself inside an operation and holds it.
LEMMA WaitsForHolder ==
    ASSUME LockInv, \A p \in Busy : ~Moves(p), NEW p \in Busy
    PROVE  \E u \in Busy : HoldsAny(u, Head(todo[p])[2])
<1> DEFINE c == Head(todo[p])
<1>1. c # Unlock /\ ~CanLock(p, c)
  BY DEF Moves
<1>2. c \in LockCalls
  BY <1>1, NextCall
<1>3. c[1] \in {"shared", "unique"} /\ c[2] \in Mutexes
  BY <1>2, LockShape
<1>4. ASSUME NEW t \in Busy, NEW m, Head(todo[t]) = Unique(m), m \in Mutexes
      PROVE  \E u \in Lockers : HoldsAny(u, m)
  BY <1>4, LockNames DEF Moves, CanLock
<1>5. \E u \in Lockers : HoldsAny(u, c[2])
  <2>1. CASE c[1] = "unique"
    BY <1>2, <1>3, <1>4, <2>1, LockShape, Zenon
  <2>2. CASE c[1] = "shared"
    <3>1. \E u \in Lockers : Holds(u, Unique(c[2])) \/ Awaits(u, c[2])
      BY <1>1, <2>2, Zenon DEF CanLock
    <3>2. ASSUME NEW u \in Lockers, Awaits(u, c[2])
          PROVE  u \in Busy /\ Head(todo[u]) = Unique(c[2])
      BY <3>2 DEF Awaits, Busy, LockInv
    <3>3. QED
      BY <1>3, <1>4, <3>1, <3>2 DEF HoldsAny
  <2>3. QED
    BY <1>3, <2>1, <2>2, Zenon
<1>6. ASSUME NEW u \in Lockers, HoldsAny(u, c[2])
      PROVE  u \in Busy
  <2>1. held[u] # <<>>
    BY <1>6 DEF HoldsAny, Holds, Range
  <2>2. QED
    BY <2>1, FineStep, Zenon DEF LockInv, Busy
<1>7. QED
  BY <1>5, <1>6

\* The invariant forbids that all threads wait.
LEMMA NoCycle ==
    ASSUME LockInv, \A p \in Busy : ~Moves(p), Busy # {},
           ~(policy = "writer" /\ \E p \in Busy : Relocks(p))
    PROVE  FALSE
<1>1. \A p \in Busy : Head(todo[p]) # Unlock /\ Head(todo[p]) \in LockCalls
  BY NextCall, Zenon DEF Moves
<1>2. ASSUME NEW u \in Busy
      PROVE  \A l \in Range(held[u]) : Before(l[2], Head(todo[u])[2])
  <2> DEFINE c == Head(todo[u])
  <2>1. SUFFICES ASSUME c[1] = "shared", Relocks(u), Unique(c[2]) \notin Range(held[u])
                 PROVE  FALSE
    BY <1>1, NextCall, Zenon
  <2>2. policy # "writer" /\ ~CanLock(u, c)
    BY <2>1 DEF Moves
  <2>3. PICK w \in Lockers : Holds(w, Unique(c[2]))
    BY <2>1, <2>2, ZenonT(30) DEF CanLock
  <2>4. HoldsAny(u, c[2]) /\ c[2] \in Mutexes /\ u \in Lockers
    BY <1>1, <2>1, LockShape DEF Relocks, Busy
  <2>5. w = u
    BY <2>3, <2>4, Zenon DEF LockInv, Exclusive
  <2>6. QED
    BY <2>1, <2>3, <2>5, Zenon DEF Holds
<1>3. ASSUME NEW p \in Busy
      PROVE  \E u \in Busy : Before(Head(todo[p])[2], Head(todo[u])[2])
  <2> DEFINE m == Head(todo[p])[2]
  <2>1. PICK u \in Busy : HoldsAny(u, m)
    BY WaitsForHolder
  <2>2. m \in Mutexes
    BY <1>1, LockShape
  <2> HIDE DEF m
  <2>3. \E l \in Range(held[u]) : l[2] = m
    BY <2>1, <2>2, LockNames, ZenonT(30) DEF HoldsAny, Holds
  <2>4. Before(m, Head(todo[u])[2])
    BY <1>2, <2>3, Zenon
  <2>5. QED
    BY <2>4, Zenon DEF m
<1> DEFINE S == {i \in DOMAIN Order : \E p \in Busy : Head(todo[p])[2] = Order[i]}
<1>4. S # {}
  BY <1>1, LockShape DEF Mutexes
<1>5. PICK i \in S : \A j \in S : j <= i
  <2>1. S \in SUBSET DOMAIN Order
    OBVIOUS
  <2> HIDE DEF S
  <2>2. QED
    BY <1>4, <2>1, LastMutex, Zenon
<1>6. PICK p \in Busy : Head(todo[p])[2] = Order[i]
  BY Zenon
<1>7. PICK u \in Busy : Before(Order[i], Head(todo[u])[2])
  BY <1>3, <1>6, Zenon
<1>8. PICK a \in DOMAIN Order, b \in DOMAIN Order :
           a < b /\ Order[a] = Order[i] /\ Order[b] = Head(todo[u])[2]
  BY <1>7, Zenon DEF Before
<1>9. a = i /\ b \in S
  BY <1>8, OrderOnce
<1>10. QED
  BY <1>5, <1>8, <1>9, OrderIs

\* The threads inside operations never all wait for each other, unless one locks
\* a writer-preferring mutex shared a second time: for every number of threads.
THEOREM DeadlockFree == LockSpec => []DeadlockOnlyByRelock
<1>1. LockInv => DeadlockOnlyByRelock
  <2> SUFFICES ASSUME LockInv PROVE DeadlockOnlyByRelock
    OBVIOUS
  <2>1. (\A p \in Busy : ~Moves(p)) =>
            Busy = {} \/ (policy = "writer" /\ \E p \in Busy : Relocks(p))
    BY NoCycle, Zenon
  <2>2. \A p \in Busy : \/ Head(todo[p]) = Unlock
                         \/ Relocks(p)
                         \/ \A l \in Range(held[p]) : Before(l[2], Head(todo[p])[2])
    BY NextCall
  <2>3. QED
    BY <2>1, <2>2 DEF DeadlockOnlyByRelock
<1>2. QED
  BY <1>1, LockBegins, LockKeeps, PTL DEF LockSpec

\* std::shared_mutex: nobody has a mutex while another thread has it exclusively.
THEOREM MutualExclusion == LockSpec => []Exclusive
<1>1. LockInv => Exclusive
  BY DEF LockInv
<1>2. QED
  BY <1>1, LockBegins, LockKeeps, PTL DEF LockSpec

===============================================================================
