---------------------------- MODULE CommandsProofs ----------------------------
(***************************************************************************)
(* What the commands leave in the database, for any number of callers,     *)
(* tasks, members of the storage pool, calls and restarts.                 *)
(***************************************************************************)
EXTENDS CommandsCurrent, FiniteSetTheorems

\* The time that a step may take.
USE SMTT(20), ZenonT(30), SMTT(25)

(* The mutexes.                                                            *)

\* A step of one thread takes only what is free, and gives back only its own.
LEMMA HoldsOne ==
    ASSUME CommandConstants, Mutexes, NEW t \in Threads,
           \A u \in Threads \ {t} : call'[u] = call[u],
           task_mutex' = task_mutex \/ (task_mutex \in {None, t} /\ task_mutex' \in {None, t}),
           Owns(call'[t]) => task_mutex' = t,
           \/ storage' = storage
           \/ \E m \in Members, v \in {None, t} :
                 storage[m] \in {None, t} /\ storage' = [storage EXCEPT ![m] = v],
           Writing(call'[t]) => /\ call'[t].member \in Members
                                /\ storage'[call'[t].member] = t
    PROVE  Mutexes'
<1>1. None \notin Threads /\ storage \in [Members -> Threads \cup {None}]
  BY DEF CommandConstants, Mutexes
<1>2. Members' = Members /\ storage' \in [Members -> Threads \cup {None}]
  BY <1>1 DEF Members
<1>3. \A u \in Threads \ {t} : Owns(call'[u]) => task_mutex' = u
  BY <1>1 DEF Mutexes, Holding
<1>4. ASSUME NEW u \in Threads \ {t}, Writing(call'[u])
      PROVE  call'[u].member \in Members /\ storage'[call'[u].member] = u
  <2>1. call[u].member \in Members /\ storage[call[u].member] = u /\ call'[u] = call[u]
    BY <1>4 DEF Mutexes, Holding
  <2> QED  BY <1>1, <2>1
<1>5. \A u \in Threads : Owns(call'[u]) => task_mutex' = u
  BY <1>3, Zenon
<1>6. \A u \in Threads : Writing(call'[u]) => /\ call'[u].member \in Members'
                                              /\ storage'[call'[u].member] = u
  BY <1>2, <1>4, Zenon
<1>7. task_mutex' \in Threads \cup {None}
  BY DEF Mutexes
<1> QED  BY <1>2, <1>5, <1>6, <1>7, Zenon DEF Mutexes, Holding

\* What an answer gives back, ...
LEMMA AnswerHolds ==
    ASSUME CommandConstants, Shaped, Mutexes, NEW t \in Threads, Writing(call[t]), Answer(t)
    PROVE  Mutexes'
<1>1. Typed /\ call[t].at # "idle" /\ call[t].member \in Members
      /\ storage[call[t].member] = t
  BY DEF Shaped, Writing, Mutexes, Holding
<1>2. IF call[t].cmd = "import" THEN Goes(t, "register") ELSE Ends(t)
  BY <1>1, LaterSteps, Zenon
<1>3. /\ call'[t].at \in {"idle", "register"} /\ call'[t].cmd \in {"none", "import"}
      /\ \A u \in Threads \ {t} : call'[u] = call[u]
  BY <1>2 DEF Goes, Ends, Sets
<1>4. ~Owns(call'[t]) /\ ~Writing(call'[t])
  BY <1>3 DEF Owns, Writing
<1>5. task_mutex' = task_mutex \/ (task_mutex \in {None, t} /\ task_mutex' \in {None, t})
  BY DEF Answer
<1>6. \E m \in Members, v \in {None, t} :
         storage[m] \in {None, t} /\ storage' = [storage EXCEPT ![m] = v]
  BY <1>1, Zenon DEF Answer
<1> QED  BY <1>3, <1>4, <1>5, <1>6, HoldsOne, Zenon

\* ... what a read takes, ...
LEMMA ReadHolds ==
    ASSUME CommandConstants, Shaped, Mutexes, NEW t \in Threads, NEW m \in Members,
           SaveRead(t, m) \/ UpdateRead(t, m)
    PROVE  Mutexes'
<1>1. PICK l, r : Reads(t, l, m, r) /\ l \in {"put", "put_status"}
                  /\ call[t].at = (IF l = "put" THEN "save" ELSE "update")
  <2>1. CASE SaveRead(t, m)
    <3>1. Reads(t, "put", m, Json(call[t].task)) /\ call[t].at = "save"
      BY <2>1, ReadSteps, Zenon DEF Shaped, SaveRead
    <3> QED  BY <3>1
  <2>2. CASE UpdateRead(t, m)
    <3>1. Reads(t, "put_status", m, Updated(t)) /\ call[t].at = "update"
      BY <2>2, ReadSteps, Zenon DEF Shaped, UpdateRead
    <3> QED  BY <3>1
  <2> QED  BY <2>1, <2>2
<1>2. /\ call'[t].at = l /\ call'[t].cmd = call[t].cmd /\ call'[t].member = m
      /\ \A u \in Threads \ {t} : call'[u] = call[u]
  BY <1>1 DEF Reads, Sets
<1>3. /\ storage[m] = None /\ storage' = [storage EXCEPT ![m] = t]
      /\ task_mutex' = task_mutex
  BY Zenon DEF SaveRead, UpdateRead, getStorageFromPool
<1>4. Owns(call'[t]) => Owns(call[t])
  <2>1. call[t].at # "idle"
    BY <1>1
  <2>2. Stage(call[t].at, call[t].cmd)
    BY <2>1, StageOf
  <2> QED  BY <1>1, <1>2, <2>2 DEF Owns, Stage
<1>5. Owns(call'[t]) => task_mutex' = t
  BY <1>3, <1>4 DEF Mutexes, Holding
<1>6. storage'[m] = t
  BY <1>3 DEF Mutexes
<1>7. \E n \in Members, v \in {None, t} :
         storage[n] \in {None, t} /\ storage' = [storage EXCEPT ![n] = v]
  BY <1>3, Zenon
<1> QED  BY <1>2, <1>3, <1>5, <1>6, <1>7, HoldsOne, Zenon

\* ... and the steps that leave the members of the pool alone.
LEMMA OtherHolds ==
    ASSUME CommandConstants, Mutexes, NEW t \in Threads, NEW l, NEW k, NEW o, NEW m, NEW r,
           Sets(t, l, k, o, m, r), l \notin {"put", "put_status"}, storage' = storage,
           task_mutex' = task_mutex \/ (task_mutex \in {None, t} /\ task_mutex' \in {None, t}),
           (k = "enqueue" \/ l = "start" \/ (k = "run" /\ l = "update")) => task_mutex' = t
    PROVE  Mutexes'
<1>1. /\ call'[t].at = l /\ call'[t].cmd = k
      /\ \A u \in Threads \ {t} : call'[u] = call[u]
  BY DEF Sets
<1>2. ~Writing(call'[t]) /\ (Owns(call'[t]) => task_mutex' = t)
  BY <1>1 DEF Owns, Writing
<1> QED  BY <1>1, <1>2, HoldsOne

\* Every step keeps the mutexes.
LEMMA MutexesStay ==
    ASSUME CommandConstants, Shaped, Mutexes, [Next]_vars
    PROVE  Mutexes'
<1>0. Typed
  BY DEF Shaped
<1>1. ASSUME NEW t \in Threads, NEW k, NEW l, NEW o, Starts(t, k, l, o),
             l \notin {"put", "put_status"}, UNCHANGED locks,
             k # "enqueue", l # "start", l # "update"
      PROVE  Mutexes'
  BY <1>1, OtherHolds DEF Starts, locks
<1>2. ASSUME NEW t \in Threads, NEW o \in Tasks, enqueue(t, o) PROVE Mutexes'
  <2>1. Sets(t, "insert", "enqueue", o, 0, Absent)
    BY <1>0, <1>2, FirstSteps, Zenon DEF Starts
  <2>2. task_mutex = None /\ task_mutex' = t /\ storage' = storage
    BY <1>2 DEF enqueue
  <2> QED  BY <2>1, <2>2, OtherHolds
<1>3. ASSUME NEW t \in Threads, NEW o \in Tasks, NEW i \in Ids, run(t, i, o)
      PROVE  Mutexes'
  <2>1. Sets(t, "start", "run", o, 0, Absent)
    BY <1>0, <1>3, FirstSteps, Zenon DEF Starts
  <2>2. task_mutex = None /\ task_mutex' = t /\ storage' = storage
    BY <1>3 DEF run
  <2> QED  BY <2>1, <2>2, OtherHolds
<1>4. ASSUME NEW t \in Threads, NEW o \in Tasks, NEW i \in Ids,
             \/ cancel(t, i, o) \/ kill(t, i, o) \/ edit(t, i, o)
             \/ \E s \in ImportStatuses : importTask(t, o, i, s)
      PROVE  Mutexes'
  <2>1. \/ Starts(t, "cancel", "cancelling", o) \/ Starts(t, "kill", "killing", o)
        \/ Starts(t, "edit", "save", o) \/ Starts(t, "import", "save", o)
    BY <1>0, <1>4, FirstSteps, Zenon
  <2>2. UNCHANGED locks
    BY <1>4, Zenon DEF cancel, kill, edit, importTask
  <2> QED  BY <1>1, <2>1, <2>2
<1>5. ASSUME NEW t \in Threads, NEW o \in Tasks, NEW i \in Ids, setSchedule(t, i, o)
      PROVE  Mutexes'
  <2>1. PICK r : r = Json(o)
    BY Zenon
  <2>2. Sets(t, "from_json", "edit", o, 0, r)
    BY <1>0, <1>5, <2>1, FirstSteps, Zenon
  <2>3. storage' = storage /\ task_mutex' = task_mutex
    BY <1>5 DEF setSchedule, locks
  <2> QED  BY <2>2, <2>3, OtherHolds
<1>6. ASSUME NEW t \in Threads, Insert(t) \/ ImportRegister(t) \/ fromJson(t)
      PROVE  Mutexes'
  <2>1. /\ call[t].at \in {"insert", "register", "from_json"}
        /\ storage' = storage /\ task_mutex' = task_mutex
    BY <1>6 DEF Insert, ImportRegister, fromJson, locks
  <2>2. Ends(t) \/ \E l \in {"save", "insert"} : Goes(t, l)
    BY <1>0, <1>6, LaterSteps
  <2>3. ASSUME NEW l \in {"save", "insert"}, Goes(t, l) PROVE Mutexes'
    <3>1. call[t].cmd = "enqueue" => task_mutex' = t
      BY <2>1 DEF Mutexes, Holding, Owns
    <3> QED  BY <2>1, <2>3, <3>1, OtherHolds, Zenon DEF Goes
  <2>4. ASSUME Ends(t) PROVE Mutexes'
    BY <2>1, <2>4, OtherHolds DEF Ends
  <2> QED  BY <2>2, <2>3, <2>4, ZenonT(30)
<1>7. ASSUME NEW t \in Threads, Start(t) PROVE Mutexes'
  <2>1. call[t].at = "start" /\ task_mutex' = None /\ storage' = storage
    BY <1>7 DEF Start
  <2>2. task_mutex = t
    BY <2>1 DEF Mutexes, Holding, Owns
  <2>3. Goes(t, "execute")
    BY <1>0, <1>7, LaterSteps, Zenon
  <2>4. call[t].cmd = "run"
    <3>1. Stage("start", call[t].cmd)
      BY <2>1, StageOf
    <3> QED  BY <3>1 DEF Stage
  <2> QED  BY <2>1, <2>2, <2>3, <2>4, OtherHolds DEF Goes
<1>8. ASSUME NEW t \in Threads, Ends(t), UNCHANGED locks PROVE Mutexes'
  BY <1>8, OtherHolds DEF Ends, locks
<1>9. ASSUME NEW t \in Threads, NEW s, Decides(t, s), storage' = storage,
             \/ task_mutex' = t /\ task_mutex = None
             \/ task_mutex' = task_mutex /\ call[t].cmd \notin {"enqueue", "run"}
      PROVE  Mutexes'
  <2>1. PICK r \in Records :
           Sets(t, "update", call[t].cmd, call[t].task, call[t].member, r)
    BY <1>9 DEF Decides
  <2> QED  BY <1>9, <2>1, OtherHolds
<1>10. ASSUME NEW t \in Threads, Executed(t) PROVE Mutexes'
  <2>1. /\ storage' = storage
        /\ \/ task_mutex' = t /\ task_mutex = None
              /\ call' = [call EXCEPT ![t].at = "update",
                            ![t].rec.status = Completed(obj[call[t].task].status)]
           \/ Return(t) /\ task_mutex' = task_mutex
    BY <1>10, Zenon DEF Executed
  <2>2. ASSUME Return(t), task_mutex' = task_mutex PROVE Mutexes'
    <3>1. Ends(t)
      BY <1>0, <2>2, ReturnSets, Zenon DEF Ends, Typed, CommandConstants
    <3> QED  BY <1>8, <2>1, <2>2, <3>1, Zenon DEF locks
  <2>3. ASSUME task_mutex' = t, task_mutex = None PROVE Mutexes'
    <3>1. Ends(t) \/ Decides(t, Completed(obj[call[t].task].status))
      BY <1>0, <1>10, StatusSteps, Zenon
    <3>2. CASE Ends(t)
      BY <2>1, <2>3, <3>2, OtherHolds DEF Ends
    <3>3. CASE Decides(t, Completed(obj[call[t].task].status))
      BY <1>9, <2>1, <2>3, <3>3, ZenonT(30)
    <3> QED  BY <3>1, <3>2, <3>3
  <2> QED  BY <2>1, <2>2, <2>3, Zenon
<1>11. ASSUME NEW t \in Threads, Cancelled(t) \/ Killed(t) PROVE Mutexes'
  <2>1. /\ call[t].at \in {"cancelling", "killing"}
        /\ storage' = storage /\ task_mutex' = task_mutex
    BY <1>11 DEF Cancelled, Killed, locks
  <2>2. Stage(call[t].at, call[t].cmd)
    BY <2>1, StageOf, Zenon
  <2>3. call[t].cmd \notin {"enqueue", "run"}
    BY <2>1, <2>2 DEF Stage
  <2>4. Decides(t, "CANCELLED") \/ Decides(t, "FAILED")
    BY <1>0, <1>11, StatusSteps, Zenon
  <2> QED  BY <1>9, <2>1, <2>3, <2>4, Zenon
<1>12. ASSUME NEW t \in Threads, Write(t) PROVE Mutexes'
  <2>1. ASSUME Put(t) \/ UpdatePut(t) PROVE Mutexes'
    <3>1. Writing(call[t]) /\ Answer(t)
      BY <2>1 DEF Put, UpdatePut, Writing
    <3> QED  BY <3>1, AnswerHolds, Zenon
  <2>2. ASSUME NEW m \in Members, SaveRead(t, m) \/ UpdateRead(t, m) PROVE Mutexes'
    BY <2>2, ReadHolds, Zenon
  <2> QED  BY <1>12, <2>1, <2>2, Zenon DEF Write
<1>13. ASSUME \/ UNCHANGED vars
              \/ \E t \in Threads : list(t) \/ clear(t) \/ \E o \in Tasks : dequeue(t, o)
              \/ \E o \in Tasks : WorkerTake(o) \/ WorkerDone(o)
       PROVE  Mutexes'
  <2>1. call' = call /\ task_mutex' = task_mutex /\ storage' = storage
    BY <1>13, Zenon DEF vars, locks, list, clear, dequeue, Once, WorkerTake, WorkerDone
  <2> QED  BY <2>1, Zenon DEF Mutexes, Holding, Members, Owns, Writing
<1>14. ASSUME restart PROVE Mutexes'
  <2>1. /\ call' = [t \in Threads |-> Idle] /\ task_mutex' = None
        /\ storage' = [m \in Members |-> None]
    BY <1>14 DEF restart
  <2>2. ~Owns(Idle) /\ ~Writing(Idle)
    BY DEF Owns, Writing, Idle
  <2>3. Members' = Members /\ storage' \in [Members -> Threads \cup {None}]
    BY <2>1 DEF Members
  <2> QED  BY <2>1, <2>2, <2>3 DEF Mutexes, Holding
<1>15. ASSUME NEW t \in Threads,
              \/ Insert(t) \/ ImportRegister(t) \/ Write(t) \/ Start(t) \/ Executed(t)
              \/ Cancelled(t) \/ Killed(t) \/ fromJson(t) \/ list(t) \/ clear(t)
       PROVE  Mutexes'
  BY <1>6, <1>7, <1>10, <1>11, <1>12, <1>13, <1>15, ZenonT(30)
<1>16. ASSUME NEW t \in Threads, NEW o \in Tasks,
              \/ enqueue(t, o) \/ dequeue(t, o)
              \/ \E i \in Ids, s \in ImportStatuses : importTask(t, o, i, s)
       PROVE  Mutexes'
  BY <1>2, <1>4, <1>13, <1>16, Zenon
<1>17. ASSUME NEW t \in Threads, NEW o \in Tasks, NEW i \in Ids,
              \/ run(t, i, o) \/ cancel(t, i, o) \/ kill(t, i, o) \/ edit(t, i, o)
              \/ setSchedule(t, i, o)
       PROVE  Mutexes'
  BY <1>3, <1>4, <1>5, <1>17, Zenon
<1> QED  BY <1>13, <1>14, <1>15, <1>16, <1>17, ZenonT(30) DEF Next

\* The numbers stay in their ranges.  Ids are drawn by enqueue, importTask and list, and
\* drawn again from 0 only after a restart.
LEMMA StoredCounts ==
    ASSUME CommandConstants PROVE Cardinality(Stored) \in Nat
<1>1. IsFiniteSet(Ids)
  BY FS_Interval DEF Ids, CommandConstants
<1>2. Stored \subseteq Ids
  BY DEF Stored
<1> QED  BY <1>1, <1>2, FS_Subset, FS_CardinalityType, Zenon

\* Every step keeps the numbers in range, and next_id never falls without a
\* restart.
LEMMA NumbersStay ==
    ASSUME CommandConstants, Typed, [Next]_vars
    PROVE  /\ next_id' \in 0..MaxId /\ crashes' \in Nat
           /\ crashes' = 0 => crashes = 0 /\ next_id <= next_id'
<1>1. next_id \in 0..MaxId /\ crashes \in Nat /\ MaxId \in Nat
  BY DEF Typed, CommandConstants
<1>2. ASSUME next_id' = next_id, crashes' = crashes
      PROVE  /\ next_id' \in 0..MaxId /\ crashes' \in Nat
             /\ crashes' = 0 => crashes = 0 /\ next_id <= next_id'
  BY <1>1, <1>2
<1>3. ASSUME NEW n \in Nat, next_id' = next_id + n, next_id + n <= MaxId,
             crashes' = crashes
      PROVE  /\ next_id' \in 0..MaxId /\ crashes' \in Nat
             /\ crashes' = 0 => crashes = 0 /\ next_id <= next_id'
  BY <1>1, <1>3
<1> DEFINE G == /\ next_id' \in 0..MaxId /\ crashes' \in Nat
                /\ crashes' = 0 => crashes = 0 /\ next_id <= next_id'
<1> HIDE DEF G
<1>4. ASSUME NEW t \in Threads,
             \/ Insert(t) \/ ImportRegister(t) \/ Write(t) \/ Start(t) \/ Executed(t)
             \/ Cancelled(t) \/ Killed(t) \/ fromJson(t) \/ clear(t)
      PROVE  G
  <2>1. next_id' = next_id /\ crashes' = crashes
    BY <1>4, Zenon DEF Insert, ImportRegister, Write, Put, UpdatePut, SaveRead, UpdateRead, Start,
                Executed, Cancelled, Killed, fromJson, clear, Once, memory, bounds
  <2> QED  BY <1>2, <2>1 DEF G
<1>5. ASSUME NEW t \in Threads, list(t) PROVE G
  <2>1. PICK n \in Nat : n = Cardinality(Stored)
    BY StoredCounts
  <2> QED  BY <1>3, <1>5, <2>1 DEF list, Once, G
<1>6. ASSUME NEW t \in Threads, NEW o \in Tasks,
             \/ dequeue(t, o)
             \/ \E i \in Ids : \/ run(t, i, o) \/ cancel(t, i, o)
                               \/ kill(t, i, o) \/ edit(t, i, o)
                               \/ setSchedule(t, i, o)
      PROVE  G
  <2>1. next_id' = next_id /\ crashes' = crashes
    BY <1>6 DEF dequeue, Once, run, cancel, kill, edit, setSchedule, Begin, memory
  <2> QED  BY <1>2, <2>1, ZenonT(30) DEF G
<1>7. ASSUME NEW t \in Threads, NEW o \in Tasks,
             \/ enqueue(t, o)
             \/ \E i \in Ids, s \in ImportStatuses : importTask(t, o, i, s)
      PROVE  G
  <2>1. next_id' = next_id + 1 /\ next_id < MaxId /\ crashes' = crashes
    BY <1>7 DEF enqueue, generateId, importTask, Begin
  <2>2. next_id + 1 <= MaxId
    BY <1>1, <2>1
  <2> QED  BY <1>3, <2>1, <2>2, Zenon DEF G
<1>8. ASSUME UNCHANGED vars \/ \E o \in Tasks : WorkerTake(o) \/ WorkerDone(o)
      PROVE  G
  <2>1. next_id' = next_id /\ crashes' = crashes
    BY <1>8 DEF vars, memory, bounds, WorkerTake, WorkerDone
  <2> QED  BY <1>2, <2>1, Zenon DEF G
<1>9. ASSUME restart PROVE G
  BY <1>1, <1>9 DEF restart, G
<1>10. ASSUME NEW t \in Threads,
              \/ Insert(t) \/ ImportRegister(t) \/ Write(t) \/ Start(t) \/ Executed(t)
              \/ Cancelled(t) \/ Killed(t) \/ fromJson(t) \/ list(t) \/ clear(t)
       PROVE  G
  BY <1>4, <1>5, <1>10, Zenon
<1>11. G
  BY <1>6, <1>7, <1>8, <1>9, <1>10, ZenonT(30) DEF Next
<1> QED  BY <1>11 DEF G

-------------------------------------------------------------------------------
(* The inductive invariant.                                                *)

\* The server starts sound.
LEMMA SoundInit ==
    ASSUME CommandConstants, Init PROVE Sound
<1>1. /\ MaxId \in Nat \ {0} /\ MaxCalls \in Nat /\ None \notin Threads
      /\ Absent \in Records /\ Idle \in Calls
  BY DEF CommandConstants, Absent, Idle, Records, Calls, Labels, Names, Statuses
<1>2. /\ Absent.body = 0 /\ Idle.rec = Absent /\ Idle.at = "idle" /\ Idle.cmd = "none"
      /\ Unborn.body = 0
  BY DEF Absent, Idle, Unborn
<1>3. PICK n \in PoolSizes : storage = [m \in 1..n |-> None]
  BY DEF Init
<1>4. /\ Members = 1..n /\ Members \subseteq Int
      /\ storage \in [Members -> Threads \cup {None}]
  BY <1>3 DEF Members, CommandConstants
<1>5. Unborn \in [id : Ids, body : 0..MaxCalls, status : Statuses]
  <2>1. 0 \in Ids /\ 0 \in 0..MaxCalls /\ "NONE" \in Statuses
    BY <1>1 DEF Ids, Statuses
  <2> QED  BY <2>1 DEF Unborn
<1>6. /\ next_id = 0 /\ obj = [o \in Tasks |-> Unborn] /\ task_map = [i \in Ids |-> None]
      /\ queue = {} /\ executing = {} /\ db = [i \in Ids |-> Absent]
      /\ task_mutex = None /\ call = [t \in Threads |-> Idle] /\ calls = 0 /\ crashes = 0
      /\ answered = {} /\ imported = {}
  BY DEF Init
<1>7. Typed
  <2>1. obj \in [Tasks -> [id : Ids, body : 0..MaxCalls, status : Statuses]]
    BY <1>5, <1>6
  <2>2. /\ db \in [Ids -> Records] /\ call \in [Threads -> Calls]
        /\ task_map \in [Ids -> Tasks \cup {None}] /\ next_id \in 0..MaxId
        /\ calls \in 0..MaxCalls /\ crashes \in Nat
    BY <1>1, <1>6
  <2>3. \A t \in Threads : Staged(call[t])
    BY <1>6 DEF Staged
  <2> QED  BY <1>4, <1>6, <2>1, <2>2, <2>3, ZenonT(30) DEF Typed
<1>8. Counted
  BY <1>2, <1>6 DEF Counted
<1>9. Known
  <2>1. Created = {}
    BY <1>6 DEF Created, Unused
  <2> QED  BY <1>2, <1>6, <2>1 DEF Known
<1>10. Mutexes
  <2>1. ~Owns(Idle) /\ ~Writing(Idle)
    BY <1>2 DEF Owns, Writing
  <2> QED  BY <1>4, <1>6, <2>1 DEF Mutexes, Holding
<1> QED  BY <1>7, <1>8, <1>9, <1>10, ZenonT(30) DEF Sound, Shaped

\* Every step keeps the types, the known tasks and the mutexes.
LEMMA SoundStep ==
    ASSUME CommandConstants, Sound, [Next]_vars PROVE Sound' /\ Grown
<1>1. Shaped /\ Mutexes /\ Typed
  BY DEF Sound, Shaped
<1>2. Grown
  BY <1>1, Grows
<1>3. /\ Called' /\ Mapped' /\ Held' /\ Mutexes'
      /\ db' \in [Ids -> Records] /\ \A i \in Ids : db'[i].body <= calls'
      /\ next_id' \in 0..MaxId /\ crashes' \in Nat
  BY <1>1, <1>2, CallsStay, MapStays, HeldStay, MutexesStay, DatabaseStays, NumbersStay, ZenonT(30)
<1>4. Typed'
  <2>1. queue' \subseteq Tasks /\ executing' \subseteq Tasks
    BY <1>3 DEF Held, Created
  <2> QED  BY <1>2, <1>3, <2>1 DEF Typed, Grown, Objects, Called, Mapped, Mutexes
<1>5. Counted'
  BY <1>2, <1>3, Zenon DEF Counted, Grown, Called
<1>6. Known'
  BY <1>2, <1>3 DEF Known, Grown, Called, Mapped, Held
<1> QED  BY <1>2, <1>3, <1>4, <1>5, <1>6, Zenon DEF Sound, Shaped

\* Before the first restart, tasks that were not imported have ids of their own.
LEMMA NumberedStep ==
    ASSUME CommandConstants, Sound, Grown, Numbered, [Next]_vars
    PROVE  Numbered'
<1>1. Typed /\ Counted /\ Known /\ next_id \in Nat /\ MaxId \in Nat
      /\ \A o \in Tasks : obj[o].id \in Nat
  BY DEF Sound, Shaped, Typed, Ids, CommandConstants
<1>2. /\ next_id' \in Nat
      /\ crashes' = 0 => crashes = 0 /\ next_id <= next_id'
  BY <1>1, NumbersStay
<1>3. imported \subseteq imported'
  BY HistoryGrows
<1>4. Evolves
  BY <1>1, ObjectsEvolve
<1>5. \A o \in Tasks : (o \in Created <=> obj[o] # Unborn)
                       /\ (o \in Created' <=> obj'[o] # Unborn)
  BY Zenon DEF Created, Unused
<1>6. ASSUME Created' \subseteq Created \cup imported' PROVE Numbered'
  <2>1. \A o \in Created' \ imported' : /\ o \in Created \ imported /\ o \in Tasks
                                        /\ obj'[o].id = obj[o].id
    BY <1>3, <1>6 DEF Grown, Created
  <2> QED  BY <1>1, <1>2, <2>1 DEF Numbered
<1>7. CASE obj' = obj
  BY <1>6, <1>7 DEF Created, Unused
<1>8. CASE \E o \in Created : Marks(o)
  <2>1. Created' \subseteq Created
    BY <1>5, <1>8 DEF Marks, Created
  <2> QED  BY <1>6, <2>1
<1>9. ASSUME NEW t \in Threads, NEW o \in Unused, NEW i \in Ids,
             NEW s \in Statuses \ {"NONE"}, Constructs(o, i, s),
             (enqueue(t, o) /\ i = next_id) \/ importTask(t, o, i, s)
      PROVE  Numbered'
  <2>1. Created' \subseteq Created \cup {o} /\ o \in Tasks
    BY <1>5, <1>9 DEF Constructs, Created, Unused
  <2>2. CASE importTask(t, o, i, s)
    BY <1>6, <2>1, <2>2, Zenon DEF importTask
  <2>3. CASE enqueue(t, o) /\ i = next_id
    <3>1. next_id' = next_id + 1 /\ obj'[o].id = next_id
      BY <1>9, <2>3, Zenon DEF enqueue, generateId, Constructs
    <3>2. \A p \in Created' \ imported' :
             p = o \/ (p \in Created \ imported /\ p \in Tasks /\ obj'[p].id = obj[p].id)
      BY <1>3, <2>1 DEF Grown, Created
    <3>3. ASSUME crashes' = 0, NEW p \in Created' \ imported', NEW q \in Created' \ imported'
          PROVE  obj'[p].id < next_id' /\ (obj'[p].id = obj'[q].id => p = q)
      <4>1. \A x \in Created \ imported : obj[x].id < next_id
        BY <1>2, <3>3 DEF Numbered
      <4>2. CASE p = o
        BY <1>1, <3>1, <3>2, <4>1, <4>2
      <4>3. CASE q = o
        BY <1>1, <3>1, <3>2, <4>1, <4>3
      <4>4. CASE p # o /\ q # o
        <5>1. obj[p].id < next_id /\ (obj[p].id = obj[q].id => p = q)
          BY <1>2, <3>2, <3>3, <4>4, Zenon DEF Numbered
        <5> QED  BY <1>1, <3>1, <3>2, <4>4, <5>1
      <4> QED  BY <4>2, <4>3, <4>4, Zenon
    <3> QED  BY <3>3 DEF Numbered
  <2> QED  BY <1>9, <2>2, <2>3, Zenon
<1> QED  BY <1>4, <1>7, <1>8, <1>9, Zenon DEF Evolves

\* No step writes a record under the id of another task.
LEMMA FiledStep ==
    ASSUME CommandConstants, Sound, Grown, Filed, [Next]_vars
    PROVE  Filed'
<1>1. Typed /\ Shaped /\ None \notin Tasks
  BY DEF Sound, Shaped, CommandConstants
<1>2. /\ Created \subseteq Created' /\ Created \subseteq Tasks
      /\ \A o \in Created : obj'[o].id = obj[o].id
  BY DEF Grown, Created
<1>3. ASSUME NEW r, NEW i, OfId(r, i)
      PROVE  r.task # None => r.task \in Created' /\ obj'[r.task].id = i
  BY <1>2, <1>3, Zenon DEF OfId
<1>4. ASSUME NEW t \in Threads, call[t].at # "idle"
      PROVE  call[t].task \in Created /\ obj'[call[t].task].id = obj[call[t].task].id
             /\ obj[call[t].task].id \in Ids
  BY <1>1, <1>2, <1>4, StageOf, Zenon DEF Typed
<1>5. ASSUME NEW i \in Ids
      PROVE  db'[i].task # None => db'[i].task \in Created' /\ obj'[db'[i].task].id = i
  <2>1. CASE db' = db
    BY <1>3, <2>1, Zenon DEF Filed
  <2>2. ASSUME NEW t \in Threads, Writes(t)
        PROVE  db'[i].task # None => db'[i].task \in Created' /\ obj'[db'[i].task].id = i
    <3>1. call[t].at \in {"put", "put_status"}
      BY <2>2 DEF Writes
    <3>2. PICK j \in Ids : j = obj[call[t].task].id
      BY <1>4, <3>1, Zenon
    <3>3. OfId(call[t].rec, j)
      BY <1>4, <3>1, <3>2, ZenonT(30) DEF Filed, OfId
    <3>4. db'[i] = IF i = j THEN call[t].rec ELSE db[i]
      BY <1>1, <2>2, <3>2 DEF Writes, Typed
    <3>5. OfId(db'[i], i)
      BY <3>3, <3>4, Zenon DEF Filed
    <3> QED  BY <1>3, <3>5
  <2> QED  BY <2>1, <2>2, DatabaseSteps, Zenon
<1>6. ASSUME NEW t \in Threads
      PROVE  /\ call'[t].at = "put" => call'[t].rec.task = call'[t].task
             /\ call'[t].at = "put_status" =>
                   (call'[t].rec.task # None =>
                       /\ call'[t].rec.task \in Created'
                       /\ obj'[call'[t].rec.task].id = obj'[call'[t].task].id)
  <2>1. Moves(t)
    BY <1>1, CallMoves, ZenonT(30)
  <2>2. CASE call'[t] = call[t]
    <3>1. call[t].at = "put" => call[t].rec.task = call[t].task
      BY Zenon DEF Filed
    <3>2. ASSUME call[t].at = "put_status", call[t].rec.task # None
          PROVE  /\ call[t].rec.task \in Created'
                 /\ obj'[call[t].rec.task].id = obj'[call[t].task].id
      BY <1>3, <1>4, <3>2, Zenon DEF Filed
    <3> QED  BY <2>2, <3>1, <3>2
  <2>3. CASE call'[t].at = "put" /\ call'[t].task = call[t].task
             /\ call'[t].rec = Json(call[t].task)
    BY <2>3 DEF Json
  <2>4. CASE call'[t].at = "put_status" /\ call'[t].task = call[t].task
             /\ call'[t].rec = Updated(t)
    <3>1. call'[t].at # "idle"
      BY <2>4, Zenon
    <3>2. call[t].at # "idle"
      <4>1. Called'
        BY <1>1, CallsStay
      <4>2. call'[t].task \in Tasks
        BY <3>1, <4>1 DEF Called, Created
      <4>3. call[t].task \in Tasks
        BY <2>4, <4>2, Zenon
      <4>4. Idle.task = None /\ Staged(call[t])
        BY <1>1 DEF Idle, Typed
      <4>5. Stage(call[t].at, call[t].cmd)
        BY <1>1, <4>3, <4>4, Zenon DEF Staged
      <4> QED  BY <4>5 DEF Stage
    <3>3. PICK j \in Ids : j = obj[call[t].task].id
      BY <1>4, <3>2
    <3>4. Updated(t).task = db[j].task
      BY <1>1, <3>3, Zenon DEF Updated, Typed, Records
    <3>5. OfId(db[j], j)
      BY DEF Filed
    <3>6. db[j].task # None => db[j].task \in Created' /\ obj'[db[j].task].id = j
      BY <1>3, <3>5, Zenon
    <3>7. call'[t].rec.task = db[j].task /\ obj'[call'[t].task].id = j
      BY <1>4, <2>4, <3>2, <3>3, <3>4, Zenon
    <3> QED  BY <2>4, <3>6, <3>7, Zenon
  <2>5. CASE call'[t].at \notin {"put", "put_status"}
    BY <2>5
  <2>6. call'[t] = Idle => call'[t].at = "idle"
    BY DEF Idle
  <2>7. call'[t].at \in {"put", "put_status"} =>
           \/ call'[t] = call[t]
           \/ call'[t].at = "put" /\ call'[t].task = call[t].task
              /\ call'[t].rec = Json(call[t].task)
           \/ call'[t].at = "put_status" /\ call'[t].task = call[t].task
              /\ call'[t].rec = Updated(t)
    BY <2>1, <2>6 DEF Moves
  <2> QED  BY <2>2, <2>3, <2>4, <2>5, <2>7, ZenonT(30)
<1> QED  BY <1>5, <1>6 DEF Filed, OfId

\* No step removes the record of a task that was answered for.
LEMMA KeptStep ==
    ASSUME CommandConstants, Sound, Grown, Filed, Kept, [Next]_vars
    PROVE  Kept'
<1>1. Typed /\ Shaped /\ None \notin Tasks /\ Created \subseteq Tasks
  BY DEF Sound, Shaped, CommandConstants, Created
<1>2. /\ Created \subseteq Created'
      /\ \A o \in Created : obj'[o].id = obj[o].id /\ obj[o].id \in Ids
  BY <1>1, Zenon DEF Grown, Typed
<1>3. unstored \subseteq unstored'
  BY HistoryGrows, Zenon
<1>4. ASSUME NEW t \in Threads, call[t].at \in {"put", "put_status"},
             call[t].at = "put" \/ call[t].rec.task # None
      PROVE  call[t].rec.task # None /\ call[t].task \in Created
             /\ obj[call[t].task].id \in Ids
  <2>1. call[t].task \in Created
    BY <1>1, <1>4, StageOf, Zenon
  <2> QED  BY <1>1, <1>2, <1>4, <2>1, Zenon DEF Filed
<1>5. ASSUME NEW i \in Ids, db[i].task # None PROVE db'[i].task # None
  <2>1. CASE db' = db
    BY <1>5, <2>1, Zenon
  <2>2. ASSUME NEW t \in Threads, Put(t) \/ (UpdatePut(t) /\ call[t].rec.task # None),
               Writes(t)
        PROVE  db'[i].task # None
    <3>1. call[t].rec.task # None /\ obj[call[t].task].id \in Ids
      BY <1>4, <2>2, Zenon DEF Put, UpdatePut
    <3> QED  BY <1>1, <1>5, <2>2, <3>1, Zenon DEF Writes, Typed
  <2> QED  BY <2>1, <2>2, DatabaseSteps
<1>6. ASSUME NEW t \in Threads, Put(t)
      PROVE  call[t].task \in unstored' \/ db'[obj[call[t].task].id].task # None
  <2>1. CASE call[t].task \in unstored'
    BY <2>1, Zenon
  <2>2. CASE call[t].task \notin unstored'
    <3>1. call[t].at = "put" /\ db' = [db EXCEPT ![obj[call[t].task].id] = call[t].rec]
      BY <1>6, <2>2, Zenon DEF Put
    <3>2. call[t].rec.task # None /\ obj[call[t].task].id \in Ids
      BY <1>4, <3>1, Zenon
    <3> QED  BY <1>1, <3>1, <3>2, Zenon DEF Typed
  <2> QED  BY <2>1, <2>2, ZenonT(30)
<1>7. ASSUME NEW o \in Secured', o \notin unstored'
      PROVE  o \in Created /\ (o \in Secured \/ db'[obj[o].id].task # None)
  BY <1>6, <1>7, SecuredGrows, Zenon
<1>8. ASSUME NEW o \in Secured', o \notin unstored' PROVE db'[obj'[o].id].task # None
  <2>1. o \in Created /\ (o \in Secured \/ db'[obj[o].id].task # None)
    BY <1>7, <1>8
  <2>2. obj'[o].id = obj[o].id /\ obj[o].id \in Ids
    BY <1>2, <2>1, Zenon
  <2>3. CASE o \in Secured
    <3>1. db[obj[o].id].task # None
      BY <1>3, <1>8, <2>3, Zenon DEF Kept
    <3> QED  BY <1>5, <2>2, <3>1, Zenon
  <2> QED  BY <2>1, <2>2, <2>3, Zenon
<1> QED  BY <1>8, Zenon DEF Kept

\* The commands keep the invariant.
LEMMA KernelHolds == Spec => []Kernel
<1>0. CommandConstants
  BY CommandsAssumption, Zenon DEF CommandConstants
<1>1. ASSUME Init PROVE Kernel
  <2>1. Sound
    BY <1>0, <1>1, SoundInit, Zenon
  <2>2. Created = {} /\ answered = {} /\ Absent.task = None
        /\ db = [i \in Ids |-> Absent] /\ call = [t \in Threads |-> Idle]
        /\ Idle.at = "idle"
    BY <1>1 DEF Init, Created, Unused, Absent, Idle
  <2> QED  BY <2>1, <2>2 DEF Kernel, Numbered, Filed, OfId, Kept, Secured
<1>2. ASSUME Kernel, [Next]_vars PROVE Kernel'
  <2>1. Sound' /\ Grown
    BY <1>0, <1>2, SoundStep DEF Kernel
  <2> QED  BY <1>0, <1>2, <2>1, NumberedStep, FiledStep, KeptStep, Zenon DEF Kernel
<1> QED  BY <1>1, <1>2, PTL DEF Spec

\* A call that writes holds the mutex of its member of the storage pool, an
\* enqueue that has not stored its task holds task_mutex_, and a task that
\* enqueue or importTask has answered for has its record in the database,
\* whatever commands, crashes and restarts follow, unless another task was given
\* its id (by an import, or after a restart) or a write of it failed.
THEOREM AnswersAreStored == Spec => [](AnsweredIsStored /\ TypeOK)
<1>1. ASSUME Kernel PROVE AnsweredIsStored
  <2> SUFFICES ASSUME NEW o \in answered \ unstored, db[obj[o].id].task # o
               PROVE  \E p \in SameId(o) : crashes > 0 \/ {o, p} \cap imported # {}
    BY DEF AnsweredIsStored
  <2>1. o \in Created /\ o \in Tasks
    BY <1>1, Zenon DEF Kernel, Sound, Shaped, Known, Created
  <2>2. PICK i \in Ids : i = obj[o].id
    BY <1>1, <2>1 DEF Kernel, Sound, Shaped, Typed
  <2>3. PICK p : p = db[i].task
    BY Zenon
  <2>4. p # None /\ p # o
    BY <1>1, <2>2, <2>3, ZenonT(30) DEF Kernel, Kept, Secured
  <2>5. p \in Created /\ obj[p].id = i
    BY <1>1, <2>3, <2>4, Zenon DEF Kernel, Filed, OfId
  <2>6. p \in SameId(o)
    BY <2>2, <2>4, <2>5, Zenon DEF SameId, Created
  <2>7. crashes > 0 \/ {o, p} \cap imported # {}
    <3>1. ASSUME crashes = 0, o \notin imported, p \notin imported PROVE FALSE
      BY <1>1, <2>1, <2>2, <2>4, <2>5, <3>1, Zenon DEF Kernel, Numbered
    <3>2. crashes \in Nat
      BY <1>1, Zenon DEF Kernel, Sound, Shaped, Typed
    <3> QED  BY <3>1, <3>2
  <2> QED  BY <2>6, <2>7
<1>2. ASSUME Kernel PROVE TypeOK
  BY <1>2 DEF Kernel, Sound, Shaped, Typed, Mutexes, Holding, Owns, Writing, TypeOK, Records
<1> QED  BY <1>1, <1>2, KernelHolds, PTL

\* With one member in the storage pool and before the first restart: when no
\* command is under way, the record of a task that was answered for is what the
\* task is in memory, however enqueue, importTask, run, setRetry, setDelay and
\* depend overlapped.
THEOREM StoredStaysCurrent == Spec => []StoredIsCurrent
<1>0. CommandConstants
  BY CommandsAssumption DEF CommandConstants
<1>1. ASSUME Init PROVE Current
  <2>1. /\ executing = {} /\ answered = {} /\ call = [t \in Threads |-> Idle]
        /\ Created = {}
    BY <1>1 DEF Init, Created, Unused
  <2>2. Idle.at = "idle" /\ Idle.cmd = "none"
    BY DEF Idle
  <2> QED  BY <2>1, <2>2 DEF Current, Carries, Finishing, Secured
<1>2. ASSUME Kernel, Current, [Next]_vars PROVE Current'
  <2>1. Sound /\ Grown
    BY <1>0, <1>2, SoundStep DEF Kernel
  <2> QED  BY <1>0, <1>2, <2>1, CurrentStep, Zenon
<1>3. ASSUME Current PROVE StoredIsCurrent
  <2> SUFFICES ASSUME AtRest, Single, NEW o \in answered \ (unstored \cup upset),
                      SameId(o) = {}
               PROVE  /\ db[obj[o].id].body = obj[o].body
                      /\ \/ db[obj[o].id].status = obj[o].status
                         \/ obj[o].status = "RUNNING"
    BY Zenon DEF StoredIsCurrent, Single
  <2>1. Idle.at = "idle"
    BY DEF Idle
  <2>2. ASSUME NEW l \in {"save", "put", "update", "put_status"} PROVE ~At(o, l)
    BY <2>1, Zenon DEF AtRest, At
  <2>3. Reflected(o)
    BY <1>3 DEF Current, Plain, Secured
  <2> QED  BY <2>2, <2>3, Zenon DEF Reflected, Agrees
<1> QED  BY <1>1, <1>2, <1>3, KernelHolds, PTL DEF Spec

===============================================================================
