------------------------------- MODULE Commands -------------------------------
(***************************************************************************)
(* CLICommands (network/CLICommands) over the task map and the queue of    *)
(* QueueManager, the Task objects, the workers of the thread pool and the  *)
(* database: what the commands leave in memory and what they leave stored, *)
(* across calls that overlap, writes that fail and restarts.               *)
(* A step is a critical section of one of the mutexes, or one access to an *)
(* object or the database outside of one.  The order of the queue, the     *)
(* counters and the log have modules of their own (QueueManager, Storage). *)
(***************************************************************************)
EXTENDS Integers, FiniteSets

CONSTANTS
    Threads,         \* network workers, which call the commands
    Tasks,           \* the Task objects the commands construct
    MaxId,           \* bound on Task::next_id_
    ImportStatuses,  \* the statuses in the files that are imported
    PoolSizes,       \* STORAGE_POOL_SIZE, one or more values to try
    MaxCalls,        \* bound on the commands called
    MaxCrashes,      \* bound on the restarts of the process
    None             \* no task, no thread

Ids == 0..(MaxId - 1)

VARIABLES
    next_id,     \* Task::next_id_
    obj,         \* the Task objects: id_, status_, and the rest as a version
    task_map,    \* QueueManager::task_map_
    queue,       \* the tasks in QueueManager's containers
    executing,   \* the tasks that the pool's workers execute
    db,          \* the keys task:<id>, of one database
    task_mutex,  \* who holds CLICommands::task_mutex_ unique
    storage,     \* who holds mutex_ of each member of storage_pool_
    call,        \* the command each thread is in
    calls, crashes,
    answered,    \* history: tasks whose enqueue or importTask answered success
    imported,    \* history: tasks constructed by importTask
    unstored,    \* history: tasks a write of which has failed
    upset        \* history: tasks that a pool worker, cancel, kill or
                 \*          setSchedule has marked

memory  == <<next_id, obj, task_map, queue, executing>>
locks   == <<task_mutex, storage>>
bounds  == <<calls, crashes>>
history == <<answered, imported, unstored, upset>>
vars    == <<memory, db, locks, call, bounds, history>>

Absent == [task |-> None, body |-> 0, status |-> "NONE"]
Unborn == [id |-> 0, body |-> 0, status |-> "NONE"]
Idle   == [at |-> "idle", cmd |-> "none", task |-> None, member |-> 0, rec |-> Absent]

\* toJson
Json(o) == [task |-> o, body |-> obj[o].body, status |-> obj[o].status]
Members == DOMAIN storage
Stored == {i \in Ids : db[i] # Absent}
Unused == {o \in Tasks : obj[o] = Unborn}

\* The object that is constructed next; which one it is does not matter.
Fresh(o) == Unused # {} /\ o = CHOOSE u \in Unused : TRUE
Terminal == {"COMPLETED", "FAILED", "CANCELLED"}
Statuses == {"NONE", "CREATED", "QUEUED", "RUNNING"} \cup Terminal

\* What a server is started with; a file that is imported names a status.
ASSUME CommandsAssumption ==
    /\ MaxId \in Nat \ {0} /\ MaxCalls \in Nat /\ MaxCrashes \in Nat
    /\ PoolSizes # {} /\ \A n \in PoolSizes : n \in Nat \ {0}
    /\ ImportStatuses \subseteq Statuses \ {"NONE"}
    /\ None \notin Tasks \cup Threads

\* QueueManager::task_mutex_, which cancelTask keeps over its accesses.
MapFree == \A t \in Threads : call[t].at # "cancelling"
Found(i, o) == MapFree /\ o # None /\ task_map[i] = o

Begin(t, c, l, o) ==
    /\ call[t] = Idle
    /\ calls < MaxCalls
    /\ calls' = calls + 1
    /\ call' = [call EXCEPT ![t].at = l, ![t].cmd = c, ![t].task = o]
    /\ UNCHANGED crashes
Go(t, l) == call' = [call EXCEPT ![t].at = l]
Return(t) == call' = [call EXCEPT ![t] = Idle]
SetStatus(o, s) == obj' = [obj EXCEPT ![o].status = s]
-------------------------------------------------------------------------------
(* enqueue (and submit, which reads its parameters from a file), under     *)
(* task_mutex_ as far as the save: construct the task, QueueManager's two  *)
(* critical sections, saveTask, answer.                                    *)

generateIdReused(i) == i = 0 /\ UNCHANGED next_id
generateId(i) == i = next_id /\ next_id < MaxId /\ next_id' = next_id + 1

enqueue(t, o) ==
    /\ task_mutex = None /\ MapFree
    /\ Fresh(o)
    /\ \E i \in Ids :
          /\ generateId(i)
          /\ obj' = [obj EXCEPT ![o] = [id |-> i, body |-> 0, status |-> "CREATED"]]
          /\ task_map' = [task_map EXCEPT ![i] = o]
    /\ Begin(t, "enqueue", "insert", o)
    /\ task_mutex' = t
    /\ UNCHANGED <<queue, executing, db, storage, history>>

Insert(t) ==
    /\ call[t].at = "insert"
    /\ queue' = queue \cup {call[t].task}
    /\ IF call[t].cmd = "enqueue"
       THEN Go(t, "save") /\ UNCHANGED answered
       ELSE Return(t) /\ answered' = answered \cup {call[t].task}
    /\ UNCHANGED <<next_id, obj, task_map, executing, db, locks, bounds, imported,
                   unstored, upset>>

\* importTask constructs a task, which draws an id, and gives it the id and the
\* status of the file; it saves first and enqueues then, with no lock of its own.
importTask(t, o, i, s) ==
    /\ Fresh(o) /\ next_id < MaxId
    /\ next_id' = next_id + 1
    /\ obj' = [obj EXCEPT ![o] = [id |-> i, body |-> 0, status |-> s]]
    /\ imported' = imported \cup {o}
    /\ Begin(t, "import", "save", o)
    /\ UNCHANGED <<task_map, queue, executing, db, locks, answered, unstored, upset>>

ImportRegister(t) ==
    /\ call[t].at = "register" /\ MapFree
    /\ task_map' = [task_map EXCEPT ![obj[call[t].task].id] = call[t].task]
    /\ Go(t, "insert")
    /\ UNCHANGED <<next_id, obj, queue, executing, db, locks, bounds, history>>
-------------------------------------------------------------------------------
(* Storage::saveTask on a member of the pool: its mutex_ is held from      *)
(* toJson to the Put.  The caller ignores whether it succeeded.            *)

\* A member whose mutex_ is free; which of them it is does not matter.
getStorageFromPool(m) ==
    storage[m] = None /\ \A n \in 1..(m - 1) : storage[n] # None

SaveRead(t, m) ==
    /\ call[t].at = "save"
    /\ getStorageFromPool(m)
    /\ storage' = [storage EXCEPT ![m] = t]
    /\ call' = [call EXCEPT ![t].at = "put", ![t].member = m,
                            ![t].rec = Json(call[t].task)]
    /\ UNCHANGED <<memory, db, task_mutex, bounds, history>>

\* What the command does once its write is over: importTask enqueues, the
\* others answer, and release task_mutex_ if they hold it.
Answer(t) ==
    /\ storage' = [storage EXCEPT ![call[t].member] = None]
    /\ task_mutex' = IF task_mutex = t THEN None ELSE task_mutex
    /\ IF call[t].cmd = "import" THEN Go(t, "register") ELSE Return(t)
    /\ answered' = IF call[t].cmd = "enqueue"
                   THEN answered \cup {call[t].task} ELSE answered

Put(t) ==
    LET o == call[t].task IN
    /\ call[t].at = "put"
    /\ \/ db' = [db EXCEPT ![obj[o].id] = call[t].rec] /\ UNCHANGED unstored
       \/ UNCHANGED db /\ unstored' = unstored \cup {o}
    /\ Answer(t)
    /\ UNCHANGED <<memory, bounds, imported, upset>>

\* updateTaskStatus: Get, then Put of the same JSON with the status replaced;
\* nothing if there is no record.
UpdateRead(t, m) ==
    /\ call[t].at = "update"
    /\ getStorageFromPool(m)
    /\ storage' = [storage EXCEPT ![m] = t]
    /\ call' = [call EXCEPT ![t].at = "put_status", ![t].member = m,
             ![t].rec = [db[obj[call[t].task].id] EXCEPT !.status = call[t].rec.status]]
    /\ UNCHANGED <<memory, db, task_mutex, bounds, history>>

UpdatePut(t) ==
    LET o == call[t].task IN
    /\ call[t].at = "put_status"
    /\ \/ /\ call[t].rec.task # None
          /\ db' = [db EXCEPT ![obj[o].id] = call[t].rec]
          /\ UNCHANGED unstored
       \/ UNCHANGED db /\ unstored' = unstored \cup {o}
    /\ Answer(t)
    /\ UNCHANGED <<memory, bounds, imported, upset>>
-------------------------------------------------------------------------------
(* run: find and start under task_mutex_, execute without it, complete and *)
(* store under it.  A task that throws is left as it is.                   *)

run(t, i, o) ==
    /\ task_mutex = None /\ Found(i, o)
    /\ task_mutex' = t
    /\ Begin(t, "run", "start", o)
    /\ UNCHANGED <<memory, db, storage, history>>

markStarted(o) ==
    IF obj[o].status = "QUEUED" THEN SetStatus(o, "RUNNING") ELSE UNCHANGED obj

Start(t) ==
    /\ call[t].at = "start"
    /\ markStarted(call[t].task)
    /\ task_mutex' = None
    /\ Go(t, "execute")
    /\ UNCHANGED <<next_id, task_map, queue, executing, db, storage, bounds, history>>

Completed(s) == IF s = "RUNNING" THEN "COMPLETED" ELSE s

\* Mutant: what is stored is what the call was meant to reach.
ExecutedStoresCompleted(t) ==
    LET o == call[t].task IN
    /\ call[t].at = "execute"
    /\ task_mutex = None
    /\ task_mutex' = t
    /\ SetStatus(o, Completed(obj[o].status))
    /\ call' = [call EXCEPT ![t].at = "update", ![t].rec.status = "COMPLETED"]
    /\ UNCHANGED <<next_id, task_map, queue, executing, db, storage, bounds, history>>
Executed(t) ==
    LET o == call[t].task
        s == Completed(obj[o].status) IN
    /\ call[t].at = "execute"
    /\ \/ /\ task_mutex = None
          /\ task_mutex' = t
          /\ SetStatus(o, s)
          /\ call' = [call EXCEPT ![t].at = "update", ![t].rec.status = s]
       \/ Return(t) /\ UNCHANGED <<obj, task_mutex>>
    /\ UNCHANGED <<next_id, task_map, queue, executing, db, storage, bounds, history>>
-------------------------------------------------------------------------------
(* cancel and kill take no lock of CLICommands.                            *)

cancel(t, i, o) ==
    /\ Found(i, o)
    /\ obj[o].status = "QUEUED"
    /\ Begin(t, "cancel", "cancelling", o)
    /\ UNCHANGED <<memory, db, locks, history>>

\* The rest of cancelTask; its accesses to the status are apart in module Task.
Cancelled(t) ==
    LET o == call[t].task IN
    /\ call[t].at = "cancelling"
    /\ IF obj[o].status \in Terminal THEN UNCHANGED obj ELSE SetStatus(o, "CANCELLED")
    /\ task_map' = [task_map EXCEPT ![obj[o].id] = None]
    /\ call' = [call EXCEPT ![t].at = "update", ![t].rec.status = "CANCELLED"]
    /\ upset' = upset \cup {o}
    /\ UNCHANGED <<next_id, queue, executing, db, locks, bounds, answered, imported,
                   unstored>>

kill(t, i, o) ==
    /\ Found(i, o)
    /\ obj[o].status = "RUNNING"
    /\ Begin(t, "kill", "killing", o)
    /\ UNCHANGED <<memory, db, locks, history>>

\* markFailed (module Task): a task that may be retried is CREATED again.
markFailed(o) ==
    IF obj[o].status = "RUNNING"
    THEN \E s \in {"FAILED", "CREATED"} : SetStatus(o, s)
    ELSE UNCHANGED obj

Killed(t) ==
    /\ call[t].at = "killing"
    /\ markFailed(call[t].task)
    /\ call' = [call EXCEPT ![t].at = "update", ![t].rec.status = "FAILED"]
    /\ upset' = upset \cup {call[t].task}
    /\ UNCHANGED <<next_id, task_map, queue, executing, db, locks, bounds, answered, imported,
                   unstored>>
-------------------------------------------------------------------------------
(* setRetry, setDelay and depend change the object and save it.            *)
(* setSchedule writes it to JSON, reads the JSON back, and saves it.       *)

edit(t, i, o) ==
    /\ Found(i, o)
    /\ obj' = [obj EXCEPT ![o].body = @ + 1]
    /\ Begin(t, "edit", "save", o)
    /\ UNCHANGED <<next_id, task_map, queue, executing, db, locks, history>>

setSchedule(t, i, o) ==
    /\ Found(i, o)
    /\ call[t] = Idle /\ calls < MaxCalls
    /\ calls' = calls + 1
    /\ call' = [call EXCEPT ![t] = [at |-> "from_json", cmd |-> "edit", task |-> o,
                                    member |-> 0, rec |-> Json(o)]]
    /\ UNCHANGED <<memory, db, locks, crashes, history>>

fromJson(t) ==
    /\ call[t].at = "from_json"
    /\ obj' = [obj EXCEPT ![call[t].task].body = call[t].rec.body,
                          ![call[t].task].status = call[t].rec.status]
    /\ Go(t, "save")
    /\ upset' = upset \cup {call[t].task}
    /\ UNCHANGED <<next_id, task_map, queue, executing, db, locks, bounds,
                   answered, imported, unstored>>
-------------------------------------------------------------------------------
(* Calls of a single step.                                                 *)

Once(t) ==
    /\ call[t] = Idle /\ calls < MaxCalls
    /\ calls' = calls + 1
    /\ UNCHANGED <<call, crashes>>

\* list and ready construct one Task, hence draw one id, per record; ready does so
\* without task_mutex_.
list(t) ==
    /\ Once(t)
    /\ \E m \in Members : storage[m] = None
    /\ Stored # {} /\ next_id + Cardinality(Stored) <= MaxId
    /\ next_id' = next_id + Cardinality(Stored)
    /\ UNCHANGED <<obj, task_map, queue, executing, db, locks, history>>

dequeue(t, o) ==
    /\ Once(t)
    /\ task_mutex = None /\ o \in queue
    /\ queue' = queue \ {o}
    /\ UNCHANGED <<next_id, obj, task_map, executing, db, locks, history>>

clear(t) ==
    /\ Once(t)
    /\ MapFree
    /\ queue' = {}
    /\ task_map' = [i \in Ids |-> None]
    /\ UNCHANGED <<next_id, obj, executing, db, locks, history>>

\* A worker of the pool takes a task and executes it; it stores nothing.
WorkerTake(o) ==
    /\ o \in queue
    /\ queue' = queue \ {o}
    /\ executing' = executing \cup {o}
    /\ markStarted(o)
    /\ upset' = upset \cup {o}
    /\ UNCHANGED <<next_id, task_map, db, locks, call, bounds, answered, imported,
                   unstored>>

WorkerDone(o) ==
    /\ o \in executing
    /\ executing' = executing \ {o}
    /\ SetStatus(o, Completed(obj[o].status)) \/ markFailed(o)
    /\ UNCHANGED <<next_id, task_map, queue, db, locks, call, bounds, history>>

\* The process ends and main starts another one, which loads nothing.
restart ==
    /\ crashes < MaxCrashes
    /\ crashes' = crashes + 1
    /\ next_id' = 0
    /\ task_map' = [i \in Ids |-> None]
    /\ queue' = {} /\ executing' = {}
    /\ task_mutex' = None
    /\ storage' = [m \in Members |-> None]
    /\ call' = [t \in Threads |-> Idle]
    /\ UNCHANGED <<obj, db, calls, history>>
-------------------------------------------------------------------------------
Init ==
    /\ next_id = 0
    /\ obj = [o \in Tasks |-> Unborn]
    /\ task_map = [i \in Ids |-> None]
    /\ queue = {} /\ executing = {}
    /\ db = [i \in Ids |-> Absent]
    /\ task_mutex = None
    /\ \E n \in PoolSizes : storage = [m \in 1..n |-> None]
    /\ call = [t \in Threads |-> Idle]
    /\ calls = 0 /\ crashes = 0
    /\ answered = {} /\ imported = {} /\ unstored = {} /\ upset = {}

Write(t) == Put(t) \/ UpdatePut(t)
               \/ \E m \in Members : SaveRead(t, m) \/ UpdateRead(t, m)

Next ==
    \/ \E t \in Threads :
          \/ Insert(t) \/ ImportRegister(t) \/ Write(t) \/ Start(t) \/ Executed(t)
          \/ Cancelled(t) \/ Killed(t) \/ fromJson(t) \/ list(t) \/ clear(t)
          \/ \E o \in Tasks : \/ enqueue(t, o) \/ dequeue(t, o)
                              \/ \E i \in Ids, s \in ImportStatuses :
                                    importTask(t, o, i, s)
          \/ \E i \in Ids, o \in Tasks : \/ run(t, i, o) \/ cancel(t, i, o)
                                         \/ kill(t, i, o) \/ edit(t, i, o)
                                         \/ setSchedule(t, i, o)
    \/ \E o \in Tasks : WorkerTake(o) \/ WorkerDone(o)
    \/ restart

Spec == Init /\ [][Next]_vars
-------------------------------------------------------------------------------
(* Properties.                                                             *)

AtRest == \A t \in Threads : call[t] = Idle
SameId(o) == {p \in Tasks \ (Unused \cup {o}) : obj[p].id = obj[o].id}

\* Types; a call that writes holds the mutex_ of its member of the pool, and an
\* enqueue that has not stored its task holds task_mutex_.
TypeOK ==
    /\ next_id \in 0..MaxId
    /\ obj \in [Tasks -> [id : Ids, body : 0..MaxCalls, status : Statuses]]
    /\ task_map \in [Ids -> Tasks \cup {None}]
    /\ queue \subseteq Tasks /\ executing \subseteq Tasks
    /\ db \in [Ids -> [task : Tasks \cup {None}, body : 0..MaxCalls,
                       status : Statuses]]
    /\ \A t \in Threads :
          /\ call[t].at \in {"put", "put_status"} => storage[call[t].member] = t
          /\ call[t].cmd = "enqueue" => task_mutex = t

\* A task that enqueue or importTask has answered for has its record in the
\* database, whatever commands, crashes and restarts follow, unless another task
\* was given its id: by an import, or after a restart, when next_id_ starts at 0
\* again.  (A write that fails is not reported: such tasks are in unstored.)
AnsweredIsStored ==
    \A o \in answered \ unstored :
        \/ db[obj[o].id].task = o
        \/ \E p \in SameId(o) : crashes > 0 \/ {o, p} \cap imported # {}

\* architecture.md, "Crash Recovery: Safe recovery from system failures": what
\* enqueue has stored is still stored after the process has been restarted.
AnsweredIsKept ==
    imported = {} => \A o \in answered \ unstored : db[obj[o].id].task = o

\* When no command is under way, the record of a task is what the task is in
\* memory, however enqueue, importTask, run, setRetry, setDelay and depend
\* overlapped: each stores what it read under a lock it still holds.  Only
\* RUNNING is not stored.  (With one member in the pool of Storages; not for a
\* task that a worker, cancel, kill or setSchedule has marked: a worker stores
\* nothing, the others what the task no longer is.)
StoredIsCurrent ==
    AtRest /\ Members = {1} /\ crashes = 0 =>
        \A o \in answered \ (unstored \cup upset) : SameId(o) = {} =>
            /\ db[obj[o].id].body = obj[o].body
            /\ \/ db[obj[o].id].status = obj[o].status
               \/ obj[o].status = "RUNNING"
===============================================================================
