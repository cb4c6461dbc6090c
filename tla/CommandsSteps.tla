---------------------------- MODULE CommandsSteps ----------------------------
(***************************************************************************)
(* What each step of the commands does to the calls, the Task objects, the *)
(* map, the sets of tasks and the database: the lemmas on which            *)
(* CommandsProofs rests.                                                   *)
(***************************************************************************)
EXTENDS Commands, TLAPS

\* The time that a step may take.
USE SMTT(20), ZenonT(30), SMTT(25)

\* What a server is started with; a file that is imported has the name of a
\* status in it.
CommandConstants ==
    /\ MaxId \in Nat \ {0} /\ MaxCalls \in Nat /\ MaxCrashes \in Nat
    /\ \A n \in PoolSizes : n \in Nat
    /\ ImportStatuses \subseteq Statuses \ {"NONE"}
    /\ None \notin Tasks \cup Threads

-------------------------------------------------------------------------------
(* The calls.                                                              *)

\* The records of the database.
Records == [task : Tasks \cup {None}, body : 0..MaxCalls, status : Statuses]
Labels  == {"idle", "insert", "save", "put", "register", "start", "execute",
            "update", "put_status", "cancelling", "killing", "from_json"}
Names   == {"none", "enqueue", "import", "run", "cancel", "kill", "edit"}
Calls   == [at : Labels, cmd : Names, task : Tasks \cup {None}, member : Int,
            rec : Records]

\* How far each command can be.
Stage(l, k) ==
    \/ k \in {"enqueue", "import"} /\ l \in {"insert", "save", "put"}
    \/ k = "import" /\ l = "register"
    \/ k = "edit" /\ l \in {"from_json", "save", "put"}
    \/ k = "run" /\ l \in {"start", "execute", "update", "put_status"}
    \/ k = "cancel" /\ l \in {"cancelling", "update", "put_status"}
    \/ k = "kill" /\ l \in {"killing", "update", "put_status"}
Staged(c) == c = Idle \/ (c.task \in Tasks /\ Stage(c.at, c.cmd))

\* The types of the variables.
Typed ==
    /\ next_id \in 0..MaxId
    /\ obj \in [Tasks -> [id : Ids, body : 0..MaxCalls, status : Statuses]]
    /\ task_map \in [Ids -> Tasks \cup {None}]
    /\ queue \subseteq Tasks /\ executing \subseteq Tasks
    /\ db \in [Ids -> Records]
    /\ calls \in 0..MaxCalls /\ crashes \in Nat
    /\ task_mutex \in Threads \cup {None}
    /\ storage \in [Members -> Threads \cup {None}] /\ Members \subseteq Int
    /\ call \in [Threads -> Calls]
    /\ \A t \in Threads : Staged(call[t])

\* The body of a task is changed at most once in each call.
Counted ==
    /\ \A o \in Tasks : obj[o].body <= calls
    /\ \A i \in Ids : db[i].body <= calls
    /\ \A t \in Threads : call[t].rec.body <= calls

\* The call of thread t, and no other, becomes the one that is given.
Sets(t, l, k, o, m, r) ==
    /\ call' \in [Threads -> Calls]
    /\ call'[t] = [at |-> l, cmd |-> k, task |-> o, member |-> m, rec |-> r]
    /\ \A u \in Threads \ {t} : call'[u] = call[u]

\* A change of one call, seen from all of them.
LEMMA OneCall ==
    ASSUME call \in [Threads -> Calls], NEW t \in Threads, NEW c \in Calls,
           call' = [call EXCEPT ![t] = c]
    PROVE  Sets(t, c.at, c.cmd, c.task, c.member, c.rec)
<1>1. /\ call' \in [Threads -> Calls] /\ call'[t] = c
      /\ \A u \in Threads \ {t} : call'[u] = call[u]
  OBVIOUS
<1>2. c = [at |-> c.at, cmd |-> c.cmd, task |-> c.task, member |-> c.member, rec |-> c.rec]
  BY DEF Calls
<1> QED  BY <1>1, <1>2, Zenon DEF Sets

\* A command goes on to its next step, ...
LEMMA GoSets ==
    ASSUME call \in [Threads -> Calls], NEW t \in Threads, NEW l \in Labels, Go(t, l)
    PROVE  Sets(t, l, call[t].cmd, call[t].task, call[t].member, call[t].rec)
<1>1. PICK c \in Calls : c = [call[t] EXCEPT !.at = l]
  BY Zenon DEF Calls
<1>2. call' = [call EXCEPT ![t] = c]
  BY <1>1 DEF Go
<1>3. /\ c.at = l /\ c.cmd = call[t].cmd /\ c.task = call[t].task
      /\ c.member = call[t].member /\ c.rec = call[t].rec
  BY <1>1 DEF Calls
<1> QED  BY <1>2, <1>3, OneCall, Zenon

\* ... begins, ...
LEMMA BeginSets ==
    ASSUME call \in [Threads -> Calls], MaxCalls \in Nat, NEW t \in Threads,
           NEW k \in Names, NEW l \in Labels, NEW o \in Tasks, Begin(t, k, l, o)
    PROVE  Sets(t, l, k, o, 0, Absent)
<1>1. Absent \in Records /\ call[t] = Idle
  BY DEF Absent, Records, Statuses, Begin
<1>2. PICK c \in Calls : c = [call[t] EXCEPT !.at = l, !.cmd = k, !.task = o]
  BY Zenon DEF Calls
<1>3. call' = [call EXCEPT ![t] = c]
  BY <1>2, Zenon DEF Begin
<1>4. c.at = l /\ c.cmd = k /\ c.task = o /\ c.member = 0 /\ c.rec = Absent
  <2>1. Idle.member = 0 /\ Idle.rec = Absent
    BY DEF Idle
  <2>2. /\ c.at = l /\ c.cmd = k /\ c.task = o
        /\ c.member = call[t].member /\ c.rec = call[t].rec
    BY <1>2 DEF Calls
  <2> QED  BY <1>1, <2>1, <2>2
<1> QED  BY <1>3, <1>4, OneCall, Zenon

\* ... or returns.
LEMMA ReturnSets ==
    ASSUME call \in [Threads -> Calls], MaxCalls \in Nat, NEW t \in Threads, Return(t)
    PROVE  Sets(t, "idle", "none", None, 0, Absent)
<1>1. Idle \in Calls
  BY DEF Idle, Absent, Calls, Records, Labels, Names, Statuses
<1>2. /\ Idle.at = "idle" /\ Idle.cmd = "none" /\ Idle.task = None
      /\ Idle.member = 0 /\ Idle.rec = Absent
  BY DEF Idle
<1> QED  BY <1>1, <1>2, OneCall, Zenon DEF Return

\* It locks a member of the pool and reads a record, ...
LEMMA ReadSets ==
    ASSUME call \in [Threads -> Calls], NEW t \in Threads, NEW l \in Labels,
           NEW m \in Int, NEW r \in Records,
           call' = [call EXCEPT ![t].at = l, ![t].member = m, ![t].rec = r]
    PROVE  Sets(t, l, call[t].cmd, call[t].task, m, r)
<1>1. PICK c \in Calls : c = [call[t] EXCEPT !.at = l, !.member = m, !.rec = r]
  BY Zenon DEF Calls
<1>2. call' = [call EXCEPT ![t] = c]
  BY <1>1, Zenon
<1>3. /\ c.at = l /\ c.cmd = call[t].cmd /\ c.task = call[t].task
      /\ c.member = m /\ c.rec = r
  BY <1>1 DEF Calls
<1> QED  BY <1>2, <1>3, OneCall, Zenon

\* ... or decides on the status to store.
LEMMA StatusSets ==
    ASSUME call \in [Threads -> Calls], NEW t \in Threads, NEW s \in Statuses,
           call' = [call EXCEPT ![t].at = "update", ![t].rec.status = s]
    PROVE  \E r \in Records :
              /\ r.task = call[t].rec.task /\ r.body = call[t].rec.body /\ r.status = s
              /\ Sets(t, "update", call[t].cmd, call[t].task, call[t].member, r)
<1>1. call[t].rec \in Records
  BY DEF Calls
<1>2. PICK r \in Records : r = [call[t].rec EXCEPT !.status = s]
  BY <1>1, Zenon DEF Records
<1>3. r.task = call[t].rec.task /\ r.body = call[t].rec.body /\ r.status = s
  BY <1>1, <1>2 DEF Records
<1>4. PICK c \in Calls : c = [call[t] EXCEPT !.at = "update", !.rec = r]
  BY Zenon DEF Calls, Labels
<1>5. call' = [call EXCEPT ![t] = c]
  BY <1>2, <1>4, Zenon
<1>6. /\ c.at = "update" /\ c.cmd = call[t].cmd /\ c.task = call[t].task
      /\ c.member = call[t].member /\ c.rec = r
  BY <1>4 DEF Calls
<1>7. Sets(t, "update", call[t].cmd, call[t].task, call[t].member, r)
  <2>1. Sets(t, c.at, c.cmd, c.task, c.member, c.rec)
    BY <1>5, OneCall, Zenon
  <2> QED  BY <1>6, <2>1, Zenon
<1> QED  BY <1>3, <1>7

\* A call begins, goes on, ends, reads a record, or decides on an outcome.
Starts(t, k, l, o) == call[t] = Idle /\ Sets(t, l, k, o, 0, Absent)
Goes(t, l) == Sets(t, l, call[t].cmd, call[t].task, call[t].member, call[t].rec)
Ends(t) == Sets(t, "idle", "none", None, 0, Absent)
Reads(t, l, m, r) == Sets(t, l, call[t].cmd, call[t].task, m, r)
Decides(t, s) ==
    \E r \in Records :
        /\ r.task = call[t].rec.task /\ r.body = call[t].rec.body /\ r.status = s
        /\ Sets(t, "update", call[t].cmd, call[t].task, call[t].member, r)

\* What the first step of a command does to its call.
LEMMA FirstSteps ==
    ASSUME CommandConstants, Typed, NEW t \in Threads, NEW o \in Tasks
    PROVE  /\ enqueue(t, o) => Starts(t, "enqueue", "insert", o)
           /\ \A i, s : importTask(t, o, i, s) => Starts(t, "import", "save", o)
           /\ \A i : run(t, i, o) => Starts(t, "run", "start", o)
           /\ \A i : cancel(t, i, o) => Starts(t, "cancel", "cancelling", o)
           /\ \A i : kill(t, i, o) => Starts(t, "kill", "killing", o)
           /\ \A i : edit(t, i, o) => Starts(t, "edit", "save", o)
           /\ \A i : setSchedule(t, i, o) =>
                 call[t] = Idle /\ Sets(t, "from_json", "edit", o, 0, Json(o))
<1>1. call \in [Threads -> Calls] /\ MaxCalls \in Nat
  BY DEF Typed, CommandConstants
<1>2. ASSUME NEW k \in Names, NEW l \in Labels, Begin(t, k, l, o)
      PROVE  Starts(t, k, l, o)
  <2>1. Sets(t, l, k, o, 0, Absent)
    BY <1>1, <1>2, BeginSets
  <2> QED  BY <1>2, <2>1 DEF Starts, Begin
<1>3. /\ {"enqueue", "import", "run", "cancel", "kill", "edit"} \subseteq Names
      /\ {"insert", "save", "start", "cancelling", "killing", "from_json"} \subseteq Labels
  BY DEF Names, Labels
<1>4. enqueue(t, o) => Starts(t, "enqueue", "insert", o)
  BY <1>2, <1>3 DEF enqueue
<1>5. \A i, s : importTask(t, o, i, s) => Starts(t, "import", "save", o)
  BY <1>2, <1>3 DEF importTask
<1>6. \A i : run(t, i, o) => Starts(t, "run", "start", o)
  BY <1>2, <1>3 DEF run
<1>7. \A i : cancel(t, i, o) => Starts(t, "cancel", "cancelling", o)
  BY <1>2, <1>3 DEF cancel
<1>8. \A i : kill(t, i, o) => Starts(t, "kill", "killing", o)
  BY <1>2, <1>3 DEF kill
<1>9. \A i : edit(t, i, o) => Starts(t, "edit", "save", o)
  BY <1>2, <1>3 DEF edit
<1>10. ASSUME NEW i, setSchedule(t, i, o)
       PROVE  call[t] = Idle /\ Sets(t, "from_json", "edit", o, 0, Json(o))
  <2>1. Json(o) \in Records
    BY DEF Json, Typed, Records
  <2> DEFINE c == [at |-> "from_json", cmd |-> "edit", task |-> o, member |-> 0,
                   rec |-> Json(o)]
  <2>2. c \in Calls
    BY <1>3, <2>1 DEF Calls
  <2>3. /\ c.at = "from_json" /\ c.cmd = "edit" /\ c.task = o /\ c.member = 0
        /\ c.rec = Json(o)
    OBVIOUS
  <2>4. call[t] = Idle /\ call' = [call EXCEPT ![t] = c]
    BY <1>10, Zenon DEF setSchedule
  <2> HIDE DEF c
  <2>5. Sets(t, c.at, c.cmd, c.task, c.member, c.rec)
    BY <1>1, <2>2, <2>4, OneCall, Zenon
  <2> QED  BY <2>3, <2>4, <2>5, Zenon
<1> QED  BY <1>4, <1>5, <1>6, <1>7, <1>8, <1>9, <1>10, Zenon

\* A command that is under way is about a task.
LEMMA AboutTask ==
    ASSUME Typed, NEW t \in Threads, call[t].at # "idle"
    PROVE  call[t].task \in Tasks
BY DEF Typed, Staged, Idle

\* What the later steps do to it.
LEMMA LaterSteps ==
    ASSUME CommandConstants, Typed, NEW t \in Threads
    PROVE  /\ Insert(t) => IF call[t].cmd = "enqueue" THEN Goes(t, "save") ELSE Ends(t)
           /\ ImportRegister(t) => Goes(t, "insert")
           /\ Answer(t) => IF call[t].cmd = "import" THEN Goes(t, "register") ELSE Ends(t)
           /\ Start(t) => Goes(t, "execute")
           /\ fromJson(t) => Goes(t, "save")
<1>1. call \in [Threads -> Calls] /\ MaxCalls \in Nat
  BY DEF Typed, CommandConstants
<1>2. ASSUME NEW l \in Labels, Go(t, l) PROVE Goes(t, l)
  BY <1>1, <1>2, GoSets DEF Goes
<1>3. Return(t) => Ends(t)
  BY <1>1, ReturnSets DEF Ends
<1>4. {"insert", "save", "put", "register", "execute"} \subseteq Labels
  BY DEF Labels
<1>5. Insert(t) => IF call[t].cmd = "enqueue" THEN Goes(t, "save") ELSE Ends(t)
  BY <1>2, <1>3, <1>4 DEF Insert
<1>6. ImportRegister(t) => Goes(t, "insert")
  BY <1>2, <1>4 DEF ImportRegister
<1>8. Answer(t) => IF call[t].cmd = "import" THEN Goes(t, "register") ELSE Ends(t)
  BY <1>2, <1>3, <1>4 DEF Answer
<1>9. Start(t) => Goes(t, "execute")
  BY <1>2, <1>4 DEF Start
<1>10. fromJson(t) => Goes(t, "save")
  BY <1>2, <1>4 DEF fromJson
<1> QED  BY <1>5, <1>6, <1>8, <1>9, <1>10

\* The record that updateTaskStatus is about to write.
Updated(t) == [db[obj[call[t].task].id] EXCEPT !.status = call[t].rec.status]

\* The steps that read a record, ...
LEMMA ReadSteps ==
    ASSUME CommandConstants, Typed, NEW t \in Threads, NEW m \in Members
    PROVE  /\ SaveRead(t, m) => Reads(t, "put", m, Json(call[t].task))
           /\ UpdateRead(t, m) => Reads(t, "put_status", m, Updated(t))
<1>1. call \in [Threads -> Calls] /\ m \in Int
      /\ "put" \in Labels /\ "put_status" \in Labels
  BY DEF Typed, Labels
<1>2. ASSUME SaveRead(t, m) PROVE Reads(t, "put", m, Json(call[t].task))
  <2>1. call[t].task \in Tasks
    BY <1>2, AboutTask DEF SaveRead
  <2>2. PICK r \in Records : r = Json(call[t].task)
    BY <2>1, Zenon DEF Json, Typed, Records
  <2>3. call' = [call EXCEPT ![t].at = "put", ![t].member = m, ![t].rec = r]
    BY <1>2, <2>2, Zenon DEF SaveRead
  <2> QED  BY <1>1, <2>2, <2>3, ReadSets, Zenon DEF Reads
<1>3. ASSUME UpdateRead(t, m) PROVE Reads(t, "put_status", m, Updated(t))
  <2>1. call[t].task \in Tasks
    BY <1>3, AboutTask DEF UpdateRead
  <2>2. db[obj[call[t].task].id] \in Records /\ call[t].rec.status \in Statuses
    BY <1>1, <2>1 DEF Typed, Calls, Records
  <2>3. PICK r \in Records : r = Updated(t)
    BY <2>2, Zenon DEF Updated, Records
  <2>4. call' = [call EXCEPT ![t].at = "put_status", ![t].member = m, ![t].rec = r]
    BY <1>3, <2>3, Zenon DEF UpdateRead, Updated
  <2> QED  BY <1>1, <2>3, <2>4, ReadSets, Zenon DEF Reads
<1> QED  BY <1>2, <1>3

\* ... and those that decide on a status.
LEMMA StatusSteps ==
    ASSUME CommandConstants, Typed, NEW t \in Threads
    PROVE  /\ Executed(t) => Ends(t) \/ Decides(t, Completed(obj[call[t].task].status))
           /\ Cancelled(t) => Decides(t, "CANCELLED")
           /\ Killed(t) => Decides(t, "FAILED")
<1>1. call \in [Threads -> Calls] /\ MaxCalls \in Nat
      /\ {"CANCELLED", "FAILED", "COMPLETED"} \subseteq Statuses
  BY DEF Typed, CommandConstants, Statuses, Terminal
<1>2. ASSUME NEW s \in Statuses,
             call' = [call EXCEPT ![t].at = "update", ![t].rec.status = s]
      PROVE  Decides(t, s)
  BY <1>1, <1>2, StatusSets, Zenon DEF Decides
<1>3. ASSUME Executed(t)
      PROVE  Ends(t) \/ Decides(t, Completed(obj[call[t].task].status))
  <2>1. call[t].task \in Tasks
    BY <1>3, AboutTask DEF Executed
  <2>2. PICK s \in Statuses : s = Completed(obj[call[t].task].status)
    BY <1>1, <2>1 DEF Completed, Typed
  <2>3. \/ Return(t)
        \/ call' = [call EXCEPT ![t].at = "update", ![t].rec.status = s]
    BY <1>3, <2>2, Zenon DEF Executed
  <2>4. Return(t) => Ends(t)
    BY <1>1, ReturnSets DEF Ends
  <2> QED  BY <1>2, <2>2, <2>3, <2>4
<1>4. Cancelled(t) => Decides(t, "CANCELLED")
  BY <1>1, <1>2, Zenon DEF Cancelled
<1>5. Killed(t) => Decides(t, "FAILED")
  BY <1>1, <1>2, Zenon DEF Killed
<1> QED  BY <1>3, <1>4, <1>5

-------------------------------------------------------------------------------
(* The Task objects.                                                       *)

\* The tasks that have been constructed.
Created == Tasks \ Unused

\* Whatever refers to a task refers to one that was constructed.
Known ==
    /\ \A o \in Created : obj[o].status # "NONE"
    /\ \A i \in Ids : task_map[i] \in Created \cup {None}
    /\ queue \cup executing \cup answered \cup imported \subseteq Created
    /\ \A t \in Threads :
          /\ call[t].at # "idle" => call[t].task \in Created
          /\ call[t].at = "from_json" => call[t].rec.status # "NONE"

\* A step changes the status or the body of tasks, or constructs one task.
Marks(o) ==
    /\ o \in Created
    /\ \A p \in Tasks \ {o} : obj'[p] = obj[p]
    /\ obj'[o].id = obj[o].id /\ obj'[o].status \in Statuses \ {"NONE"}
    /\ obj'[o].body \in 0..calls'
Constructs(o, i, s) ==
    /\ o \in Unused /\ i \in Ids /\ s \in Statuses \ {"NONE"}
    /\ \A p \in Tasks \ {o} : obj'[p] = obj[p]
    /\ obj'[o].id = i /\ obj'[o].status = s /\ obj'[o].body = 0

\* A new status that is one of a constructed task.
LEMMA StatusMarks ==
    ASSUME CommandConstants, Typed, Counted, Known, NEW o \in Created,
           NEW s \in Statuses \ {"NONE"}, SetStatus(o, s), calls' = calls
    PROVE  /\ Marks(o) /\ obj'[o].body = obj[o].body /\ obj'[o].status = s
           /\ obj' \in [Tasks -> [id : Ids, body : 0..MaxCalls, status : Statuses]]
<1>1. o \in Tasks /\ obj[o] \in [id : Ids, body : 0..MaxCalls, status : Statuses]
      /\ calls \in Nat
  BY DEF Created, Typed
<1>2. obj[o].body \in 0..calls
  BY <1>1 DEF Counted
<1>3. PICK r \in [id : Ids, body : 0..MaxCalls, status : Statuses] :
         r = [obj[o] EXCEPT !.status = s]
  BY <1>1, Zenon
<1>4. r.id = obj[o].id /\ r.body = obj[o].body /\ r.status = s
  BY <1>1, <1>3
<1>5. obj' = [obj EXCEPT ![o] = r]
  BY <1>3 DEF SetStatus
<1>6. obj \in [Tasks -> [id : Ids, body : 0..MaxCalls, status : Statuses]]
  BY DEF Typed
<1>7. /\ obj'[o] = r /\ \A p \in Tasks \ {o} : obj'[p] = obj[p]
      /\ obj' \in [Tasks -> [id : Ids, body : 0..MaxCalls, status : Statuses]]
  BY <1>1, <1>5, <1>6
<1> QED  BY <1>2, <1>4, <1>7 DEF Marks

\* What the Task objects may be.
Objects == [Tasks -> [id : Ids, body : 0..MaxCalls, status : Statuses]]

\* The steps that mark a task, ...
LEMMA MarkSteps ==
    ASSUME CommandConstants, Typed, Counted, Known, NEW o \in Created, calls' = calls,
           \/ markStarted(o) \/ markFailed(o)
           \/ SetStatus(o, Completed(obj[o].status))
           \/ IF obj[o].status \in Terminal THEN UNCHANGED obj
              ELSE SetStatus(o, "CANCELLED")
    PROVE  (obj' = obj \/ Marks(o)) /\ obj' \in Objects
<1>1. obj \in Objects /\ o \in Tasks
  BY DEF Typed, Objects, Created
<1>2. ASSUME NEW s \in Statuses \ {"NONE"}, SetStatus(o, s)
      PROVE  Marks(o) /\ obj' \in Objects
  BY <1>2, StatusMarks DEF Objects
<1>3. {"RUNNING", "FAILED", "CREATED", "CANCELLED", "COMPLETED"}
         \subseteq Statuses \ {"NONE"}
  BY DEF Statuses, Terminal
<1>4. Completed(obj[o].status) \in Statuses \ {"NONE"}
  BY <1>1, <1>3 DEF Completed, Known, Objects
<1>5. CASE markStarted(o)
  BY <1>1, <1>2, <1>3, <1>5 DEF markStarted
<1>6. CASE markFailed(o)
  BY <1>1, <1>2, <1>3, <1>6 DEF markFailed
<1>7. CASE SetStatus(o, Completed(obj[o].status))
  BY <1>2, <1>4, <1>7
<1>8. CASE IF obj[o].status \in Terminal THEN UNCHANGED obj
           ELSE SetStatus(o, "CANCELLED")
  BY <1>1, <1>2, <1>3, <1>8
<1> QED  BY <1>5, <1>6, <1>7, <1>8

\* ... and those that construct one or change its body.
LEMMA ObjectSteps ==
    ASSUME CommandConstants, Typed, Counted, Known, NEW t \in Threads, NEW o \in Tasks
    PROVE  /\ enqueue(t, o) =>
                 /\ Constructs(o, next_id, "CREATED") /\ obj' \in Objects
                 /\ next_id' = next_id + 1 /\ next_id' \in 0..MaxId
                 /\ task_map' \in [Ids -> Tasks \cup {None}]
                 /\ \A i \in Ids : task_map'[i] \in {o, task_map[i]}
           /\ \A i \in Ids, s \in ImportStatuses : importTask(t, o, i, s) =>
                 Constructs(o, i, s) /\ obj' \in Objects
           /\ \A i \in Ids : edit(t, i, o) =>
                 /\ Marks(o) /\ obj' \in Objects
                 /\ obj'[o].status = obj[o].status
<1>1. obj \in Objects /\ MaxCalls \in Nat /\ MaxId \in Nat /\ next_id \in Nat
      /\ calls \in Nat /\ task_map \in [Ids -> Tasks \cup {None}]
  BY DEF Typed, Objects, CommandConstants
<1>2. ASSUME NEW i \in Ids, NEW s \in Statuses \ {"NONE"}, Fresh(o),
             obj' = [obj EXCEPT ![o] = [id |-> i, body |-> 0, status |-> s]]
      PROVE  Constructs(o, i, s) /\ obj' \in Objects
  <2>1. o \in Unused
    BY <1>2, Zenon DEF Fresh
  <2>0. 0 \in 0..MaxCalls
    BY <1>1
  <2>a. [id |-> i, body |-> 0, status |-> s]
           \in [id : Ids, body : 0..MaxCalls, status : Statuses]
    BY <2>0, Zenon
  <2>2. PICK r \in [id : Ids, body : 0..MaxCalls, status : Statuses] :
           r = [id |-> i, body |-> 0, status |-> s]
    BY <2>a, Zenon
  <2>3. r.id = i /\ r.body = 0 /\ r.status = s
    BY <2>2
  <2>4. /\ obj'[o] = r /\ \A p \in Tasks \ {o} : obj'[p] = obj[p]
        /\ obj' \in Objects
    BY <1>1, <1>2, <2>2 DEF Objects
  <2> QED  BY <2>1, <2>3, <2>4 DEF Constructs
<1>3. ASSUME enqueue(t, o)
      PROVE  /\ Constructs(o, next_id, "CREATED") /\ obj' \in Objects
             /\ next_id' = next_id + 1 /\ next_id' \in 0..MaxId
             /\ task_map' \in [Ids -> Tasks \cup {None}]
             /\ \A i \in Ids : task_map'[i] \in {o, task_map[i]}
  <2>1. PICK i \in Ids :
           /\ generateId(i)
           /\ obj' = [obj EXCEPT ![o] = [id |-> i, body |-> 0, status |-> "CREATED"]]
           /\ task_map' = [task_map EXCEPT ![i] = o]
    BY <1>3, Zenon DEF enqueue
  <2>2. Fresh(o) /\ "CREATED" \in Statuses \ {"NONE"}
    BY <1>3 DEF enqueue, Statuses
  <2>3. Constructs(o, i, "CREATED") /\ obj' \in Objects
    BY <1>2, <2>1, <2>2, Zenon
  <2>4. i = next_id /\ next_id' = next_id + 1 /\ next_id' \in 0..MaxId
    BY <1>1, <2>1 DEF generateId, Ids
  <2>5. /\ task_map' \in [Ids -> Tasks \cup {None}]
        /\ \A j \in Ids : task_map'[j] \in {o, task_map[j]}
    BY <1>1, <2>1
  <2> QED  BY <2>3, <2>4, <2>5
<1>4. ASSUME NEW i \in Ids, NEW s \in ImportStatuses, importTask(t, o, i, s)
      PROVE  Constructs(o, i, s) /\ obj' \in Objects
  BY <1>2, <1>4, Zenon DEF importTask, CommandConstants
<1>5. ASSUME NEW i \in Ids, edit(t, i, o)
      PROVE  /\ Marks(o) /\ obj' \in Objects
             /\ obj'[o].status = obj[o].status
  <2>1. o \in Created /\ calls' = calls + 1 /\ calls < MaxCalls
    BY <1>5 DEF edit, Found, Begin, Known
  <2>2. obj[o] \in [id : Ids, body : 0..MaxCalls, status : Statuses]
        /\ obj[o].body <= calls /\ obj[o].status # "NONE"
    BY <1>1, <2>1 DEF Objects, Counted, Known
  <2>b. obj[o].body + 1 \in 0..MaxCalls
    BY <1>1, <2>1, <2>2
  <2>a. [obj[o] EXCEPT !.body = @ + 1]
           \in [id : Ids, body : 0..MaxCalls, status : Statuses]
    BY <2>2, <2>b
  <2>3. PICK r \in [id : Ids, body : 0..MaxCalls, status : Statuses] :
           r = [obj[o] EXCEPT !.body = @ + 1]
    BY <2>a, Zenon
  <2>4. r.id = obj[o].id /\ r.body = obj[o].body + 1 /\ r.status = obj[o].status
    BY <2>2, <2>3
  <2>5. obj' = [obj EXCEPT ![o] = r]
    BY <1>5, <2>3 DEF edit
  <2>6. /\ obj'[o] = r /\ \A p \in Tasks \ {o} : obj'[p] = obj[p]
        /\ obj' \in Objects
    BY <1>1, <2>5 DEF Objects
  <2>7. obj'[o].body \in 0..calls'
    BY <1>1, <2>1, <2>2, <2>4, <2>6
  <2> QED  BY <2>1, <2>2, <2>4, <2>6, <2>7 DEF Marks
<1> QED  BY <1>3, <1>4, <1>5

\* setSchedule gives a task the status and the body it had before.
LEMMA RestoreMarks ==
    ASSUME CommandConstants, Typed, Counted, Known, NEW t \in Threads, fromJson(t)
    PROVE  Marks(call[t].task) /\ obj' \in Objects
<1>1. call[t].task \in Created /\ call[t].rec.status # "NONE" /\ calls' = calls
  BY DEF Known, fromJson, bounds
<1>2. PICK o \in Created : o = call[t].task
  BY <1>1, Zenon
<1>3. o \in Tasks /\ obj \in Objects /\ call[t].rec \in Records /\ calls \in 0..MaxCalls
  BY DEF Created, Typed, Objects, Calls
<1>4. PICK b, s : b = call[t].rec.body /\ s = call[t].rec.status
  BY Zenon
<1>5. b \in 0..MaxCalls /\ s \in Statuses \ {"NONE"} /\ b \in 0..calls
  BY <1>1, <1>3, <1>4 DEF Records, Counted, CommandConstants
<1>6. obj[o] \in [id : Ids, body : 0..MaxCalls, status : Statuses]
  BY <1>3 DEF Objects
<1>7. PICK r \in [id : Ids, body : 0..MaxCalls, status : Statuses] :
         r = [obj[o] EXCEPT !.body = b, !.status = s]
  BY <1>5, <1>6, Zenon
<1>8. r.id = obj[o].id /\ r.body = b /\ r.status = s
  BY <1>6, <1>7
<1>9. obj' = [obj EXCEPT ![o] = r]
  <2>1. obj' = [obj EXCEPT ![o].body = b, ![o].status = s]
    BY <1>2, <1>4, Zenon DEF fromJson
  <2> QED  BY <1>3, <1>7, <2>1, Zenon DEF Objects
<1>10. /\ obj'[o] = r /\ \A p \in Tasks \ {o} : obj'[p] = obj[p]
       /\ obj' \in Objects
  BY <1>3, <1>9 DEF Objects
<1> QED  BY <1>1, <1>2, <1>5, <1>8, <1>10 DEF Marks

\* Every step of the system leaves the objects alone, marks one of them or
\* constructs one.
Evolves ==
    \/ obj' = obj
    \/ \E o \in Created : Marks(o)
    \/ \E t \in Threads, o \in Unused, i \in Ids, s \in Statuses \ {"NONE"} :
          /\ Constructs(o, i, s)
          /\ (enqueue(t, o) /\ i = next_id) \/ importTask(t, o, i, s)

\* Every step changes the objects in one of these ways, and by new versions only.
LEMMA ObjectsEvolve ==
    ASSUME CommandConstants, Typed, Counted, Known, [Next]_vars
    PROVE  /\ Evolves /\ obj' \in Objects
           /\ calls' \in 0..MaxCalls /\ calls <= calls'
<1> DEFINE G == Evolves /\ obj' \in Objects
<1>1. obj \in Objects /\ calls \in 0..MaxCalls /\ MaxCalls \in Nat
  BY DEF Typed, Objects, CommandConstants
<1>2. obj' = obj => G
  BY <1>1 DEF Evolves
<1>3. ASSUME NEW o \in Created, calls' = calls,
           \/ markStarted(o) \/ markFailed(o)
           \/ SetStatus(o, Completed(obj[o].status))
           \/ IF obj[o].status \in Terminal THEN UNCHANGED obj
              ELSE SetStatus(o, "CANCELLED")
      PROVE  G
  BY <1>3, MarkSteps DEF Evolves
<1>4. ASSUME NEW t \in Threads, call[t].at # "idle" PROVE call[t].task \in Created
  BY <1>4 DEF Known
<1>5. calls' \in 0..MaxCalls /\ calls <= calls'
  <2>1. calls' = calls \/ (calls < MaxCalls /\ calls' = calls + 1)
    <3>1. ASSUME NEW t \in Threads, NEW k, NEW l, NEW o, Begin(t, k, l, o)
          PROVE  calls < MaxCalls /\ calls' = calls + 1
      BY <3>1 DEF Begin
    <3>2. CASE UNCHANGED vars
      BY <3>2 DEF vars, bounds
    <3>3. ASSUME NEW t \in Threads,
                 \/ Insert(t) \/ ImportRegister(t) \/ Write(t) \/ Start(t) \/ Executed(t)
                 \/ Cancelled(t) \/ Killed(t) \/ fromJson(t)
          PROVE  calls' = calls
      BY <3>3, Zenon DEF Insert, ImportRegister, Write, Put, UpdatePut, SaveRead, UpdateRead,
                  Start, Executed, Cancelled, Killed, fromJson, bounds
    <3>4. ASSUME NEW t \in Threads, list(t) \/ clear(t) \/ \E o \in Tasks : dequeue(t, o)
          PROVE  calls < MaxCalls /\ calls' = calls + 1
      BY <3>4 DEF list, clear, dequeue, Once
    <3>5. ASSUME NEW t \in Threads, NEW o \in Tasks,
                 \/ enqueue(t, o)
                 \/ \E i \in Ids, s \in ImportStatuses : importTask(t, o, i, s)
          PROVE  calls < MaxCalls /\ calls' = calls + 1
      BY <3>1, <3>5, Zenon DEF enqueue, importTask
    <3>6. ASSUME NEW t \in Threads, NEW i \in Ids, NEW o \in Tasks,
                 \/ run(t, i, o) \/ cancel(t, i, o)
                 \/ kill(t, i, o) \/ edit(t, i, o) \/ setSchedule(t, i, o)
          PROVE  calls < MaxCalls /\ calls' = calls + 1
      BY <3>1, <3>6, Zenon DEF run, cancel, kill, edit, setSchedule
    <3>7. ASSUME NEW o \in Tasks, WorkerTake(o) \/ WorkerDone(o)
          PROVE  calls' = calls
      BY <3>7 DEF WorkerTake, WorkerDone, bounds
    <3>8. restart => calls' = calls
      BY DEF restart
    <3> QED  BY <3>2, <3>3, <3>4, <3>5, <3>6, <3>7, <3>8, Zenon DEF Next
  <2> QED  BY <1>1, <2>1
<1>6. ASSUME UNCHANGED vars PROVE G
  <2>1. obj' = obj
    BY <1>6 DEF vars, memory
  <2> QED  BY <1>2, <2>1
<1>7. ASSUME NEW t \in Threads, Insert(t) \/ ImportRegister(t) \/ Write(t)
      PROVE  G
  <2>1. obj' = obj
    BY <1>7, Zenon DEF Insert, ImportRegister, Write, Put, UpdatePut, SaveRead, UpdateRead, memory
  <2> QED  BY <1>2, <2>1
<1>8. ASSUME NEW t \in Threads, Start(t) PROVE G
  BY <1>3, <1>4, <1>8 DEF Start, bounds
<1>9. ASSUME NEW t \in Threads, Executed(t) PROVE G
  BY <1>2, <1>3, <1>4, <1>9 DEF Executed, bounds
<1>10. ASSUME NEW t \in Threads, Cancelled(t) PROVE G
  BY <1>3, <1>4, <1>10 DEF Cancelled, bounds
<1>11. ASSUME NEW t \in Threads, Killed(t) PROVE G
  BY <1>3, <1>4, <1>11 DEF Killed, bounds
<1>12. ASSUME NEW t \in Threads, fromJson(t) PROVE G
  BY <1>4, <1>12, RestoreMarks, Zenon DEF Evolves, fromJson
<1>13. ASSUME NEW t \in Threads, list(t) \/ clear(t) \/ \E o \in Tasks : dequeue(t, o)
       PROVE  G
  BY <1>2, <1>13 DEF list, clear, dequeue
<1>14. ASSUME NEW t \in Threads, NEW o \in Tasks,
              \/ enqueue(t, o)
              \/ \E i \in Ids, s \in ImportStatuses : importTask(t, o, i, s)
       PROVE  G
  <2>1. ASSUME NEW i \in Ids, NEW s \in Statuses \ {"NONE"}, Constructs(o, i, s),
               (enqueue(t, o) /\ i = next_id) \/ importTask(t, o, i, s)
        PROVE  Evolves
    BY <2>1, Zenon DEF Evolves, Constructs
  <2>2. enqueue(t, o) => next_id \in Ids /\ "CREATED" \in Statuses \ {"NONE"}
    BY DEF enqueue, generateId, Statuses
  <2>3. \A s \in ImportStatuses : s \in Statuses \ {"NONE"}
    BY DEF CommandConstants
  <2> QED  BY <1>14, <2>1, <2>2, <2>3, ObjectSteps
<1>15. ASSUME NEW t \in Threads, NEW i \in Ids, NEW o \in Tasks,
              \/ run(t, i, o) \/ cancel(t, i, o) \/ kill(t, i, o) \/ setSchedule(t, i, o)
       PROVE  G
  <2>1. obj' = obj
    BY <1>15, Zenon DEF run, cancel, kill, setSchedule, memory
  <2> QED  BY <1>2, <2>1
<1>16. ASSUME NEW t \in Threads, NEW i \in Ids, NEW o \in Tasks, edit(t, i, o)
       PROVE  G
  <2>1. Marks(o) /\ obj' \in Objects
    BY <1>16, ObjectSteps
  <2> QED  BY <2>1, Zenon DEF Evolves, Marks
<1>17. ASSUME NEW o \in Tasks, WorkerTake(o) \/ WorkerDone(o)
       PROVE  G
  <2>1. o \in Created /\ calls' = calls
    BY <1>17 DEF Known, WorkerTake, WorkerDone, bounds
  <2> QED  BY <1>3, <1>17, <2>1, Zenon DEF WorkerTake, WorkerDone
<1>18. restart => G
  BY <1>2 DEF restart
<1>19. G
  <2> HIDE DEF G
  <2>1. ASSUME NEW t \in Threads, NEW o \in Tasks,
               \/ enqueue(t, o) \/ dequeue(t, o)
               \/ \E i \in Ids, s \in ImportStatuses : importTask(t, o, i, s)
        PROVE  G
    BY <1>13, <1>14, <2>1, Zenon
  <2>2. ASSUME NEW t \in Threads, NEW i \in Ids, NEW o \in Tasks,
               \/ run(t, i, o) \/ cancel(t, i, o) \/ kill(t, i, o) \/ edit(t, i, o)
               \/ setSchedule(t, i, o)
        PROVE  G
    BY <1>15, <1>16, <2>2, Zenon
  <2>3. ASSUME NEW t \in Threads,
               \/ Insert(t) \/ ImportRegister(t) \/ Write(t) \/ Start(t) \/ Executed(t)
               \/ Cancelled(t) \/ Killed(t) \/ fromJson(t) \/ list(t) \/ clear(t)
        PROVE  G
    BY <1>7, <1>8, <1>9, <1>10, <1>11, <1>12, <1>13, <2>3, Zenon
  <2> QED  BY <1>6, <1>17, <1>18, <2>1, <2>2, <2>3, Zenon DEF Next
<1> QED  BY <1>5, <1>19

\* A task that was constructed stays so, and keeps its id.
LEMMA CreatedStays ==
    ASSUME CommandConstants, Typed, Counted, Known, Evolves, obj' \in Objects,
           calls' \in 0..MaxCalls, calls <= calls'
    PROVE  /\ Created \subseteq Created'
           /\ \A o \in Created : obj'[o].id = obj[o].id
           /\ \A o \in Created' : obj'[o].status # "NONE"
           /\ \A o \in Tasks : obj'[o].body <= calls'
<1>1. Unborn.status = "NONE" /\ calls \in 0..MaxCalls /\ MaxCalls \in Nat
  BY DEF Unborn, Typed, CommandConstants
<1>2. \A o \in Tasks : (o \in Created <=> obj[o] # Unborn)
                       /\ (o \in Created' <=> obj'[o] # Unborn)
  BY Zenon DEF Created, Unused
<1>3. \A o \in Tasks : obj[o].body \in 0..MaxCalls /\ obj[o].body <= calls
  BY DEF Typed, Counted
<1>4. CASE obj' = obj
  BY <1>1, <1>2, <1>3, <1>4 DEF Known, Created
<1>5. ASSUME NEW o \in Created, Marks(o)
      PROVE  /\ Created \subseteq Created'
             /\ \A p \in Created : obj'[p].id = obj[p].id
             /\ \A p \in Created' : obj'[p].status # "NONE"
             /\ \A p \in Tasks : obj'[p].body <= calls'
  BY <1>1, <1>2, <1>3, <1>5 DEF Known, Created, Marks
<1>6. ASSUME NEW o \in Unused, NEW i \in Ids, NEW s \in Statuses \ {"NONE"},
             Constructs(o, i, s)
      PROVE  /\ Created \subseteq Created'
             /\ \A p \in Created : obj'[p].id = obj[p].id
             /\ \A p \in Created' : obj'[p].status # "NONE"
             /\ \A p \in Tasks : obj'[p].body <= calls'
  <2>1. o \notin Created
    BY DEF Created
  <2> QED  BY <1>1, <1>2, <1>3, <1>6, <2>1 DEF Known, Created, Constructs
<1> QED  BY <1>4, <1>5, <1>6 DEF Evolves

-------------------------------------------------------------------------------
(* The types, and what is known of every task.                             *)

\* The types, the bounds of the versions and the tasks that are known.
Shaped == Typed /\ Counted /\ Known

\* Shaped, as far as it is about the calls.
Called ==
    /\ call \in [Threads -> Calls]
    /\ \A t \in Threads :
          /\ Staged(call[t]) /\ call[t].rec.body <= calls
          /\ call[t].at # "idle" => call[t].task \in Created
          /\ call[t].at = "from_json" => call[t].rec.status # "NONE"

\* What the steps below may use of the objects.
Grown ==
    /\ Created \subseteq Created'
    /\ \A o \in Created : obj'[o].id = obj[o].id
    /\ \A o \in Created' : obj'[o].status # "NONE"
    /\ \A o \in Tasks : obj'[o].body <= calls'
    /\ obj' \in Objects
    /\ calls' \in 0..MaxCalls /\ calls <= calls'

\* Every step lets the objects grow so.
LEMMA Grows ==
    ASSUME CommandConstants, Shaped, [Next]_vars
    PROVE  Grown
BY ObjectsEvolve, CreatedStays DEF Grown, Shaped

\* The calls of a step that changes one of them.
LEMMA OneCalled ==
    ASSUME CommandConstants, Shaped, Grown, NEW t \in Threads,
           NEW l, NEW k, NEW o \in Created', NEW m, NEW r,
           Sets(t, l, k, o, m, r), Stage(l, k), r.body <= calls',
           l = "from_json" => r.status # "NONE"
    PROVE  Called'
<1>1. /\ call' \in [Threads -> Calls]
      /\ call'[t].at = l /\ call'[t].cmd = k /\ call'[t].task = o /\ call'[t].rec = r
      /\ \A u \in Threads \ {t} : call'[u] = call[u]
  BY DEF Sets
<1>2. \A u \in Threads : call[u].rec.body \in 0..MaxCalls
  BY Zenon DEF Shaped, Typed, Calls, Records
<1>3. \A u \in Threads : call[u].rec.body <= calls'
  BY <1>2 DEF Shaped, Typed, Counted, Grown, CommandConstants
<1>4. Staged(call'[t])
  BY <1>1 DEF Staged, Created
<1>5. \A u \in Threads : Staged(call'[u])
  BY <1>1, <1>4, Zenon DEF Shaped, Typed
<1>6. \A u \in Threads \ {t} :
         /\ call'[u].at # "idle" => call'[u].task \in Created'
         /\ call'[u].at = "from_json" => call'[u].rec.status # "NONE"
  BY <1>1 DEF Shaped, Known, Grown
<1>7. \A u \in Threads : call'[u].rec.body <= calls'
  BY <1>1, <1>3, Zenon
<1>8. \A u \in Threads :
         /\ call'[u].at # "idle" => call'[u].task \in Created'
         /\ call'[u].at = "from_json" => call'[u].rec.status # "NONE"
  BY <1>1, <1>6, Zenon
<1> QED  BY <1>1, <1>5, <1>7, <1>8, Zenon DEF Called

\* The calls of a step that ends one.
LEMMA NoneCalled ==
    ASSUME CommandConstants, Shaped, Grown, NEW t \in Threads, Ends(t)
    PROVE  Called'
<1>1. /\ call' \in [Threads -> Calls]
      /\ call'[t] = Idle
      /\ \A u \in Threads \ {t} : call'[u] = call[u]
  BY DEF Sets, Ends, Idle
<1>2. \A u \in Threads : call[u].rec.body \in 0..MaxCalls
  BY Zenon DEF Shaped, Typed, Calls, Records
<1>3. \A u \in Threads : call[u].rec.body <= calls'
  BY <1>2 DEF Shaped, Typed, Counted, Grown, CommandConstants
<1>4. \A u \in Threads : Staged(call'[u])
  BY <1>1, Zenon DEF Shaped, Typed, Staged
<1>5. Idle.rec.body <= calls' /\ Idle.at = "idle" /\ Idle.at # "from_json"
  BY DEF Idle, Absent, Grown
<1>6. \A u \in Threads : call'[u].rec.body <= calls'
  BY <1>1, <1>3, <1>5, Zenon
<1>7. \A u \in Threads :
         /\ call'[u].at # "idle" => call'[u].task \in Created'
         /\ call'[u].at = "from_json" => call'[u].rec.status # "NONE"
  BY <1>1, <1>5, Zenon DEF Shaped, Known, Grown
<1> QED  BY <1>1, <1>4, <1>6, <1>7 DEF Called

\* Where a command is says which one it is.
LEMMA StageOf ==
    ASSUME Shaped, NEW t \in Threads, call[t].at # "idle"
    PROVE  /\ Stage(call[t].at, call[t].cmd)
           /\ call[t].task \in Created /\ call[t].task \in Tasks
           /\ call[t].rec \in Records
BY DEF Shaped, Typed, Known, Staged, Idle, Calls, Created

\* Every step keeps the calls.
LEMMA CallsStay ==
    ASSUME CommandConstants, Shaped, Grown, [Next]_vars
    PROVE  Called'
<1>1. Typed /\ Absent.body <= calls' /\ Absent \in Records
  BY DEF Shaped, Absent, Grown, Records, Statuses, CommandConstants
<1>2. ASSUME NEW t \in Threads, NEW k, NEW l, NEW o \in Created', Starts(t, k, l, o),
             Stage(l, k), l # "from_json"
      PROVE  Called'
  BY <1>1, <1>2, OneCalled DEF Starts
<1>3. ASSUME NEW t \in Threads, NEW l, call[t].at # "idle", Goes(t, l),
             Stage(l, call[t].cmd), l # "from_json"
      PROVE  Called'
  <2>1. call[t].task \in Created' /\ call[t].rec.body \in 0..MaxCalls
    BY <1>3, StageOf DEF Grown, Records
  <2>2. call[t].rec.body <= calls'
    BY <2>1 DEF Shaped, Counted, Typed, Grown, CommandConstants
  <2> QED  BY <1>3, <2>1, <2>2, OneCalled DEF Goes
<1>4. ASSUME NEW t \in Threads, NEW s, call[t].at # "idle", Decides(t, s),
             Stage("update", call[t].cmd)
      PROVE  Called'
  <2>1. call[t].task \in Created' /\ call[t].rec.body \in 0..MaxCalls
    BY <1>4, StageOf DEF Grown, Records
  <2>2. call[t].rec.body <= calls'
    BY <2>1 DEF Shaped, Counted, Typed, Grown, CommandConstants
  <2>3. PICK r \in Records :
           /\ r.body = call[t].rec.body
           /\ Sets(t, "update", call[t].cmd, call[t].task, call[t].member, r)
    BY <1>4 DEF Decides
  <2> QED  BY <1>4, <2>1, <2>2, <2>3, OneCalled
<1>5. ASSUME NEW t \in Threads, Ends(t) PROVE Called'
  BY <1>5, NoneCalled, Zenon
<1>6. ASSUME call' = call PROVE Called'
  <2>1. \A u \in Threads : call[u].rec.body \in 0..MaxCalls
    BY DEF Shaped, Typed, Calls, Records
  <2>2. \A u \in Threads : call[u].rec.body <= calls'
    BY <2>1 DEF Shaped, Typed, Counted, Grown, CommandConstants
  <2> QED  BY <1>6, <2>2 DEF Called, Shaped, Typed, Known, Grown
<1>7. ASSUME NEW t \in Threads, NEW o \in Tasks,
             \/ enqueue(t, o)
             \/ \E i \in Ids, s \in ImportStatuses : importTask(t, o, i, s)
      PROVE  Called'
  <2>1. Stage("insert", "enqueue") /\ Stage("save", "import")
    BY DEF Stage
  <2>2. o \in Created'
    <3>1. obj'[o].status \in Statuses \ {"NONE"}
      BY <1>7, ObjectSteps DEF Shaped, Constructs
    <3>2. obj'[o] # Unborn
      BY <3>1 DEF Unborn
    <3> QED  BY <3>2, Zenon DEF Created, Unused
  <2>3. Starts(t, "enqueue", "insert", o) \/ Starts(t, "import", "save", o)
    BY <1>1, <1>7, FirstSteps, Zenon
  <2> QED  BY <1>2, <2>1, <2>2, <2>3
<1>8. ASSUME NEW t \in Threads, NEW i \in Ids, NEW o \in Tasks,
             \/ run(t, i, o) \/ cancel(t, i, o) \/ kill(t, i, o) \/ edit(t, i, o)
             \/ setSchedule(t, i, o)
      PROVE  Called'
  <2>1. Stage("start", "run") /\ Stage("cancelling", "cancel") /\ Stage("killing", "kill")
        /\ Stage("save", "edit") /\ Stage("from_json", "edit")
    BY DEF Stage
  <2>2. o \in Created'
    BY <1>8, Zenon DEF run, cancel, kill, edit, setSchedule, Found, Shaped, Known, Grown
  <2>3. \/ Starts(t, "run", "start", o) \/ Starts(t, "cancel", "cancelling", o)
        \/ Starts(t, "kill", "killing", o) \/ Starts(t, "edit", "save", o)
        \/ Sets(t, "from_json", "edit", o, 0, Json(o)) /\ setSchedule(t, i, o)
    BY <1>1, <1>8, FirstSteps, Zenon
  <2>4. ASSUME Sets(t, "from_json", "edit", o, 0, Json(o)), setSchedule(t, i, o)
        PROVE  Called'
    <3>1. obj[o].body \in 0..MaxCalls /\ obj[o].body <= calls /\ calls \in 0..MaxCalls
      BY DEF Shaped, Typed, Counted
    <3>2. obj[o].body <= calls'
      BY <3>1 DEF Grown, CommandConstants
    <3>3. obj[o].status # "NONE"
      BY <2>4 DEF setSchedule, Found, Shaped, Known
    <3>4. Json(o).body = obj[o].body /\ Json(o).status = obj[o].status
      BY DEF Json
    <3>5. PICK r : r = Json(o)
      OBVIOUS
    <3> QED  BY <2>1, <2>2, <2>4, <3>2, <3>3, <3>4, <3>5, OneCalled, Zenon
  <2> QED  BY <1>2, <2>1, <2>2, <2>3, <2>4
<1>9. ASSUME NEW t \in Threads,
             Insert(t) \/ ImportRegister(t) \/ Start(t) \/ fromJson(t)
      PROVE  Called'
  <2>1. call[t].at \in {"insert", "register", "start", "from_json"}
    BY <1>9 DEF Insert, ImportRegister, Start, fromJson
  <2>2. Stage(call[t].at, call[t].cmd)
    BY <2>1, StageOf
  <2>3. CASE Insert(t)
    <3>1. IF call[t].cmd = "enqueue" THEN Goes(t, "save") ELSE Ends(t)
      BY <1>1, <2>3, LaterSteps, Zenon
    <3>2. Stage("save", "enqueue")
      BY DEF Stage
    <3> QED  BY <1>3, <1>5, <2>1, <3>1, <3>2
  <2>4. CASE ImportRegister(t)
    <3>1. Goes(t, "insert")
      BY <1>1, <2>4, LaterSteps, Zenon
    <3>2. Stage("insert", call[t].cmd)
      BY <2>2, <2>4 DEF Stage, ImportRegister
    <3> QED  BY <1>3, <2>1, <3>1, <3>2
  <2>5. CASE Start(t)
    <3>1. Goes(t, "execute")
      BY <1>1, <2>5, LaterSteps, Zenon
    <3>2. Stage("execute", call[t].cmd)
      BY <2>2, <2>5 DEF Stage, Start
    <3> QED  BY <1>3, <2>1, <3>1, <3>2
  <2>6. CASE fromJson(t)
    <3>1. Goes(t, "save")
      BY <1>1, <2>6, LaterSteps, Zenon
    <3>2. Stage("save", call[t].cmd)
      BY <2>2, <2>6 DEF Stage, fromJson
    <3> QED  BY <1>3, <2>1, <3>1, <3>2
  <2> QED  BY <1>9, <2>3, <2>4, <2>5, <2>6
<1>10. ASSUME NEW t \in Threads, Executed(t) \/ Cancelled(t) \/ Killed(t)
       PROVE  Called'
  <2>1. call[t].at \in {"execute", "cancelling", "killing"}
    BY <1>10 DEF Executed, Cancelled, Killed
  <2>2. Stage(call[t].at, call[t].cmd)
    BY <2>1, StageOf
  <2>3. Stage("update", call[t].cmd)
    BY <2>1, <2>2 DEF Stage
  <2>4. Ends(t) \/ \E s : Decides(t, s)
    BY <1>1, <1>10, StatusSteps, Zenon
  <2> QED  BY <1>4, <1>5, <2>1, <2>3, <2>4, Zenon
<1>11. ASSUME NEW t \in Threads, Put(t) \/ UpdatePut(t)
       PROVE  Called'
  <2>1. call[t].at \in {"put", "put_status"} /\ Answer(t)
    BY <1>11 DEF Put, UpdatePut
  <2>2. IF call[t].cmd = "import" THEN Goes(t, "register") ELSE Ends(t)
    BY <1>1, <2>1, LaterSteps, Zenon
  <2>3. Stage("register", "import")
    BY DEF Stage
  <2> QED  BY <1>3, <1>5, <2>1, <2>2, <2>3, Zenon
<1>12. ASSUME NEW t \in Threads, NEW m \in Members, SaveRead(t, m)
       PROVE  Called'
  <2>1. call[t].at = "save"
    BY <1>12 DEF SaveRead
  <2>2. Stage("save", call[t].cmd) /\ call[t].task \in Created' /\ call[t].task \in Tasks
    BY <2>1, StageOf DEF Grown
  <2>3. Stage("put", call[t].cmd)
    BY <2>2 DEF Stage
  <2>4. PICK o \in Tasks : o = call[t].task
    BY <2>2
  <2>5. PICK r : r = Json(o)
    BY Zenon
  <2>6. Sets(t, "put", call[t].cmd, o, m, r)
    BY <1>1, <1>12, <2>4, <2>5, ReadSteps, Zenon DEF Reads
  <2>7. r.body <= calls'
    <3>1. r.body = obj[o].body /\ obj[o].body \in 0..MaxCalls /\ obj[o].body <= calls
      BY <2>5 DEF Json, Shaped, Typed, Counted
    <3> QED  BY <3>1 DEF Grown, Shaped, Typed, CommandConstants
  <2> QED  BY <2>2, <2>3, <2>4, <2>6, <2>7, OneCalled
<1>13. ASSUME NEW t \in Threads, NEW m \in Members, UpdateRead(t, m)
       PROVE  Called'
  <2>1. call[t].at = "update"
    BY <1>13 DEF UpdateRead
  <2>2. /\ Stage("update", call[t].cmd) /\ call[t].task \in Created'
        /\ call[t].task \in Tasks /\ call[t].rec \in Records
    BY <2>1, StageOf DEF Grown
  <2>3. Stage("put_status", call[t].cmd)
    BY <2>2 DEF Stage
  <2>4. PICK r : r = Updated(t)
    BY Zenon
  <2>5. Sets(t, "put_status", call[t].cmd, call[t].task, m, r)
    BY <1>1, <1>13, <2>4, ReadSteps, Zenon DEF Reads
  <2>6. PICK i \in Ids : i = obj[call[t].task].id
    BY <2>2, Zenon DEF Shaped, Typed
  <2>7. r.body = db[i].body /\ db[i].body \in 0..MaxCalls /\ db[i].body <= calls
    BY <2>4, <2>6, Zenon DEF Updated, Shaped, Typed, Counted, Records
  <2>8. r.body <= calls'
    BY <2>7 DEF Grown, Shaped, Typed, CommandConstants
  <2> QED  BY <2>2, <2>3, <2>5, <2>8, OneCalled
<1>14. ASSUME restart PROVE Called'
  <2>1. call' = [t \in Threads |-> Idle] /\ Idle \in Calls
    BY <1>1, <1>14 DEF restart, Idle, Calls, Labels, Names
  <2>2. Idle.rec.body <= calls' /\ Idle.at = "idle" /\ Idle.at # "from_json"
    BY <1>1 DEF Idle
  <2> QED  BY <2>1, <2>2 DEF Called, Staged
<1>15. ASSUME \/ UNCHANGED vars
              \/ \E t \in Threads : list(t) \/ clear(t) \/ \E o \in Tasks : dequeue(t, o)
              \/ \E o \in Tasks : WorkerTake(o) \/ WorkerDone(o)
       PROVE  Called'
  <2>1. call' = call
    BY <1>15, Zenon DEF vars, list, clear, dequeue, Once, WorkerTake, WorkerDone
  <2> QED  BY <1>6, <2>1
<1> HIDE DEF Called
<1>16. ASSUME NEW t \in Threads, Write(t) PROVE Called'
  BY <1>11, <1>12, <1>13, <1>16, Zenon DEF Write
<1>17. ASSUME NEW t \in Threads, NEW o \in Tasks,
              \/ enqueue(t, o) \/ dequeue(t, o)
              \/ \E i \in Ids, s \in ImportStatuses : importTask(t, o, i, s)
       PROVE  Called'
  BY <1>7, <1>15, <1>17, Zenon
<1>18. ASSUME NEW t \in Threads,
              \/ Insert(t) \/ ImportRegister(t) \/ Write(t) \/ Start(t) \/ Executed(t)
              \/ Cancelled(t) \/ Killed(t) \/ fromJson(t) \/ list(t) \/ clear(t)
       PROVE  Called'
  BY <1>9, <1>10, <1>15, <1>16, <1>18, Zenon
<1> QED  BY <1>8, <1>14, <1>15, <1>17, <1>18, ZenonT(30) DEF Next

\* Only the two writes change the database, and each changes one record.
Writes(t) ==
    /\ call[t].at \in {"put", "put_status"}
    /\ db' = [db EXCEPT ![obj[call[t].task].id] = call[t].rec]

\* A step that changes the database is one of them.
LEMMA DatabaseSteps ==
    ASSUME [Next]_vars
    PROVE  \/ db' = db
           \/ \E t \in Threads :
                 /\ Put(t) \/ (UpdatePut(t) /\ call[t].rec.task # None)
                 /\ Writes(t)
<1> DEFINE G == \/ db' = db
                \/ \E t \in Threads :
                      /\ Put(t) \/ (UpdatePut(t) /\ call[t].rec.task # None)
                      /\ Writes(t)
<1>1. ASSUME NEW t \in Threads, Put(t) PROVE G
  BY <1>1, Zenon DEF Put, Writes
<1>2. ASSUME NEW t \in Threads, UpdatePut(t) PROVE G
  BY <1>2 DEF UpdatePut, Writes
<1>3. ASSUME NEW t \in Threads,
             \/ \E m \in Members : SaveRead(t, m) \/ UpdateRead(t, m)
             \/ Insert(t) \/ ImportRegister(t) \/ Start(t) \/ Executed(t)
             \/ Cancelled(t) \/ Killed(t) \/ fromJson(t) \/ list(t) \/ clear(t)
      PROVE  db' = db
  BY <1>3, Zenon DEF SaveRead, UpdateRead, Insert, ImportRegister, Start, Executed, Cancelled,
              Killed, fromJson, list, clear
<1>4. ASSUME NEW t \in Threads, NEW o \in Tasks,
             \/ enqueue(t, o) \/ dequeue(t, o)
             \/ \E i \in Ids, s \in ImportStatuses : importTask(t, o, i, s)
      PROVE  db' = db
  BY <1>4, Zenon DEF enqueue, dequeue, importTask
<1>5. ASSUME NEW t \in Threads, NEW i \in Ids, NEW o \in Tasks,
             \/ run(t, i, o) \/ cancel(t, i, o) \/ kill(t, i, o) \/ edit(t, i, o)
             \/ setSchedule(t, i, o)
      PROVE  db' = db
  BY <1>5, Zenon DEF run, cancel, kill, edit, setSchedule
<1>6. ASSUME restart \/ \E o \in Tasks : WorkerTake(o) \/ WorkerDone(o)
      PROVE  db' = db
  BY <1>6, Zenon DEF restart, WorkerTake, WorkerDone
<1>7. UNCHANGED vars => db' = db
  BY DEF vars
<1>8. ASSUME NEW t \in Threads, Write(t) PROVE G
  BY <1>1, <1>2, <1>3, <1>8, Zenon DEF Write
<1>9. ASSUME NEW t \in Threads,
             \/ Insert(t) \/ ImportRegister(t) \/ Write(t) \/ Start(t) \/ Executed(t)
             \/ Cancelled(t) \/ Killed(t) \/ fromJson(t) \/ list(t) \/ clear(t)
      PROVE  G
  BY <1>3, <1>8, <1>9, Zenon
<1> QED  BY <1>4, <1>5, <1>6, <1>7, <1>9, ZenonT(30) DEF Next

\* Every step keeps the types of the database, ...
LEMMA DatabaseStays ==
    ASSUME CommandConstants, Shaped, Grown, [Next]_vars
    PROVE  db' \in [Ids -> Records] /\ \A i \in Ids : db'[i].body <= calls'
<1>1. /\ db \in [Ids -> Records] /\ calls \in 0..MaxCalls
      /\ \A i \in Ids : db[i].body \in 0..MaxCalls /\ db[i].body <= calls
  BY DEF Shaped, Typed, Counted, Records
<1>2. \A i \in Ids : db[i].body <= calls'
  BY <1>1 DEF Grown, CommandConstants
<1>3. ASSUME NEW t \in Threads, Writes(t)
      PROVE  db' \in [Ids -> Records] /\ \A i \in Ids : db'[i].body <= calls'
  <2>1. call[t].at # "idle"
    BY <1>3 DEF Writes
  <2>2. call[t].task \in Tasks /\ call[t].rec \in Records
    BY <2>1, StageOf
  <2>3. PICK j \in Ids : j = obj[call[t].task].id
    BY <2>2 DEF Shaped, Typed
  <2>4. PICK r \in Records : r = call[t].rec
    BY <2>2
  <2>5. r.body \in 0..MaxCalls /\ r.body <= calls
    BY <2>4 DEF Records, Shaped, Counted
  <2>6. r.body <= calls'
    BY <1>1, <2>5 DEF Grown, CommandConstants
  <2>7. db' = [db EXCEPT ![j] = r]
    BY <1>3, <2>3, <2>4 DEF Writes
  <2> QED  BY <1>1, <1>2, <2>6, <2>7
<1> QED  BY <1>1, <1>2, <1>3, DatabaseSteps

\* ... of the map of the tasks, ...
Mapped == task_map \in [Ids -> Tasks \cup {None}]
          /\ \A i \in Ids : task_map[i] \in Created \cup {None}

\* Every step keeps the map.
LEMMA MapStays ==
    ASSUME CommandConstants, Shaped, Grown, [Next]_vars
    PROVE  Mapped'
<1>1. Mapped /\ Created \subseteq Created'
  BY DEF Mapped, Shaped, Typed, Known, Grown
<1>2. task_map' = task_map => Mapped'
  BY <1>1, Zenon DEF Mapped
<1>3. task_map' = [i \in Ids |-> None] => Mapped'
  BY DEF Mapped
<1>4. ASSUME NEW t \in Threads, NEW o \in Tasks, enqueue(t, o) PROVE Mapped'
  <2>1. obj'[o].status # "NONE"
    BY <1>4, ObjectSteps, Zenon DEF Shaped, Constructs
  <2>2. obj'[o] # Unborn
    BY <2>1 DEF Unborn
  <2>3. o \in Created'
    BY <2>2, Zenon DEF Created, Unused
  <2>4. /\ task_map' \in [Ids -> Tasks \cup {None}]
        /\ \A i \in Ids : task_map'[i] \in {o, task_map[i]}
    BY <1>4, ObjectSteps, Zenon DEF Shaped
  <2> QED  BY <1>1, <2>3, <2>4, Zenon DEF Mapped
<1>5. ASSUME NEW t \in Threads, ImportRegister(t) \/ Cancelled(t) PROVE Mapped'
  <2>1. call[t].at # "idle"
    BY <1>5 DEF ImportRegister, Cancelled
  <2>2. PICK o \in Created : o = call[t].task
    BY <2>1, StageOf
  <2>3. o \in Tasks
    BY DEF Created
  <2>4. PICK i \in Ids : i = obj[o].id
    BY <2>3, ZenonT(30) DEF Shaped, Typed
  <2>5. PICK v \in Created \cup {None} : task_map' = [task_map EXCEPT ![i] = v]
    BY <1>5, <2>2, <2>4 DEF ImportRegister, Cancelled
  <2> QED  BY <1>1, <2>5 DEF Mapped, Created
<1>6. ASSUME NEW t \in Threads,
             Insert(t) \/ Write(t) \/ Start(t) \/ Executed(t) \/ Killed(t) \/ fromJson(t)
             \/ list(t)
      PROVE  Mapped'
  <2>1. task_map' = task_map
    BY <1>6, Zenon DEF Insert, Write, Put, UpdatePut, SaveRead, UpdateRead, Start, Executed,
                Killed, fromJson, list, memory
  <2> QED  BY <1>2, <2>1
<1>7. ASSUME NEW t \in Threads, NEW o \in Tasks,
             \/ dequeue(t, o)
             \/ \E i \in Ids, s \in ImportStatuses : importTask(t, o, i, s)
             \/ \E i \in Ids : \/ run(t, i, o) \/ cancel(t, i, o)
                               \/ kill(t, i, o) \/ edit(t, i, o)
                               \/ setSchedule(t, i, o)
      PROVE  Mapped'
  <2>1. task_map' = task_map
    BY <1>7, Zenon DEF dequeue, importTask, run, cancel, kill, edit, setSchedule, memory
  <2> QED  BY <1>2, <2>1
<1>8. ASSUME restart \/ \E t \in Threads : clear(t) PROVE Mapped'
  BY <1>3, <1>8 DEF restart, clear
<1>9. ASSUME UNCHANGED vars \/ \E o \in Tasks : WorkerTake(o) \/ WorkerDone(o)
      PROVE  Mapped'
  <2>1. task_map' = task_map
    BY <1>9 DEF vars, memory, WorkerTake, WorkerDone
  <2> QED  BY <1>2, <2>1, Zenon
<1>10. ASSUME NEW t \in Threads,
              \/ Insert(t) \/ ImportRegister(t) \/ Write(t) \/ Start(t) \/ Executed(t)
              \/ Cancelled(t) \/ Killed(t) \/ fromJson(t) \/ list(t) \/ clear(t)
       PROVE  Mapped'
  BY <1>5, <1>6, <1>8, <1>10, Zenon
<1> QED  BY <1>4, <1>7, <1>8, <1>9, <1>10, Zenon DEF Next

\* ... of the sets of tasks, ...
Held == queue \cup executing \cup answered \cup imported \subseteq Created

\* Every step keeps the sets of tasks.
LEMMA HeldStay ==
    ASSUME CommandConstants, Shaped, Grown, [Next]_vars
    PROVE  Held'
<1>1. Held /\ Created \subseteq Created'
  BY DEF Held, Shaped, Known, Grown
<1>2. ASSUME NEW o \in Created',
             queue' \subseteq queue \cup {o}, executing' \subseteq executing \cup {o},
             answered' \subseteq answered \cup {o}, imported' \subseteq imported \cup {o}
      PROVE  Held'
  BY <1>1, <1>2 DEF Held
<1>3. ASSUME queue' \subseteq queue, executing' \subseteq executing,
             answered' \subseteq answered, imported' \subseteq imported
      PROVE  Held'
  BY <1>1, <1>3 DEF Held
<1>4. ASSUME NEW t \in Threads, Insert(t) \/ Put(t) \/ UpdatePut(t) PROVE Held'
  <2>1. call[t].at # "idle"
    BY <1>4, Zenon DEF Insert, Put, UpdatePut
  <2>2. PICK o \in Created' : o = call[t].task
    BY <1>1, <2>1, StageOf
  <2> QED  BY <1>2, <1>4, <2>2, Zenon DEF Insert, Put, UpdatePut, Answer, memory
<1>5. ASSUME NEW t \in Threads,
             \/ \E m \in Members : SaveRead(t, m) \/ UpdateRead(t, m)
             \/ ImportRegister(t) \/ Start(t) \/ Executed(t)
             \/ Cancelled(t) \/ Killed(t) \/ fromJson(t) \/ list(t) \/ clear(t)
      PROVE  Held'
  <2>1. /\ queue' \subseteq queue /\ executing' \subseteq executing
        /\ answered' \subseteq answered /\ imported' \subseteq imported
    BY <1>5, Zenon DEF SaveRead, UpdateRead, ImportRegister, Start, Executed, Cancelled, Killed,
                fromJson, list, clear, memory, history
  <2> QED  BY <1>3, <2>1
<1>6. ASSUME NEW t \in Threads, NEW o \in Tasks,
             \/ enqueue(t, o) \/ dequeue(t, o)
             \/ \E i \in Ids : \/ run(t, i, o) \/ cancel(t, i, o)
                               \/ kill(t, i, o) \/ edit(t, i, o)
                               \/ setSchedule(t, i, o)
      PROVE  Held'
  <2>1. /\ queue' \subseteq queue /\ executing' \subseteq executing
        /\ answered' \subseteq answered /\ imported' \subseteq imported
    BY <1>6, Zenon DEF enqueue, dequeue, run, cancel, kill, edit, setSchedule, memory, history
  <2> QED  BY <1>3, <2>1, Zenon
<1>7. ASSUME NEW t \in Threads, NEW o \in Tasks, NEW i \in Ids, NEW s \in ImportStatuses,
             importTask(t, o, i, s)
      PROVE  Held'
  <2>1. obj'[o].status \in Statuses \ {"NONE"}
    BY <1>7, ObjectSteps DEF Shaped, Constructs
  <2>2. obj'[o] # Unborn
    BY <2>1 DEF Unborn
  <2>3. o \in Created'
    BY <2>2, ZenonT(30) DEF Created, Unused
  <2> QED  BY <1>2, <1>7, <2>3, ZenonT(30) DEF importTask
<1>8. ASSUME NEW o \in Tasks, WorkerTake(o) \/ WorkerDone(o) PROVE Held'
  <2>1. o \in Created'
    BY <1>1, <1>8, Zenon DEF WorkerTake, WorkerDone, Held
  <2> QED  BY <1>2, <1>8, <2>1, Zenon DEF WorkerTake, WorkerDone, history
<1>9. ASSUME restart \/ UNCHANGED vars PROVE Held'
  BY <1>3, <1>9 DEF restart, vars, memory, history
<1>10. ASSUME NEW t \in Threads, Write(t) PROVE Held'
  BY <1>4, <1>5, <1>10, Zenon DEF Write
<1>11. ASSUME NEW t \in Threads,
              \/ Insert(t) \/ ImportRegister(t) \/ Write(t) \/ Start(t) \/ Executed(t)
              \/ Cancelled(t) \/ Killed(t) \/ fromJson(t) \/ list(t) \/ clear(t)
       PROVE  Held'
  BY <1>4, <1>5, <1>10, <1>11, Zenon
<1> QED  BY <1>6, <1>7, <1>8, <1>9, <1>11, Zenon DEF Next

-------------------------------------------------------------------------------
(* The mutexes.                                                            *)

\* An enqueue, a run that starts its task or stores its status, and a call that
\* is about to write hold what the code locks for them.
Owns(c) == \/ c.cmd = "enqueue" \/ c.at = "start"
           \/ (c.cmd = "run" /\ c.at \in {"update", "put_status"})
\* A call between reading what it writes and writing it.
Writing(c) == c.at \in {"put", "put_status"}
Holding ==
    \A t \in Threads :
        /\ Owns(call[t]) => task_mutex = t
        /\ Writing(call[t]) => /\ call[t].member \in Members
                               /\ storage[call[t].member] = t
Mutexes == /\ task_mutex \in Threads \cup {None}
           /\ storage \in [Members -> Threads \cup {None}] /\ Members \subseteq Int
           /\ Holding

\* The first half of the inductive invariant.
Sound == Shaped /\ Mutexes

\* How a call can change in a step.
Moves(u) ==
    \/ call'[u] = call[u] \/ call'[u] = Idle
    \/ call'[u].at \in {"save", "start", "cancelling", "killing", "from_json", "execute",
                       "update"}
    \/ call'[u].at = "insert" /\ call'[u].cmd = "enqueue"
    \/ /\ call'[u].task = call[u].task /\ call'[u].cmd = call[u].cmd
       /\ \/ call'[u].at = "insert" /\ call[u].at = "register"
          \/ call'[u].at = "register" /\ (Put(u) \/ UpdatePut(u))
          \/ call'[u].at = "put" /\ call'[u].rec = Json(call[u].task)
          \/ call'[u].at = "put_status" /\ call'[u].rec = Updated(u)

\* Every step moves every call so.
LEMMA CallMoves ==
    ASSUME CommandConstants, Typed, [Next]_vars
    PROVE  \A u \in Threads : Moves(u)
<1> DEFINE G == \A u \in Threads : Moves(u)
<1>1. ASSUME NEW t \in Threads, NEW l, NEW k, NEW o, NEW m, NEW r, Sets(t, l, k, o, m, r),
             Moves(t)
      PROVE  G
  <2>1. \A u \in Threads \ {t} : call'[u] = call[u]
    BY <1>1, Zenon DEF Sets
  <2> QED  BY <1>1, <2>1, Zenon DEF Moves
<1>2. ASSUME NEW t \in Threads, NEW l, NEW k, NEW o, NEW m, NEW r, Sets(t, l, k, o, m, r),
             l \in {"save", "start", "cancelling", "killing", "from_json", "execute",
                    "update"}
      PROVE  G
  <2>1. call'[t].at = l
    BY <1>2 DEF Sets
  <2>2. Moves(t)
    BY <1>2, <2>1, Zenon DEF Moves
  <2> QED  BY <1>1, <1>2, <2>2
<1>3. ASSUME NEW t \in Threads, Ends(t) PROVE G
  <2>1. Moves(t)
    BY <1>3 DEF Moves, Sets, Ends, Idle
  <2> QED  BY <1>1, <1>3, <2>1, Zenon DEF Ends
<1>4. ASSUME call' = call PROVE G
  BY <1>4 DEF Moves
<1>5. ASSUME NEW t \in Threads, NEW o \in Tasks, enqueue(t, o) PROVE G
  <2>1. Sets(t, "insert", "enqueue", o, 0, Absent)
    BY <1>5, FirstSteps, ZenonT(30) DEF Starts
  <2>2. Moves(t)
    BY <2>1 DEF Moves, Sets
  <2> QED  BY <1>1, <2>1, <2>2
<1>6. ASSUME NEW t \in Threads, NEW o \in Tasks, NEW i \in Ids,
             \/ run(t, i, o) \/ cancel(t, i, o) \/ kill(t, i, o) \/ edit(t, i, o)
             \/ \E s \in ImportStatuses : importTask(t, o, i, s)
      PROVE  G
  <2>1. \E k, l : Starts(t, k, l, o) /\ l \in {"save", "start", "cancelling", "killing"}
    <3>1. \/ Starts(t, "run", "start", o) \/ Starts(t, "cancel", "cancelling", o)
          \/ Starts(t, "kill", "killing", o) \/ Starts(t, "edit", "save", o)
          \/ Starts(t, "import", "save", o)
      BY <1>6, FirstSteps, Zenon
    <3> QED  BY <3>1
  <2> QED  BY <1>2, <2>1 DEF Starts
<1>7. ASSUME NEW t \in Threads, NEW o \in Tasks, NEW i \in Ids, setSchedule(t, i, o)
      PROVE  G
  <2>1. PICK r : r = Json(o)
    BY Zenon
  <2>2. Sets(t, "from_json", "edit", o, 0, r)
    BY <1>7, <2>1, FirstSteps, Zenon
  <2> QED  BY <1>2, <2>2
<1>8. ASSUME NEW t \in Threads, Insert(t) \/ Start(t) \/ fromJson(t) PROVE G
  <2>1. Ends(t) \/ Goes(t, "save") \/ Goes(t, "execute")
    BY <1>8, LaterSteps
  <2> QED  BY <1>2, <1>3, <2>1, Zenon DEF Goes
<1>9. ASSUME NEW t \in Threads, ImportRegister(t) PROVE G
  <2>1. Goes(t, "insert") /\ call[t].at = "register"
    BY <1>9, LaterSteps, ZenonT(30) DEF ImportRegister
  <2>2. Moves(t)
    BY <2>1 DEF Moves, Goes, Sets
  <2> QED  BY <1>1, <2>1, <2>2 DEF Goes
<1>10. ASSUME NEW t \in Threads, Put(t) \/ UpdatePut(t) PROVE G
  <2>1. Ends(t) \/ Goes(t, "register")
    BY <1>10, LaterSteps, Zenon DEF Put, UpdatePut
  <2>2. ASSUME Goes(t, "register") PROVE G
    <3>1. /\ call'[t].at = "register" /\ call'[t].task = call[t].task
          /\ call'[t].cmd = call[t].cmd
      BY <2>2 DEF Goes, Sets
    <3>2. Moves(t)
      BY <1>10, <3>1, Zenon DEF Moves
    <3> QED  BY <1>1, <2>2, <3>2 DEF Goes
  <2> QED  BY <1>3, <2>1, <2>2
<1>11. ASSUME NEW t \in Threads, NEW m \in Members, SaveRead(t, m) \/ UpdateRead(t, m)
       PROVE  G
  <2>1. CASE SaveRead(t, m)
    <3>1. PICK r : r = Json(call[t].task)
      BY Zenon
    <3>2. Sets(t, "put", call[t].cmd, call[t].task, m, r)
      BY <2>1, <3>1, ReadSteps, Zenon DEF Reads
    <3>3. /\ call'[t].at = "put" /\ call'[t].task = call[t].task
          /\ call'[t].cmd = call[t].cmd /\ call'[t].rec = r
      BY <3>2 DEF Sets
    <3>4. Moves(t)
      BY <3>1, <3>3, Zenon DEF Moves
    <3> QED  BY <1>1, <3>2, <3>4
  <2>2. CASE UpdateRead(t, m)
    <3>1. PICK r : r = Updated(t)
      BY Zenon
    <3>2. Sets(t, "put_status", call[t].cmd, call[t].task, m, r)
      BY <2>2, <3>1, ReadSteps, Zenon DEF Reads
    <3>3. /\ call'[t].at = "put_status" /\ call'[t].task = call[t].task
          /\ call'[t].cmd = call[t].cmd /\ call'[t].rec = r
      BY <3>2 DEF Sets
    <3>4. Moves(t)
      BY <3>1, <3>3, Zenon DEF Moves
    <3> QED  BY <1>1, <3>2, <3>4
  <2> QED  BY <1>11, <2>1, <2>2
<1>12. ASSUME NEW t \in Threads, Executed(t) \/ Cancelled(t) \/ Killed(t) PROVE G
  <2>1. Ends(t) \/ \E s : Decides(t, s)
    BY <1>12, StatusSteps, Zenon
  <2> QED  BY <1>2, <1>3, <2>1 DEF Decides
<1>13. ASSUME \/ UNCHANGED vars
              \/ \E t \in Threads : list(t) \/ clear(t) \/ \E o \in Tasks : dequeue(t, o)
              \/ \E o \in Tasks : WorkerTake(o) \/ WorkerDone(o)
       PROVE  G
  <2>1. call' = call
    BY <1>13, Zenon DEF vars, list, clear, dequeue, Once, WorkerTake, WorkerDone
  <2> QED  BY <1>4, <2>1
<1>14. ASSUME restart PROVE G
  BY <1>14, Zenon DEF restart, Moves
<1> HIDE DEF G
<1>15. ASSUME NEW t \in Threads, Write(t) PROVE G
  BY <1>10, <1>11, <1>15, Zenon DEF Write
<1>16. ASSUME NEW t \in Threads,
              \/ Insert(t) \/ ImportRegister(t) \/ Write(t) \/ Start(t) \/ Executed(t)
              \/ Cancelled(t) \/ Killed(t) \/ fromJson(t) \/ list(t) \/ clear(t)
       PROVE  G
  BY <1>8, <1>9, <1>12, <1>13, <1>15, <1>16, Zenon
<1>17. ASSUME NEW t \in Threads, NEW o \in Tasks,
              \/ enqueue(t, o) \/ dequeue(t, o)
              \/ \E i \in Ids, s \in ImportStatuses : importTask(t, o, i, s)
       PROVE  G
  BY <1>5, <1>6, <1>13, <1>17, Zenon
<1>18. ASSUME NEW t \in Threads, NEW o \in Tasks, NEW i \in Ids,
              \/ run(t, i, o) \/ cancel(t, i, o) \/ kill(t, i, o) \/ edit(t, i, o)
              \/ setSchedule(t, i, o)
       PROVE  G
  BY <1>6, <1>7, <1>18, Zenon
<1>19. G
  BY <1>13, <1>14, <1>16, <1>17, <1>18, Zenon DEF Next
<1> QED  BY <1>19 DEF G

\* The histories only grow, and a task is answered for only by the call that
\* wrote it, or by its import.
LEMMA HistoryGrows ==
    ASSUME [Next]_vars
    PROVE  /\ imported \subseteq imported' /\ unstored \subseteq unstored'
           /\ upset \subseteq upset'
           /\ \A o \in answered' \ answered : \E t \in Threads :
                 /\ call[t].task = o
                 /\ \/ (Put(t) \/ UpdatePut(t)) /\ call[t].cmd = "enqueue"
                    \/ Insert(t) /\ call[t].cmd # "enqueue"
<1> DEFINE G == /\ imported \subseteq imported' /\ unstored \subseteq unstored'
                /\ upset \subseteq upset'
                /\ \A o \in answered' \ answered : \E t \in Threads :
                      /\ call[t].task = o
                      /\ \/ (Put(t) \/ UpdatePut(t)) /\ call[t].cmd = "enqueue"
                         \/ Insert(t) /\ call[t].cmd # "enqueue"
<1>1. ASSUME UNCHANGED history PROVE G
  BY <1>1, Zenon DEF history
<1>2. ASSUME imported \subseteq imported', unstored \subseteq unstored',
             upset \subseteq upset', answered' = answered
      PROVE  G
  BY <1>2, Zenon
<1>3. ASSUME NEW t \in Threads, Insert(t) PROVE G
  BY <1>3, Zenon DEF Insert
<1>4. ASSUME NEW t \in Threads, Put(t) PROVE G
  <2>1. /\ imported \subseteq imported' /\ unstored \subseteq unstored'
        /\ upset \subseteq upset' /\ answered' \subseteq answered \cup {call[t].task}
        /\ call[t].cmd # "enqueue" => answered' = answered
    BY <1>4, Zenon DEF Put, Answer
  <2> QED  BY <1>4, <2>1, Zenon
<1>5. ASSUME NEW t \in Threads, UpdatePut(t) PROVE G
  <2>1. /\ imported \subseteq imported' /\ unstored \subseteq unstored'
        /\ upset \subseteq upset' /\ answered' \subseteq answered \cup {call[t].task}
        /\ call[t].cmd # "enqueue" => answered' = answered
    BY <1>5 DEF UpdatePut, Answer
  <2> QED  BY <1>5, <2>1, ZenonT(30)
<1>6. ASSUME NEW t \in Threads,
             \/ \E m \in Members : SaveRead(t, m) \/ UpdateRead(t, m)
             \/ ImportRegister(t) \/ Start(t) \/ Executed(t) \/ list(t) \/ clear(t)
             \/ \E o \in Tasks : enqueue(t, o) \/ dequeue(t, o)
      PROVE  G
  BY <1>1, <1>6, ZenonT(30) DEF SaveRead, UpdateRead, ImportRegister, Start, Executed, list,
                           clear, enqueue, dequeue
<1>7. ASSUME NEW t \in Threads,
             \/ Cancelled(t) \/ Killed(t) \/ fromJson(t)
             \/ \E o \in Tasks, i \in Ids, s \in ImportStatuses : importTask(t, o, i, s)
      PROVE  G
  BY <1>2, <1>7 DEF Cancelled, Killed, fromJson, importTask
<1>8. ASSUME NEW t \in Threads, NEW o \in Tasks, NEW i \in Ids,
             \/ run(t, i, o) \/ cancel(t, i, o) \/ kill(t, i, o) \/ edit(t, i, o)
             \/ setSchedule(t, i, o)
      PROVE  G
  BY <1>1, <1>8, ZenonT(30) DEF run, cancel, kill, edit, setSchedule
<1>9. ASSUME NEW o \in Tasks, WorkerTake(o) \/ WorkerDone(o) PROVE G
  <2>1. CASE WorkerTake(o)
    BY <1>2, <2>1, Zenon DEF WorkerTake
  <2>2. CASE WorkerDone(o)
    BY <1>1, <2>2, Zenon DEF WorkerDone
  <2> QED  BY <1>9, <2>1, <2>2
<1>10. ASSUME restart PROVE G
  BY <1>1, <1>10, ZenonT(30) DEF restart
<1>11. ASSUME UNCHANGED vars PROVE G
  BY <1>1, <1>11, Zenon DEF vars
<1> HIDE DEF G
<1>12. ASSUME NEW t \in Threads,
              \/ Insert(t) \/ ImportRegister(t) \/ Write(t) \/ Start(t) \/ Executed(t)
              \/ Cancelled(t) \/ Killed(t) \/ fromJson(t) \/ list(t) \/ clear(t)
       PROVE  G
  BY <1>3, <1>4, <1>5, <1>6, <1>7, <1>12, Zenon DEF Write
<1>13. ASSUME NEW t \in Threads, NEW o \in Tasks,
              \/ enqueue(t, o) \/ dequeue(t, o)
              \/ \E i \in Ids, s \in ImportStatuses : importTask(t, o, i, s)
       PROVE  G
  BY <1>6, <1>7, <1>13, Zenon
<1>14. G
  BY <1>8, <1>9, <1>10, <1>11, <1>12, <1>13, Zenon DEF Next
<1> QED  BY <1>14, Zenon DEF G

-------------------------------------------------------------------------------
(* What the database holds for the tasks that were answered for.           *)

\* Until the first restart, the tasks that drew their ids differ in them.
Numbered ==
    crashes = 0 =>
        \A o, p \in Created \ imported :
            obj[o].id < next_id /\ (obj[o].id = obj[p].id => o = p)

\* A record is one of a task that has its id.
OfId(r, i) == r.task # None => r.task \in Created /\ obj[r.task].id = i
\* A record, and what a call is about to write, is of a task with its id.
Filed ==
    /\ \A i \in Ids : OfId(db[i], i)
    /\ \A t \in Threads :
          /\ call[t].at = "put" => call[t].rec.task = call[t].task
          /\ call[t].at = "put_status" => OfId(call[t].rec, obj[call[t].task].id)

\* The tasks that are answered for, or were stored by an import that has not
\* answered yet, have a record under their id.
Past(o) == \E t \in Threads : /\ call[t].cmd = "import" /\ call[t].task = o
                              /\ call[t].at \in {"register", "insert"}
Secured == answered \cup {o \in Created : Past(o)}
Kept == \A o \in Secured \ unstored : db[obj[o].id].task # None

\* The second half of the inductive invariant.
Kernel == Sound /\ Numbered /\ Filed /\ Kept

\* A task becomes secured only by the write of its enqueue or its import.
LEMMA SecuredGrows ==
    ASSUME CommandConstants, Sound, [Next]_vars, NEW o \in Secured'
    PROVE  o \in Created /\ (o \in Secured \/ \E t \in Threads : call[t].task = o /\ Put(t))
<1>1. Typed /\ Shaped
  BY DEF Sound, Shaped
<1>2. ASSUME NEW t \in Threads, Put(t) \/ UpdatePut(t), call[t].cmd \in {"enqueue", "import"}
      PROVE  Put(t) /\ call[t].task \in Created
  <2>1. /\ call[t].at \in {"put", "put_status"}
        /\ UpdatePut(t) => call[t].at = "put_status"
    BY <1>2, Zenon DEF Put, UpdatePut
  <2>2. Stage(call[t].at, call[t].cmd) /\ call[t].task \in Created
    BY <1>1, <2>1, StageOf, Zenon
  <2>3. call[t].at # "put_status"
    BY <1>2, <2>2, Zenon DEF Stage
  <2> QED  BY <1>2, <2>1, <2>2, <2>3, Zenon
<1>3. CASE o \in answered
  BY <1>1, <1>3 DEF Secured, Shaped, Known
<1>4. CASE o \in answered' \ answered
  <2>1. PICK t \in Threads :
           /\ call[t].task = o
           /\ \/ (Put(t) \/ UpdatePut(t)) /\ call[t].cmd = "enqueue"
              \/ Insert(t) /\ call[t].cmd # "enqueue"
    BY <1>4, HistoryGrows, ZenonT(30)
  <2>2. CASE (Put(t) \/ UpdatePut(t)) /\ call[t].cmd = "enqueue"
    BY <1>2, <2>1, <2>2, Zenon
  <2>3. CASE Insert(t) /\ call[t].cmd # "enqueue"
    <3>1. call[t].at = "insert"
      BY <2>3, Zenon DEF Insert
    <3>2. o \in Created /\ Stage(call[t].at, call[t].cmd)
      BY <1>1, <2>1, <3>1, StageOf, Zenon
    <3>3. call[t].cmd = "import"
      BY <2>3, <3>1, <3>2, ZenonT(30) DEF Stage
    <3> QED  BY <2>1, <3>1, <3>2, <3>3, Zenon DEF Secured, Past
  <2> QED  BY <2>1, <2>2, <2>3, Zenon
<1>5. ASSUME NEW t \in Threads, call'[t].cmd = "import", call'[t].task = o,
             call'[t].at \in {"register", "insert"}
      PROVE  o \in Created /\ (o \in Secured \/ \E u \in Threads : call[u].task = o /\ Put(u))
  <2>1. Moves(t)
    BY <1>1, CallMoves, Zenon
  <2>2. call'[t] = Idle => call'[t].at = "idle"
    BY DEF Idle
  <2>3. \/ call'[t] = call[t]
        \/ /\ call'[t].task = call[t].task /\ call'[t].cmd = call[t].cmd
           /\ call[t].at = "register" \/ Put(t) \/ UpdatePut(t)
    BY <1>5, <2>1, <2>2, Zenon DEF Moves
  <2>4. CASE call[t].at \in {"register", "insert"} /\ call[t].task = o
             /\ call[t].cmd = "import"
    <3>1. o \in Created
      BY <1>1, <2>4, StageOf, Zenon
    <3> QED  BY <2>4, <3>1, Zenon DEF Secured, Past
  <2>5. CASE call'[t].task = call[t].task /\ call'[t].cmd = call[t].cmd
             /\ (Put(t) \/ UpdatePut(t))
    BY <1>2, <1>5, <2>5
  <2> QED  BY <1>5, <2>3, <2>4, <2>5
<1>6. o \in answered' \/ \E t \in Threads : /\ call'[t].cmd = "import" /\ call'[t].task = o
                                            /\ call'[t].at \in {"register", "insert"}
  BY Zenon DEF Secured, Past
<1> QED  BY <1>3, <1>4, <1>5, <1>6
===============================================================================
