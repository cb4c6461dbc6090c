------------------------------ MODULE TaskProofs ------------------------------
(***************************************************************************)
(* Proofs about the tasks: their storage, for any number of tasks, threads,*)
(* calls and crashes, the life of one task, for any number of calling      *)
(* threads and any limits on its retries, the graph of tasks, whose two    *)
(* maps agree and where what areDependenciesMet has looked at stays as it  *)
(* was until it answers, and the search for a cycle, for any graph.        *)
(***************************************************************************)
EXTENDS Storage, Task, TaskGraph, CycleSearch, TLAPS

\* The time that a step may take.
USE SMTT(20), ZenonT(30), SMTT(25)

-------------------------------------------------------------------------------
(* The storage: its types, that what was reported as written stays         *)
(* written, and that one process gives no number of its log twice.         *)

Places == {"idle", "update", "append", "entry", "counter", "truncate", "batch"}
Ops    == {"none", "save_task", "update_status", "event_log"}
Local  == [at : Places, entry : [op : Ops, id : Ids \cup {None}, data : Json],
           seq : Nat, keys : SUBSET Nat, batch : [Ids -> Json]]

\* The fields of j were written by the first n calls, by calls that have begun.
Among(j, n) == j.body <= n /\ j.status <= n
Begun(j) == Among(j, ops)

Appends(t) == th[t].at \in {"append", "entry", "counter"}

\* t has written a task, or is about to, and its entry says what.
Writes(t) == \/ th[t].at = "update"
             \/ Appends(t) /\ th[t].entry.op # "event_log"

Typed ==
    /\ TypeOK
    /\ ops \in 0..MaxOps /\ crashes \in Nat
    /\ th \in [Threads -> Local]
    /\ wal = [s \in DOMAIN wal |-> wal[s]]

\* No field is newer than the calls made so far.
Dated ==
    /\ \A i \in Ids : Begun(tasks[i]) /\ Begun(acked[i])
    /\ \A t \in Threads : Begun(th[t].entry.data)
    /\ \A t \in Threads, i \in Ids : Begun(th[t].batch[i])

\* saveTask and updateTaskStatus hold mutex_ from their first access on.
Holds == \A t \in Threads : Writes(t) =>
            /\ mutex = t
            /\ th[t].entry.id \in Ids
            /\ th[t].entry.op \in {"save_task", "update_status"}

\* What they are about to write, or have written, is what the database has but
\* for a newer status.
Agrees == "commit" \notin upset => \A t \in Threads : Writes(t) =>
            LET e == th[t].entry IN
            /\ e.data.body = tasks[e.id].body
            /\ e.data.status >= tasks[e.id].status
            /\ Appends(t) => e.data.status = tasks[e.id].status

\* The number an append has drawn is below the next one, and, in the process
\* that started with an empty log, its own.
Drawn ==
    /\ \A t \in Threads : th[t].at \in {"entry", "counter"} =>
          th[t].seq \in 1..wal_sequence
    /\ crashes = 0 =>
          /\ \A s \in DOMAIN wal : s <= wal_sequence
          /\ \A t \in Threads : th[t].at = "entry" => th[t].seq \notin DOMAIN wal
          /\ \A t, u \in Threads :
                th[t].at = "entry" /\ th[u].at = "entry" /\ th[t].seq = th[u].seq
                   => t = u

Inv == Typed /\ Dated /\ Holds /\ AckedKept /\ Agrees /\ Drawn
-------------------------------------------------------------------------------
(* Facts about the parts of the model.                                     *)

\* Max of two numbers is one of them and below neither.
LEMMA MaxOfTwo ==
    ASSUME NEW a \in Nat, NEW b \in Nat
    PROVE  LET m == Max({a, b}) IN m \in {a, b} /\ m >= a /\ m >= b
<1> DEFINE m == CHOOSE x \in {a, b} : \A y \in {a, b} : x >= y
<1>1. \E x \in {a, b} : \A y \in {a, b} : x >= y
  <2>1. CASE a >= b
    BY <2>1
  <2>2. CASE ~(a >= b)
    BY <2>2
  <2>3. QED
    BY <2>1, <2>2
<1>2. m \in {a, b} /\ \A y \in {a, b} : m >= y
  BY <1>1
<1>3. QED
  BY <1>2 DEF Max

\* A thread between its calls has the type of every other.
LEMMA IdleIs ==
    /\ Idle \in Local
    /\ Idle.at = "idle" /\ Idle.entry.data = Absent
    /\ \A i \in Ids : Idle.batch[i] = Absent
    /\ Absent \in Json /\ Absent.body = 0 /\ Absent.status = 0
<1>1. Absent \in Json /\ Absent.body = 0 /\ Absent.status = 0
  BY StorageAssumption DEF Absent, Json
<1>2. NoBatch \in [Ids -> Json] /\ \A i \in Ids : NoBatch[i] = Absent
  BY <1>1 DEF NoBatch
<1>3. Entry("none", None, Absent) \in [op : Ops, id : Ids \cup {None}, data : Json]
  BY <1>1 DEF Entry, Ops
<1>4. QED
  BY <1>1, <1>2, <1>3 DEF Idle, Local, Places, Entry

\* A step of t changes nothing of the other threads.
LEMMA OneMoves ==
    ASSUME Typed, NEW t \in Threads, NEW r \in Local, th' = [th EXCEPT ![t] = r]
    PROVE  /\ th' \in [Threads -> Local]
           /\ th'[t] = r
           /\ \A u \in Threads : u # t => th'[u] = th[u]
<1> QED
  BY DEF Typed

\* The first state.
LEMMA StorageInit == Init => Inv
<1> SUFFICES ASSUME Init PROVE Inv
  OBVIOUS
<1>1. \A t \in Threads : th[t] = Idle
  BY DEF Init
<1>2. Typed
  BY IdleIs, StorageAssumption DEF Init, Typed, TypeOK
<1>3. Dated
  BY <1>1, IdleIs DEF Init, Dated, Begun, Among
<1>4. Holds /\ Agrees /\ Drawn
  BY <1>1, IdleIs DEF Init, Holds, Agrees, Drawn, Writes, Appends
<1>5. AckedKept
  BY IdleIs DEF Init, AckedKept
<1>6. QED
  BY <1>2, <1>3, <1>4, <1>5 DEF Inv
-------------------------------------------------------------------------------
(* Calls that begin.                                                       *)

\* A call that begins makes every field older and writes nothing yet.
LEMMA Ages ==
    ASSUME Inv, ops' = ops + 1, ops < MaxOps
    PROVE  /\ ops' \in 0..MaxOps /\ ops <= ops'
           /\ \A j \in Json : Begun(j) => Begun(j)'
           /\ Fresh(ops') \in Json
           /\ Fresh(ops').body = ops' /\ Fresh(ops').status = ops'
           /\ \A j \in Json : /\ WithStatus(j, ops') \in Json
                              /\ WithStatus(j, ops').body = j.body
                              /\ WithStatus(j, ops').status = ops'
<1>1. ops \in Nat /\ ops' \in 0..MaxOps /\ ops <= ops'
  BY StorageAssumption DEF Inv, Typed
<1>2. QED
  BY <1>1, StorageAssumption DEF Begun, Among, Json, Fresh, WithStatus

\* saveTask: the task is written, newer than all that was reported.
LEMMA SaveStep ==
    ASSUME Inv, NEW t \in Threads, NEW i \in Ids, saveTask(t, i)
    PROVE  Inv'
<1> DEFINE r == [Idle EXCEPT !.at = "append", !.entry = Entry("save_task", i, Fresh(ops'))]
<1> USE DEF saveTask, Call, Lock
<1>1. ops' = ops + 1 /\ ops < MaxOps
  OBVIOUS
<1>2. /\ ops' \in 0..MaxOps /\ ops <= ops'
      /\ \A j \in Json : Begun(j) => Begun(j)'
      /\ Fresh(ops') \in Json
      /\ Fresh(ops').body = ops' /\ Fresh(ops').status = ops'
  BY <1>1, Ages
<1>3. /\ r \in Local
      /\ r.at = "append" /\ r.entry.op = "save_task" /\ r.entry.id = i
      /\ r.entry.data = Fresh(ops') /\ r.batch = Idle.batch
  BY <1>2, IdleIs, Zenon DEF Local, Places, Ops, Entry
<1>4. th' = [th EXCEPT ![t] = r]
  BY DEF Appending
<1> HIDE DEF r
<1>5. /\ th' \in [Threads -> Local] /\ th'[t] = r
      /\ \A u \in Threads : u # t => th'[u] = th[u]
  BY <1>3, <1>4, OneMoves, Zenon DEF Inv
<1>6. tasks' \in [Ids -> Json] /\ tasks'[i] = Fresh(ops')
      /\ \A k \in Ids : k # i => tasks'[k] = tasks[k]
  BY <1>2 DEF Inv, Typed, TypeOK
<1>7. Typed'
  BY <1>2, <1>5, <1>6 DEF Inv, Typed, TypeOK
<1>8. Dated'
  <2>1. \A k \in Ids : Begun(tasks[k])' /\ Begun(acked[k])'
    BY <1>2, <1>6 DEF Inv, Typed, TypeOK, Dated, Begun, Among
  <2>2. ASSUME NEW u \in Threads
        PROVE  Begun(th[u].entry.data)' /\ \A k \in Ids : Begun(th[u].batch[k])'
    <3>1. CASE u = t
      BY <3>1, <1>2, <1>3, <1>5, IdleIs DEF Begun, Among
    <3>2. CASE u # t
      BY <3>2, <1>2, <1>5 DEF Inv, Typed, Local, Dated, Begun, Among
    <3>3. QED
      BY <3>1, <3>2
  <2>3. QED
    BY <2>1, <2>2 DEF Dated
<1>9. \A u \in Threads : Writes(u)' => u = t
  BY <1>5, StorageAssumption DEF Inv, Holds, Writes, Appends
<1>10. Holds'
  BY <1>3, <1>5, <1>9 DEF Holds
<1>11. AckedKept'
  BY <1>2, <1>6, StorageAssumption DEF Inv, AckedKept, Typed, TypeOK, Dated, Begun, Among, Json
<1>12. Agrees'
  BY <1>2, <1>3, <1>5, <1>6, <1>9, StorageAssumption DEF Agrees
<1>13. Drawn'
  BY <1>3, <1>5 DEF Inv, Drawn
<1>14. QED
  BY <1>7, <1>8, <1>10, <1>11, <1>12, <1>13 DEF Inv
\* The other calls change no task and no key when they begin: t goes on with the
\* locals r, with mutex_ if it is to write a task.
LEMMA BeginStep ==
    ASSUME Inv, NEW t \in Threads, NEW r \in Local,
           ops < MaxOps, ops' = ops + 1, th' = [th EXCEPT ![t] = r],
           UNCHANGED <<tasks, wal, wal0, wal_sequence, crashes, acked, base, upset>>,
           mutex' = mutex \/ (mutex = None /\ mutex' = t),
           Among(r.entry.data, ops + 1), \A i \in Ids : Among(r.batch[i], ops + 1),
           \/ r.at \in {"truncate", "batch"}
           \/ r.at = "append" /\ r.entry.op = "event_log"
           \/ /\ r.at = "update" /\ r.entry.op = "update_status" /\ r.entry.id \in Ids
              /\ r.entry.data.body = tasks[r.entry.id].body
              /\ r.entry.data.status >= tasks[r.entry.id].status
              /\ mutex' = t
    PROVE  Inv'
<1>1. /\ ops' \in 0..MaxOps /\ ops <= ops'
      /\ \A j \in Json : Begun(j) => Begun(j)'
  BY Ages
<1>2. /\ th' \in [Threads -> Local] /\ th'[t] = r
      /\ \A u \in Threads : u # t => th'[u] = th[u]
  BY OneMoves, Zenon DEF Inv
<1>3. Typed'
  BY <1>1, <1>2 DEF Inv, Typed, TypeOK
<1>4. Dated'
  <2>1. \A k \in Ids : Begun(tasks[k])' /\ Begun(acked[k])'
    BY <1>1 DEF Inv, Typed, TypeOK, Dated, Begun, Among
  <2>2. ASSUME NEW u \in Threads
        PROVE  Begun(th[u].entry.data)' /\ \A k \in Ids : Begun(th[u].batch[k])'
    <3>1. CASE u = t
      BY <3>1, <1>2 DEF Begun, Among
    <3>2. CASE u # t
      BY <3>2, <1>1, <1>2 DEF Inv, Typed, Local, Dated, Begun, Among
    <3>3. QED
      BY <3>1, <3>2
  <2>3. QED
    BY <2>1, <2>2 DEF Dated
<1>5. ASSUME NEW u \in Threads, Writes(u)'
      PROVE  /\ mutex' = u
             /\ u = t => r.at = "update"
             /\ u # t => Writes(u) /\ th'[u] = th[u]
  <2>1. CASE u = t
    BY <1>2, <1>5, <2>1 DEF Writes, Appends
  <2>2. CASE u # t
    BY <1>2, <1>5, <2>2, StorageAssumption DEF Inv, Holds, Writes, Appends
  <2>3. QED
    BY <2>1, <2>2
<1>6. Holds'
  BY <1>2, <1>5, Zenon DEF Inv, Holds
<1>7. Agrees'
  <2> SUFFICES ASSUME "commit" \notin upset, NEW u \in Threads, Writes(u)'
               PROVE  LET e == th'[u].entry IN
                      /\ e.data.body = tasks[e.id].body
                      /\ e.data.status >= tasks[e.id].status
                      /\ Appends(u)' => e.data.status = tasks[e.id].status
    BY DEF Agrees
  <2>1. CASE u = t
    BY <1>2, <1>5, <2>1, Zenon DEF Appends
  <2>2. CASE u # t
    BY <1>2, <1>5, <2>2 DEF Inv, Agrees, Appends
  <2>3. QED
    BY <2>1, <2>2, ZenonT(30)
<1>8. AckedKept'
  BY DEF Inv, AckedKept
<1>9. Drawn'
  BY <1>2 DEF Inv, Drawn
<1>10. QED
  BY <1>3, <1>4, <1>6, <1>7, <1>8, <1>9 DEF Inv

\* updateTaskStatus reads the task, logEvent takes no lock, truncateWAL scans the
\* keys, and a batch takes a task in.
LEMMA CallSteps ==
    ASSUME Inv, NEW t \in Threads,
           \/ logEvent(t) \/ TruncateScan(t)
           \/ \E i \in Ids : UpdateRead(t, i) \/ BatchSave(t, i) \/ BatchUpdate(t, i)
    PROVE  Inv'
<1>1. th[t] \in Local /\ tasks \in [Ids -> Json] /\ DOMAIN wal \subseteq Nat /\ ops \in Nat
  BY DEF Inv, Typed, TypeOK
<1>2. /\ Begun(th[t].entry.data) /\ \A i \in Ids : Begun(th[t].batch[i])
      /\ \A i \in Ids : Begun(tasks[i])
  BY DEF Inv, Dated
<1>3. CASE logEvent(t)
  <2> DEFINE r == [Idle EXCEPT !.at = "append", !.entry = Entry("event_log", None, Fresh(ops'))]
  <2>1. ops < MaxOps /\ ops' = ops + 1 /\ th' = [th EXCEPT ![t] = r]
    BY <1>3 DEF logEvent, Call, Appending
  <2>2. Fresh(ops') \in Json /\ Fresh(ops').body = ops' /\ Fresh(ops').status = ops' /\ ops' \in Nat
    BY <1>1, <2>1, Ages
  <2>3. /\ r \in Local /\ r.at = "append" /\ r.entry.op = "event_log"
        /\ r.entry.data = Fresh(ops') /\ r.batch = Idle.batch
    BY <2>2, IdleIs, Zenon DEF Local, Places, Ops, Entry
  <2>4. Among(r.entry.data, ops + 1) /\ \A i \in Ids : Among(r.batch[i], ops + 1)
    BY <1>1, <2>1, <2>2, <2>3, IdleIs DEF Among
  <2> HIDE DEF r
  <2>5. QED
    BY <1>3, <2>1, <2>3, <2>4, BeginStep, Zenon DEF logEvent
<1>4. CASE TruncateScan(t)
  <2> DEFINE r == [th[t] EXCEPT !.at = "truncate", !.keys = DOMAIN wal]
  <2>1. ops < MaxOps /\ ops' = ops + 1 /\ th' = [th EXCEPT ![t] = r]
    BY <1>4, Zenon DEF TruncateScan, Call
  <2>2. r \in Local /\ r.at = "truncate" /\ r.entry = th[t].entry /\ r.batch = th[t].batch
    BY <1>1, Zenon DEF Local, Places
  <2>3. Among(r.entry.data, ops + 1) /\ \A i \in Ids : Among(r.batch[i], ops + 1)
    BY <1>1, <1>2, <2>1, <2>2, Ages DEF Local, Begun, Among
  <2> HIDE DEF r
  <2>4. QED
    BY <1>4, <2>1, <2>2, <2>3, BeginStep, Zenon DEF TruncateScan, Lock
<1>5. ASSUME NEW i \in Ids, UpdateRead(t, i)
      PROVE  Inv'
  <2> DEFINE r == [Idle EXCEPT !.at = "update",
                       !.entry = Entry("update_status", i, WithStatus(tasks[i], ops'))]
  <2>1. ops < MaxOps /\ ops' = ops + 1 /\ th' = [th EXCEPT ![t] = r]
    BY <1>5, Zenon DEF UpdateRead, Call
  <2>2. /\ WithStatus(tasks[i], ops') \in Json
        /\ WithStatus(tasks[i], ops').body = tasks[i].body
        /\ WithStatus(tasks[i], ops').status = ops'
    BY <1>1, <2>1, Ages
  <2>3. /\ r \in Local /\ r.at = "update" /\ r.entry.op = "update_status" /\ r.entry.id = i
        /\ r.entry.data = WithStatus(tasks[i], ops') /\ r.batch = Idle.batch
    BY <2>2, IdleIs, Zenon DEF Local, Places, Ops, Entry
  <2>4. Among(r.entry.data, ops + 1) /\ \A k \in Ids : Among(r.batch[k], ops + 1)
    BY <1>1, <1>2, <2>1, <2>2, <2>3, IdleIs DEF Begun, Among, Json
  <2>5. r.entry.data.status >= tasks[i].status
    BY <1>1, <1>2, <2>1, <2>2, <2>3 DEF Begun, Among, Json
  <2> HIDE DEF r
  <2>6. QED
    BY <1>5, <2>1, <2>2, <2>3, <2>4, <2>5, BeginStep, Zenon DEF UpdateRead, Lock
<1>6. ASSUME NEW i \in Ids, NEW j \in Json, InBatch(t), Stage(t, i, j), Among(j, ops + 1),
             UNCHANGED <<tasks, wal, wal0, wal_sequence, mutex, crashes, acked, base, upset>>
      PROVE  Inv'
  <2> DEFINE r == [th[t] EXCEPT !.at = "batch", !.batch[i] = j]
  <2>1. ops < MaxOps /\ ops' = ops + 1 /\ th' = [th EXCEPT ![t] = r]
    BY <1>6, Zenon DEF InBatch, Stage
  <2>2. /\ r \in Local /\ r.at = "batch" /\ r.entry = th[t].entry
        /\ r.batch = [th[t].batch EXCEPT ![i] = j]
    BY <1>1, Zenon DEF Local, Places
  <2>3. Among(r.entry.data, ops + 1) /\ \A k \in Ids : Among(r.batch[k], ops + 1)
    BY <1>1, <1>2, <1>6, <2>1, <2>2, Ages DEF Local, Begun, Among
  <2> HIDE DEF r
  <2>4. QED
    BY <1>6, <2>1, <2>2, <2>3, BeginStep, Zenon
<1>7. ASSUME NEW i \in Ids, BatchSave(t, i) \/ BatchUpdate(t, i)
      PROVE  Inv'
  <2>1. ops < MaxOps /\ ops' = ops + 1 /\ ops' \in Nat
    BY <1>1, <1>7 DEF BatchSave, BatchUpdate, InBatch
  <2>2. /\ Fresh(ops') \in Json /\ WithStatus(tasks[i], ops') \in Json
        /\ Among(Fresh(ops'), ops + 1) /\ Among(WithStatus(tasks[i], ops'), ops + 1)
    BY <1>1, <1>2, <2>1, Ages DEF Begun, Among, Json
  <2>3. QED
    BY <1>6, <1>7, <2>2 DEF BatchSave, BatchUpdate
<1>8. QED
  BY <1>3, <1>4, <1>5, <1>7
-------------------------------------------------------------------------------
(* Calls that go on.                                                       *)

\* updateTaskStatus writes the JSON it has read, whose body nobody has changed.
LEMMA UpdateStep ==
    ASSUME Inv, NEW t \in Threads, th[t].at = "update",
           tasks' = [tasks EXCEPT ![th[t].entry.id] = th[t].entry.data],
           Appending(t, th[t].entry), mutex' = mutex,
           UNCHANGED <<wal, wal0, wal_sequence, ops, crashes, acked, base, upset>>
    PROVE  Inv'
<1> DEFINE e == th[t].entry
           r == [Idle EXCEPT !.at = "append", !.entry = e]
<1>1. /\ th[t] \in Local /\ e.data \in Json /\ tasks \in [Ids -> Json]
      /\ ops \in Nat /\ acked \in [Ids -> Json]
  BY DEF Inv, Typed, TypeOK, Local
<1>2. /\ Writes(t) /\ mutex = t /\ e.id \in Ids
      /\ e.op \in {"save_task", "update_status"}
  BY DEF Inv, Holds, Writes
<1>3. r \in Local /\ r.at = "append" /\ r.entry = e /\ r.batch = Idle.batch
  BY <1>1, IdleIs, Zenon DEF Local, Places
<1>4. th' = [th EXCEPT ![t] = r]
  BY DEF Appending
<1> HIDE DEF r
<1>5. /\ th' \in [Threads -> Local] /\ th'[t] = r
      /\ \A u \in Threads : u # t => th'[u] = th[u]
  BY <1>3, <1>4, OneMoves, Zenon DEF Inv
<1>6. /\ tasks' \in [Ids -> Json] /\ tasks'[e.id] = e.data
      /\ \A k \in Ids : k # e.id => tasks'[k] = tasks[k]
  BY <1>1, <1>2
<1>7. th'[t].entry = e /\ th'[t].at = "append"
  BY <1>3, <1>5
<1> HIDE DEF e
<1>8. Typed'
  BY <1>5, <1>6 DEF Inv, Typed, TypeOK
<1>9. Dated'
  <2>1. Begun(e.data)
    BY DEF Inv, Dated, e
  <2>2. \A k \in Ids : Begun(tasks[k])' /\ Begun(acked[k])'
    BY <1>6, <2>1 DEF Inv, Dated, Begun
  <2>3. ASSUME NEW u \in Threads
        PROVE  Begun(th[u].entry.data)' /\ \A k \in Ids : Begun(th[u].batch[k])'
    <3>1. CASE u = t
      BY <3>1, <1>1, <1>3, <1>5, <1>7, <2>1, IdleIs DEF Begun, Among
    <3>2. CASE u # t
      BY <3>2, <1>5 DEF Inv, Dated, Begun
    <3>3. QED
      BY <3>1, <3>2, Zenon
  <2>4. QED
    BY <2>2, <2>3, Zenon DEF Dated
<1>10. ASSUME NEW u \in Threads, Writes(u)'
       PROVE  u = t
  BY <1>2, <1>5, <1>10 DEF Inv, Holds, Writes, Appends
<1>11. Holds'
  BY <1>2, <1>7, <1>10 DEF Holds
<1>12. Agrees'
  <2>1. e.data.status \in Nat
    BY <1>1 DEF Json, e
  <2>2. /\ e.data.body = tasks'[e.id].body /\ e.data.status >= tasks'[e.id].status
        /\ e.data.status = tasks'[e.id].status
    BY <1>6, <2>1
  <2>3. QED
    BY <1>7, <1>10, <2>2, Zenon DEF Agrees
<1>13. AckedKept'
  <2>1. "commit" \notin upset =>
           /\ e.data.body = tasks[e.id].body /\ e.data.status >= tasks[e.id].status
    BY <1>2 DEF Inv, Agrees, e
  <2>2. "commit" \notin upset => \A k \in Ids :
           tasks[k].body >= acked[k].body /\ tasks[k].status >= acked[k].status
    BY DEF Inv, AckedKept
  <2>3. e.data \in Json
    BY <1>1 DEF e
  <2>4. ASSUME NEW k \in Ids, "commit" \notin upset
        PROVE  tasks'[k].body >= acked[k].body /\ tasks'[k].status >= acked[k].status
    <3>1. CASE k = e.id
      <4>1. /\ tasks'[k] = e.data /\ e.data.body = tasks[k].body
            /\ e.data.status >= tasks[k].status
        BY <3>1, <1>6, <2>1, <2>4, Zenon
      <4>2. tasks[k].body >= acked[k].body /\ tasks[k].status >= acked[k].status
        BY <2>2, <2>4, Zenon
      <4>3. tasks[k] \in Json /\ acked[k] \in Json
        BY <1>1
      <4>4. /\ e.data.status \in Nat /\ tasks[k].status \in Nat /\ acked[k].status \in Nat
        BY <2>3, <4>3 DEF Json
      <4>5. QED
        BY <4>1, <4>2, <4>4
    <3>2. CASE k # e.id
      BY <3>2, <1>6, <2>2, <2>4, Zenon
    <3>3. QED
      BY <3>1, <3>2
  <2>5. QED
    BY <2>4, Zenon DEF AckedKept
<1>14. Drawn'
  BY <1>5, <1>7 DEF Inv, Drawn
<1>15. QED
  BY <1>8, <1>9, <1>11, <1>12, <1>13, <1>14 DEF Inv
\* appendToWAL goes on with the same entry: only the log and its numbers change.
LEMMA SameEntry ==
    ASSUME Inv, NEW t \in Threads, NEW r \in Local, th' = [th EXCEPT ![t] = r],
           Appends(t), r.at \in {"entry", "counter"},
           r.entry = th[t].entry, r.batch = th[t].batch,
           UNCHANGED <<tasks, mutex, ops, acked, upset>>
    PROVE  Dated' /\ Holds' /\ AckedKept' /\ Agrees'
<1>1. /\ th' \in [Threads -> Local] /\ th'[t] = r
      /\ \A u \in Threads : u # t => th'[u] = th[u]
  BY OneMoves, Zenon DEF Inv
<1>2. \A u \in Threads : th'[u].entry = th[u].entry /\ th'[u].batch = th[u].batch
  BY <1>1
<1>3. \A u \in Threads : (Writes(u)' <=> Writes(u)) /\ (Appends(u)' <=> Appends(u))
  <2> SUFFICES ASSUME NEW u \in Threads
               PROVE  (Writes(u)' <=> Writes(u)) /\ (Appends(u)' <=> Appends(u))
    OBVIOUS
  <2>1. CASE u = t
    BY <2>1, <1>1 DEF Writes, Appends
  <2>2. CASE u # t
    BY <2>2, <1>1 DEF Writes, Appends
  <2>3. QED
    BY <2>1, <2>2
<1>4. Dated'
  BY <1>2, Zenon DEF Inv, Dated, Begun
<1>5. Holds'
  BY <1>2, <1>3, Zenon DEF Inv, Holds
<1>6. Agrees'
  BY <1>2, <1>3, Zenon DEF Inv, Agrees
<1>7. AckedKept'
  BY DEF Inv, AckedKept
<1>8. QED
  BY <1>4, <1>5, <1>6, <1>7

\* A number is drawn: it is above all that were drawn before.
LEMMA SequenceStep ==
    ASSUME Inv, NEW t \in Threads, AppendSequence(t)
    PROVE  Inv'
<1> DEFINE r == [th[t] EXCEPT !.at = "entry", !.seq = wal_sequence + 1]
<1>0. ASSUME NEW q \in Local, NEW n \in Nat
      PROVE  LET x == [q EXCEPT !.at = "entry", !.seq = n] IN
             /\ x \in Local /\ x.at = "entry" /\ x.seq = n
             /\ x.entry = q.entry /\ x.batch = q.batch
  BY Zenon DEF Local, Places
<1>1. /\ th[t] \in Local /\ wal_sequence \in Nat /\ wal_sequence + 1 \in Nat
      /\ wal0 \in 0..wal_sequence
  BY DEF Inv, Typed, TypeOK
<1>2. th' = [th EXCEPT ![t] = r] /\ wal_sequence' = wal_sequence + 1 /\ Appends(t)
  BY Zenon DEF Appends, AppendSequence
<1>3. /\ r \in Local /\ r.at = "entry" /\ r.seq = wal_sequence + 1
      /\ r.entry = th[t].entry /\ r.batch = th[t].batch
  BY <1>0, <1>1, Zenon
<1> HIDE DEF r
<1>4. /\ th' \in [Threads -> Local] /\ th'[t] = r
      /\ \A u \in Threads : u # t => th'[u] = th[u]
  BY <1>2, <1>3, OneMoves, Zenon DEF Inv
<1>5. Dated' /\ Holds' /\ AckedKept' /\ Agrees'
  BY <1>2, <1>3, SameEntry, Zenon DEF AppendSequence
<1>6. Typed'
  BY <1>1, <1>2, <1>4 DEF Inv, Typed, TypeOK, AppendSequence
<1>7. Drawn'
  <2> USE DEF AppendSequence
  <2>1. \A u \in Threads : u # t /\ th'[u].at \in {"entry", "counter"} =>
           th'[u].seq \in 1..wal_sequence
    BY <1>4 DEF Inv, Drawn
  <2>2. \A u \in Threads : th'[u].at \in {"entry", "counter"} =>
           th'[u].seq \in 1..wal_sequence'
    BY <1>1, <1>2, <1>3, <1>4, <2>1
  <2>3. CASE crashes # 0
    BY <2>2, <2>3, Zenon DEF Drawn
  <2>4. CASE crashes = 0
    <3>1. \A s \in DOMAIN wal : s \in Nat /\ s <= wal_sequence
      BY <2>4 DEF Inv, Drawn, Typed, TypeOK
    <3>2. \A s \in DOMAIN wal' : s <= wal_sequence'
      BY <1>1, <1>2, <3>1
    <3>3. wal_sequence + 1 \notin DOMAIN wal
      BY <1>1, <3>1
    <3>4. \A u \in Threads : th'[u].at = "entry" => th'[u].seq \notin DOMAIN wal'
      BY <1>3, <1>4, <2>4, <3>3 DEF Inv, Drawn
    <3>5. ASSUME NEW a \in Threads, NEW b \in Threads, th'[a].at = "entry",
                 th'[b].at = "entry", th'[a].seq = th'[b].seq
          PROVE  a = b
      <4>1. CASE a # t /\ b # t
        BY <1>4, <2>4, <3>5, <4>1 DEF Inv, Drawn
      <4>2. CASE a = t \/ b = t
        BY <1>1, <1>3, <1>4, <2>1, <3>5, <4>2
      <4>3. QED
        BY <4>1, <4>2
    <3>6. QED
      BY <2>2, <3>2, <3>4, <3>5, Zenon DEF Drawn
  <2>5. QED
    BY <2>3, <2>4
<1>8. QED
  BY <1>5, <1>6, <1>7 DEF Inv

\* The log after an entry is stored: one key more, or the same keys.
LEMMA LoggedKeys ==
    ASSUME Inv, NEW t \in Threads, Logged(t)
    PROVE  /\ DOMAIN wal' = DOMAIN wal \cup {th[t].seq}
           /\ wal' = [s \in DOMAIN wal' |-> wal'[s]]
           /\ \A s \in DOMAIN wal : s # th[t].seq => wal'[s] = wal[s]
<1> QED
  BY DEF Logged

\* The entry is stored under the number that was drawn for it.
LEMMA EntryStep ==
    ASSUME Inv, NEW t \in Threads, th[t].at = "entry", Logged(t), Go(t, "counter"),
           UNCHANGED <<mutex, acked, upset, tasks, wal0, wal_sequence, ops, crashes, base>>
    PROVE  Inv'
<1> DEFINE r == [th[t] EXCEPT !.at = "counter"]
<1>1. th[t] \in Local /\ wal_sequence \in Nat /\ th[t].seq \in 1..wal_sequence
  BY DEF Inv, Typed, TypeOK, Drawn
<1>2. th' = [th EXCEPT ![t] = r] /\ Appends(t)
  BY DEF Appends, Go
<1>3. /\ r \in Local /\ r.at = "counter" /\ r.seq = th[t].seq
      /\ r.entry = th[t].entry /\ r.batch = th[t].batch
  BY <1>1 DEF Local, Places
<1> HIDE DEF r
<1>4. /\ th' \in [Threads -> Local] /\ th'[t] = r
      /\ \A u \in Threads : u # t => th'[u] = th[u]
  BY <1>2, <1>3, OneMoves, Zenon DEF Inv
<1>5. Dated' /\ Holds' /\ AckedKept' /\ Agrees'
  BY <1>2, <1>3, SameEntry, Zenon
<1>6. /\ DOMAIN wal' = DOMAIN wal \cup {th[t].seq}
      /\ wal' = [s \in DOMAIN wal' |-> wal'[s]]
  BY LoggedKeys
<1>7. Typed'
  BY <1>1, <1>4, <1>6 DEF Inv, Typed, TypeOK
<1>8. Drawn'
  <2>1. \A u \in Threads : th'[u].seq = th[u].seq
    BY <1>3, <1>4
  <2>2. \A u \in Threads : th'[u].at \in {"entry", "counter"} =>
           th'[u].seq \in 1..wal_sequence
    BY <1>1, <1>4, <2>1 DEF Inv, Drawn
  <2>3. \A u \in Threads : th'[u].at = "entry" => u # t /\ th[u].at = "entry"
    BY <1>3, <1>4
  <2>4. CASE crashes # 0
    BY <2>2, <2>4 DEF Drawn
  <2>5. CASE crashes = 0
    <3>1. \A s \in DOMAIN wal' : s <= wal_sequence
      BY <1>1, <1>6, <2>5 DEF Inv, Drawn
    <3>2. \A u \in Threads : th'[u].at = "entry" => th'[u].seq \notin DOMAIN wal'
      BY <1>6, <2>1, <2>3, <2>5, Zenon DEF Inv, Drawn
    <3>3. \A a, b \in Threads :
             th'[a].at = "entry" /\ th'[b].at = "entry" /\ th'[a].seq = th'[b].seq => a = b
      BY <2>1, <2>3, <2>5 DEF Inv, Drawn
    <3>4. QED
      BY <2>2, <3>1, <3>2, <3>3 DEF Drawn
  <2>6. QED
    BY <2>4, <2>5
<1>9. QED
  BY <1>5, <1>7, <1>8 DEF Inv
-------------------------------------------------------------------------------
(* Calls that return.                                                      *)

\* A call that returns leaves its lock and its locals; the numbers drawn by the
\* others stay theirs, and a task that is being written stays as it is unless a
\* batch overwrites it.
LEMMA ReturnStep ==
    ASSUME Inv, NEW t \in Threads, Return(t),
           UNCHANGED <<ops, crashes, wal_sequence>>,
           DOMAIN wal' \subseteq DOMAIN wal, wal' = [s \in DOMAIN wal' |-> wal'[s]],
           wal0' \in 0..wal_sequence,
           tasks' \in [Ids -> Json], acked' \in [Ids -> Json],
           \A i \in Ids : Begun(tasks'[i]) /\ Begun(acked'[i]),
           AckedKept',
           "commit" \notin upset' => "commit" \notin upset /\ tasks' = tasks
    PROVE  Inv'
<1>1. /\ th' \in [Threads -> Local] /\ th'[t] = Idle
      /\ \A u \in Threads : u # t => th'[u] = th[u]
  BY IdleIs, OneMoves, Zenon DEF Inv, Return
<1>2. mutex' \in Threads \cup {None} /\ \A u \in Threads : u # t /\ mutex = u => mutex' = u
  BY DEF Inv, Typed, TypeOK, Return
<1>3. Typed'
  BY <1>1, <1>2 DEF Inv, Typed, TypeOK
<1>4. Dated'
  <2>1. \A k \in Ids : Begun(tasks[k])' /\ Begun(acked[k])'
    BY DEF Begun
  <2>2. ASSUME NEW u \in Threads
        PROVE  Begun(th[u].entry.data)' /\ \A k \in Ids : Begun(th[u].batch[k])'
    <3>1. CASE u = t
      BY <3>1, <1>1, IdleIs DEF Begun, Among, Inv, Typed
    <3>2. CASE u # t
      BY <3>2, <1>1 DEF Inv, Dated, Begun
    <3>3. QED
      BY <3>1, <3>2
  <2>3. QED
    BY <2>1, <2>2 DEF Dated
<1>5. \A u \in Threads : Writes(u)' =>
         u # t /\ Writes(u) /\ th'[u] = th[u] /\ (Appends(u)' <=> Appends(u))
  <2> SUFFICES ASSUME NEW u \in Threads, Writes(u)'
               PROVE  u # t /\ Writes(u) /\ th'[u] = th[u] /\ (Appends(u)' <=> Appends(u))
    OBVIOUS
  <2>1. u # t
    BY <1>1, IdleIs DEF Writes, Appends
  <2>2. QED
    BY <1>1, <2>1 DEF Writes, Appends
<1>6. Holds'
  BY <1>2, <1>5, ZenonT(30) DEF Inv, Holds
<1>7. Agrees'
  BY <1>5 DEF Inv, Agrees
<1>8. Drawn'
  <2>1. \A u \in Threads : th'[u].at \in {"entry", "counter"} => u # t /\ th'[u] = th[u]
    BY <1>1, IdleIs
  <2>2. QED
    BY <2>1 DEF Inv, Drawn
<1>9. QED
  BY <1>3, <1>4, <1>6, <1>7, <1>8 DEF Inv

\* A call of appendToWAL that returns reports what the database has.
LEMMA Reported ==
    ASSUME Inv, NEW t \in Threads, Appends(t), AppendReturn(t), UNCHANGED <<tasks, ops>>,
           "commit" \notin upset' => "commit" \notin upset
    PROVE  /\ acked' \in [Ids -> Json]
           /\ \A i \in Ids : Begun(acked'[i])
           /\ AckedKept'
<1> DEFINE e == th[t].entry
<1>1. /\ acked \in [Ids -> Json] /\ tasks \in [Ids -> Json] /\ e.data \in Json
      /\ ops \in Nat
  BY DEF Inv, Typed, TypeOK, Local
<1>2. Begun(e.data) /\ \A i \in Ids : Begun(acked[i])
  BY ZenonT(30) DEF Inv, Dated
<1>3. e.op # "event_log" =>
         /\ e.id \in Ids /\ e.op \in {"save_task", "update_status"}
         /\ "commit" \notin upset =>
               e.data.body = tasks[e.id].body /\ e.data.status = tasks[e.id].status
  BY <1>1 DEF Inv, Holds, Agrees, Writes
<1>4. "commit" \notin upset => \A i \in Ids :
         tasks[i].body >= acked[i].body /\ tasks[i].status >= acked[i].status
  BY ZenonT(30) DEF Inv, AckedKept
<1>5. \/ acked' = acked
      \/ e.op # "event_log" /\ \E j \in Json :
            /\ Acknowledged(e.id, j)
            /\ j.body \in {0, e.data.body} /\ j.status = e.data.status
  <2>1. CASE e.op = "save_task"
    BY <1>1, <2>1, ZenonT(30) DEF AppendReturn
  <2>2. CASE e.op = "update_status"
    <3>1. /\ WithStatus(Absent, e.data.status) \in Json
          /\ WithStatus(Absent, e.data.status).body = 0
          /\ WithStatus(Absent, e.data.status).status = e.data.status
      BY <1>1, StorageAssumption DEF WithStatus, Absent, Json
    <3>2. Acknowledged(e.id, WithStatus(Absent, e.data.status))
      BY <2>2 DEF AppendReturn
    <3>3. QED
      BY <2>2, <3>1, <3>2
  <2>3. CASE e.op = "event_log"
    BY <2>3, Zenon DEF AppendReturn
  <2>4. QED
    BY <1>3, <2>1, <2>2, <2>3
<1>6. CASE acked' = acked
  BY <1>1, <1>2, <1>4, <1>6, Zenon DEF AckedKept
<1>7. ASSUME NEW j \in Json, e.op # "event_log", Acknowledged(e.id, j),
             j.body \in {0, e.data.body}, j.status = e.data.status
      PROVE  /\ acked' \in [Ids -> Json]
             /\ \A i \in Ids : Begun(acked'[i])
             /\ AckedKept'
  <2> DEFINE i == e.id
             b == Max({acked[i].body, j.body})
             s == Max({acked[i].status, j.status})
  <2>1. /\ i \in Ids /\ acked[i].body \in Nat /\ acked[i].status \in Nat
        /\ j.body \in Nat /\ j.status \in Nat /\ acked[i] \in Json
    <3>1. i \in Ids
      BY <1>3, <1>7
    <3>2. acked[i] \in Json
      BY <1>1, <3>1
    <3>3. \A x \in Json : x.body \in Nat /\ x.status \in Nat
      BY DEF Json
    <3>4. QED
      BY <3>1, <3>2, <3>3, Zenon
  <2>2. b \in {acked[i].body, j.body} /\ s \in {acked[i].status, j.status}
    BY <2>1, MaxOfTwo, Zenon
  <2>3. acked' = [acked EXCEPT ![i] = [body |-> b, status |-> s]]
    BY <1>7, Zenon DEF Acknowledged
  <2> HIDE DEF b, s
  <2>4. [body |-> b, status |-> s] \in Json
    BY <1>7, <2>1, <2>2, ZenonT(30) DEF Json
  <2>5. /\ acked' \in [Ids -> Json]
        /\ acked'[i].body = b /\ acked'[i].status = s
        /\ \A k \in Ids : k # i => acked'[k] = acked[k]
    BY <1>1, <2>1, <2>3, <2>4
  <2> HIDE DEF i
  <2>6. b <= ops /\ s <= ops
    <3>1. /\ acked[i].body <= ops /\ acked[i].status <= ops
          /\ e.data.body <= ops /\ e.data.status <= ops
      BY <1>2, <2>1, Zenon DEF Begun, Among
    <3>2. j.body <= ops /\ j.status <= ops
      BY <1>1, <1>7, <3>1
    <3>3. QED
      BY <2>2, <3>1, <3>2
  <2>7. \A k \in Ids : Begun(acked'[k])
    BY <1>2, <2>5, <2>6, ZenonT(30) DEF Begun, Among
  <2>8. "commit" \notin upset => tasks[i].body >= b /\ tasks[i].status >= s
    <3>1. tasks[i].body \in Nat /\ tasks[i].status \in Nat
      BY <1>1, <2>1 DEF Json
    <3>2. "commit" \notin upset =>
             /\ e.data.body = tasks[i].body /\ e.data.status = tasks[i].status
             /\ tasks[i].body >= acked[i].body /\ tasks[i].status >= acked[i].status
      BY <1>3, <1>4, <1>7, <2>1, Zenon DEF i
    <3>3. QED
      BY <1>7, <2>1, <2>2, <3>1, <3>2
  <2>9. AckedKept'
    BY <1>4, <2>5, <2>8 DEF AckedKept
  <2>10. QED
    BY <2>5, <2>7, <2>9
<1>8. QED
  BY <1>5, <1>6, <1>7
\* updateTaskStatus whose write fails, truncateWAL, commit and rollback.
LEMMA ReturnSteps ==
    ASSUME Inv, NEW t \in Threads,
           \/ /\ Return(t)
              /\ UNCHANGED <<tasks, wal, wal0, wal_sequence, ops, crashes, acked, base, upset>>
           \/ TruncateWrite(t) \/ Commit(t)
    PROVE  Inv'
<1>1. /\ tasks \in [Ids -> Json] /\ acked \in [Ids -> Json] /\ th[t] \in Local
      /\ wal_sequence \in Nat /\ wal0 \in 0..wal_sequence
      /\ wal = [s \in DOMAIN wal |-> wal[s]]
  BY Zenon DEF Inv, Typed, TypeOK
<1>2. /\ \A i \in Ids : Begun(tasks[i]) /\ Begun(acked[i]) /\ Begun(th[t].batch[i])
      /\ AckedKept
  BY DEF Inv, Dated
<1>3. CASE /\ Return(t)
           /\ UNCHANGED <<tasks, wal, wal0, wal_sequence, ops, crashes, acked, base, upset>>
  <2>1. AckedKept'
    BY <1>2, <1>3 DEF AckedKept
  <2>2. QED
    BY <1>1, <1>2, <1>3, <2>1, ReturnStep, Zenon
<1>4. CASE TruncateWrite(t)
  <2>1. /\ DOMAIN wal' \subseteq DOMAIN wal /\ wal' = [s \in DOMAIN wal' |-> wal'[s]]
        /\ wal0' \in 0..wal_sequence
    BY <1>1, <1>4 DEF TruncateWrite
  <2>2. AckedKept'
    BY <1>2, <1>4, Zenon DEF AckedKept, TruncateWrite
  <2>3. QED
    BY <1>1, <1>2, <1>4, <2>1, <2>2, ReturnStep DEF TruncateWrite
<1>5. CASE Commit(t)
  <2>1. tasks' \in [Ids -> Json] /\ \A i \in Ids : tasks'[i] \in {tasks[i], th[t].batch[i]}
    BY <1>1, <1>5 DEF Commit, Local
  <2>2. \A i \in Ids : Begun(tasks'[i])
    BY <1>2, <2>1
  <2>3. "commit" \in upset' /\ AckedKept'
    BY <1>5 DEF Commit, AckedKept
  <2>4. QED
    BY <1>1, <1>2, <1>5, <2>1, <2>2, <2>3, ReturnStep, Zenon DEF Commit
<1>6. QED
  BY <1>3, <1>4, <1>5

\* appendToWAL returns, its counter or its entry written or not.
LEMMA AppendReturns ==
    ASSUME Inv, NEW t \in Threads, th[t].at \in {"entry", "counter"}, AppendReturn(t),
           wal0' = wal0 \/ wal0' = th[t].seq,
           upset' = upset \/ upset' = upset \cup {"unlogged"},
           UNCHANGED <<tasks, wal, wal_sequence, ops, crashes, base>>
    PROVE  Inv'
<1>1. /\ tasks \in [Ids -> Json] /\ wal_sequence \in Nat /\ wal0 \in 0..wal_sequence
      /\ wal = [s \in DOMAIN wal |-> wal[s]] /\ th[t].seq \in 1..wal_sequence
      /\ \A i \in Ids : Begun(tasks[i])
  BY DEF Inv, Typed, TypeOK, Drawn, Dated
<1>2. Appends(t) /\ Return(t)
  BY DEF Appends, AppendReturn
<1>3. "commit" \notin upset' => "commit" \notin upset
  BY Zenon
<1>4. acked' \in [Ids -> Json] /\ (\A i \in Ids : Begun(acked'[i])) /\ AckedKept'
  BY <1>2, <1>3, Reported
<1>5. wal0' \in 0..wal_sequence
  BY <1>1
<1>6. QED
  BY <1>1, <1>2, <1>3, <1>4, <1>5, ReturnStep

\* A crash leaves the database, and no call.
LEMMA CrashStep ==
    ASSUME Inv, initialize
    PROVE  Inv'
<1> USE DEF initialize
<1>1. \A t \in Threads : th'[t] = Idle
  OBVIOUS
<1>2. Typed'
  BY IdleIs DEF Inv, Typed, TypeOK
<1>3. Dated'
  BY <1>1, IdleIs DEF Inv, Typed, Dated, Begun, Among
<1>4. Holds' /\ Agrees'
  BY <1>1, IdleIs DEF Holds, Agrees, Writes, Appends
<1>5. AckedKept'
  BY DEF Inv, AckedKept
<1>6. Drawn'
  <2>1. crashes' # 0
    BY DEF Inv, Typed
  <2>2. QED
    BY <1>1, <2>1, IdleIs DEF Drawn
<1>7. QED
  BY <1>2, <1>3, <1>4, <1>5, <1>6 DEF Inv
-------------------------------------------------------------------------------
(* The theorems.                                                           *)

\* Inv holds in every reachable state.
THEOREM StorageInvariant == Spec => []Inv
<1>1. Inv /\ [Next]_vars => Inv'
  <2> SUFFICES ASSUME Inv, [Next]_vars PROVE Inv'
    OBVIOUS
  <2>1. CASE UNCHANGED vars
    BY <2>1, Zenon DEF vars, Inv, Typed, TypeOK, Dated, Begun, Holds, AckedKept, Agrees,
                Drawn, Writes, Appends
  <2>2. CASE initialize
    BY <2>2, CrashStep
  <2>3. ASSUME NEW t \in Threads, UpdateWrite(t) PROVE Inv'
    BY <2>3, UpdateStep, ReturnSteps, Zenon DEF UpdateWrite
  <2>4. ASSUME NEW t \in Threads, Append_(t) PROVE Inv'
    <3>1. CASE AppendSequence(t)
      BY <3>1, SequenceStep
    <3>2. CASE AppendEntry(t)
      BY <3>2, EntryStep, AppendReturns DEF AppendEntry
    <3>3. CASE AppendCounter(t)
      BY <3>3, AppendReturns, Zenon DEF AppendCounter
    <3>4. QED
      BY <2>4, <3>1, <3>2, <3>3 DEF Append_
  <2>5. ASSUME NEW t \in Threads, logEvent(t) \/ TruncateScan(t) PROVE Inv'
    BY <2>5, CallSteps, ZenonT(30)
  <2>6. ASSUME NEW t \in Threads, TruncateWrite(t) \/ Commit(t) \/ Rollback(t) PROVE Inv'
    BY <2>6, ReturnSteps DEF Rollback
  <2>7. ASSUME NEW t \in Threads, NEW i \in Ids,
               saveTask(t, i) \/ UpdateRead(t, i) \/ BatchSave(t, i) \/ BatchUpdate(t, i)
        PROVE  Inv'
    BY <2>7, SaveStep, CallSteps
  <2>8. QED
    BY <2>1, <2>2, <2>3, <2>4, <2>5, <2>6, <2>7 DEF Next
<1>2. QED
  BY <1>1, StorageInit, PTL DEF Spec

\* The types hold, and wal:0 never runs ahead of wal_sequence_ (appendToWAL,
\* initialize), for any number of tasks, threads, calls and crashes.
THEOREM StorageTypes == Spec => []TypeOK
<1>1. Inv => TypeOK
  BY DEF Inv, Typed
<1>2. QED
  BY <1>1, StorageInvariant, PTL

\* What saveTask and updateTaskStatus have reported as written is never taken
\* away, whichever calls, failures and crashes come, as long as no batch is
\* committed.
THEOREM AckedIsKept == Spec => []AckedKept
<1>1. Inv => AckedKept
  BY DEF Inv
<1>2. QED
  BY <1>1, StorageInvariant, PTL

\* One process overwrites no entry of its log, although appendToWAL draws its
\* number without mutex_ when logEvent calls it.
THEOREM NumbersGivenOnce == Spec => NumberedOnce
<1>1. Inv /\ [Next]_vars =>
         [crashes = 0 => \A s \in DOMAIN wal \cap DOMAIN wal' : wal'[s] = wal[s]]_vars
  <2> SUFFICES ASSUME Inv, [Next]_vars, crashes = 0, NEW s \in DOMAIN wal, s \in DOMAIN wal'
               PROVE  wal'[s] = wal[s]
    OBVIOUS
  <2>1. ASSUME NEW t \in Threads, AppendEntry(t) PROVE wal'[s] = wal[s]
    <3>1. th[t].seq \notin DOMAIN wal
      BY <2>1 DEF Inv, Drawn, AppendEntry
    <3>2. QED
      BY <2>1, <3>1, LoggedKeys, Zenon DEF AppendEntry
  <2>2. ASSUME NEW t \in Threads, TruncateWrite(t) PROVE wal'[s] = wal[s]
    BY <2>2 DEF TruncateWrite
  <2>3. CASE wal' = wal
    BY <2>3
  <2>4. \/ wal' = wal
        \/ \E t \in Threads : AppendEntry(t) \/ TruncateWrite(t)
    BY Zenon DEF Next, vars, initialize, UpdateWrite, logEvent, Append_, AppendSequence,
           AppendCounter, TruncateScan, Commit, Rollback, saveTask, UpdateRead,
           BatchSave, BatchUpdate
  <2>5. QED
    BY <2>1, <2>2, <2>3, <2>4, Zenon
<1>2. QED
  BY <1>1, StorageInvariant, PTL DEF Spec, NumberedOnce

-------------------------------------------------------------------------------
(* One task and the threads that change its status, without a lock.        *)

\* The limit that a thread about to increment retry_count_ has seen still lies
\* above it, since no other thread increments meanwhile.
RetryAllowed ==
    \A p \in Callers :
        pc[p] = "fail_inc" => \E n \in Limits : retry_count < n

\* A task that is being failed stays FAILED, or CANCELLED by a cancel that read
\* the status before: no method starts it again until the section is left.
FailingIsDown == InRetry # {} => status \in {"FAILED", "CANCELLED"}

\* A completed task stays so, or is CANCELLED by a late store, and nothing leads
\* on from there.
CompletedIsDown ==
    completions > 0 => status \in {"COMPLETED", "CANCELLED"} /\ InRetry = {}

LifeInv == /\ LifeTypeOK
       /\ RetryExclusive
       /\ CompletedOnce
       /\ RetryAllowed
       /\ FailingIsDown
       /\ CompletedIsDown

\* A new task is CREATED and nobody works on it.
LEMMA LifeBegins == ASSUME LifeInit PROVE LifeInv
<1>1. LifeTypeOK
  <2>1. \E n \in Limits : 0 <= n
    <3>1. PICK n \in Limits : n \in Nat
      BY LimitsAssumption, Zenon
    <3> QED  BY <3>1
  <2> QED  BY <2>1 DEF LifeInit, LifeTypeOK, TaskStatus, Labels
<1>2. InRetry = {}
  BY DEF LifeInit, InRetry, Failing
<1> QED  BY <1>1, <1>2 DEF LifeInit, LifeInv, RetryExclusive, CompletedOnce, RetryAllowed,
                           FailingIsDown, CompletedIsDown

\* Every access of the status methods keeps the invariant.
LEMMA LifeStep ==
    ASSUME LifeInv, [LifeNext]_lifeVars PROVE LifeInv'
<1>0. /\ LifeTypeOK /\ RetryExclusive /\ CompletedOnce /\ RetryAllowed
      /\ FailingIsDown /\ CompletedIsDown
  BY DEF LifeInv
<1>t. retry_count \in Nat /\ completions \in Nat /\ Limits \subseteq Nat
  BY <1>0, LimitsAssumption DEF LifeTypeOK
<1>1. ASSUME NEW p \in Callers, MarkQueued(p) \/ MarkStarted(p)
      PROVE  LifeInv'
  <2>1. /\ status \in {"CREATED", "QUEUED"} /\ status' \in {"QUEUED", "RUNNING"}
        /\ UNCHANGED <<retry_count, max_retries, pc, completions>>
    BY <1>1 DEF MarkQueued, MarkStarted
  <2>2. InRetry' = InRetry /\ InRetry = {} /\ completions = 0
    BY <1>0, <1>t, <2>1 DEF InRetry, FailingIsDown, CompletedIsDown
  <2>3. LifeTypeOK'
    BY <1>0, <2>1 DEF LifeTypeOK, TaskStatus
  <2> QED  BY <1>0, <2>1, <2>2, <2>3
           DEF LifeInv, RetryExclusive, CompletedOnce, RetryAllowed, FailingIsDown,
               CompletedIsDown
<1>2. ASSUME NEW p \in Callers, MarkCompleted(p)
      PROVE  LifeInv'
  <2>1. /\ status = "RUNNING" /\ status' = "COMPLETED"
        /\ completions' = completions + 1
        /\ UNCHANGED <<retry_count, max_retries, pc>>
    BY <1>2 DEF MarkCompleted
  <2>2. InRetry' = InRetry /\ InRetry = {} /\ completions = 0
    BY <1>0, <1>t, <2>1 DEF InRetry, FailingIsDown, CompletedIsDown
  <2>3. LifeTypeOK'
    BY <1>0, <2>1 DEF LifeTypeOK, TaskStatus
  <2> QED  BY <1>0, <2>1, <2>2, <2>3
           DEF LifeInv, RetryExclusive, CompletedOnce, RetryAllowed, FailingIsDown,
               CompletedIsDown
<1>3. ASSUME NEW p \in Callers, MarkFailed(p)
      PROVE  LifeInv'
  <2>1. /\ status = "RUNNING" /\ status' = "FAILED"
        /\ pc' = [pc EXCEPT ![p] = "fail_check"]
        /\ UNCHANGED <<retry_count, max_retries, completions>>
    BY <1>3 DEF MarkFailed
  <2>2. InRetry = {} /\ completions = 0
    BY <1>0, <1>t, <2>1 DEF FailingIsDown, CompletedIsDown
  <2>m. \A u \in Callers : pc'[u] = IF u = p THEN "fail_check" ELSE pc[u]
    BY <1>0, <2>1 DEF LifeTypeOK
  <2>3. /\ InRetry' = {p}
        /\ \A u \in Callers : pc'[u] = "fail_inc" => pc[u] = "fail_inc"
    BY <2>2, <2>m DEF InRetry, Failing
  <2>4. LifeTypeOK'
    BY <1>0, <2>1 DEF LifeTypeOK, TaskStatus, Labels, Failing
  <2> QED  BY <1>0, <2>1, <2>2, <2>3, <2>4
           DEF LifeInv, RetryExclusive, CompletedOnce, RetryAllowed, FailingIsDown,
               CompletedIsDown
<1>4. ASSUME NEW p \in Callers, FailCheck(p)
      PROVE  LifeInv'
  <2>1. /\ pc[p] = "fail_check"
        /\ pc' = [pc EXCEPT ![p] = IF canRetry THEN "fail_inc" ELSE "idle"]
        /\ UNCHANGED <<status, retry_count, max_retries, completions>>
    BY <1>4 DEF FailCheck
  <2>2. p \in InRetry
    BY <2>1 DEF InRetry, Failing
  <2>m. \A u \in Callers : IF u = p THEN pc'[u] = "idle" \/ canRetry
                            ELSE pc'[u] = pc[u]
    BY <1>0, <2>1 DEF LifeTypeOK
  <2>3. InRetry' \subseteq InRetry
        /\ \A u \in Callers : pc'[u] = "fail_inc" =>
              pc[u] = "fail_inc" \/ retry_count < max_retries
    BY <2>2, <2>m DEF InRetry, Failing, canRetry
  <2>4. RetryAllowed'
    BY <1>0, <2>1, <2>3 DEF RetryAllowed, LifeTypeOK
  <2>5. LifeTypeOK'
    BY <1>0, <2>1 DEF LifeTypeOK, Labels, Failing
  <2> QED  BY <1>0, <2>1, <2>2, <2>3, <2>4, <2>5
           DEF LifeInv, RetryExclusive, CompletedOnce, FailingIsDown, CompletedIsDown
<1>5. ASSUME NEW p \in Callers, FailCount(p)
      PROVE  LifeInv'
  <2>1. /\ pc[p] = "fail_inc" /\ pc' = [pc EXCEPT ![p] = "fail_store"]
        /\ retry_count' = retry_count + 1
        /\ UNCHANGED <<status, max_retries, completions>>
    BY <1>5 DEF FailCount
  <2>2. p \in InRetry
    BY <2>1 DEF InRetry, Failing
  <2>m. \A u \in Callers : pc'[u] = IF u = p THEN "fail_store" ELSE pc[u]
    BY <1>0, <2>1 DEF LifeTypeOK
  <2>3. InRetry' = InRetry
    BY <2>2, <2>m DEF InRetry, Failing
  <2>4. RetryAllowed'
    <3>1. \A u \in Callers : pc'[u] # "fail_inc"
      BY <1>0, <2>2, <2>m DEF RetryExclusive, InRetry, Failing
    <3> QED  BY <3>1 DEF RetryAllowed
  <2>5. LifeTypeOK'
    <3>1. \E n \in Limits : retry_count < n
      BY <1>0, <2>1 DEF RetryAllowed
    <3>2. \E n \in Limits : retry_count + 1 <= n
      BY <1>t, <3>1
    <3>3. pc' \in [Callers -> Labels \ {"from_json"}]
      BY <1>0, <2>1 DEF LifeTypeOK, Labels, Failing
    <3>4. retry_count' \in Nat /\ \E n \in Limits : retry_count' <= n
      BY <1>t, <2>1, <3>2
    <3>5. status' \in TaskStatus /\ max_retries' \in Limits /\ completions' \in Nat
      BY <1>0, <2>1 DEF LifeTypeOK
    <3> QED  BY <3>3, <3>4, <3>5 DEF LifeTypeOK
  <2> QED  BY <1>0, <2>1, <2>3, <2>4, <2>5
           DEF LifeInv, RetryExclusive, CompletedOnce, FailingIsDown, CompletedIsDown
<1>6. ASSUME NEW p \in Callers, FailStore(p)
      PROVE  LifeInv'
  <2>1. /\ pc[p] = "fail_store" /\ pc' = [pc EXCEPT ![p] = "idle"]
        /\ status' = "CREATED"
        /\ UNCHANGED <<retry_count, max_retries, completions>>
    BY <1>6 DEF FailStore
  <2>2. p \in InRetry
    BY <2>1 DEF InRetry, Failing
  <2>3. completions = 0
    BY <1>0, <1>t, <2>2 DEF CompletedIsDown
  <2>4. /\ InRetry' = {}
        /\ \A u \in Callers : pc'[u] = "fail_inc" => pc[u] = "fail_inc"
    <3>1. \A u \in Callers : pc'[u] = IF u = p THEN "idle" ELSE pc[u]
      BY <1>0, <2>1 DEF LifeTypeOK
    <3> QED  BY <1>0, <2>2, <3>1 DEF RetryExclusive, InRetry, Failing
  <2>5. LifeTypeOK'
    BY <1>0, <2>1, Zenon DEF LifeTypeOK, TaskStatus, Labels
  <2> QED  BY <1>0, <2>1, <2>3, <2>4, <2>5
           DEF LifeInv, RetryExclusive, CompletedOnce, RetryAllowed, FailingIsDown,
               CompletedIsDown
<1>7. ASSUME NEW p \in Callers, CancelLoad(p) \/ CancelStore(p)
      PROVE  LifeInv'
  <2>1. PICK l \in {"idle", "cancel_store"} : pc' = [pc EXCEPT ![p] = l]
    BY <1>7 DEF CancelLoad, CancelStore
  <2>2. /\ pc[p] \in {"idle", "cancel_store"}
        /\ status' = status \/ status' = "CANCELLED"
        /\ UNCHANGED <<retry_count, max_retries, completions>>
    BY <1>7 DEF CancelLoad, CancelStore
  <2>3. InRetry' = InRetry
        /\ \A u \in Callers : pc'[u] = "fail_inc" => pc[u] = "fail_inc"
    <3>1. \A u \in Callers : pc'[u] = IF u = p THEN l ELSE pc[u]
      BY <1>0, <2>1 DEF LifeTypeOK
    <3> QED  BY <2>1, <2>2, <3>1 DEF InRetry, Failing
  <2>4. LifeTypeOK'
    BY <1>0, <2>1, <2>2 DEF LifeTypeOK, TaskStatus, Labels
  <2> QED  BY <1>0, <2>2, <2>3, <2>4
           DEF LifeInv, RetryExclusive, CompletedOnce, RetryAllowed, FailingIsDown,
               CompletedIsDown
<1>8. ASSUME \/ UNCHANGED lifeVars
             \/ \E p \in Callers, n \in Limits : SetMaxRetries(p, n)
      PROVE  LifeInv'
  <2>1. /\ UNCHANGED <<status, retry_count, pc, completions>>
        /\ max_retries' = max_retries \/ max_retries' \in Limits
    BY <1>8 DEF lifeVars, SetMaxRetries
  <2>2. InRetry' = InRetry
    BY <2>1 DEF InRetry
  <2>3. LifeTypeOK'
    BY <1>0, <2>1 DEF LifeTypeOK
  <2> QED  BY <1>0, <2>1, <2>2, <2>3
           DEF LifeInv, RetryExclusive, CompletedOnce, RetryAllowed, FailingIsDown,
               CompletedIsDown
<1> QED
  BY <1>1, <1>2, <1>3, <1>4, <1>5, <1>6, <1>7, <1>8 DEF LifeNext, Fail, Cancel

\* The task keeps its invariant.
LEMMA LifeInvariant == LifeSpec => []LifeInv
<1>1. LifeInit => LifeInv
  BY LifeBegins
<1>2. LifeInv /\ [LifeNext]_lifeVars => LifeInv'
  BY LifeStep
<1> QED  BY <1>1, <1>2, PTL DEF LifeSpec

\* The part of markFailed that works on the plain member retry_count_ is
\* executed by one thread at a time, although no mutex protects it.
THEOREM RetryIsExclusive == LifeSpec => []RetryExclusive
<1>1. LifeInv => RetryExclusive
  BY DEF LifeInv
<1> QED  BY <1>1, LifeInvariant, PTL

\* No interleaving of the methods completes a task twice.
THEOREM NeverCompletedTwice == LifeSpec => []CompletedOnce
<1>1. LifeInv => CompletedOnce
  BY DEF LifeInv
<1> QED  BY <1>1, LifeInvariant, PTL

\* retry_count_ stays within the limits that were set.
THEOREM LifeTypeCorrect == LifeSpec => []LifeTypeOK
<1>1. LifeInv => LifeTypeOK
  BY DEF LifeInv
<1> QED  BY <1>1, LifeInvariant, PTL

-------------------------------------------------------------------------------
(* The graph of tasks, for any number of tasks and callers.  The proofs    *)
(* look at a map through Entry, what a lookup finds.                       *)

\* Lookups after addDependency: one pair is added to each map.
LEMMA AddLookup ==
  ASSUME NEW t, NEW d, addDependency(t, d)
  PROVE  \A u, e :
            /\ e \in Lookup(dependencies', u) <=>
                  (e \in Lookup(dependencies, u) \/ (u = t /\ e = d))
            /\ u \in Lookup(dependents', e) <=>
                  (u \in Lookup(dependents, e) \/ (u = t /\ e = d))
  <1> TAKE u, e
  <1>1. Lookup(dependencies', u) =
           IF u = t THEN Lookup(dependencies, t) \cup {d}
                    ELSE Lookup(dependencies, u)
    BY DEF addDependency, With, Lookup
  <1>2. Lookup(dependents', e) =
           IF e = d THEN Lookup(dependents, d) \cup {t}
                    ELSE Lookup(dependents, e)
    BY DEF addDependency, With, Lookup
  <1> QED  BY <1>1, <1>2

\* Lookups after removeDependency: one pair is taken from each map.
LEMMA RemoveLookup ==
  ASSUME NEW t, NEW d, removeDependency(t, d)
  PROVE  \A u, e :
            /\ e \in Lookup(dependencies', u) <=>
                  (e \in Lookup(dependencies, u) /\ ~(u = t /\ e = d))
            /\ u \in Lookup(dependents', e) <=>
                  (u \in Lookup(dependents, e) /\ ~(u = t /\ e = d))
  <1> TAKE u, e
  <1>1. Lookup(dependencies', u) =
           IF u = t THEN Lookup(dependencies, t) \ {d}
                    ELSE Lookup(dependencies, u)
    BY DEF removeDependency, Changed, Lookup
  <1>2. Lookup(dependents', e) =
           IF e = d THEN Lookup(dependents, d) \ {t}
                    ELSE Lookup(dependents, e)
    BY DEF removeDependency, Changed, Lookup
  <1> QED  BY <1>1, <1>2

\* Lookups after removeTask: t has no dependencies and is none, and has no
\* dependents; it may still be one.
LEMMA RemoveTaskLookup ==
  ASSUME NEW t, removeTask(t)
  PROVE  \A u, e :
            /\ e \in Lookup(dependencies', u) <=>
                  (e \in Lookup(dependencies, u) /\ u # t /\ e # t)
            /\ u \in Lookup(dependents', e) <=>
                  (u \in Lookup(dependents, e) /\ e # t)
  BY DEF removeTask, Without, Lookup

\* A step changes the graph by one pair, removes a task, or leaves it alone.
LEMMA GraphStep ==
  ASSUME [GraphNext]_graphVars
  PROVE  \/ \E t, d \in TaskIds :
               addDependency(t, d) \/ removeDependency(t, d)
         \/ \E t \in TaskIds : removeTask(t)
         \/ UNCHANGED <<maps, removed>>
  <1>1. ASSUME NEW p \in Clients, NEW t \in TaskIds, NEW d \in TaskIds,
               AddGraph(p, t, d) \/ RemoveDependency(p, t, d)
        PROVE  addDependency(t, d) \/ removeDependency(t, d)
    BY <1>1 DEF AddGraph, RemoveDependency
  <1>2. ASSUME NEW p \in Clients,
               \/ AddOwn(p) \/ MetReturn(p)
               \/ \E t \in TaskIds : MetRead(p, t) \/ MetLook(p, t)
               \/ \E t, d \in TaskIds : Depend(p, t, d)
        PROVE  UNCHANGED <<maps, removed>>
    BY <1>2, Zenon DEF AddOwn, MetReturn, MetRead, MetLook,
                Depend
  <1>3. ASSUME Others PROVE UNCHANGED <<maps, removed>>
    BY <1>3 DEF Others, Register, Forget, Execute
  <1>4. ASSUME UNCHANGED graphVars PROVE UNCHANGED <<maps, removed>>
    BY <1>4 DEF graphVars
  <1> QED  BY <1>1, <1>2, <1>3, <1>4 DEF GraphNext, Caller

\* After any sequence of additions and removals, removeTask included, the two
\* maps are each other's converse, but for dependents that were removed.
THEOREM DependentsAlwaysAgree == GraphSpec => []DependentsAgree
  <1>1. GraphInit => DependentsAgree
    BY DEF GraphInit, DependentsAgree, Lookup
  <1>2. ASSUME DependentsAgree, [GraphNext]_graphVars PROVE DependentsAgree'
    <2>1. ASSUME NEW t \in TaskIds, NEW d \in TaskIds, addDependency(t, d)
          PROVE  DependentsAgree'
      <3>1. removed' = removed
        BY <2>1 DEF addDependency
      <3> QED  BY <1>2, <2>1, <3>1, AddLookup DEF DependentsAgree
    <2>2. ASSUME NEW t \in TaskIds, NEW d \in TaskIds, removeDependency(t, d)
          PROVE  DependentsAgree'
      <3>1. removed' = removed
        BY <2>2 DEF removeDependency
      <3> QED  BY <1>2, <2>2, <3>1, RemoveLookup DEF DependentsAgree
    <2>3. ASSUME NEW t \in TaskIds, removeTask(t) PROVE DependentsAgree'
      <3>1. removed' = removed \cup {t}
        BY <2>3 DEF removeTask
      <3> QED  BY <1>2, <2>3, <3>1, RemoveTaskLookup DEF DependentsAgree
    <2>4. CASE UNCHANGED <<maps, removed>>
      BY <1>2, <2>4, Zenon DEF DependentsAgree, maps
    <2> QED  BY <1>2, <2>1, <2>2, <2>3, <2>4, GraphStep
  <1> QED  BY <1>1, <1>2, PTL DEF GraphSpec

-------------------------------------------------------------------------------
\* What makes AnswerIsCurrent inductive: the callers' locals are functions, and
\* whatever a caller has seen completed, also one that will answer false, is
\* still registered and completed.
SeenIsCurrent ==
    /\ at \in [Clients -> {"idle", "add_own", "scan", "true", "false"}]
    /\ DOMAIN todo = Clients
    /\ DOMAIN met = Clients
    /\ \A p \in Clients : met[p] \subseteq task_map \cap completed

\* The steps of areDependenciesMet: one more task has been seen, or none.
LEMMA MetSteps ==
  ASSUME SeenIsCurrent, NEW p \in Clients,
         \/ MetReturn(p)
         \/ \E t \in TaskIds : MetRead(p, t) \/ MetLook(p, t)
  PROVE  SeenIsCurrent'
  <1>1. UNCHANGED <<task_map, completed>>
    BY DEF MetRead, MetLook, MetReturn, taskVars
  <1>2. at' \in [Clients -> {"idle", "add_own", "scan", "true", "false"}]
    BY DEF MetRead, MetLook, MetReturn, SeenIsCurrent
  <1>3. DOMAIN todo' = Clients /\ DOMAIN met' = Clients
    BY DEF MetRead, MetLook, MetReturn, SeenIsCurrent
  <1>4. ASSUME NEW u \in Clients
        PROVE  met'[u] \subseteq met[u] \cup (task_map \cap completed)
    BY DEF MetRead, MetLook, MetReturn, SeenIsCurrent
  <1> QED  BY <1>1, <1>2, <1>3, <1>4 DEF SeenIsCurrent

\* The steps that may change task_map or completed wait for task_mutex_, or only
\* add to them.
LEMMA OtherSteps ==
  ASSUME SeenIsCurrent, Others \/ \E t \in TaskIds : removeTask(t)
  PROVE  SeenIsCurrent'
  <1>1. ASSUME NEW t \in TaskIds, removeTask(t)
        PROVE  SeenIsCurrent'
    BY <1>1, Zenon DEF removeTask, taskVars, callVars, SeenIsCurrent
  <1>2. ASSUME NEW t \in TaskIds, Register(t) \/ Execute(t)
        PROVE  SeenIsCurrent'
    BY <1>2 DEF Register, Execute, callVars, SeenIsCurrent
  <1>3. ASSUME NEW S, Forget(S)
        PROVE  SeenIsCurrent'
    BY <1>3, Zenon DEF Forget, TaskMutexFree, callVars, SeenIsCurrent
  <1> QED  BY <1>1, <1>2, <1>3, ZenonT(30) DEF Others

\* The steps of the other operations change neither the map nor what was seen.
LEMMA GraphCalls ==
  ASSUME SeenIsCurrent, NEW p \in Clients,
         \/ AddOwn(p)
         \/ \E t, d \in TaskIds : \/ AddGraph(p, t, d)
                             \/ RemoveDependency(p, t, d)
                             \/ Depend(p, t, d)
  PROVE  SeenIsCurrent'
  <1>1. UNCHANGED <<task_map, completed, todo, met>>
    BY DEF AddGraph, AddOwn, RemoveDependency, Depend,
           taskVars, callVars
  <1>2. at' \in [Clients -> {"idle", "add_own", "scan", "true", "false"}]
    BY Zenon DEF AddGraph, AddOwn, RemoveDependency, Depend,
           callVars, SeenIsCurrent
  <1> QED  BY <1>1, <1>2 DEF SeenIsCurrent

\* areDependenciesMet never answers yes on the strength of a task that was
\* cancelled or cleared after it had looked at it, for any number of callers.
THEOREM AnswerAlwaysCurrent == GraphSpec => []AnswerIsCurrent
  <1>1. GraphInit => SeenIsCurrent
    BY DEF GraphInit, SeenIsCurrent
  <1>2. SeenIsCurrent /\ [GraphNext]_graphVars => SeenIsCurrent'
    <2> SUFFICES ASSUME SeenIsCurrent, [GraphNext]_graphVars PROVE SeenIsCurrent'
      OBVIOUS
    <2>1. CASE UNCHANGED graphVars
      BY <2>1 DEF graphVars, taskVars, callVars, SeenIsCurrent
    <2>2. ASSUME NEW p \in Clients, Caller(p)
          PROVE  SeenIsCurrent'
      BY <2>2, MetSteps, GraphCalls DEF Caller
    <2> QED  BY <2>1, <2>2, OtherSteps DEF GraphNext
  <1>3. SeenIsCurrent => AnswerIsCurrent
    BY DEF SeenIsCurrent, AnswerIsCurrent
  <1> QED  BY <1>1, <1>2, <1>3, PTL DEF GraphSpec

-------------------------------------------------------------------------------
(* The search for a cycle, for any graph.                                  *)

\* The search starts with its invariant: nothing is in progress or visited.
LEMMA SearchBegins == SearchInit => SearchInv
  BY DEF SearchInit, SearchInv, SearchTypeOK, State, StackIsPath, LookedAt, VisitedClosed, Looping

\* While a call is under way there is a top of the stack, and it is a call.
LEMMA StackType ==
  ASSUME SearchInv, Running
  PROVE  /\ Len(stack) \in Nat \ {0}
         /\ \A k \in 1..Len(stack) : stack[k] \in [node : Nodes, rest : SUBSET Nodes]
         /\ Top.node \in Nodes /\ Top.rest \in SUBSET Nodes
  <1> DEFINE C == [node : Nodes, rest : SUBSET Nodes]
  <1>1. stack \in Seq(C) /\ stack # <<>>
    BY DEF SearchInv, SearchTypeOK, Running
  <1> HIDE DEF C
  <1>2. Len(stack) \in Nat \ {0} /\ \A k \in 1..Len(stack) : stack[k] \in C
    BY <1>1
  <1>3. Top \in C
    BY <1>2 DEF Top
  <1> QED  BY <1>2, <1>3 DEF C

\* The calls under way form a loop once the innermost one meets a node in
\* progress, so hasCycle's answer true is right.
LEMMA FoundCycle ==
  ASSUME SearchInv, NEW m \in Nodes, Found(m)
  PROVE  Cyclic
  <1> DEFINE S == {stack[k].node : k \in 1..Len(stack)}
  <1>1. Len(stack) \in Nat \ {0} /\ S \in SUBSET Nodes
    BY StackType DEF Found
  <1>2. m \in S /\ m \in graph[stack[Len(stack)].node]
    BY DEF SearchInv, StackIsPath, LookedAt, Found, Running, Top, SearchTypeOK
  <1>3. ASSUME NEW s \in S PROVE graph[s] \cap S # {}
    <2>1. PICK k \in 1..Len(stack) : s = stack[k].node
      BY <1>3, ZenonT(30)
    <2>2. CASE k = Len(stack)
      BY <2>1, <2>2, <1>2
    <2>3. CASE k # Len(stack)
      <3>1. k \in 1..(Len(stack) - 1) /\ k + 1 \in 1..Len(stack)
        BY <2>3, <1>1
      <3>2. stack[k + 1].node \in graph[stack[k].node]
        BY <3>1 DEF SearchInv, StackIsPath, Found, Running
      <3>3. stack[k + 1].node \in S
        BY <3>1
      <3> QED  BY <2>1, <3>2, <3>3
    <2> QED  BY <2>2, <2>3
  <1> QED  BY <1>1, <1>2, <1>3, ZenonT(30) DEF Cyclic, Looping

\* When the loop over the tasks is done all nodes are visited, hence no loop.
LEMMA FinishAcyclic ==
  ASSUME SearchInv, Finish
  PROVE  ~Cyclic
  <1>1. \A n \in Nodes : states[n] = "VISITED"
    BY DEF SearchInv, SearchTypeOK, State, StackIsPath, Finish
  <1> QED  BY <1>1 DEF SearchInv, VisitedClosed, Cyclic, Looping

\* The innermost call ends: its node is visited, and leads to visited nodes only.
LEMMA LeaveClosed ==
  ASSUME SearchInv, Leave
  PROVE  VisitedClosed'
  <1> DEFINE t == Top.node
  <1>1. Running /\ t \in Nodes /\ Len(stack) \in Nat \ {0} /\ t = stack[Len(stack)].node
    BY StackType DEF Leave, Top
  <1>2. states[t] = "IN_PROGRESS"
    BY <1>1 DEF SearchInv, StackIsPath, Running
  <1>3. \A m \in graph[t] : states[m] = "VISITED"
    BY <1>1 DEF SearchInv, LookedAt, Running, Leave, Top
  <1>4. graph' = graph /\ states' = [states EXCEPT ![t] = "VISITED"]
    BY DEF Leave, Marked
  <1>5. /\ graph \in [Nodes -> SUBSET Nodes]
        /\ \A n \in Nodes : states'[n] = IF n = t THEN "VISITED" ELSE states[n]
    BY <1>4 DEF SearchInv, SearchTypeOK
  <1> HIDE DEF t
  <1>6. ASSUME NEW n \in Nodes, states'[n] = "VISITED", NEW m \in graph[n]
        PROVE  states'[m] = "VISITED"
    <2>1. m \in Nodes
      BY <1>5, <1>6
    <2> QED  BY <1>3, <1>5, <1>6, <2>1, Zenon DEF SearchInv, VisitedClosed
  <1>7. ASSUME NEW S \in SUBSET Nodes, \A s \in S : states'[s] = "VISITED",
               S # {}, \A s \in S : graph[s] \cap S # {}
        PROVE  FALSE
    <2> DEFINE R == S \ {t}
    <2>1. R \in SUBSET Nodes /\ \A s \in R : states[s] = "VISITED"
      BY <1>5, <1>7
    <2>2. \A s \in R : graph[s] \cap R # {}
      <3>1. ASSUME NEW s \in R PROVE graph[s] \cap R # {}
        <4>1. PICK m \in graph[s] : m \in S
          BY <1>7, <3>1, Zenon
        <4>2. states[m] = "VISITED"
          BY <2>1, <3>1 DEF SearchInv, VisitedClosed
        <4> QED  BY <4>1, <4>2, <1>2, Zenon
      <3> QED  BY <3>1
    <2>3. R # {}
      <3>1. CASE t \in S
        <4>1. PICK m \in graph[t] : m \in S
          BY <1>7, <3>1
        <4> QED  BY <4>1, <1>2, <1>3
      <3>2. CASE t \notin S
        BY <3>2, <1>7
      <3> QED  BY <3>1, <3>2
    <2> QED  BY <2>1, <2>2, <2>3, Zenon DEF SearchInv, VisitedClosed, Looping
  <1> QED  BY <1>4, <1>6, <1>7, Zenon DEF VisitedClosed, Looping

\* A step of the loop over neighbours touches the innermost call alone.
LEMMA AdvancedEffect ==
  ASSUME SearchInv, Running, NEW m
  PROVE  /\ Advanced(m) \in Seq([node : Nodes, rest : SUBSET Nodes])
         /\ Len(Advanced(m)) = Len(stack)
         /\ \A k \in 1..Len(stack) :
               /\ Advanced(m)[k].node = stack[k].node
               /\ Advanced(m)[k].rest = IF k = Len(stack) THEN stack[k].rest \ {m}
                                                          ELSE stack[k].rest
  <1> DEFINE C == [node : Nodes, rest : SUBSET Nodes]
             top == [stack[Len(stack)] EXCEPT !.rest = @ \ {m}]
  <1>1. Len(stack) \in Nat \ {0} /\ stack \in Seq(C)
        /\ \A k \in 1..Len(stack) : stack[k] \in C
    BY StackType DEF SearchInv, SearchTypeOK
  <1>2. Len(stack) \in 1..Len(stack) /\ stack[Len(stack)] \in C
    BY <1>1
  <1>3. top \in C /\ top.node = stack[Len(stack)].node
        /\ top.rest = stack[Len(stack)].rest \ {m}
    BY <1>2
  <1>4. Advanced(m) = [stack EXCEPT ![Len(stack)] = top]
    BY Zenon DEF Advanced
  <1> HIDE DEF C, top
  <1>5. Advanced(m) \in Seq(C) /\ Len(Advanced(m)) = Len(stack)
        /\ \A k \in 1..Len(stack) :
              Advanced(m)[k] = IF k = Len(stack) THEN top ELSE stack[k]
    BY <1>1, <1>2, <1>3, <1>4
  <1> QED  BY <1>3, <1>5, ZenonT(30) DEF C

\* A new innermost call.
LEMMA AppendEffect ==
  ASSUME NEW C, NEW s \in Seq(C), NEW c \in C
  PROVE  /\ Append(s, c) \in Seq(C)
         /\ Len(Append(s, c)) = Len(s) + 1
         /\ \A k \in 1..(Len(s) + 1) :
               Append(s, c)[k] = IF k = Len(s) + 1 THEN c ELSE s[k]
         /\ Append(s, c)[Len(s) + 1] = c
         /\ \A k \in 1..Len(s) : Append(s, c)[k] = s[k]
  OBVIOUS

\* The end of the innermost call.
LEMMA FrontEffect ==
  ASSUME NEW C, NEW s \in Seq(C), Len(s) \in Nat \ {0}
  PROVE  /\ SubSeq(s, 1, Len(s) - 1) \in Seq(C)
         /\ Len(SubSeq(s, 1, Len(s) - 1)) = Len(s) - 1
         /\ \A k \in 1..(Len(s) - 1) : SubSeq(s, 1, Len(s) - 1)[k] = s[k]
  <1>1. /\ SubSeq(s, 1, Len(s) - 1) \in Seq(C)
        /\ \A k \in 1..(Len(s) - 1) : SubSeq(s, 1, Len(s) - 1)[k] = s[k]
    OBVIOUS
  <1>2. ASSUME NEW n \in Nat, \A i \in 1..n : s[i] \in C
        PROVE  Len(SubSeq(s, 1, n)) = n
    BY <1>2
  <1>3. Len(SubSeq(s, 1, Len(s) - 1)) = Len(s) - 1
    <2>1. Len(s) - 1 \in Nat /\ \A i \in 1..(Len(s) - 1) : s[i] \in C
      OBVIOUS
    <2> QED  BY <1>2, <2>1, Zenon
  <1> QED  BY <1>1, <1>3

\* Every step of the search keeps its types.
LEMMA SearchType ==
  ASSUME SearchInv, [SearchNext]_searchVars
  PROVE  SearchTypeOK'
  <1> DEFINE C == [node : Nodes, rest : SUBSET Nodes]
  <1>0. graph \in [Nodes -> SUBSET Nodes] /\ states \in [Nodes -> State]
        /\ stack \in Seq(C) /\ result \in {"running", "cycle", "acyclic"}
    BY DEF SearchInv, SearchTypeOK
  <1>1. \A n \in Nodes : Frame(n) \in C
    BY <1>0 DEF Frame
  <1>2. ASSUME NEW n \in Nodes, Enter(n) PROVE SearchTypeOK'
    <2>1. stack' \in Seq(C)
      BY <1>1, <1>2 DEF Enter
    <2> QED  BY <1>0, <1>2, <2>1 DEF SearchTypeOK, Enter, Marked, State
  <1>3. ASSUME NEW n \in Nodes, Found(n) PROVE SearchTypeOK'
    <2>1. stack' \in Seq(C)
      BY <1>3 DEF Found
    <2> QED  BY <1>0, <1>3, <2>1 DEF SearchTypeOK, Found
  <1>4. ASSUME NEW n \in Nodes, Skip(n) PROVE SearchTypeOK'
    BY <1>0, <1>4, AdvancedEffect DEF SearchTypeOK, Skip
  <1>5. ASSUME NEW n \in Nodes, Descend(n) PROVE SearchTypeOK'
    <2>1. stack' \in Seq(C)
      BY <1>1, <1>5, AdvancedEffect, AppendEffect, ZenonT(30) DEF Descend
    <2> QED  BY <1>0, <1>5, <2>1, Zenon DEF SearchTypeOK, Descend, Marked, State
  <1>6. CASE Leave
    <2>1. stack' \in Seq(C) /\ Top.node \in Nodes
      BY <1>0, <1>6, StackType, FrontEffect, Zenon DEF Leave
    <2> QED  BY <1>0, <1>6, <2>1 DEF SearchTypeOK, Leave, Marked, State
  <1>7. CASE Finish
    BY <1>0, <1>7 DEF SearchTypeOK, Finish
  <1>8. CASE UNCHANGED searchVars
    BY <1>0, <1>8 DEF SearchTypeOK, searchVars
  <1> QED  BY <1>2, <1>3, <1>4, <1>5, <1>6, <1>7, <1>8 DEF SearchNext, Step, Returned

\* A call that begins puts its node in progress, behind the caller.
LEMMA DescendKeeps ==
  ASSUME SearchInv, NEW m \in Nodes, Descend(m)
  PROVE  StackIsPath' /\ LookedAt' /\ VisitedClosed'
  <1> DEFINE C == [node : Nodes, rest : SUBSET Nodes]
             L == Len(stack)
  <1>1. /\ graph \in [Nodes -> SUBSET Nodes] /\ Frame(m) \in C
        /\ L \in Nat \ {0} /\ Running
        /\ m \in stack[L].rest /\ states[m] = "UNVISITED" /\ graph' = graph
        /\ result = "running"
        /\ \A k \in 1..L : stack[k].node \in Nodes
    BY StackType, ZenonT(30) DEF SearchInv, SearchTypeOK, Descend, Frame, Top, Running
  <1>2. \A n \in Nodes : states'[n] = IF n = m THEN "IN_PROGRESS" ELSE states[n]
    BY DEF SearchInv, SearchTypeOK, Descend, Marked
  <1>3. /\ Len(stack') = L + 1
        /\ stack'[L + 1].node = m /\ stack'[L + 1].rest = graph[m]
        /\ \A k \in 1..L :
              /\ stack'[k].node = stack[k].node
              /\ stack'[k].rest = IF k = L THEN stack[k].rest \ {m} ELSE stack[k].rest
    <2>1. Advanced(m) \in Seq(C) /\ Len(Advanced(m)) = L
      BY <1>1, AdvancedEffect, ZenonT(30)
    <2>2. /\ Len(stack') = L + 1
          /\ stack'[L + 1] = Frame(m)
          /\ \A k \in 1..L : stack'[k] = Advanced(m)[k]
      <3>1. stack' = Append(Advanced(m), Frame(m)) /\ Frame(m) \in C
        BY <1>1, Zenon DEF Descend
      <3> HIDE DEF C, L
      <3> QED  BY <2>1, <3>1, AppendEffect
    <2>3. \A k \in 1..L :
             /\ Advanced(m)[k].node = stack[k].node
             /\ Advanced(m)[k].rest = IF k = L THEN stack[k].rest \ {m} ELSE stack[k].rest
      BY <1>1, AdvancedEffect, Zenon
    <2>4. Frame(m).node = m /\ Frame(m).rest = graph[m]
      BY Zenon DEF Frame
    <2> HIDE DEF L
    <2> QED  BY <2>2, <2>3, <2>4, Zenon
  <1>r. \A k : k \in 1..(L + 1) <=> k \in 1..L \/ k = L + 1
    BY <1>1
  <1>s. \A k \in 1..L :
           /\ stack[k].rest \subseteq graph[stack[k].node]
           /\ graph[stack[k].node] \subseteq Nodes
           /\ \A x \in graph[stack[k].node] \ stack[k].rest :
                 states[x] = "VISITED" \/ (k < L /\ x = stack[k + 1].node)
    <2>1. LookedAt /\ result = "running"
      BY <1>1, Zenon DEF SearchInv
    <2>2. \A k \in 1..L : graph[stack[k].node] \subseteq Nodes
      BY <1>1, ZenonT(30)
    <2> QED  BY <2>1, <2>2, Zenon DEF LookedAt
  <1>4. \A k \in 1..L : stack[k].node # m /\ states[stack[k].node] = "IN_PROGRESS"
    BY <1>1 DEF SearchInv, StackIsPath
  <1>5. StackIsPath'
    <2>1. \A n \in Nodes : states'[n] = "IN_PROGRESS" <=>
             \E k \in 1..(L + 1) : stack'[k].node = n
      <3>1. ASSUME NEW n \in Nodes, n # m
            PROVE  states'[n] = "IN_PROGRESS" <=> \E k \in 1..L : stack[k].node = n
        BY <1>1, <1>2, <3>1, ZenonT(30) DEF SearchInv, StackIsPath
      <3>2. states'[m] = "IN_PROGRESS" /\ L + 1 \in 1..(L + 1)
        BY <1>1, <1>2
      <3>3. \A n \in Nodes : n # m =>
               ((\E k \in 1..L : stack[k].node = n) <=>
                  \E k \in 1..(L + 1) : stack'[k].node = n)
        <4> HIDE DEF L
        <4> QED  BY <1>r, <1>3, Zenon
      <3> QED  BY <3>1, <3>2, <3>3, <1>3, Zenon
    <2>2. \A j, k \in 1..(L + 1) : stack'[j].node = stack'[k].node => j = k
      <3>1. \A j, k \in 1..L : stack[j].node = stack[k].node => j = k
        BY <1>1 DEF SearchInv, StackIsPath
      <3>2. SUFFICES ASSUME NEW j \in 1..(L + 1), NEW k \in 1..(L + 1),
                            stack'[j].node = stack'[k].node
                     PROVE  j = k
        OBVIOUS
      <3>3. CASE j \in 1..L /\ k \in 1..L
        BY <3>1, <3>2, <3>3, <1>3, Zenon
      <3>4. CASE j = L + 1 \/ k = L + 1
        BY <3>2, <3>4, <1>r, <1>3, <1>4, ZenonT(30)
      <3> QED  BY <3>3, <3>4, <1>r, ZenonT(30)
    <2>3. ASSUME NEW k \in 1..L PROVE stack'[k + 1].node \in graph[stack'[k].node]
      <3>1. CASE k = L
        <4>1. m \in graph[stack[L].node]
          BY <1>1 DEF SearchInv, LookedAt
        <4> QED  BY <4>1, <3>1, <1>1, <1>3, ZenonT(30)
      <3>2. CASE k # L
        <4>1. k \in 1..(L - 1) /\ k + 1 \in 1..L
          BY <3>2, <1>1
        <4> QED  BY <4>1, <1>1, <1>3, Zenon DEF SearchInv, StackIsPath
      <3> QED  BY <3>1, <3>2
    <2>4. Len(stack') = L + 1 /\ Len(stack') - 1 = L /\ graph' = graph
      BY <1>1, <1>3
    <2> HIDE DEF L
    <2>5. \A k \in 1..(Len(stack') - 1) : stack'[k + 1].node \in graph'[stack'[k].node]
      BY <2>3, <2>4, ZenonT(30)
    <2> QED  BY <2>1, <2>2, <2>4, <2>5, Zenon DEF StackIsPath
  <1>6. LookedAt'
    <2>1. ASSUME NEW k \in 1..(L + 1)
          PROVE  /\ stack'[k].rest \subseteq graph[stack'[k].node]
                 /\ \A x \in graph[stack'[k].node] \ stack'[k].rest :
                       \/ states'[x] = "VISITED"
                       \/ (k < L + 1 /\ x = stack'[k + 1].node)
      <3>1. CASE k = L + 1
        BY <3>1, <1>3, ZenonT(30)
      <3>2. CASE k \in 1..L
        <4>1. stack'[k].node = stack[k].node /\ stack'[k].rest \subseteq stack[k].rest
          BY <3>2, <1>3, ZenonT(30)
        <4>2. ASSUME NEW x \in graph[stack[k].node] \ stack'[k].rest
              PROVE  states'[x] = "VISITED" \/ (k < L + 1 /\ x = stack'[k + 1].node)
          <5>1. CASE x = m /\ k = L
            <6>1. L < L + 1
              BY <1>1
            <6> QED  BY <5>1, <6>1, <1>3, ZenonT(30)
          <5>2. CASE ~(x = m /\ k = L)
            <6>1. x \notin stack[k].rest
              BY <4>2, <5>2, <3>2, <1>3, Zenon
            <6>2. states[x] = "VISITED" \/ (k < L /\ x = stack[k + 1].node)
              BY <6>1, <4>2, <3>2, <1>s, Zenon
            <6>3. CASE states[x] = "VISITED"
              <7>1. x \in Nodes /\ x # m
                BY <4>2, <3>2, <1>s, <6>3, <1>1, Zenon
              <7>2. states'[x] = states[x]
                BY <7>1, <1>2
              <7> QED  BY <7>2, <6>3, Zenon
            <6>4. CASE k < L /\ x = stack[k + 1].node
              <7>1. k + 1 \in 1..L /\ k < L + 1
                BY <6>4, <3>2, <1>1
              <7> QED  BY <7>1, <6>4, <1>3, Zenon
            <6> QED  BY <6>2, <6>3, <6>4
          <5> QED  BY <5>1, <5>2
        <4> QED  BY <4>1, <4>2, <3>2, <1>s, Zenon
      <3> QED  BY <3>1, <3>2, <1>r, Zenon
    <2> HIDE DEF L
    <2> QED  BY <1>1, <1>3, <2>1 DEF LookedAt
  <1>7. VisitedClosed'
    <2>1. \A n \in Nodes : states'[n] = "VISITED" <=> states[n] = "VISITED"
      BY <1>1, <1>2, Zenon
    <2>2. \A n \in Nodes : graph[n] \subseteq Nodes
      BY <1>1, Zenon
    <2>3. \A S \in SUBSET Nodes : Looping(S)' <=> Looping(S)
      BY <1>1, ZenonT(30) DEF Looping
    <2> QED  BY <1>1, <2>1, <2>2, <2>3, ZenonT(30) DEF SearchInv, VisitedClosed, Looping
  <1> QED  BY <1>5, <1>6, <1>7

\* A step that visits no further node keeps the visited nodes closed.
LEMMA ClosedStill ==
  ASSUME SearchInv, graph' = graph,
         \A n \in Nodes : states'[n] = "VISITED" <=> states[n] = "VISITED"
  PROVE  VisitedClosed'
  <1>1. \A n \in Nodes : graph[n] \subseteq Nodes
    BY Zenon DEF SearchInv, SearchTypeOK
  <1>2. \A S \in SUBSET Nodes : Looping(S)' <=> Looping(S)
    BY Zenon DEF Looping
  <1> QED  BY <1>1, <1>2 DEF SearchInv, VisitedClosed, Looping

\* The outermost call of a search.
LEMMA EnterKeeps ==
  ASSUME SearchInv, NEW m \in Nodes, Enter(m)
  PROVE  StackIsPath' /\ LookedAt' /\ VisitedClosed'
  <1>1. /\ stack' = <<Frame(m)>> /\ graph' = graph /\ result = "running"
        /\ states[m] = "UNVISITED" /\ graph \in [Nodes -> SUBSET Nodes]
    BY Zenon DEF SearchInv, SearchTypeOK, Enter
  <1>2. \A n \in Nodes : states'[n] = IF n = m THEN "IN_PROGRESS" ELSE states[n]
    BY Zenon DEF SearchInv, SearchTypeOK, Enter, Marked
  <1>3. Len(stack') = 1 /\ stack'[1].node = m /\ stack'[1].rest = graph[m]
    BY <1>1, Zenon DEF Frame
  <1>4. \A n \in Nodes : states[n] # "IN_PROGRESS"
    BY <1>1 DEF SearchInv, StackIsPath, Enter
  <1>5. StackIsPath'
    BY <1>1, <1>2, <1>3, <1>4 DEF StackIsPath
  <1>6. LookedAt'
    BY <1>1, <1>3 DEF LookedAt
  <1> QED  BY <1>1, <1>2, <1>5, <1>6, ClosedStill, Zenon

\* A neighbour that was visited before is passed over.
LEMMA SkipKeeps ==
  ASSUME SearchInv, NEW m \in Nodes, Skip(m)
  PROVE  StackIsPath' /\ LookedAt' /\ VisitedClosed'
  <1>1. /\ graph' = graph /\ states' = states /\ result' = result
        /\ result = "running" /\ states[m] = "VISITED" /\ Running
        /\ Len(stack) \in Nat \ {0}
    BY StackType DEF Skip, Running
  <1>2. /\ Len(stack') = Len(stack)
        /\ \A k \in 1..Len(stack) :
              /\ stack'[k].node = stack[k].node
              /\ stack'[k].rest = IF k = Len(stack) THEN stack[k].rest \ {m}
                                                    ELSE stack[k].rest
    BY <1>1, AdvancedEffect, Zenon DEF Skip
  <1>3. \A k \in 1..(Len(stack) - 1) : k \in 1..Len(stack) /\ k + 1 \in 1..Len(stack)
    BY <1>1
  <1>4. StackIsPath'
    <2>1. /\ \A n \in Nodes : states[n] = "IN_PROGRESS" <=>
                \E k \in 1..Len(stack) : stack[k].node = n
          /\ \A j, k \in 1..Len(stack) : stack[j].node = stack[k].node => j = k
          /\ \A k \in 1..(Len(stack) - 1) : stack[k + 1].node \in graph[stack[k].node]
      BY <1>1 DEF SearchInv, StackIsPath
    <2>2. \A n \in Nodes : (\E k \in 1..Len(stack) : stack[k].node = n) <=>
                             \E k \in 1..Len(stack) : stack'[k].node = n
      BY <1>2, Zenon
    <2>3. \A j, k \in 1..Len(stack) : stack'[j].node = stack'[k].node => j = k
      BY <2>1, <1>2, Zenon
    <2>4. \A k \in 1..(Len(stack) - 1) : stack'[k + 1].node \in graph[stack'[k].node]
      BY <2>1, <1>2, <1>3, Zenon
    <2>5. Len(stack') = Len(stack) /\ Len(stack') - 1 = Len(stack) - 1
      BY <1>2
    <2>6. \A n \in Nodes : states'[n] = "IN_PROGRESS" <=>
             \E k \in 1..Len(stack') : stack'[k].node = n
      BY <2>1, <2>2, <2>5, <1>1, ZenonT(30)
    <2>7. \A j, k \in 1..Len(stack') : stack'[j].node = stack'[k].node => j = k
      BY <2>3, <2>5, Zenon
    <2>8. \A k \in 1..(Len(stack') - 1) : stack'[k + 1].node \in graph'[stack'[k].node]
      BY <2>4, <2>5, <1>1, Zenon
    <2> QED  BY <2>6, <2>7, <2>8, ZenonT(30) DEF StackIsPath
  <1>5. LookedAt'
    <2>1. ASSUME NEW k \in 1..Len(stack)
          PROVE  /\ stack'[k].rest \subseteq graph[stack'[k].node]
                 /\ \A x \in graph[stack'[k].node] \ stack'[k].rest :
                       \/ states[x] = "VISITED"
                       \/ (k < Len(stack) /\ x = stack'[k + 1].node)
      <3>1. k < Len(stack) => k + 1 \in 1..Len(stack)
        BY <1>1
      <3> QED  BY <3>1, <1>1, <1>2, Zenon DEF SearchInv, LookedAt
    <2> QED  BY <1>1, <1>2, <2>1, Zenon DEF LookedAt
  <1> QED  BY <1>1, <1>4, <1>5, ClosedStill, Zenon

\* A call that returns leaves its node visited and its caller innermost.
LEMMA LeaveKeeps ==
  ASSUME SearchInv, Leave
  PROVE  StackIsPath' /\ LookedAt' /\ VisitedClosed'
  <1> DEFINE L == Len(stack)
             t == stack[L].node
  <1>1. /\ graph' = graph /\ result' = result /\ result = "running" /\ Running
        /\ L \in Nat \ {0} /\ t \in Nodes /\ graph \in [Nodes -> SUBSET Nodes]
        /\ \A k \in 1..L : stack[k].node \in Nodes
    BY StackType DEF Leave, Running, SearchInv, SearchTypeOK
  <1>2. \A n \in Nodes : states'[n] = IF n = t THEN "VISITED" ELSE states[n]
    BY <1>1, Zenon DEF Leave, Marked, Top, SearchInv, SearchTypeOK
  <1>3. Len(stack') = L - 1 /\ \A k \in 1..(L - 1) : stack'[k] = stack[k]
    BY <1>1, FrontEffect, Zenon DEF Leave, SearchInv, SearchTypeOK
  <1>4. /\ \A n \in Nodes : states[n] = "IN_PROGRESS" <=> \E k \in 1..L : stack[k].node = n
        /\ \A j, k \in 1..L : stack[j].node = stack[k].node => j = k
        /\ \A k \in 1..(L - 1) : stack[k + 1].node \in graph[stack[k].node]
    BY <1>1, Zenon DEF SearchInv, StackIsPath
  <1>5. \A k \in 1..L :
           /\ stack[k].rest \subseteq graph[stack[k].node]
           /\ \A x \in graph[stack[k].node] \ stack[k].rest :
                 states[x] = "VISITED" \/ (k < L /\ x = stack[k + 1].node)
    BY <1>1 DEF SearchInv, LookedAt
  <1>6. \A k : k \in 1..L <=> k \in 1..(L - 1) \/ k = L
    BY <1>1
  <1>7. \A k \in 1..(L - 1) : k # L /\ k + 1 \in 1..L /\ k < L
                               /\ (k < L - 1 => k + 1 \in 1..(L - 1))
                               /\ (~(k < L - 1) => k + 1 = L)
    BY <1>1
  <1>8. StackIsPath'
    <2>1. \A n \in Nodes : states'[n] = "IN_PROGRESS" <=>
             \E k \in 1..(L - 1) : stack[k].node = n
      <3>1. \A k \in 1..(L - 1) : stack[k].node # t
        BY <1>4, <1>6, <1>7, Zenon
      <3> HIDE DEF L, t
      <3>2. states'[t] = "VISITED" /\ stack[L].node = t
        BY <1>1, <1>2, Zenon DEF t
      <3>3. ASSUME NEW n \in Nodes, n # t
            PROVE  states'[n] = "IN_PROGRESS" <=> \E k \in 1..(L - 1) : stack[k].node = n
        BY <3>2, <3>3, <1>2, <1>4, <1>6
      <3> QED  BY <3>1, <3>2, <3>3, Zenon
    <2>2. \A k \in 1..(L - 1 - 1) : k \in 1..(L - 1) /\ k + 1 \in 1..(L - 1)
      BY <1>1
    <2>3. \A n \in Nodes : (\E k \in 1..(L - 1) : stack[k].node = n) <=>
                             \E k \in 1..(L - 1) : stack'[k].node = n
      BY <1>3, Zenon
    <2>4. \A j, k \in 1..(L - 1) : stack'[j].node = stack'[k].node => j = k
      BY <1>3, <1>4, <1>6, Zenon
    <2>5. \A k \in 1..(L - 1 - 1) : stack'[k + 1].node \in graph[stack'[k].node]
      BY <1>3, <1>4, <2>2, Zenon
    <2> HIDE DEF L, t
    <2> QED  BY <1>1, <1>3, <2>1, <2>3, <2>4, <2>5, Zenon DEF StackIsPath
  <1>9. LookedAt'
    <2>1. ASSUME NEW k \in 1..(L - 1)
          PROVE  /\ stack[k].rest \subseteq graph[stack[k].node]
                 /\ \A x \in graph[stack[k].node] \ stack[k].rest :
                       \/ states'[x] = "VISITED"
                       \/ (k < L - 1 /\ x = stack'[k + 1].node)
      <3>1. k \in 1..L
        BY <1>6, Zenon
      <3>2. ASSUME NEW x \in graph[stack[k].node] \ stack[k].rest
            PROVE  states'[x] = "VISITED" \/ (k < L - 1 /\ x = stack'[k + 1].node)
        <4>1. x \in Nodes
          BY <3>1, <1>1
        <4>2. CASE states[x] = "VISITED"
          BY <4>1, <4>2, <1>2, Zenon
        <4>3. CASE k < L /\ x = stack[k + 1].node
          <5>1. CASE k < L - 1
            BY <5>1, <4>3, <1>3, <1>7, Zenon
          <5>2. CASE ~(k < L - 1)
            BY <5>2, <4>1, <4>3, <1>2, <1>7, Zenon
          <5> QED  BY <5>1, <5>2, Zenon
        <4> QED  BY <4>2, <4>3, <3>1, <1>5
      <3> QED  BY <3>1, <3>2, <1>5
    <2> HIDE DEF L, t
    <2> QED  BY <1>1, <1>3, <2>1 DEF LookedAt
  <1> QED  BY <1>8, <1>9, LeaveClosed, Zenon

\* Every step of the search keeps its invariant and its answers.
LEMMA SearchStep ==
  ASSUME SearchInv, AnswersRight, [SearchNext]_searchVars
  PROVE  SearchInv' /\ AnswersRight'
  <1>1. SearchTypeOK'
    BY SearchType
  <1>2. graph' = graph
    BY Zenon DEF SearchNext, Step, Returned, Enter, Found, Skip, Descend, Leave, Finish, searchVars
  <1>3. Cyclic' <=> Cyclic
    BY <1>2 DEF Cyclic, Looping
  <1>4. ASSUME NEW m \in Nodes, Enter(m) \/ Skip(m) \/ Descend(m)
        PROVE  SearchInv' /\ AnswersRight'
    <2>1. result' = "running"
      BY <1>4 DEF Enter, Skip, Descend, Running
    <2>2. StackIsPath' /\ LookedAt' /\ VisitedClosed'
      BY <1>4, EnterKeeps, SkipKeeps, DescendKeeps
    <2> QED  BY <1>1, <2>1, <2>2, ZenonT(30) DEF SearchInv, AnswersRight
  <1>5. CASE Leave
    <2>1. result' = "running"
      BY <1>5 DEF Leave, Running
    <2> QED  BY <1>1, <1>5, <2>1, LeaveKeeps, Zenon DEF SearchInv, AnswersRight
  <1>6. ASSUME NEW m \in Nodes, Found(m) PROVE SearchInv' /\ AnswersRight'
    <2>1. result' = "cycle" /\ states' = states
      BY <1>6 DEF Found
    <2>2. VisitedClosed'
      BY <1>2, <2>1, ClosedStill
    <2> QED  BY <1>1, <1>3, <1>6, <2>1, <2>2, FoundCycle, ZenonT(30)
             DEF SearchInv, AnswersRight, StackIsPath, LookedAt
  <1>7. CASE Finish
    <2>1. result' = "acyclic" /\ states' = states
      BY <1>7 DEF Finish
    <2>2. VisitedClosed'
      BY <1>2, <2>1, ClosedStill
    <2> QED  BY <1>1, <1>3, <1>7, <2>1, <2>2, FinishAcyclic, Zenon
             DEF SearchInv, AnswersRight, StackIsPath, LookedAt
  <1>8. CASE UNCHANGED searchVars
    <2>1. SearchInv'
      BY <1>8, ZenonT(30) DEF searchVars, SearchInv, SearchTypeOK, StackIsPath, LookedAt, VisitedClosed, Looping
    <2> QED  BY <2>1, <1>3, <1>8 DEF searchVars, AnswersRight
  <1> QED  BY <1>4, <1>5, <1>6, <1>7, <1>8 DEF SearchNext, Step, Returned

\* hasCycle is right: it answers true on a graph with a cycle only, and false on
\* one without a cycle only.
THEOREM HasCycleCorrect == SearchSpec => []AnswersRight
  <1>1. SearchInit => AnswersRight
    BY DEF SearchInit, AnswersRight
  <1>2. SearchInv /\ AnswersRight /\ [SearchNext]_searchVars => (SearchInv /\ AnswersRight)'
    BY SearchStep
  <1> QED  BY <1>1, <1>2, SearchBegins, PTL DEF SearchSpec

===============================================================================
