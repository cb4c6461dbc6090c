---------------------------- MODULE CommandsCurrent ---------------------------
(***************************************************************************)
(* Every step keeps the database current: what it holds for a task, or a   *)
(* call is about to write there, is what the task is.                      *)
(***************************************************************************)
EXTENDS CommandsSteps

\* The time that a step may take.
USE SMTT(20), ZenonT(30), SMTT(25)

\* One member of the storage pool serves, and nothing has been restarted.
Single == Members = {1} /\ crashes = 0
\* No write of the task has failed, nothing that is not stored has met it, and no other
\* task has its id.
Plain(o) == o \notin unstored \cup upset /\ SameId(o) = {}
\* A call works on the task, at this place.
At(o, l) == \E t \in Threads : call[t].task = o /\ call[t].at = l
\* The status of a record is that of the task; RUNNING is not written.
Agrees(r, o) == r.status = obj[o].status \/ obj[o].status = "RUNNING"
\* A run that is about to write the outcome.
Finishing(c) == c.cmd = "run" /\ c.at \in {"update", "put_status"}

\* What a call is about to write is what the task is, unless another call is on
\* its way to write what it has changed since.
Carries(t) ==
    LET o == call[t].task
        r == call[t].rec IN
    /\ call[t].at = "put" => /\ r.body = obj[o].body \/ At(o, "save")
                             /\ Agrees(r, o) \/ At(o, "update")
    /\ Finishing(call[t]) => r.status = obj[o].status
    /\ call[t].at = "put_status" => r.body = db[obj[o].id].body

\* So is what the database holds.
Reflected(o) ==
    /\ db[obj[o].id].body = obj[o].body \/ At(o, "save") \/ At(o, "put")
    /\ Agrees(db[obj[o].id], o) \/ At(o, "update") \/ At(o, "put_status")

\* The invariant of the database.
Current ==
    Single =>
        /\ \A t \in Threads : /\ call[t].cmd \in {"cancel", "kill"}
                              /\ call[t].at \in {"update", "put_status"}
                              => call[t].task \in upset
        /\ executing \subseteq upset
        /\ \A t \in Threads : Plain(call[t].task) => Carries(t)
        /\ \A o \in Secured : Plain(o) => Reflected(o)

\* The storage pool keeps its members.
LEMMA MembersStay ==
    ASSUME [Next]_vars, Sound PROVE Members' = Members
<1>1. ASSUME storage' = storage PROVE Members' = Members
  BY <1>1 DEF Members
<1>2. ASSUME NEW m, NEW v, storage' = [storage EXCEPT ![m] = v] PROVE Members' = Members
  BY <1>2 DEF Members
<1>3. ASSUME NEW t \in Threads, Write(t) PROVE Members' = Members
  BY <1>2, <1>3, Zenon DEF Write, Put, UpdatePut, Answer, SaveRead, UpdateRead
<1>4. ASSUME NEW t \in Threads,
             \/ Insert(t) \/ ImportRegister(t) \/ Start(t) \/ Executed(t)
             \/ Cancelled(t) \/ Killed(t) \/ fromJson(t) \/ list(t) \/ clear(t)
      PROVE  Members' = Members
  <2>1. storage' = storage
    BY <1>4, Zenon DEF Insert, ImportRegister, Start, Executed, Cancelled, Killed, fromJson, list,
                clear, locks
  <2> QED  BY <1>1, <2>1
<1>5. ASSUME NEW t \in Threads, NEW o \in Tasks,
             \/ enqueue(t, o) \/ dequeue(t, o)
             \/ \E i \in Ids, s \in ImportStatuses : importTask(t, o, i, s)
      PROVE  Members' = Members
  <2>1. storage' = storage
    BY <1>5 DEF enqueue, dequeue, importTask, locks
  <2> QED  BY <1>1, <2>1
<1>6. ASSUME NEW t \in Threads, NEW i \in Ids, NEW o \in Tasks,
             \/ run(t, i, o) \/ cancel(t, i, o) \/ kill(t, i, o) \/ edit(t, i, o)
             \/ setSchedule(t, i, o)
      PROVE  Members' = Members
  <2>1. storage' = storage
    BY <1>6 DEF run, cancel, kill, edit, setSchedule, locks
  <2> QED  BY <1>1, <2>1
<1>7. ASSUME UNCHANGED vars \/ \E o \in Tasks : WorkerTake(o) \/ WorkerDone(o)
      PROVE  Members' = Members
  <2>1. storage' = storage
    BY <1>7 DEF vars, WorkerTake, WorkerDone, locks
  <2> QED  BY <1>1, <2>1
<1>8. ASSUME restart PROVE Members' = Members
  BY <1>8 DEF restart, Members
<1>9. ASSUME NEW t \in Threads,
             \/ Insert(t) \/ ImportRegister(t) \/ Write(t) \/ Start(t) \/ Executed(t)
             \/ Cancelled(t) \/ Killed(t) \/ fromJson(t) \/ list(t) \/ clear(t)
      PROVE  Members' = Members
  BY <1>3, <1>4, <1>9, Zenon
<1> QED  BY <1>5, <1>6, <1>7, <1>8, <1>9, Zenon DEF Next

\* The number of restarts does not go back.
LEMMA CrashesCount ==
    ASSUME crashes \in Nat, [Next]_vars PROVE crashes' = 0 => crashes = 0
<1>1. ASSUME NEW t \in Threads,
             \/ Insert(t) \/ ImportRegister(t) \/ Write(t) \/ Start(t) \/ Executed(t)
             \/ Cancelled(t) \/ Killed(t) \/ fromJson(t) \/ list(t) \/ clear(t)
      PROVE  crashes' = crashes
  BY <1>1, Zenon DEF Insert, ImportRegister, Write, Put, UpdatePut, SaveRead, UpdateRead,
              Start, Executed, Cancelled, Killed, fromJson, list, clear, Once, bounds
<1>2. ASSUME NEW t \in Threads, NEW o \in Tasks,
             \/ enqueue(t, o) \/ dequeue(t, o)
             \/ \E i \in Ids, s \in ImportStatuses : importTask(t, o, i, s)
             \/ \E i \in Ids : \/ run(t, i, o) \/ cancel(t, i, o)
                               \/ kill(t, i, o) \/ edit(t, i, o)
                               \/ setSchedule(t, i, o)
      PROVE  crashes' = crashes
  BY <1>2, Zenon DEF enqueue, generateId, dequeue, importTask, Once, run, cancel, kill, edit,
              setSchedule, Begin
<1>3. ASSUME UNCHANGED vars \/ \E o \in Tasks : WorkerTake(o) \/ WorkerDone(o)
      PROVE  crashes' = crashes
  BY <1>3, Zenon DEF vars, bounds, WorkerTake, WorkerDone
<1>4. ASSUME restart PROVE crashes' = crashes + 1
  BY <1>4 DEF restart
<1>5. crashes' = crashes \/ crashes' = crashes + 1
  BY <1>1, <1>2, <1>3, <1>4, Zenon DEF Next
<1> QED  BY <1>5

\* What holds of a task after a step held before it.
LEMMA Before ==
    ASSUME CommandConstants, Sound, Grown, [Next]_vars
    PROVE  /\ Single' => Single
           /\ \A o \in Created : Plain(o)' => Plain(o)
<1>1. Members' = Members
  BY MembersStay
<1>2. crashes' = 0 => crashes = 0
  BY CrashesCount DEF Sound, Shaped, Typed
<1>3. ASSUME NEW o \in Created, Plain(o)' PROVE Plain(o)
  <2>1. o \notin unstored \cup upset
    BY <1>3, HistoryGrows DEF Plain
  <2>2. ASSUME NEW p \in SameId(o) PROVE FALSE
    <3>1. p \in Created /\ p # o /\ obj[p].id = obj[o].id
      BY DEF SameId, Created
    <3>2. p \in Created' /\ p # o /\ obj'[p].id = obj'[o].id
      BY <3>1 DEF Grown
    <3>3. p \in SameId(o)'
      BY <3>2, Zenon DEF SameId, Created
    <3> QED  BY <1>3, <3>3 DEF Plain
  <2> QED  BY <2>1, <2>2 DEF Plain
<1> QED  BY <1>1, <1>2, <1>3, Zenon DEF Single

\* A step that leaves the database and the calls that write alone.
Stores == {"save", "put", "update", "put_status"}
Calm(u) ==
    \/ call'[u] = call[u]
    \/ /\ call[u].at \notin Stores /\ call'[u].at \notin {"put", "put_status"}
       /\ call'[u].at = "update" =>
             \/ call'[u].cmd \in {"cancel", "kill"} /\ call'[u].task \in upset'
             \/ call'[u].cmd = "run" /\ call'[u].rec.status = obj'[call'[u].task].status
\* What it changes of a task, a call is on its way to store.
Steady(p) ==
    /\ obj'[p].body = obj[p].body \/ At(p, "save")'
    /\ \/ obj'[p].status = obj[p].status
       \/ /\ obj'[p].status = "RUNNING" \/ At(p, "update")'
          /\ \A u \in Threads : ~Finishing(call[u])

\* A step that leaves the database alone and starts no write keeps it current.
LEMMA CalmStep ==
    ASSUME CommandConstants, Sound, Current, Grown, [Next]_vars, db' = db,
           \A u \in Threads : Calm(u), executing' \subseteq upset',
           \A p \in Created : Plain(p)' => Steady(p)
    PROVE  Current'
<1>0. Typed /\ Shaped /\ upset \subseteq upset'
  BY HistoryGrows DEF Sound, Shaped
<1> SUFFICES ASSUME Single' PROVE
        /\ \A t \in Threads : /\ call'[t].cmd \in {"cancel", "kill"}
                              /\ call'[t].at \in {"update", "put_status"}
                              => call'[t].task \in upset'
        /\ executing' \subseteq upset'
        /\ \A t \in Threads : Plain(call[t].task)' => Carries(t)'
        /\ \A o \in Secured' : Plain(o)' => Reflected(o)'
  BY Zenon DEF Current
<1>1. Single /\ \A o \in Created : Plain(o)' => Plain(o)
  BY Before
<1>2. /\ \A t \in Threads : /\ call[t].cmd \in {"cancel", "kill"}
                            /\ call[t].at \in {"update", "put_status"}
                            => call[t].task \in upset
      /\ \A t \in Threads : Plain(call[t].task) => Carries(t)
      /\ \A o \in Secured : Plain(o) => Reflected(o)
  BY <1>1 DEF Current
<1>3. ASSUME NEW t \in Threads, call'[t].cmd \in {"cancel", "kill"},
             call'[t].at \in {"update", "put_status"}
      PROVE  call'[t].task \in upset'
  BY <1>0, <1>2, <1>3 DEF Calm
<1>4. ASSUME NEW p, NEW l \in Stores, At(p, l) PROVE At(p, l)'
  <2>1. PICK u \in Threads : call[u].task = p /\ call[u].at = l
    BY <1>4 DEF At
  <2>2. call'[u] = call[u]
    BY <2>1 DEF Calm
  <2> QED  BY <2>1, <2>2 DEF At
<1>5. ASSUME NEW p \in Created, Plain(p)', NEW r, NEW l \in Stores,
             r.body = obj[p].body \/ At(p, "save") \/ At(p, l)
      PROVE  r.body = obj'[p].body \/ At(p, "save")' \/ At(p, l)'
  <2>1. "save" \in Stores
    BY DEF Stores
  <2>2. At(p, "save") => At(p, "save")'
    BY <1>4, <2>1
  <2>3. At(p, l) => At(p, l)'
    BY <1>4
  <2>4. obj'[p].body = obj[p].body \/ At(p, "save")'
    BY <1>5 DEF Steady
  <2> QED  BY <1>5, <2>2, <2>3, <2>4, Zenon
<1>6. ASSUME NEW p \in Created, Plain(p)', NEW r, NEW l \in Stores,
             Agrees(r, p) \/ At(p, "update") \/ At(p, l)
      PROVE  \/ r.status = obj'[p].status \/ obj'[p].status = "RUNNING"
             \/ At(p, "update")' \/ At(p, l)'
  <2>1. "update" \in Stores
    BY DEF Stores
  <2>2. At(p, "update") => At(p, "update")'
    BY <1>4, <2>1
  <2>3. At(p, l) => At(p, l)'
    BY <1>4
  <2>4. \/ obj'[p].status = obj[p].status
        \/ obj'[p].status = "RUNNING" \/ At(p, "update")'
    BY <1>6 DEF Steady
  <2> QED  BY <1>6, <2>2, <2>3, <2>4, Zenon DEF Agrees
<1>7. ASSUME NEW t \in Threads, Plain(call[t].task)' PROVE Carries(t)'
  <2>1. CASE call'[t] = call[t] /\ call[t].at \in Stores
    <3>1. PICK p \in Created : p = call[t].task
      BY <1>0, <2>1, StageOf DEF Stores
    <3>2. Plain(p)'
      BY <1>7, <2>1, <3>1
    <3>3. Plain(p) /\ Carries(t) /\ obj'[p].id = obj[p].id
      BY <1>1, <1>2, <3>1, <3>2 DEF Grown
    <3>4. PICK r : r = call[t].rec
      BY Zenon
    <3>5. "save" \in Stores /\ "update" \in Stores
      BY DEF Stores
    <3>6. call[t].at = "put" => /\ r.body = obj'[p].body \/ At(p, "save")'
                                /\ \/ r.status = obj'[p].status \/ obj'[p].status = "RUNNING"
                                   \/ At(p, "update")'
      BY <1>5, <1>6, <3>1, <3>2, <3>3, <3>4, <3>5, Zenon DEF Carries
    <3>7. Finishing(call[t]) => r.status = obj'[p].status
      <4>1. ASSUME Finishing(call[t]) PROVE obj'[p].status = obj[p].status
        BY <3>2, <4>1, Zenon DEF Steady
      <4> QED  BY <3>1, <3>3, <3>4, <4>1 DEF Carries
    <3>8. call[t].at = "put_status" => r.body = db'[obj'[p].id].body
      BY <3>1, <3>3, <3>4 DEF Carries
    <3> QED  BY <2>1, <3>1, <3>4, <3>6, <3>7, <3>8, Zenon DEF Carries, Agrees, Finishing
  <2>2. CASE call'[t] = call[t] /\ call[t].at \notin Stores
    BY <2>2 DEF Carries, Finishing, Stores
  <2>3. CASE call'[t] # call[t]
    <3>1. /\ call'[t].at \notin {"put", "put_status"}
          /\ call'[t].at = "update" =>
                \/ call'[t].cmd \in {"cancel", "kill"}
                \/ call'[t].cmd = "run" /\ call'[t].rec.status = obj'[call'[t].task].status
      BY <2>3, Zenon DEF Calm
    <3> QED  BY <3>1 DEF Carries, Finishing
  <2> QED  BY <2>1, <2>2, <2>3
<1>8. ASSUME NEW o \in Secured', Plain(o)' PROVE Reflected(o)'
  <2>1. o \in Created /\ o \in Secured
    <3>1. o \in Created /\ (o \in Secured \/ \E t \in Threads : call[t].task = o /\ Put(t))
      BY SecuredGrows
    <3>2. ASSUME NEW t \in Threads, Put(t) PROVE FALSE
      <4>1. call[t].at = "put" /\ Answer(t)
        BY <3>2 DEF Put
      <4>2. Ends(t) \/ Goes(t, "register")
        BY <1>0, <4>1, LaterSteps, Zenon
      <4>3. call'[t].at \in {"idle", "register"}
        BY <4>2 DEF Ends, Goes, Sets
      <4> QED  BY <4>1, <4>3 DEF Calm, Stores
    <3> QED  BY <3>1, <3>2
  <2>2. Reflected(o) /\ obj'[o].id = obj[o].id
    BY <1>1, <1>2, <1>8, <2>1 DEF Grown
  <2>3. PICK r : r = db[obj[o].id]
    BY Zenon
  <2>4. r = db'[obj'[o].id]
    BY <2>2, <2>3
  <2>5. "put" \in Stores /\ "put_status" \in Stores
    BY DEF Stores
  <2>6. r.body = obj'[o].body \/ At(o, "save")' \/ At(o, "put")'
    BY <1>5, <1>8, <2>1, <2>2, <2>3, <2>5 DEF Reflected
  <2>7. \/ r.status = obj'[o].status \/ obj'[o].status = "RUNNING"
        \/ At(o, "update")' \/ At(o, "put_status")'
    BY <1>6, <1>8, <2>1, <2>2, <2>3, <2>5, Zenon DEF Reflected
  <2> QED  BY <2>4, <2>6, <2>7 DEF Reflected, Agrees
<1> QED  BY <1>3, <1>7, <1>8

\* With one member in the pool, one call at a time is between its read and its
\* write.
LEMMA SoleWriter ==
    ASSUME CommandConstants, Sound, Members = {1}
    PROVE  /\ \A t, u \in Threads : Writing(call[t]) /\ Writing(call[u]) => t = u
           /\ storage[1] = None => \A t \in Threads : ~Writing(call[t])
<1>1. \A t \in Threads : Writing(call[t]) => storage[1] = t
  BY DEF Sound, Mutexes, Holding
<1> QED  BY <1>1 DEF CommandConstants

\* Reading a record keeps what is stored and what is to be stored.
LEMMA ReadStep ==
    ASSUME CommandConstants, Sound, Current, Grown, [Next]_vars, NEW t \in Threads,
           NEW m \in Members, SaveRead(t, m) \/ UpdateRead(t, m)
    PROVE  Current'
<1>0. Typed /\ Shaped
  BY DEF Sound, Shaped
<1> SUFFICES ASSUME Single' PROVE
        /\ \A u \in Threads : /\ call'[u].cmd \in {"cancel", "kill"}
                              /\ call'[u].at \in {"update", "put_status"}
                              => call'[u].task \in upset'
        /\ executing' \subseteq upset'
        /\ \A u \in Threads : Plain(call[u].task)' => Carries(u)'
        /\ \A o \in Secured' : Plain(o)' => Reflected(o)'
  BY Zenon DEF Current
<1>1. Single /\ \A o \in Created : Plain(o)' => Plain(o)
  BY Before
<1>2. /\ \A u \in Threads : /\ call[u].cmd \in {"cancel", "kill"}
                            /\ call[u].at \in {"update", "put_status"}
                            => call[u].task \in upset
      /\ executing \subseteq upset
      /\ \A u \in Threads : Plain(call[u].task) => Carries(u)
      /\ \A o \in Secured : Plain(o) => Reflected(o)
  BY <1>1 DEF Current
<1>3. obj' = obj /\ db' = db /\ executing' = executing /\ upset' = upset
  BY Zenon DEF SaveRead, UpdateRead, memory, history
<1>4. storage[m] = None /\ m = 1 /\ (SaveRead(t, m) => call[t].at = "save")
      /\ (UpdateRead(t, m) => call[t].at = "update")
  BY <1>1, Zenon DEF SaveRead, UpdateRead, getStorageFromPool, Single
<1>5. \A u \in Threads : ~Writing(call[u])
  BY <1>1, <1>4, SoleWriter DEF Single
<1>6. PICK o \in Created : o = call[t].task
  BY <1>0, <1>4, StageOf
<1>7. PICK l, r : /\ Sets(t, l, call[t].cmd, o, m, r)
                  /\ \/ SaveRead(t, m) /\ l = "put" /\ r = Json(o)
                     \/ UpdateRead(t, m) /\ l = "put_status" /\ r = Updated(t)
  <2>1. \/ SaveRead(t, m) /\ Reads(t, "put", m, Json(call[t].task))
        \/ UpdateRead(t, m) /\ Reads(t, "put_status", m, Updated(t))
    BY <1>0, ReadSteps, Zenon
  <2> QED  BY <1>6, <2>1, Zenon DEF Reads
<1>8. /\ call'[t].at = l /\ call'[t].cmd = call[t].cmd /\ call'[t].task = o
      /\ call'[t].rec = r /\ \A u \in Threads \ {t} : call'[u] = call[u]
  BY <1>7 DEF Sets
<1>9. ASSUME NEW u \in Threads, call'[u].cmd \in {"cancel", "kill"},
             call'[u].at \in {"update", "put_status"}
      PROVE  call'[u].task \in upset'
  <2>1. CASE u = t
    <3>1. call[t].at = "update"
      BY <1>4, <1>7, <1>8, <1>9, <2>1
    <3> QED  BY <1>2, <1>3, <1>6, <1>8, <1>9, <2>1, <3>1, Zenon
  <2>2. CASE u # t
    BY <1>2, <1>3, <1>8, <1>9, <2>2
  <2> QED  BY <2>1, <2>2, Zenon
<1>10. ASSUME NEW u \in Threads, Plain(call[u].task)' PROVE Carries(u)'
  <2>1. CASE u # t
    <3>1. call'[u] = call[u] /\ ~Writing(call[u])
      BY <1>5, <1>8, <2>1, ZenonT(30)
    <3>2. CASE Finishing(call[u])
      <4>1. call[u].at # "idle"
        BY <3>2 DEF Finishing
      <4>2. call[u].task \in Created
        BY <1>0, <4>1, StageOf, Zenon
      <4>3. Carries(u)
        BY <1>1, <1>2, <1>10, <3>1, <4>2
      <4> QED  BY <1>3, <3>1, <3>2, <4>3 DEF Carries, Writing, Finishing
    <3>3. CASE ~Finishing(call[u])
      BY <3>1, <3>3, Zenon DEF Carries, Writing, Finishing
    <3> QED  BY <3>2, <3>3
  <2>2. CASE u = t
    <3>1. Carries(t)
      BY <1>1, <1>2, <1>6, <1>8, <1>10, <2>2, Zenon
    <3>2. CASE SaveRead(t, m) /\ l = "put" /\ r = Json(o)
      <4>1. r.body = obj'[o].body /\ r.status = obj'[o].status
        BY <1>3, <3>2, Zenon DEF Json
      <4> QED  BY <1>8, <2>2, <3>2, <4>1 DEF Carries, Agrees, Finishing
    <3>3. CASE UpdateRead(t, m) /\ l = "put_status" /\ r = Updated(t)
      <4>1. o \in Tasks
        BY DEF Created
      <4>2. db[obj[o].id] \in Records
        BY <1>0, <4>1, Zenon DEF Typed
      <4>3. r.body = db'[obj'[o].id].body /\ r.status = call[t].rec.status
        BY <1>3, <1>6, <3>3, <4>2, ZenonT(30) DEF Updated, Records
      <4>4. call[t].cmd = "run" => r.status = obj'[o].status
        BY <1>3, <1>4, <1>6, <3>1, <3>3, <4>3 DEF Carries, Finishing
      <4> QED  BY <1>8, <2>2, <3>3, <4>3, <4>4 DEF Carries, Agrees, Finishing
    <3> QED  BY <1>7, <3>2, <3>3
  <2> QED  BY <2>1, <2>2
<1>11. ASSUME NEW p, At(p, "save") PROVE At(p, "save")' \/ At(p, "put")'
  <2>1. PICK u \in Threads : call[u].task = p /\ call[u].at = "save"
    BY <1>11 DEF At
  <2>2. CASE u # t
    BY <1>8, <2>1, <2>2, Zenon DEF At
  <2>3. CASE u = t
    <3>1. call'[t].task = p /\ call'[t].at = "put"
      BY <1>4, <1>6, <1>7, <1>8, <2>1, <2>3
    <3> QED  BY <3>1, Zenon DEF At
  <2> QED  BY <2>2, <2>3
<1>12. ASSUME NEW p, At(p, "update") PROVE At(p, "update")' \/ At(p, "put_status")'
  <2>1. PICK u \in Threads : call[u].task = p /\ call[u].at = "update"
    BY <1>12, Zenon DEF At
  <2>2. CASE u # t
    BY <1>8, <2>1, <2>2 DEF At
  <2>3. CASE u = t
    <3>1. call'[t].task = p /\ call'[t].at = "put_status"
      BY <1>4, <1>6, <1>7, <1>8, <2>1, <2>3, Zenon
    <3> QED  BY <3>1, Zenon DEF At
  <2> QED  BY <2>2, <2>3, Zenon
<1>13. ASSUME NEW p \in Secured', Plain(p)' PROVE Reflected(p)'
  <2>1. p \in Created /\ p \in Secured
    <3>1. p \in Created /\ (p \in Secured \/ \E u \in Threads : call[u].task = p /\ Put(u))
      BY SecuredGrows, Zenon
    <3>2. \A u \in Threads : Put(u) => Writing(call[u])
      BY DEF Put, Writing
    <3> QED  BY <1>5, <3>1, <3>2, Zenon
  <2>2. Reflected(p)
    BY <1>1, <1>2, <1>13, <2>1, Zenon
  <2>3. ~At(p, "put") /\ ~At(p, "put_status")
    BY <1>5 DEF At, Writing
  <2> QED  BY <1>3, <1>11, <1>12, <2>2, <2>3, Zenon DEF Reflected, Agrees
<1> QED  BY <1>2, <1>3, <1>9, <1>10, <1>13

\* So does writing it: no other call of the same task has read meanwhile.
LEMMA WriteStep ==
    ASSUME CommandConstants, Sound, Current, Grown, [Next]_vars, NEW t \in Threads,
           Put(t) \/ UpdatePut(t)
    PROVE  Current'
<1>0. Typed /\ Shaped
  BY DEF Sound, Shaped
<1> SUFFICES ASSUME Single' PROVE
        /\ \A u \in Threads : /\ call'[u].cmd \in {"cancel", "kill"}
                              /\ call'[u].at \in {"update", "put_status"}
                              => call'[u].task \in upset'
        /\ executing' \subseteq upset'
        /\ \A u \in Threads : Plain(call[u].task)' => Carries(u)'
        /\ \A o \in Secured' : Plain(o)' => Reflected(o)'
  BY Zenon DEF Current
<1>1. Single /\ \A o \in Created : Plain(o)' => Plain(o)
  BY Before
<1>2. /\ \A u \in Threads : /\ call[u].cmd \in {"cancel", "kill"}
                            /\ call[u].at \in {"update", "put_status"}
                            => call[u].task \in upset
      /\ executing \subseteq upset
      /\ \A u \in Threads : Plain(call[u].task) => Carries(u)
      /\ \A o \in Secured : Plain(o) => Reflected(o)
  BY <1>1, Zenon DEF Current
<1>3. obj' = obj /\ executing' = executing /\ upset' = upset
  BY Zenon DEF Put, UpdatePut, memory
<1>4. /\ call[t].at \in {"put", "put_status"} /\ Answer(t)
      /\ (Put(t) => call[t].at = "put") /\ (UpdatePut(t) => call[t].at = "put_status")
  BY Zenon DEF Put, UpdatePut
<1>5. \A u \in Threads \ {t} : ~Writing(call[u])
  BY <1>1, <1>4, SoleWriter DEF Single, Writing
<1>6. PICK o \in Created : o = call[t].task
  BY <1>0, <1>4, StageOf
<1>7. call'[t].at \in {"idle", "register"} /\ \A u \in Threads \ {t} : call'[u] = call[u]
  <2>1. Ends(t) \/ Goes(t, "register")
    BY <1>0, <1>4, LaterSteps, Zenon
  <2> QED  BY <2>1 DEF Ends, Goes, Sets
<1>8. ASSUME NEW u \in Threads, call'[u].cmd \in {"cancel", "kill"},
             call'[u].at \in {"update", "put_status"}
      PROVE  call'[u].task \in upset'
  BY <1>2, <1>3, <1>7, <1>8
<1>9. ASSUME NEW u \in Threads, Plain(call[u].task)' PROVE Carries(u)'
  <2>1. CASE u # t
    <3>1. call'[u] = call[u] /\ ~Writing(call[u])
      BY <1>5, <1>7, <2>1, Zenon
    <3>2. CASE Finishing(call[u])
      <4>1. call[u].at # "idle"
        BY <3>2 DEF Finishing
      <4>2. call[u].task \in Created
        BY <1>0, <4>1, StageOf, Zenon
      <4>3. Carries(u)
        BY <1>1, <1>2, <1>9, <3>1, <4>2, Zenon
      <4> QED  BY <1>3, <3>1, <3>2, <4>3, Zenon DEF Carries, Writing, Finishing
    <3>3. CASE ~Finishing(call[u])
      BY <3>1, <3>3, Zenon DEF Carries, Writing, Finishing
    <3> QED  BY <3>2, <3>3
  <2>2. CASE u = t
    BY <1>7, <2>2 DEF Carries, Finishing
  <2> QED  BY <2>1, <2>2
<1>10. ASSUME NEW p, NEW l \in {"save", "update"}, At(p, l) PROVE At(p, l)'
  <2>1. PICK u \in Threads : call[u].task = p /\ call[u].at = l
    BY <1>10 DEF At
  <2>2. u # t
    BY <1>4, <2>1
  <2> QED  BY <1>7, <2>1, <2>2 DEF At
<1>11. ASSUME NEW p, NEW l \in {"put", "put_status"}, At(p, l)
       PROVE  p = o /\ l = call[t].at
  <2>1. PICK u \in Threads : call[u].task = p /\ call[u].at = l
    BY <1>11 DEF At
  <2>2. u = t
    BY <1>5, <2>1 DEF Writing
  <2> QED  BY <1>6, <2>1, <2>2
<1>12. o \in Tasks /\ obj[o].id \in Ids /\ db \in [Ids -> Records]
  BY <1>0, Zenon DEF Created, Typed
<1>13. \/ db' = db /\ o \in unstored'
       \/ db' = [db EXCEPT ![obj[o].id] = call[t].rec]
  BY <1>6 DEF Put, UpdatePut
<1>14. ASSUME NEW p \in Secured', Plain(p)' PROVE Reflected(p)'
  <2>1. p \in Created /\ (p \in Secured \/ (p = o /\ Put(t)))
    <3>1. p \in Created /\ (p \in Secured \/ \E u \in Threads : call[u].task = p /\ Put(u))
      BY SecuredGrows
    <3>2. \A u \in Threads : Put(u) => Writing(call[u])
      BY Zenon DEF Put, Writing
    <3>3. \A u \in Threads : Put(u) => u = t
      BY <1>5, <3>2, Zenon
    <3> QED  BY <1>6, <3>1, <3>3, Zenon
  <2>2. Plain(p)
    BY <1>1, <1>14, <2>1
  <2>3. /\ At(p, "save") => At(p, "save")'
        /\ At(p, "update") => At(p, "update")'
    BY <1>10
  <2>4. CASE p # o
    <3>1. obj[p].id # obj[o].id
      BY <2>2, <2>4 DEF Plain, SameId, Created
    <3>2. p \in Tasks /\ obj[p].id \in Ids
      BY <1>0, <2>1 DEF Created, Typed
    <3>3. db'[obj'[p].id] = db[obj[p].id]
      BY <1>3, <1>12, <1>13, <3>1, <3>2, Zenon
    <3>4. ~At(p, "put") /\ ~At(p, "put_status") /\ Reflected(p)
      BY <1>2, <1>11, <2>1, <2>2, <2>4
    <3> QED  BY <1>3, <2>3, <3>3, <3>4, Zenon DEF Reflected, Agrees
  <2>5. CASE p = o
    <3>1. PICK r : r = call[t].rec
      BY Zenon
    <3>2. o \notin unstored'
      BY <1>14, <2>5 DEF Plain
    <3>3. db'[obj'[o].id] = r
      BY <1>3, <1>12, <1>13, <3>1, <3>2, Zenon
    <3>4. Carries(t)
      BY <1>2, <1>6, <2>2, <2>5
    <3>5. CASE Put(t)
      <4>1. /\ r.body = obj'[o].body \/ At(o, "save")
            /\ r.status = obj'[o].status \/ obj'[o].status = "RUNNING" \/ At(o, "update")
        BY <1>3, <1>4, <1>6, <3>1, <3>4, <3>5, Zenon DEF Carries, Agrees
      <4> QED  BY <2>3, <2>5, <3>3, <4>1, Zenon DEF Reflected, Agrees
    <3>6. CASE UpdatePut(t) /\ ~Put(t)
      <4>1. call[t].at = "put_status" /\ Reflected(o)
        BY <1>2, <1>4, <2>1, <2>2, <2>5, <3>6, Zenon
      <4>2. ~At(o, "put")
        BY <1>11, <4>1, Zenon
      <4>3. r.body = db[obj[o].id].body
        BY <1>6, <3>1, <3>4, <4>1 DEF Carries
      <4>4. call[t].cmd = "run"
        <5>1. Stage("put_status", call[t].cmd)
          BY <1>0, <4>1, StageOf
        <5>2. call[t].cmd \in {"run", "cancel", "kill"}
          BY <5>1 DEF Stage
        <5>3. o \notin upset
          BY <2>2, <2>5, Zenon DEF Plain
        <5> QED  BY <1>2, <1>6, <4>1, <5>2, <5>3, Zenon
      <4>5. r.status = obj'[o].status
        BY <1>3, <1>6, <3>1, <3>4, <4>1, <4>4, Zenon DEF Carries, Finishing
      <4>6. r.body = obj'[o].body \/ At(o, "save")
        BY <1>3, <4>1, <4>2, <4>3 DEF Reflected
      <4> QED  BY <2>3, <2>5, <3>3, <4>5, <4>6, Zenon DEF Reflected, Agrees
    <3> QED  BY <3>5, <3>6
  <2> QED  BY <2>4, <2>5
<1> QED  BY <1>2, <1>3, <1>8, <1>9, <1>14

\* A call that has been set is on its way.
LEMMA SetsAt ==
    ASSUME NEW t \in Threads, NEW l, NEW k, NEW o, NEW m, NEW r, Sets(t, l, k, o, m, r)
    PROVE  At(o, l)'
<1>1. call'[t].task = o /\ call'[t].at = l
  BY DEF Sets
<1> QED  BY <1>1, Zenon DEF At

\* The other steps: those that leave the tasks alone, construct one, or mark one
\* that is upset.
LEMMA CalmCases ==
    ASSUME CommandConstants, Sound, Current, Grown, [Next]_vars, Single', NEW t \in Threads,
           NEW l, NEW k, NEW o, NEW m, NEW r, Sets(t, l, k, o, m, r), db' = db,
           call[t].at \notin Stores, l \notin {"put", "put_status"},
           l = "update" => \/ k \in {"cancel", "kill"} /\ o \in upset'
                           \/ k = "run" /\ r.status = obj'[o].status,
           executing' = executing, \A p \in Created : Plain(p)' => Steady(p)
    PROVE  Current'
<1>1. /\ call'[t].at = l /\ call'[t].cmd = k /\ call'[t].task = o /\ call'[t].rec = r
      /\ \A u \in Threads \ {t} : call'[u] = call[u]
  BY DEF Sets
<1>2. \A u \in Threads : Calm(u)
  BY <1>1 DEF Calm
<1>3. executing' \subseteq upset'
  <2>1. executing \subseteq upset
    BY Before DEF Current
  <2> QED  BY <2>1, HistoryGrows
<1> QED  BY <1>2, <1>3, CalmStep

\* A task that only steps outside the storage protocol touch is steady.
LEMMA SteadyCases ==
    ASSUME CommandConstants, Sound, Grown, [Next]_vars,
           \/ obj' = obj
           \/ \E o \in upset' : Marks(o)
           \/ \E o, i, s : Constructs(o, i, s)
    PROVE  \A p \in Created : Plain(p)' => Steady(p)
<1> SUFFICES ASSUME NEW p \in Created, Plain(p)' PROVE obj'[p] = obj[p]
  BY Zenon DEF Steady
<1>1. p \notin upset' /\ p \in Tasks /\ p \notin Unused
  BY DEF Plain, Created
<1> QED  BY <1>1 DEF Marks, Constructs

\* The first steps of the commands, ...
LEMMA CurrentFirst ==
    ASSUME CommandConstants, Sound, Current, Grown, [Next]_vars, Single', NEW t \in Threads,
           NEW o \in Tasks,
           \/ enqueue(t, o)
           \/ \E i \in Ids, s \in ImportStatuses : importTask(t, o, i, s)
           \/ \E i \in Ids : \/ run(t, i, o) \/ cancel(t, i, o)
                             \/ kill(t, i, o) \/ edit(t, i, o)
                             \/ setSchedule(t, i, o)
    PROVE  Current'
<1>0. Typed /\ Shaped /\ Counted /\ Known
  BY DEF Sound, Shaped
<1>1. db' = db /\ executing' = executing
  BY DEF enqueue, importTask, run, cancel, kill, edit, setSchedule, memory
<1>2. Idle.at \notin Stores
  BY Zenon DEF Idle, Stores
<1>3. ASSUME NEW l, NEW k, Starts(t, k, l, o), l \in {"insert", "save", "start",
             "cancelling", "killing"}, \A p \in Created : Plain(p)' => Steady(p)
      PROVE  Current'
  BY <1>1, <1>2, <1>3, CalmCases DEF Starts
<1>4. ASSUME enqueue(t, o) PROVE Current'
  <2>1. Starts(t, "enqueue", "insert", o) /\ Constructs(o, next_id, "CREATED")
    BY <1>0, <1>4, FirstSteps, ObjectSteps, Zenon
  <2>2. \A p \in Created : Plain(p)' => Steady(p)
    BY <2>1, SteadyCases
  <2> QED  BY <1>3, <2>1, <2>2
<1>5. ASSUME NEW i \in Ids, NEW s \in ImportStatuses, importTask(t, o, i, s) PROVE Current'
  <2>1. Starts(t, "import", "save", o) /\ Constructs(o, i, s)
    BY <1>0, <1>5, FirstSteps, ObjectSteps, Zenon
  <2>2. \A p \in Created : Plain(p)' => Steady(p)
    BY <2>1, SteadyCases
  <2> QED  BY <1>3, <2>1, <2>2
<1>6. ASSUME NEW i \in Ids, run(t, i, o) \/ cancel(t, i, o) \/ kill(t, i, o) PROVE Current'
  <2>1. \/ Starts(t, "run", "start", o) \/ Starts(t, "cancel", "cancelling", o)
        \/ Starts(t, "kill", "killing", o)
    BY <1>0, <1>6, FirstSteps, Zenon
  <2>2. obj' = obj
    BY <1>6, Zenon DEF run, cancel, kill, memory
  <2>3. \A p \in Created : Plain(p)' => Steady(p)
    BY <2>2, SteadyCases
  <2> QED  BY <1>3, <2>1, <2>3
<1>7. ASSUME NEW i \in Ids, edit(t, i, o) PROVE Current'
  <2>1. Starts(t, "edit", "save", o)
    BY <1>0, <1>7, FirstSteps, Zenon
  <2>2. Marks(o) /\ obj'[o].status = obj[o].status
    BY <1>0, <1>7, ObjectSteps, Zenon
  <2>3. At(o, "save")'
    BY <2>1, SetsAt, Zenon DEF Starts
  <2>4. ASSUME NEW p \in Created PROVE Steady(p)
    BY <2>2, <2>3, Zenon DEF Steady, Marks, Created
  <2> QED  BY <1>3, <2>1, <2>4
<1>8. ASSUME NEW i \in Ids, setSchedule(t, i, o) PROVE Current'
  <2>1. PICK r : r = Json(o)
    BY Zenon
  <2>2. call[t] = Idle /\ Sets(t, "from_json", "edit", o, 0, r)
    BY <1>0, <1>8, <2>1, FirstSteps, Zenon
  <2>3. obj' = obj
    BY <1>8 DEF setSchedule, memory
  <2>4. \A p \in Created : Plain(p)' => Steady(p)
    BY <2>3, SteadyCases
  <2>5. call[t].at \notin Stores
    BY <1>2, <2>2, Zenon
  <2>6. "from_json" \notin {"put", "put_status"} /\ "from_json" # "update"
    OBVIOUS
  <2> QED  BY <1>1, <2>2, <2>4, <2>5, <2>6, CalmCases, Zenon
<1> QED  BY <1>4, <1>5, <1>6, <1>7, <1>8, Zenon

\* ... the later ones, ...
LEMMA CurrentLater ==
    ASSUME CommandConstants, Sound, Current, Grown, [Next]_vars, Single', NEW t \in Threads,
           \/ Insert(t) \/ ImportRegister(t) \/ Start(t) \/ Executed(t)
           \/ Cancelled(t) \/ Killed(t) \/ fromJson(t)
    PROVE  Current'
<1>0. Typed /\ Shaped /\ Counted /\ Known
  BY DEF Sound, Shaped
<1>1. /\ db' = db /\ executing' = executing /\ calls' = calls
      /\ call[t].at \in {"insert", "register", "start", "execute", "cancelling", "killing",
                         "from_json"}
  BY Zenon DEF Insert, ImportRegister, Start, Executed, Cancelled, Killed, fromJson, bounds
<1>2. call[t].at \notin Stores /\ call[t].at # "idle"
  BY <1>1, Zenon DEF Stores
<1>3. PICK o \in Created : o = call[t].task
  BY <1>0, <1>2, StageOf, Zenon
<1>4. ASSUME NEW l \in {"save", "insert", "execute"}, Goes(t, l),
             \A p \in Created : Plain(p)' => Steady(p)
      PROVE  Current'
  BY <1>1, <1>2, <1>4, CalmCases, ZenonT(30) DEF Goes
<1>5. ASSUME Ends(t), \A p \in Created : Plain(p)' => Steady(p)
      PROVE  Current'
  BY <1>1, <1>2, <1>5, CalmCases DEF Ends
<1>6. ASSUME Insert(t) \/ ImportRegister(t) PROVE Current'
  <2>1. Ends(t) \/ Goes(t, "save") \/ Goes(t, "insert")
    BY <1>0, <1>6, LaterSteps, Zenon
  <2>2. obj' = obj
    BY <1>6, Zenon DEF Insert, ImportRegister
  <2>3. \A p \in Created : Plain(p)' => Steady(p)
    BY <2>2, SteadyCases
  <2> QED  BY <1>4, <1>5, <2>1, <2>3
<1>7. ASSUME fromJson(t) PROVE Current'
  <2>1. Goes(t, "save")
    BY <1>0, <1>7, LaterSteps, Zenon
  <2>2. Marks(call[t].task) /\ call[t].task \in upset'
    BY <1>0, <1>7, RestoreMarks, Zenon DEF fromJson
  <2>3. \A p \in Created : Plain(p)' => Steady(p)
    BY <2>2, SteadyCases
  <2> QED  BY <1>4, <2>1, <2>3
<1>8. ASSUME Start(t) PROVE Current'
  <2>1. Goes(t, "execute")
    BY <1>0, <1>8, LaterSteps, ZenonT(30)
  <2>2. call[t].at = "start" /\ markStarted(o)
    BY <1>3, <1>8 DEF Start
  <2>3. ASSUME NEW u \in Threads, Finishing(call[u]) PROVE FALSE
    <3>1. Owns(call[u]) /\ Owns(call[t])
      BY <2>2, <2>3, Zenon DEF Owns, Finishing
    <3>2. u = t
      BY <3>1, Zenon DEF Sound, Mutexes, Holding
    <3> QED  BY <2>2, <2>3, <3>2, Zenon DEF Finishing
  <2>4. ASSUME NEW p \in Created PROVE Steady(p)
    <3>1. CASE obj' = obj
      BY <3>1, Zenon DEF Steady
    <3>2. CASE SetStatus(o, "RUNNING")
      <4>1. "RUNNING" \in Statuses \ {"NONE"}
        BY Zenon DEF Statuses
      <4>2. Marks(o) /\ obj'[o].body = obj[o].body /\ obj'[o].status = "RUNNING"
        BY <1>0, <1>1, <3>2, <4>1, StatusMarks
      <4> QED  BY <2>3, <4>2 DEF Steady, Marks, Created
    <3> QED  BY <2>2, <3>1, <3>2 DEF markStarted
  <2> QED  BY <1>4, <2>1, <2>4
<1>9. ASSUME NEW s, Decides(t, s), \A p \in Created : Plain(p)' => Steady(p),
             \/ call[t].cmd \in {"cancel", "kill"} /\ o \in upset'
             \/ call[t].cmd = "run" /\ s = obj'[o].status
      PROVE  Current'
  <2>1. PICK r : r.status = s /\ Sets(t, "update", call[t].cmd, o, call[t].member, r)
    BY <1>3, <1>9, Zenon DEF Decides
  <2>2. "update" \notin {"put", "put_status"}
    OBVIOUS
  <2> QED  BY <1>1, <1>2, <1>9, <2>1, <2>2, CalmCases, Zenon
<1>10. ASSUME Cancelled(t) \/ Killed(t) PROVE Current'
  <2>1. /\ call[t].at \in {"cancelling", "killing"} /\ o \in upset'
        /\ \/ IF obj[o].status \in Terminal THEN UNCHANGED obj
              ELSE SetStatus(o, "CANCELLED")
           \/ markFailed(o)
    BY <1>3, <1>10, Zenon DEF Cancelled, Killed
  <2>2. obj' = obj \/ Marks(o)
    BY <1>0, <1>1, <2>1, MarkSteps, Zenon
  <2>3. \A p \in Created : Plain(p)' => Steady(p)
    BY <2>1, <2>2, SteadyCases, ZenonT(30)
  <2>4. call[t].cmd \in {"cancel", "kill"}
    <3>1. Stage(call[t].at, call[t].cmd)
      BY <1>0, <1>2, StageOf, Zenon
    <3> QED  BY <2>1, <3>1, Zenon DEF Stage
  <2>5. Decides(t, "CANCELLED") \/ Decides(t, "FAILED")
    BY <1>0, <1>10, StatusSteps, Zenon
  <2> QED  BY <1>9, <2>1, <2>3, <2>4, <2>5, Zenon
<1>11. ASSUME Executed(t) PROVE Current'
  <2>1. PICK s : s = Completed(obj[o].status)
    BY Zenon
  <2>2. /\ call[t].at = "execute"
        /\ \/ obj' = obj /\ Return(t)
           \/ /\ task_mutex = None /\ SetStatus(o, s)
              /\ call' = [call EXCEPT ![t].at = "update", ![t].rec.status = s]
    BY <1>3, <1>11, <2>1, Zenon DEF Executed
  <2>3. CASE obj' = obj /\ Return(t)
    <3>1. Ends(t)
      BY <1>0, <2>3, ReturnSets DEF Ends, Typed, CommandConstants
    <3>2. \A p \in Created : Plain(p)' => Steady(p)
      BY <2>3, SteadyCases, Zenon
    <3> QED  BY <1>5, <3>1, <3>2, Zenon
  <2>4. ASSUME task_mutex = None, SetStatus(o, s),
               call' = [call EXCEPT ![t].at = "update", ![t].rec.status = s]
        PROVE  Current'
    <3>1. s \in Statuses \ {"NONE"}
      <4>1. obj[o].status \in Statuses /\ obj[o].status # "NONE"
        BY <1>0, Zenon DEF Typed, Known, Created
      <4> QED  BY <2>1, <4>1 DEF Completed, Statuses, Terminal
    <3>2. Marks(o) /\ obj'[o].body = obj[o].body /\ obj'[o].status = s
      BY <1>0, <1>1, <2>4, <3>1, StatusMarks
    <3>3. Decides(t, s)
      BY <1>0, <2>4, <3>1, StatusSets, Zenon DEF Decides, Typed
    <3>4. At(o, "update")'
      BY <1>3, <3>3, SetsAt, Zenon DEF Decides
    <3>5. ASSUME NEW u \in Threads, Finishing(call[u]) PROVE FALSE
      <4>1. Owns(call[u])
        BY <3>5 DEF Owns, Finishing
      <4> QED  BY <2>4, <4>1, Zenon DEF Sound, Mutexes, Holding, CommandConstants
    <3>6. ASSUME NEW p \in Created PROVE Steady(p)
      BY <3>2, <3>4, <3>5, Zenon DEF Steady, Marks, Created
    <3>7. call[t].cmd = "run"
      <4>1. Stage("execute", call[t].cmd)
        BY <1>0, <2>2, StageOf
      <4> QED  BY <4>1 DEF Stage
    <3> QED  BY <1>9, <3>2, <3>3, <3>6, <3>7, Zenon
  <2> QED  BY <2>2, <2>3, <2>4
<1> QED  BY <1>6, <1>7, <1>8, <1>10, <1>11

\* ... and those outside of the commands, and of a single step.
LEMMA CurrentStep ==
    ASSUME CommandConstants, Sound, Current, Grown, [Next]_vars
    PROVE  Current'
<1> SUFFICES ASSUME Single' PROVE Current'
  BY Zenon DEF Current
<1>0. Typed /\ Counted /\ Known
  BY Zenon DEF Sound, Shaped
<1>1. executing \subseteq upset /\ upset \subseteq upset'
  BY Before, HistoryGrows DEF Current
<1>2. ASSUME call' = call, db' = db, executing' \subseteq upset',
             obj' = obj \/ \E o \in upset' : Marks(o)
      PROVE  Current'
  <2>1. \A u \in Threads : Calm(u)
    BY <1>2 DEF Calm
  <2>2. \A p \in Created : Plain(p)' => Steady(p)
    BY <1>2, SteadyCases
  <2> QED  BY <1>2, <2>1, <2>2, CalmStep
<1>3. ASSUME \/ UNCHANGED vars
             \/ \E t \in Threads : list(t) \/ clear(t) \/ \E o \in Tasks : dequeue(t, o)
      PROVE  Current'
  <2>1. call' = call /\ db' = db /\ executing' = executing /\ obj' = obj
    BY <1>3 DEF vars, memory, list, clear, dequeue, Once
  <2> QED  BY <1>1, <1>2, <2>1, Zenon
<1>4. ASSUME NEW o \in Tasks, WorkerTake(o) \/ WorkerDone(o) PROVE Current'
  <2>1. /\ call' = call /\ db' = db /\ calls' = calls
        /\ o \in upset' /\ executing' \subseteq upset'
    BY <1>1, <1>4, Zenon DEF WorkerTake, WorkerDone, bounds, history
  <2>2. o \in Created
    BY <1>0, <1>4, ZenonT(30) DEF Known, WorkerTake, WorkerDone
  <2>3. \/ markStarted(o) \/ markFailed(o)
        \/ SetStatus(o, Completed(obj[o].status))
    BY <1>4, Zenon DEF WorkerTake, WorkerDone
  <2>4. obj' = obj \/ Marks(o)
    BY <1>0, <2>1, <2>2, <2>3, MarkSteps
  <2> QED  BY <1>2, <2>1, <2>4
<1>5. ASSUME restart PROVE FALSE
  <2>1. crashes \in Nat /\ crashes' = crashes + 1 /\ crashes' = 0
    BY <1>0, <1>5 DEF restart, Single, Typed
  <2> QED  BY <2>1
<1>6. ASSUME NEW t \in Threads, Write(t) PROVE Current'
  BY <1>6, ReadStep, WriteStep, Zenon DEF Write
<1>7. ASSUME NEW t \in Threads,
             \/ Insert(t) \/ ImportRegister(t) \/ Write(t) \/ Start(t) \/ Executed(t)
             \/ Cancelled(t) \/ Killed(t) \/ fromJson(t) \/ list(t) \/ clear(t)
      PROVE  Current'
  <2>1. ASSUME \/ Insert(t) \/ ImportRegister(t) \/ Start(t) \/ Executed(t)
               \/ Cancelled(t) \/ Killed(t) \/ fromJson(t)
        PROVE  Current'
    BY <2>1, CurrentLater
  <2> QED  BY <1>3, <1>6, <1>7, <2>1, Zenon
<1>8. ASSUME NEW t \in Threads, NEW o \in Tasks,
             \/ enqueue(t, o) \/ dequeue(t, o)
             \/ \E i \in Ids, s \in ImportStatuses : importTask(t, o, i, s)
             \/ \E i \in Ids : \/ run(t, i, o) \/ cancel(t, i, o)
                               \/ kill(t, i, o) \/ edit(t, i, o)
                               \/ setSchedule(t, i, o)
      PROVE  Current'
  BY <1>3, <1>8, CurrentFirst, Zenon
<1> QED  BY <1>3, <1>4, <1>5, <1>7, <1>8, Zenon DEF Next
===============================================================================
