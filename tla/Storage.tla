------------------------------- MODULE Storage --------------------------------
(***************************************************************************)
(* persistence/Storage: one Storage object and its database, used by       *)
(* several threads.  Every Put, Get and Write on the database is a step of *)
(* its own, so that a crash, or a thread that does not take mutex_, may    *)
(* come between any two.  RocksDB is external: writes are atomic and, with *)
(* write_options_->sync, durable once they return.                         *)
(*                                                                         *)
(* A task's JSON is the status field, which updateTaskStatus replaces, and *)
(* all the rest, the body; each field holds the number of the call that    *)
(* wrote it.                                                               *)
(***************************************************************************)
EXTENDS Integers, FiniteSetsExt

CONSTANTS
    Ids,             \* task ids
    Threads,         \* callers
    None,            \* no thread
    MaxOps,          \* bound on the calls that write
    MaxCrashes,      \* bound on the crashes of the process
    FirstSequence,   \* wal_sequence_ of a process that has truncated its log
    Operations       \* what the environment does

AllOperations == {"save", "update", "event", "truncate", "batch", "failure"}

ASSUME StorageAssumption ==
    /\ IsFiniteSet(Ids) /\ None \notin Threads
    /\ MaxOps \in Nat /\ MaxCrashes \in Nat /\ FirstSequence \in Nat
    /\ Operations \subseteq AllOperations

VARIABLES
    tasks,           \* the keys task:<id>
    wal,             \* the keys wal:<sequence>, sequence > 0
    wal0,            \* the key wal:0, 0 when it is absent
    wal_sequence,    \* wal_sequence_
    mutex,           \* who holds mutex_ unique
    th,              \* the call each thread is in
    ops,             \* calls begun
    crashes,         \* crashes so far
    acked,           \* per task the newest fields whose write has returned true
    base,            \* the tasks when the log was last truncated
    upset            \* what has happened: "commit" of a batch, an entry "unlogged"

vars == <<tasks, wal, wal0, wal_sequence, mutex, th, ops, crashes, acked, base, upset>>

Json == [body : 0..MaxOps, status : 0..MaxOps]
Absent == [body |-> 0, status |-> 0]
Fresh(n) == [body |-> n, status |-> n]
WithStatus(j, n) == [j EXCEPT !.status = n]

\* An entry of the log: the operation, its task and its data.
Entry(op, i, j) == [op |-> op, id |-> i, data |-> j]

NoBatch == [i \in Ids |-> Absent]
Idle == [at |-> "idle", entry |-> Entry("none", None, Absent), seq |-> 0,
         keys |-> {}, batch |-> NoBatch]

Does(op) == op \in Operations
Call(op, t) ==
    /\ Does(op)
    /\ th[t].at = "idle"
    /\ ops < MaxOps
    /\ ops' = ops + 1
Lock(t) == mutex = None /\ mutex' = t
Go(t, l) == th' = [th EXCEPT ![t].at = l]
Appending(t, e) == th' = [th EXCEPT ![t] = [Idle EXCEPT !.at = "append", !.entry = e]]

\* The call returns: its lock is released and its locals are gone.
Return(t) ==
    /\ th' = [th EXCEPT ![t] = Idle]
    /\ mutex' = IF mutex = t THEN None ELSE mutex
-------------------------------------------------------------------------------
(* saveTask and updateTaskStatus, up to appendToWAL.  A saveTask whose Put *)
(* fails changes nothing.                                                  *)

Acknowledged(i, j) ==
    acked' = [acked EXCEPT ![i] = [body |-> Max({@.body, j.body}),
                                   status |-> Max({@.status, j.status})]]

saveTask(t, i) ==
    /\ Call("save", t)
    /\ Lock(t)
    /\ tasks' = [tasks EXCEPT ![i] = Fresh(ops')]
    /\ Appending(t, Entry("save_task", i, Fresh(ops')))
    /\ UNCHANGED <<wal, wal0, wal_sequence, crashes, acked, base, upset>>

\* Mutant: mutex_ taken shared, as a reader would.
UpdateReadShared(t, i) ==
    /\ Call("update", t)
    /\ mutex = None
    /\ tasks[i] # Absent
    /\ th' = [th EXCEPT ![t] = [Idle EXCEPT !.at = "update",
                    !.entry = Entry("update_status", i, WithStatus(tasks[i], ops'))]]
    /\ UNCHANGED <<tasks, wal, wal0, wal_sequence, mutex, crashes, acked, base, upset>>
UpdateRead(t, i) ==
    /\ Call("update", t)
    /\ Lock(t)
    /\ tasks[i] # Absent
    /\ th' = [th EXCEPT ![t] = [Idle EXCEPT !.at = "update",
                    !.entry = Entry("update_status", i, WithStatus(tasks[i], ops'))]]
    /\ UNCHANGED <<tasks, wal, wal0, wal_sequence, crashes, acked, base, upset>>

\* Mutant: the write is not logged.
UpdateWriteUnlogged(t) ==
    LET e == th[t].entry IN
    /\ th[t].at = "update"
    /\ tasks' = [tasks EXCEPT ![e.id] = e.data]
    /\ Return(t)
    /\ UNCHANGED <<wal, wal0, wal_sequence, ops, crashes, acked, base, upset>>
UpdateWrite(t) ==
    LET e == th[t].entry IN
    /\ th[t].at = "update"
    /\ \/ /\ tasks' = [tasks EXCEPT ![e.id] = e.data]
          /\ Appending(t, e)
          /\ UNCHANGED mutex
       \/ /\ Does("failure")
          /\ Return(t)
          /\ UNCHANGED tasks
    /\ UNCHANGED <<wal, wal0, wal_sequence, ops, crashes, acked, base, upset>>

\* CLICommands::logEvent, which calls appendToWAL without mutex_.
logEvent(t) ==
    /\ Call("event", t)
    /\ Appending(t, Entry("event_log", None, Fresh(ops')))
    /\ UNCHANGED <<tasks, wal, wal0, wal_sequence, mutex, crashes, acked, base, upset>>
-------------------------------------------------------------------------------
(* appendToWAL.  Its result is ignored: once the task's own Put has        *)
(* succeeded saveTask and updateTaskStatus return true.                    *)

AppendSequence(t) ==
    /\ th[t].at = "append"
    /\ wal_sequence' = wal_sequence + 1
    /\ th' = [th EXCEPT ![t].at = "entry", ![t].seq = wal_sequence + 1]
    /\ UNCHANGED <<tasks, wal, wal0, mutex, ops, crashes, acked, base, upset>>

AppendReturn(t) ==
    LET e == th[t].entry IN
    /\ Return(t)
    /\ CASE e.op = "save_task"     -> Acknowledged(e.id, e.data)
         [] e.op = "update_status" -> Acknowledged(e.id, WithStatus(Absent, e.data.status))
         [] OTHER                  -> UNCHANGED acked

Logged(t) ==
    wal' = [s \in DOMAIN wal \cup {th[t].seq} |->
               IF s = th[t].seq THEN th[t].entry ELSE wal[s]]

AppendEntry(t) ==
    /\ th[t].at = "entry"
    /\ \/ Logged(t) /\ Go(t, "counter") /\ UNCHANGED <<mutex, acked, upset>>
       \/ /\ Does("failure")
          /\ AppendReturn(t)
          /\ upset' = upset \cup {"unlogged"}
          /\ UNCHANGED wal
    /\ UNCHANGED <<tasks, wal0, wal_sequence, ops, crashes, base>>

\* Mutant: the counter names the next sequence number.
AppendCounterNext(t) ==
    /\ th[t].at = "counter"
    /\ wal0' = th[t].seq + 1
    /\ AppendReturn(t)
    /\ UNCHANGED <<tasks, wal, wal_sequence, ops, crashes, base, upset>>
AppendCounter(t) ==
    /\ th[t].at = "counter"
    /\ wal0' = th[t].seq \/ (Does("failure") /\ UNCHANGED wal0)
    /\ AppendReturn(t)
    /\ UNCHANGED <<tasks, wal, wal_sequence, ops, crashes, base, upset>>
-------------------------------------------------------------------------------
(* truncateWAL: the keys are those of the iterator's snapshot.             *)

TruncateScan(t) ==
    /\ Call("truncate", t)
    /\ Lock(t)
    /\ th' = [th EXCEPT ![t].at = "truncate", ![t].keys = DOMAIN wal]
    /\ UNCHANGED <<tasks, wal, wal0, wal_sequence, crashes, acked, base, upset>>

\* Mutant: the numbering starts again.
TruncateWriteResets(t) ==
    /\ th[t].at = "truncate"
    /\ wal' = [s \in DOMAIN wal \ th[t].keys |-> wal[s]]
    /\ wal0' = 0
    /\ wal_sequence' = 0
    /\ base' = tasks
    /\ Return(t)
    /\ UNCHANGED <<tasks, ops, crashes, acked, upset>>
TruncateWrite(t) ==
    /\ th[t].at = "truncate"
    /\ \/ /\ wal' = [s \in DOMAIN wal \ th[t].keys |-> wal[s]]
          /\ wal0' = 0
          /\ base' = tasks
       \/ Does("failure") /\ UNCHANGED <<wal, wal0, base>>
    /\ Return(t)
    /\ UNCHANGED <<tasks, wal_sequence, ops, crashes, acked, upset>>
-------------------------------------------------------------------------------
(* BatchOperation: no lock and no log.  A commit whose Write fails changes *)
(* nothing and leaves the batch for another commit or the rollback.        *)

Stage(t, i, j) ==
    th' = [th EXCEPT ![t].at = "batch", ![t].batch[i] = j]

InBatch(t) ==
    /\ Does("batch")
    /\ th[t].at \in {"idle", "batch"}
    /\ ops < MaxOps
    /\ ops' = ops + 1

BatchSave(t, i) ==
    /\ InBatch(t)
    /\ Stage(t, i, Fresh(ops'))
    /\ UNCHANGED <<tasks, wal, wal0, wal_sequence, mutex, crashes, acked, base, upset>>

\* The JSON is the database's, also when the batch has a newer one.
BatchUpdate(t, i) ==
    /\ InBatch(t)
    /\ tasks[i] # Absent
    /\ Stage(t, i, WithStatus(tasks[i], ops'))
    /\ UNCHANGED <<tasks, wal, wal0, wal_sequence, mutex, crashes, acked, base, upset>>

Commit(t) ==
    /\ th[t].at = "batch"
    /\ tasks' = [i \in Ids |-> IF th[t].batch[i] = Absent THEN tasks[i]
                                                        ELSE th[t].batch[i]]
    /\ upset' = upset \cup {"commit"}
    /\ Return(t)
    /\ UNCHANGED <<wal, wal0, wal_sequence, ops, crashes, acked, base>>

Rollback(t) ==
    /\ th[t].at = "batch"
    /\ Return(t)
    /\ UNCHANGED <<tasks, wal, wal0, wal_sequence, ops, crashes, acked, base, upset>>
-------------------------------------------------------------------------------
\* The process dies and a new one opens the database; nothing else is done
\* at start: replayWAL has no caller.
initialize ==
    /\ crashes < MaxCrashes
    /\ crashes' = crashes + 1
    /\ wal_sequence' = wal0
    /\ th' = [t \in Threads |-> Idle]
    /\ mutex' = None
    /\ UNCHANGED <<tasks, wal, wal0, ops, acked, base, upset>>

Init ==
    /\ tasks = [i \in Ids |-> Absent]
    /\ wal = <<>>
    /\ wal0 = 0
    /\ wal_sequence = FirstSequence
    /\ mutex = None
    /\ th = [t \in Threads |-> Idle]
    /\ ops = 0
    /\ crashes = 0
    /\ acked = [i \in Ids |-> Absent]
    /\ base = [i \in Ids |-> Absent]
    /\ upset = {}

Append_(t) == AppendSequence(t) \/ AppendEntry(t) \/ AppendCounter(t)

Next ==
    \/ initialize
    \/ \E t \in Threads :
          \/ UpdateWrite(t) \/ logEvent(t) \/ Append_(t)
          \/ TruncateScan(t) \/ TruncateWrite(t)
          \/ Commit(t) \/ Rollback(t)
          \/ \E i \in Ids : \/ saveTask(t, i) \/ UpdateRead(t, i)
                            \/ BatchSave(t, i) \/ BatchUpdate(t, i)

Spec == Init /\ [][Next]_vars
-------------------------------------------------------------------------------
(* Properties.                                                             *)

\* The types; wal:0 never runs ahead of wal_sequence_, whichever thread
\* wrote it (appendToWAL, initialize).
TypeOK ==
    /\ tasks \in [Ids -> Json]
    /\ acked \in [Ids -> Json]
    /\ mutex \in Threads \cup {None}
    /\ wal_sequence \in Nat
    /\ wal0 \in 0..wal_sequence
    /\ DOMAIN wal \subseteq Nat \ {0}

\* What saveTask and updateTaskStatus have reported as written is in the
\* database, or something newer is: no later call, failed write or crash takes
\* it away.  Only a batch, which takes no lock, may.
AckedKept ==
    "commit" \notin upset =>
        \A i \in Ids : /\ tasks[i].body >= acked[i].body
                       /\ tasks[i].status >= acked[i].status

\* An entry that is written stays as it is until it is truncated
\* (appendToWAL: "Store WAL entry" under a number of its own).
EntriesKept ==
    [][\A s \in DOMAIN wal \cap DOMAIN wal' : wal'[s] = wal[s]]_vars

\* A process gives no number twice, whoever calls appendToWAL: before any
\* restart the entries are kept.
NumberedOnce ==
    [][crashes = 0 =>
          \A s \in DOMAIN wal \cap DOMAIN wal' : wal'[s] = wal[s]]_vars
===============================================================================
