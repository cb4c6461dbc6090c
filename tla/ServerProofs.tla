----------------------------- MODULE ServerProofs -----------------------------
(***************************************************************************)
(* Proofs about the server, for any number of slots, workers, connections  *)
(* and requests: no command outlives the storage, a session has one        *)
(* operation under way, and a command's session outlives it.               *)
(***************************************************************************)
EXTENDS Server, FiniteSetTheorems, TLAPS

\* The time that a step may take.
USE SMTT(20), ZenonT(30), SMTT(25)

-------------------------------------------------------------------------------
(* Shutdown.                                                               *)

\* Past the join no worker is left, and the storage is open until the end.
Joined ==
    /\ main \in {"pool", "exited"} => \A w \in Workers : worker[w].at = "exited"
    /\ main # "exited" => storage_open

-------------------------------------------------------------------------------
(* Sessions and commands.                                                  *)

Job == [slot : Slots, conn : Nat \ {0}]
Queued == 1..Len(work_queue)

Record == [conn : Nat, active : BOOLEAN, listed : BOOLEAN, reads : Nat,
           writes : Nat, idle : BOOLEAN]

Typed ==
    /\ session \in [Slots -> Record]
    /\ work_queue \in Seq(Job)
    /\ worker \in [Workers ->
           [at  : {"test", "lock", "wait", "run", "respond", "exited"},
            job : Job \cup {NoJob}]]
    /\ \A w \in Workers : worker[w].at \in {"run", "respond"}
                             <=> worker[w].job # NoJob
    /\ connections \in Nat
    /\ answered \subseteq Nat \X Nat
    /\ expired \subseteq Nat

\* Connections are numbered as they come.
Numbered ==
    /\ \A s \in Slots : session[s].conn <= connections
    /\ \A i \in Queued : work_queue[i].conn <= connections
    /\ \A w \in Workers : worker[w].job.conn <= connections
    /\ \A p \in answered : p[2] <= connections
    /\ \A c \in expired : c <= connections

\* An object is there as long as something refers to it.
Referred ==
    \A s \in Slots :
        IF Alive(s)
        THEN session[s].listed \/ session[s].reads > 0 \/ session[s].writes > 0
        ELSE session[s] = Free

Distinct ==
    \A s, t \in Slots : Alive(s) /\ session[s].conn = session[t].conn => s = t

\* A command names the slot its session is in, if the session still exists.
SlotKnown ==
    \A s \in Slots : Alive(s) =>
        /\ \A i \in Queued :
              work_queue[i].conn = session[s].conn => work_queue[i].slot = s
        /\ \A w \in Workers :
              worker[w].job.conn = session[s].conn => worker[w].job.slot = s

HasCommand(c) == \/ \E i \in Queued : work_queue[i].conn = c
                 \/ \E w \in Workers : worker[w].job.conn = c

OneCommand(c) ==
    /\ \A i, k \in Queued :
          work_queue[i].conn = c /\ work_queue[k].conn = c => i = k
    /\ \A w, v \in Workers :
          worker[w].job.conn = c /\ worker[v].job.conn = c => w = v
    /\ \A i \in Queued, w \in Workers :
          ~(work_queue[i].conn = c /\ worker[w].job.conn = c)

\* OneAtATime, without counting; while handlers run, only a session without a
\* command is closed.
Quiet ==
    \A s \in Slots :
        LET o == session[s]
        IN  Alive(s) /\ ~Misled(o.conn) =>
               /\ o.reads + o.writes <= 1
               /\ HasCommand(o.conn) => o.reads + o.writes = 0
               /\ o.active => o.reads + o.writes = 1 \/ HasCommand(o.conn)
               /\ Handling /\ HasCommand(o.conn) => o.active
               /\ OneCommand(o.conn)

\* A session that is open is in sessions_ unless it was pruned for being idle,
\* and none is once stop has cleared it.
Open ==
    /\ Handling => \A s \in Slots :
          session[s].active => session[s].listed \/ session[s].conn \in expired
    /\ main \in {"closed", "join", "pool", "exited"} =>
          \A s \in Slots : ~session[s].listed

Kept(j) == \/ session[j.slot].conn = j.conn
           \/ j.conn \in expired \/ Misled(j.conn)

\* SessionOutlivesCommand.
AllKept ==
    Handling => /\ \A i \in Queued : Kept(work_queue[i])
                /\ \A w \in Workers : worker[w].job # NoJob => Kept(worker[w].job)

Inv == Typed /\ Numbered /\ Referred /\ Distinct /\ SlotKnown /\ Quiet /\ Open
          /\ AllKept
-------------------------------------------------------------------------------
\* What a handler finds in a slot, and a worker in its hands.
LEMMA Records ==
    ASSUME Typed
    PROVE  /\ \A s \in Slots :
                 /\ session[s].conn \in Nat /\ session[s].reads \in Nat
                 /\ session[s].writes \in Nat /\ session[s].active \in BOOLEAN
                 /\ session[s].listed \in BOOLEAN /\ session[s].idle \in BOOLEAN
           /\ \A i \in Queued : work_queue[i] \in Job
           /\ \A w \in Workers : \/ worker[w].job \in Job
                                  \/ worker[w].job = NoJob
           /\ Len(work_queue) \in Nat /\ NoJob.conn = 0 /\ NoJob \notin Job
<1>1. \A s \in Slots : session[s] \in Record
  BY DEF Typed
<1>2. /\ \A i \in Queued : work_queue[i] \in Job
      /\ Len(work_queue) \in Nat
  BY DEF Typed, Queued
<1>3. \A w \in Workers : worker[w].job \in Job \cup {NoJob}
  BY DEF Typed
<1>4. NoJob.conn = 0 /\ NoJob \notin Job
  BY DEF NoJob, Job
<1> QED  BY <1>1, <1>2, <1>3, <1>4 DEF Record

\* The pending operations of a session that has at most one.
LEMMA Sums ==
    ASSUME NEW a \in Nat, NEW b \in Nat
    PROVE  /\ a + b = 0 => a = 0 /\ b = 0
           /\ a + b <= 1 /\ a > 0 => a = 1 /\ b = 0
           /\ a + b <= 1 /\ b > 0 => a = 0 /\ b = 1
           /\ a + b \in Nat
  OBVIOUS

\* Connections are compared as numbers.
LEMMA Bounds ==
    ASSUME Typed, Numbered
    PROVE  /\ connections \in Nat
           /\ \A s \in Slots : session[s].conn \in Nat /\ session[s].conn <= connections
           /\ \A i \in Queued : /\ work_queue[i].conn \in Nat
                                /\ work_queue[i].conn <= connections
           /\ \A w \in Workers : /\ worker[w].job.conn \in Nat
                                 /\ worker[w].job.conn <= connections
           /\ \A p \in answered : p[2] \in Nat /\ p[2] <= connections
           /\ \A c \in expired : c \in Nat /\ c <= connections
<1>1. connections \in Nat /\ answered \subseteq Nat \X Nat /\ expired \subseteq Nat
  BY DEF Typed
<1>2. \A j : j \in Job \/ j = NoJob => j.conn \in Nat
  BY DEF Job, NoJob
<1>3. /\ \A s \in Slots : session[s].conn \in Nat
      /\ \A i \in Queued : work_queue[i].conn \in Nat
      /\ \A w \in Workers : worker[w].job.conn \in Nat
  BY <1>2, Records
<1> QED  BY <1>1, <1>3 DEF Numbered

\* The server starts without sessions and commands.
LEMMA ServerInit == Init => Inv /\ Joined
<1> SUFFICES ASSUME Init PROVE Inv /\ Joined
  OBVIOUS
<1>1. Typed
  <2>1. work_queue \in Seq(Job)
    BY DEF Init
  <2> QED  BY <2>1 DEF Init, Typed, Record, Free, NoJob
<1>2. Len(work_queue) = 0 /\ Queued = {}
  BY DEF Init, Queued
<1>3. \A s \in Slots : session[s] = Free /\ ~Alive(s)
  BY DEF Init, Alive, Free
<1>4. Numbered /\ Referred /\ Distinct /\ SlotKnown /\ Quiet
  BY <1>1, <1>2, <1>3 DEF Init, Numbered, Referred, Distinct, SlotKnown, Quiet,
                          Free, NoJob
<1>5. Open /\ AllKept /\ Joined
  BY <1>2, <1>3 DEF Init, Open, AllKept, Joined, Free
<1> QED  BY <1>1, <1>4, <1>5 DEF Inv

\* A step that moves no command, and of a session at most its age.
LEMMA SameStep ==
    ASSUME Inv, Typed',
           \A s \in Slots :
               /\ session'[s].conn = session[s].conn
               /\ session'[s].active = session[s].active
               /\ session'[s].listed = session[s].listed
               /\ session'[s].reads = session[s].reads
               /\ session'[s].writes = session[s].writes
               /\ ~Alive(s) => session'[s] = session[s],
           \A w \in Workers : worker'[w].job = worker[w].job,
           UNCHANGED <<work_queue, connections, expired, answered>>,
           Handling' => Handling,
           main' = main \/ main \in {"closed", "join", "pool"}
    PROVE  Inv'
<1>1. \A c : (Misled(c))' <=> Misled(c)
  BY DEF Misled
<1>2. \A c : /\ (HasCommand(c))' <=> HasCommand(c)
             /\ (OneCommand(c))' <=> OneCommand(c)
  BY DEF HasCommand, OneCommand, Queued
<1>3. Numbered' /\ Distinct' /\ SlotKnown' /\ Open'
  BY DEF Inv, Numbered, Distinct, SlotKnown, Open, Queued, Alive
<1>4. Referred'
  BY DEF Inv, Referred, Alive
<1>5. Quiet'
  BY <1>1, <1>2 DEF Inv, Quiet, Alive
<1>6. AllKept'
  <2>1. \A j \in Job : Kept(j) => (Kept(j))'
    BY <1>1 DEF Kept, Job
  <2> QED  BY <2>1, Records DEF Inv, AllKept, Queued
<1> QED  BY <1>3, <1>4, <1>5, <1>6 DEF Inv

\* Letting go of a session keeps it as it is or frees its slot.
LEMMA SettledIs ==
    ASSUME NEW o \in Record
    PROVE  /\ Settled(o) \in Record
           /\ Settled(o) = o \/ Settled(o) = Free
           /\ Settled(o) = o <=> o = Free \/ o.listed \/ o.reads > 0 \/ o.writes > 0
  BY DEF Settled, Free, Record

\* The fields of a slot that is free.
LEMMA FreeIs == /\ Free \in Record /\ Free.conn = 0 /\ ~Free.active /\ ~Free.listed
                /\ Free.reads = 0 /\ Free.writes = 0
  BY DEF Free, Record

\* A step of one session that has no command: a read or a write ends.
LEMMA SessionStep ==
    ASSUME Inv, Typed', NEW s \in Slots, Alive(s), NEW o \in Record,
           session' = [session EXCEPT ![s] = Settled(o)],
           o.conn = session[s].conn, o.listed = session[s].listed,
           o.active => session[s].active,
           \/ Misled(o.conn)
           \/ /\ o.reads + o.writes <= 1 /\ ~HasCommand(o.conn)
              /\ o.active => o.reads + o.writes = 1,
           UNCHANGED <<work_queue, worker, connections, expired, main>>,
           \A c : (Misled(c))' <=> Misled(c),
           \A p \in answered' : p[2] <= connections
    PROVE  Inv'
<1>0. /\ Typed /\ Numbered /\ Referred /\ Distinct /\ SlotKnown /\ Quiet /\ Open
      /\ AllKept
  BY DEF Inv
<1>1. /\ session'[s] = Settled(o)
      /\ \A t \in Slots : t # s => session'[t] = session[t]
  BY <1>0 DEF Typed
<1>2. \/ session'[s] = o /\ (o.listed \/ o.reads > 0 \/ o.writes > 0)
      \/ session'[s] = Free
  BY <1>1, SettledIs
<1>3. \A c : /\ (HasCommand(c))' <=> HasCommand(c)
             /\ (OneCommand(c))' <=> OneCommand(c)
  BY DEF HasCommand, OneCommand, Queued
<1>4. Numbered'
  <2>1. \A t \in Slots : session'[t].conn <= connections
    BY <1>0, <1>1, <1>2, FreeIs DEF Numbered, Typed
  <2> QED  BY <1>0, <2>1 DEF Numbered, Queued
<1>5. Referred'
  BY <1>0, <1>1, <1>2, FreeIs DEF Referred, Alive
<1>6. Distinct' /\ SlotKnown'
  BY <1>0, <1>1, <1>2, FreeIs DEF Distinct, SlotKnown, Alive, Queued
<1>7. Quiet'
  <2>1. ASSUME NEW t \in Slots, t # s
        PROVE  /\ session'[t] = session[t] /\ (Alive(t))' <=> Alive(t)
               /\ (HasCommand(session[t].conn))' <=> HasCommand(session[t].conn)
               /\ (OneCommand(session[t].conn))' <=> OneCommand(session[t].conn)
               /\ (Misled(session[t].conn))' <=> Misled(session[t].conn)
    BY <1>1, <1>3, <2>1, Zenon DEF Alive
  <2> QED  BY <1>0, <1>1, <1>2, <1>3, <2>1, FreeIs DEF Quiet, Alive, Handling
<1>8. Open'
  BY <1>0, <1>1, <1>2, FreeIs DEF Open, Handling
<1>9. AllKept'
  <2>1. ASSUME NEW j \in Job, Kept(j), HasCommand(j.conn)
        PROVE  (Kept(j))'
    <3>1. CASE j.conn \in expired \/ Misled(j.conn)
      BY <3>1 DEF Kept
    <3>2. CASE session[j.slot].conn = j.conn /\ ~Misled(j.conn)
      <4>1. j.slot # s
        BY <2>1, <3>2
      <4> QED  BY <1>1, <3>2, <4>1 DEF Kept, Job
    <3> QED  BY <2>1, <3>1, <3>2 DEF Kept
  <2>2. /\ \A i \in Queued : HasCommand(work_queue[i].conn)
        /\ \A w \in Workers : HasCommand(worker[w].job.conn)
    BY DEF HasCommand
  <2>3. /\ \A i \in Queued : work_queue[i] \in Job
        /\ \A w \in Workers : worker[w].job # NoJob => worker[w].job \in Job
    BY <1>0, Records
  <2> QED  BY <1>0, <2>1, <2>2, <2>3 DEF AllKept, Queued, Handling
<1> QED  BY <1>4, <1>5, <1>6, <1>7, <1>8, <1>9, Zenon DEF Inv

\* A connection is accepted: its number is new.
LEMMA AcceptStep ==
    ASSUME Inv, NEW s \in Slots, handleAccept(s)
    PROVE  Inv'
<1>0. /\ Typed /\ Numbered /\ Referred /\ Distinct /\ SlotKnown /\ Quiet /\ Open
      /\ AllKept
  BY DEF Inv
<1>n. PICK n \in Nat : n = connections + 1 /\ n # 0
  BY <1>0 DEF Typed
<1> DEFINE o == [Free EXCEPT !.conn = n, !.active = TRUE, !.listed = TRUE,
                             !.reads = 1]
<1>1. /\ o \in Record /\ o.conn = n /\ o.active /\ o.listed /\ o.reads = 1
      /\ o.writes = 0
  BY Zenon DEF Free, Record
<1>2. /\ session'[s] = o /\ ~Alive(s)
      /\ \A t \in Slots : t # s => session'[t] = session[t]
      /\ UNCHANGED <<work_queue, worker, main, expired, answered>>
      /\ connections' = n /\ Handling
  BY <1>0, <1>n DEF handleAccept, Typed, process, workers, history
<1> HIDE DEF o
<1>3. Typed'
  BY <1>0, <1>n, <1>1, <1>2 DEF handleAccept, Typed, o
<1>4. \A c : /\ (HasCommand(c))' <=> HasCommand(c)
             /\ (OneCommand(c))' <=> OneCommand(c)
             /\ (Misled(c))' <=> Misled(c)
  BY <1>2 DEF HasCommand, OneCommand, Queued, Misled
<1>5. ~HasCommand(n)
  BY <1>0, <1>n, Records DEF HasCommand, Numbered, Typed, Job, NoJob
<1>6. Numbered'
  <2>0. connections \in Nat /\ \A k \in Nat : k <= connections => k <= n
    BY <1>0, <1>n, Bounds
  <2>1. \A t \in Slots : session'[t].conn <= n
    <3>1. \A t \in Slots : session[t].conn <= n
      BY <1>0, <2>0, Bounds
    <3> QED  BY <1>1, <1>2, <3>1
  <2>2. \A i \in Queued : work_queue[i].conn <= n
    BY <1>0, <2>0, Bounds
  <2>3. \A w \in Workers : worker[w].job.conn <= n
    BY <1>0, <2>0, Bounds
  <2>4. /\ \A p \in answered : p[2] <= n
        /\ \A c \in expired : c <= n
    BY <1>0, <2>0, Bounds
  <2> QED  BY <1>2, <2>1, <2>2, <2>3, <2>4 DEF Numbered, Queued
<1>7. Referred'
  BY <1>0, <1>n, <1>1, <1>2 DEF Referred, Alive
<1>8. Distinct' /\ SlotKnown'
  <2>1. \A t \in Slots : t # s => session'[t].conn # n
    BY <1>0, <1>n, <1>2, Records DEF Numbered, Typed
  <2>2. Distinct'
    BY <1>0, <1>n, <1>1, <1>2, <2>1 DEF Distinct, Alive
  <2>3. SlotKnown'
    BY <1>0, <1>1, <1>2, <1>5, <2>1 DEF SlotKnown, Alive, Queued, HasCommand
  <2> QED  BY <2>2, <2>3, Zenon
<1>9. Quiet'
  <2>1. ASSUME NEW t \in Slots, t # s
        PROVE  /\ session'[t] = session[t] /\ (Alive(t))' <=> Alive(t)
               /\ (HasCommand(session[t].conn))' <=> HasCommand(session[t].conn)
               /\ (OneCommand(session[t].conn))' <=> OneCommand(session[t].conn)
               /\ (Misled(session[t].conn))' <=> Misled(session[t].conn)
    BY <1>2, <1>4, <2>1 DEF Alive
  <2>2. ~(HasCommand(n))' /\ (OneCommand(n))'
    BY <1>4, <1>5, ZenonT(30) DEF HasCommand, OneCommand, Queued
  <2>3. ASSUME NEW t \in Slots, (Alive(t))', ~(Misled(session[t].conn))'
        PROVE  LET p == session[t]
               IN  (/\ p.reads + p.writes <= 1
                    /\ HasCommand(p.conn) => p.reads + p.writes = 0
                    /\ p.active => p.reads + p.writes = 1 \/ HasCommand(p.conn)
                    /\ Handling /\ HasCommand(p.conn) => p.active
                    /\ OneCommand(p.conn))'
    <3>1. CASE t # s
      BY <1>0, <1>2, <2>1, <2>3, <3>1, Zenon DEF Quiet, Handling
    <3>2. CASE t = s
      <4>1. /\ session'[t].conn = n /\ session'[t].active
            /\ session'[t].reads = 1 /\ session'[t].writes = 0
        BY <1>1, <1>2, <3>2, Zenon
      <4>2. ~(HasCommand(session[t].conn))' /\ (OneCommand(session[t].conn))'
        BY <2>2, <4>1 DEF HasCommand, OneCommand, Queued
      <4> QED  BY <4>1, <4>2
    <3> QED  BY <3>1, <3>2
  <2> QED  BY <2>3 DEF Quiet
<1>10. Open'
  BY <1>0, <1>1, <1>2 DEF Open, Handling
<1>11. AllKept'
  <2>1. \A j \in Job : Kept(j) => (Kept(j))'
    <3> SUFFICES ASSUME NEW j \in Job, Kept(j) PROVE (Kept(j))'
      OBVIOUS
    <3>1. CASE session[j.slot].conn = j.conn
      <4>1. j.slot # s
        BY <1>2, <3>1 DEF Alive, Job
      <4> QED  BY <1>2, <3>1, <4>1 DEF Kept, Job
    <3> QED  BY <1>2, <1>4, <3>1 DEF Kept
  <2>2. /\ \A i \in Queued : work_queue[i] \in Job
        /\ \A w \in Workers : worker[w].job # NoJob => worker[w].job \in Job
    BY <1>0, Records
  <2> QED  BY <1>0, <1>2, <2>1, <2>2 DEF AllKept, Queued
<1> QED  BY <1>3, <1>6, <1>7, <1>8, <1>9, <1>10, <1>11 DEF Inv

\* A command is queued: its session has no other one, and reads nothing.
LEMMA QueueStep ==
    ASSUME Inv, NEW s \in Slots, Handling,
           session[s].reads > 0, session[s].active,
           session' = [session EXCEPT ![s] =
               Settled([session[s] EXCEPT !.idle = FALSE, !.reads = @ - 1])],
           queueWork([slot |-> s, conn |-> session[s].conn]),
           UNCHANGED <<main, connections, expired, answered>>
    PROVE  Inv'
<1>0. /\ Typed /\ Numbered /\ Referred /\ Distinct /\ SlotKnown /\ Quiet /\ Open
      /\ AllKept
  BY DEF Inv
<1>r. /\ session[s] \in Record /\ session[s].conn \in Nat
      /\ session[s].reads \in Nat /\ session[s].writes \in Nat
  BY <1>0, Records DEF Typed
<1>a. Alive(s)
  BY <1>0, FreeIs DEF Referred
<1>c. PICK c \in Nat : c = session[s].conn /\ c # 0
  BY <1>r, <1>a DEF Alive
<1>o. PICK o : o = [session[s] EXCEPT !.idle = FALSE, !.reads = @ - 1]
  OBVIOUS
<1>1. /\ o \in Record /\ o.conn = c /\ o.active /\ o.listed = session[s].listed
      /\ o.reads = session[s].reads - 1 /\ o.writes = session[s].writes
  <2>1. session[s].reads - 1 \in Nat
    BY <1>r
  <2> QED  BY <1>r, <1>c, <1>o, <2>1, Zenon DEF Record
<1>2. /\ session'[s] = Settled(o)
      /\ \A t \in Slots : t # s => session'[t] = session[t]
  BY <1>0, <1>o DEF Typed
<1>3. \/ session'[s] = o /\ (o.listed \/ o.reads > 0 \/ o.writes > 0)
      \/ session'[s] = Free /\ ~o.listed
  BY <1>1, <1>2, <1>c, SettledIs, FreeIs
<1>j. PICK j \in Job : j = [slot |-> s, conn |-> c]
  BY <1>c DEF Job
<1>m. PICK m : m = Len(work_queue) + 1
  OBVIOUS
<1>4. /\ work_queue' \in Seq(Job)
      /\ \A i \in Queued : i \in Queued' /\ work_queue'[i] = work_queue[i]
      /\ \A i \in Queued' : i \in Queued \/ i = m
      /\ m \in Queued' /\ m \notin Queued /\ work_queue'[m] = j
  <2>1. /\ work_queue \in Seq(Job) /\ Len(work_queue) \in Nat
        /\ work_queue' = Append(work_queue, j)
    BY <1>0, <1>j, <1>c, Records DEF queueWork, Typed
  <2> QED  BY <2>1, <1>m DEF Queued
<1>5. /\ \A w \in Workers : worker'[w].job = worker[w].job
      /\ worker' \in [Workers ->
             [at  : {"test", "lock", "wait", "run", "respond", "exited"},
              job : Job \cup {NoJob}]]
      /\ \A w \in Workers : worker'[w].at \in {"run", "respond"}
                               <=> worker'[w].job # NoJob
  <2>1. CASE UNCHANGED worker
    BY <1>0, <2>1 DEF Typed
  <2>2. CASE \E w \in Waiting : worker' = [worker EXCEPT ![w].at = "lock"]
    <3>1. PICK w \in Workers : /\ worker[w].at = "wait"
                               /\ worker' = [worker EXCEPT ![w].at = "lock"]
      BY <2>2, Zenon DEF Waiting
    <3> QED  BY <1>0, <3>1 DEF Typed
  <2> QED  BY <2>1, <2>2 DEF queueWork
<1>6. Typed'
  BY <1>0, <1>1, <1>2, <1>4, <1>5, SettledIs DEF Typed
<1>7. ASSUME NEW d, d # c
      PROVE  /\ (HasCommand(d))' <=> HasCommand(d)
             /\ OneCommand(d) => (OneCommand(d))'
             /\ (Misled(d))' <=> Misled(d)
  <2>1. j.conn = c
    BY <1>j
  <2>2. (HasCommand(d))' <=> HasCommand(d)
    BY <1>4, <1>5, <1>7, <2>1, Zenon DEF HasCommand
  <2>3. \A i \in Queued' : work_queue'[i].conn = d
                              => i \in Queued /\ work_queue[i].conn = d
    BY <1>4, <1>7, <2>1
  <2>4. OneCommand(d) => (OneCommand(d))'
    BY <1>5, <2>3 DEF OneCommand
  <2> QED  BY <2>2, <2>4 DEF Misled
<1>8. (HasCommand(c))' /\ ((Misled(c))' <=> Misled(c))
  BY <1>4, <1>j DEF HasCommand, Misled
<1>9. ~Misled(c) => ~HasCommand(c) /\ session[s].reads = 1 /\ session[s].writes = 0
  BY <1>0, <1>a, <1>c, <1>r DEF Quiet
<1>10. ~Misled(c) => (OneCommand(c))'
  <2> SUFFICES ASSUME ~HasCommand(c) PROVE (OneCommand(c))'
    BY <1>9
  <2>1. \A i \in Queued' : work_queue'[i].conn = c => i = m
    BY <1>4 DEF HasCommand
  <2>2. \A w \in Workers : worker'[w].job.conn # c
    BY <1>5 DEF HasCommand
  <2> QED  BY <2>1, <2>2 DEF OneCommand
<1>11. Numbered'
  <2>1. \A t \in Slots : session'[t].conn <= connections
    BY <1>0, <1>1, <1>2, <1>3, <1>c, FreeIs DEF Numbered, Typed
  <2>2. \A i \in Queued' : work_queue'[i].conn <= connections
    BY <1>0, <1>4, <1>j, <1>c DEF Numbered
  <2> QED  BY <1>0, <1>5, <2>1, <2>2, Zenon DEF Numbered
<1>12. Referred'
  <2>1. ASSUME NEW t \in Slots, t # s
        PROVE  session'[t] = session[t]
    BY <1>2, <2>1
  <2>2. session'[s] = Free \/ (/\ session'[s].conn # 0
                              /\ \/ session'[s].listed \/ session'[s].reads > 0
                                 \/ session'[s].writes > 0)
    BY <1>1, <1>3, <1>c, Zenon
  <2>3. ASSUME NEW t \in Slots
        PROVE  IF session'[t].conn # 0
               THEN session'[t].listed \/ session'[t].reads > 0
                       \/ session'[t].writes > 0
               ELSE session'[t] = Free
    <3>1. CASE t = s
      BY <2>2, <3>1, FreeIs
    <3>2. CASE t # s
      BY <1>0, <2>1, <3>2 DEF Referred, Alive
    <3> QED  BY <3>1, <3>2
  <2> QED  BY <2>3 DEF Referred, Alive
<1>13. Distinct'
  <2>1. \A t \in Slots : session'[t].conn = session[t].conn \/ session'[t].conn = 0
    BY <1>1, <1>2, <1>3, <1>c, FreeIs, ZenonT(30)
  <2> QED  BY <1>0, <2>1 DEF Distinct, Alive
<1>14. \A t \in Slots : t # s /\ Alive(t) => session[t].conn # c
  BY <1>0, <1>c DEF Distinct
<1>15. SlotKnown'
  <2>0. ASSUME NEW t \in Slots, (Alive(t))'
        PROVE  session'[t].conn = session[t].conn /\ Alive(t)
    <3>1. CASE t = s
      BY <1>1, <1>3, <1>c, <1>a, <2>0, <3>1, FreeIs, Zenon DEF Alive
    <3>2. CASE t # s
      BY <1>2, <2>0, <3>2 DEF Alive
    <3> QED  BY <3>1, <3>2
  <2>1. ASSUME NEW t \in Slots, (Alive(t))', NEW i \in Queued',
               work_queue'[i].conn = session'[t].conn
        PROVE  work_queue'[i].slot = t
    <3>1. session'[t].conn = session[t].conn /\ Alive(t)
      BY <2>0, <2>1
    <3>2. CASE i \in Queued
      BY <1>0, <1>4, <2>1, <3>1, <3>2 DEF SlotKnown
    <3>3. CASE i = m
      BY <1>4, <1>j, <1>14, <2>1, <3>1, <3>3
    <3> QED  BY <1>4, <3>2, <3>3, Zenon
  <2>2. ASSUME NEW t \in Slots, (Alive(t))', NEW w \in Workers,
               worker'[w].job.conn = session'[t].conn
        PROVE  worker'[w].job.slot = t
    <3>1. session'[t].conn = session[t].conn /\ Alive(t)
      BY <2>0, <2>2, Zenon
    <3> QED  BY <1>0, <1>5, <2>2, <3>1 DEF SlotKnown
  <2> QED  BY <2>1, <2>2, Zenon DEF SlotKnown
<1>16. Quiet'
  <2>1. ASSUME NEW t \in Slots, t # s, (Alive(t))'
        PROVE  /\ session'[t] = session[t] /\ Alive(t)
               /\ (HasCommand(session[t].conn))' <=> HasCommand(session[t].conn)
               /\ OneCommand(session[t].conn) => (OneCommand(session[t].conn))'
               /\ (Misled(session[t].conn))' <=> Misled(session[t].conn)
    BY <1>2, <1>7, <1>14, <2>1 DEF Alive
  <2>2. \/ ~(Alive(s))'
        \/ session'[s] = o
    BY <1>3, FreeIs, Zenon DEF Alive
  <2>3. ASSUME NEW t \in Slots, (Alive(t))', ~(Misled(session[t].conn))'
        PROVE  LET p == session[t]
               IN  (/\ p.reads + p.writes <= 1
                    /\ HasCommand(p.conn) => p.reads + p.writes = 0
                    /\ p.active => p.reads + p.writes = 1 \/ HasCommand(p.conn)
                    /\ Handling /\ HasCommand(p.conn) => p.active
                    /\ OneCommand(p.conn))'
    <3>1. CASE t # s
      BY <1>0, <2>1, <2>3, <3>1, Zenon DEF Quiet, Handling
    <3>2. CASE t = s
      BY <1>1, <1>8, <1>9, <1>10, <2>2, <2>3, <3>2
    <3> QED  BY <3>1, <3>2
  <2> QED  BY <2>3 DEF Quiet
<1>17. Open'
  <2>1. ASSUME NEW t \in Slots, session'[t].active
        PROVE  session'[t].listed \/ session'[t].conn \in expired
    <3>1. CASE t = s
      BY <1>0, <1>1, <1>3, <1>c, <2>1, <3>1, FreeIs, Zenon DEF Open
    <3>2. CASE t # s
      BY <1>0, <1>2, <2>1, <3>2 DEF Open
    <3> QED  BY <3>1, <3>2
  <2> QED  BY <2>1 DEF Open, Handling
<1>18. AllKept'
  <2>1. ASSUME NEW k \in Job, Kept(k), HasCommand(k.conn)
        PROVE  (Kept(k))'
    <3>1. CASE k.conn \in expired \/ Misled(k.conn)
      BY <3>1 DEF Kept, Misled
    <3>2. CASE session[k.slot].conn = k.conn /\ ~Misled(k.conn)
      <4>1. k.slot # s
        BY <1>9, <1>c, <2>1, <3>2
      <4> QED  BY <1>2, <3>2, <4>1 DEF Kept, Job
    <3> QED  BY <2>1, <3>1, <3>2 DEF Kept
  <2>2. /\ \A i \in Queued : HasCommand(work_queue[i].conn)
        /\ \A w \in Workers : HasCommand(worker[w].job.conn)
    BY DEF HasCommand
  <2>3. /\ \A i \in Queued : work_queue[i] \in Job
        /\ \A w \in Workers : worker[w].job # NoJob => worker[w].job \in Job
    BY <1>0, Records
  <2>4. (Kept(j))'
    BY <1>0, <1>1, <1>2, <1>3, <1>c, <1>j DEF Kept, Open
  <2>5. \A i \in Queued' : (Kept(work_queue[i]))'
    <3> SUFFICES ASSUME NEW i \in Queued' PROVE (Kept(work_queue[i]))'
      OBVIOUS
    <3>1. CASE i = m
      BY <1>4, <2>4, <3>1 DEF Kept, Misled
    <3>2. CASE i \in Queued
      <4>1. PICK k \in Job : k = work_queue[i]
        BY <2>3, <3>2
      <4>2. Kept(k) /\ HasCommand(k.conn) /\ work_queue'[i] = k
        BY <1>0, <1>4, <2>2, <3>2, <4>1 DEF AllKept
      <4>3. (Kept(k))'
        BY <2>1, <4>2
      <4> QED  BY <4>2, <4>3 DEF Kept, Misled
    <3> QED  BY <1>4, <3>1, <3>2
  <2>6. \A w \in Workers : worker'[w].job # NoJob => (Kept(worker[w].job))'
    <3> SUFFICES ASSUME NEW w \in Workers, worker'[w].job # NoJob
                 PROVE  (Kept(worker[w].job))'
      OBVIOUS
    <3>1. PICK k \in Job : k = worker[w].job
      BY <1>5, <2>3
    <3>2. Kept(k) /\ HasCommand(k.conn) /\ worker'[w].job = k
      BY <1>0, <1>5, <2>2, <3>1 DEF AllKept
    <3>3. (Kept(k))'
      BY <2>1, <3>2
    <3> QED  BY <3>2, <3>3 DEF Kept, Misled
  <2> QED  BY <2>5, <2>6 DEF AllKept
<1> QED  BY <1>6, <1>11, <1>12, <1>13, <1>15, <1>16, <1>17, <1>18 DEF Inv

\* A message arrives: the command is queued, or the answer is written at once.
LEMMA MessageStep ==
    ASSUME Inv, NEW s \in Slots, handleMessage(s)
    PROVE  Inv'
<1>0. Typed /\ Numbered /\ Referred /\ Quiet
  BY Zenon DEF Inv
<1>r. /\ session[s] \in Record /\ session[s].conn \in Nat
      /\ session[s].reads \in Nat /\ session[s].writes \in Nat
  BY <1>0, Records DEF Typed
<1>g. /\ Handling /\ session[s].reads > 0 /\ session[s].active
      /\ UNCHANGED <<main, connections, expired>>
  BY DEF handleMessage, process
<1>a. Alive(s)
  BY <1>0, <1>g, FreeIs DEF Referred
<1>1. CASE /\ queueWork([slot |-> s, conn |-> session[s].conn])
           /\ session' = [session EXCEPT ![s] =
                  Settled([session[s] EXCEPT !.idle = FALSE, !.reads = @ - 1])]
           /\ UNCHANGED answered
  BY <1>g, <1>1, QueueStep, Zenon
<1>2. CASE /\ session' = [session EXCEPT ![s] =
                  [session[s] EXCEPT !.idle = FALSE, !.reads = @ - 1,
                                     !.writes = @ + 1]]
           /\ answered' = answered \cup {<<session[s].conn, session[s].conn>>}
           /\ UNCHANGED <<work_queue, worker>>
  <2>o. PICK o : o = [session[s] EXCEPT !.idle = FALSE, !.reads = @ - 1,
                                        !.writes = @ + 1]
    OBVIOUS
  <2>1. /\ o \in Record /\ o.conn = session[s].conn
        /\ o.active /\ o.listed = session[s].listed
        /\ o.reads = session[s].reads - 1 /\ o.writes = session[s].writes + 1
    <3>1. session[s].reads - 1 \in Nat /\ session[s].writes + 1 \in Nat
      BY <1>r, <1>g
    <3> QED  BY <1>r, <1>g, <2>o, <3>1, Zenon DEF Record
  <2>2. Settled(o) = o
    BY <1>r, <2>1 DEF Settled
  <2>3. Typed'
    BY <1>0, <1>r, <1>g, <1>2, <2>o, <2>1 DEF Typed
  <2>4. \A c : (Misled(c))' <=> Misled(c)
    BY <1>2 DEF Misled
  <2>5. \A p \in answered' : p[2] <= connections
    BY <1>0, <1>2 DEF Numbered
  <2>6. \/ Misled(o.conn)
        \/ /\ o.reads + o.writes <= 1 /\ ~HasCommand(o.conn)
           /\ o.active => o.reads + o.writes = 1
    <3>1. CASE Misled(o.conn)
      BY <3>1
    <3>2. CASE ~Misled(o.conn)
      <4>1. /\ session[s].reads + session[s].writes <= 1
            /\ HasCommand(o.conn) => session[s].reads + session[s].writes = 0
        BY <1>0, <1>a, <2>1, <3>2 DEF Quiet
      <4>2. session[s].reads = 1 /\ session[s].writes = 0 /\ ~HasCommand(o.conn)
        BY <1>r, <1>g, <4>1, Sums
      <4> QED  BY <2>1, <4>2
    <3> QED  BY <3>1, <3>2
  <2>7. session' = [session EXCEPT ![s] = Settled(o)]
    BY <1>2, <2>2, <2>o
  <2> QED  BY <1>a, <1>g, <1>2, <2>1, <2>3, <2>4, <2>5, <2>6, <2>7, SessionStep, Zenon
<1> QED  BY <1>1, <1>2 DEF handleMessage

\* A read or a write ends, with an error or not.
LEMMA EndStep ==
    ASSUME Inv, NEW s \in Slots, fail(s) \/ written(s)
    PROVE  Inv'
<1>0. Typed /\ Numbered /\ Referred /\ Quiet
  BY DEF Inv
<1>r. /\ session[s] \in Record /\ session[s].conn \in Nat
      /\ session[s].reads \in Nat /\ session[s].writes \in Nat
  BY <1>0, Records DEF Typed
<1>g. /\ Handling /\ (session[s].reads > 0 \/ session[s].writes > 0)
      /\ UNCHANGED <<main, work_queue, worker, connections, expired, answered>>
  BY DEF fail, written, process, workers, counts, history
<1>a. Alive(s)
  BY <1>0, <1>g, FreeIs DEF Referred
<1>q. Misled(session[s].conn) \/ (/\ session[s].reads + session[s].writes = 1
                                  /\ ~HasCommand(session[s].conn))
  BY <1>0, <1>r, <1>g, <1>a DEF Quiet
<1>1. ASSUME NEW o \in Record, session' = [session EXCEPT ![s] = Settled(o)],
             o.conn = session[s].conn, o.listed = session[s].listed,
             \/ ~o.active /\ o.reads + o.writes = session[s].reads + session[s].writes - 1
             \/ session[s].active /\ o.reads + o.writes = session[s].reads + session[s].writes
      PROVE  Inv'
  <2>1. Typed'
    <3>1. Settled(o) \in Record
      BY SettledIs, Zenon
    <3> QED  BY <1>0, <1>g, <1>1, <3>1 DEF Typed
  <2>2. \/ Misled(o.conn)
        \/ /\ o.reads + o.writes <= 1 /\ ~HasCommand(o.conn)
           /\ o.active => o.reads + o.writes = 1
    <3>1. o.reads \in Nat /\ o.writes \in Nat
      BY DEF Record
    <3> QED  BY <1>r, <1>q, <1>1, <3>1
  <2>3. \A c : (Misled(c))' <=> Misled(c)
    BY <1>g DEF Misled
  <2>4. \A p \in answered' : p[2] <= connections
    BY <1>0, <1>g DEF Numbered
  <2> QED  BY <1>a, <1>g, <1>1, <2>1, <2>2, <2>3, <2>4, SessionStep, Zenon
<1>2. CASE /\ session[s].reads > 0
           /\ session' = [session EXCEPT ![s] =
                  Settled([session[s] EXCEPT !.active = FALSE, !.reads = @ - 1])]
  <2>o. PICK o : o = [session[s] EXCEPT !.active = FALSE, !.reads = @ - 1]
    OBVIOUS
  <2>1. session[s].reads - 1 \in Nat
    BY <1>r, <1>2
  <2>2. /\ o \in Record /\ o.conn = session[s].conn /\ o.listed = session[s].listed
        /\ ~o.active /\ o.reads = session[s].reads - 1
        /\ o.writes = session[s].writes
    BY <1>r, <2>o, <2>1, Zenon DEF Record
  <2>3. session' = [session EXCEPT ![s] = Settled(o)]
    BY <1>2, <2>o
  <2>4. o.reads + o.writes = session[s].reads + session[s].writes - 1
    BY <1>r, <2>2
  <2> QED  BY <1>1, <2>2, <2>3, <2>4, Zenon
<1>3. CASE /\ session[s].writes > 0
           /\ session' = [session EXCEPT ![s] =
                  Settled([session[s] EXCEPT !.active = FALSE, !.writes = @ - 1])]
  <2>o. PICK o : o = [session[s] EXCEPT !.active = FALSE, !.writes = @ - 1]
    OBVIOUS
  <2>1. session[s].writes - 1 \in Nat
    BY <1>r, <1>3
  <2>2. /\ o \in Record /\ o.conn = session[s].conn /\ o.listed = session[s].listed
        /\ ~o.active /\ o.writes = session[s].writes - 1
        /\ o.reads = session[s].reads
    BY <1>r, <2>o, <2>1, Zenon DEF Record
  <2>3. session' = [session EXCEPT ![s] = Settled(o)]
    BY <1>3, <2>o
  <2>4. o.reads + o.writes = session[s].reads + session[s].writes - 1
    BY <1>r, <2>2
  <2> QED  BY <1>1, <2>2, <2>3, <2>4, Zenon
<1>4. CASE written(s)
  <2>g. session[s].writes > 0 /\ session[s].active
    BY <1>4 DEF written
  <2>o. PICK o : o = [session[s] EXCEPT !.writes = @ - 1, !.reads = @ + 1]
    OBVIOUS
  <2>1. session[s].writes - 1 \in Nat /\ session[s].reads + 1 \in Nat
    BY <1>r, <2>g
  <2>2. /\ o \in Record /\ o.conn = session[s].conn /\ o.listed = session[s].listed
        /\ o.writes = session[s].writes - 1 /\ o.reads = session[s].reads + 1
    BY <1>r, <2>o, <2>1, Zenon DEF Record
  <2>3. Settled(o) = o
    BY <1>r, <2>2 DEF Settled
  <2>4. session' = [session EXCEPT ![s] = Settled(o)]
    BY <1>0, <1>4, <2>3, <2>o, Zenon DEF written, Typed
  <2>5. o.reads + o.writes = session[s].reads + session[s].writes
    BY <1>r, <2>2
  <2> QED  BY <1>1, <2>g, <2>2, <2>4, <2>5, Zenon
<1> QED  BY <1>2, <1>3, <1>4 DEF fail

\* Taking the last element of a queue.
LEMMA FrontIs ==
    ASSUME NEW S, NEW q \in Seq(S), q # <<>>
    PROVE  LET f == SubSeq(q, 1, Len(q) - 1)
           IN  /\ f \in Seq(S) /\ q[Len(q)] \in S /\ Len(q) \in 1..Len(q)
               /\ \A i : i \in 1..Len(f) <=> i \in 1..Len(q) /\ i # Len(q)
               /\ \A i \in 1..Len(f) : f[i] = q[i]
<1> DEFINE f == SubSeq(q, 1, Len(q) - 1)
<1>1. PICK n \in Nat : n = Len(q) /\ n > 0
  OBVIOUS
<1>2. f \in Seq(S) /\ Len(f) = n - 1 /\ \A i \in 1..(n - 1) : f[i] = q[i]
  <2>1. CASE n = 1
    BY <1>1, <2>1
  <2>2. CASE n > 1
    <3>1. Len(f) = n - 1
      BY <1>1, <2>2
    <3>2. \A i \in 1..(n - 1) : f[i] = q[i]
      BY <1>1, <2>2
    <3>3. f \in Seq(S)
      BY <1>1, <2>2
    <3> QED  BY <3>1, <3>2, <3>3
  <2>3. n = 1 \/ n > 1
    BY <1>1
  <2> QED  BY <2>1, <2>2, <2>3
<1>3. q[n] \in S
  BY <1>1
<1> HIDE DEF f
<1>4. n \in 1..n /\ \A i : i \in 1..(n - 1) <=> i \in 1..n /\ i # n
  BY <1>1
<1> QED  BY <1>1, <1>2, <1>3, <1>4 DEF f

\* A worker takes the newest command: it is in its hands instead of the queue.
LEMMA TakeStep ==
    ASSUME Inv, NEW w \in Workers, WorkerLock(w), work_queue # <<>>
    PROVE  Inv'
<1>0. /\ Typed /\ Numbered /\ Referred /\ Distinct /\ SlotKnown /\ Quiet /\ Open
      /\ AllKept
  BY DEF Inv
<1>g. UNCHANGED <<session, main, connections, expired, answered>>
  BY DEF WorkerLock, process, counts, history
<1>m. PICK m : m = Len(work_queue)
  BY Zenon
<1>1. /\ m \in Queued /\ work_queue[m] \in Job /\ work_queue' \in Seq(Job)
      /\ \A i \in Queued' : i \in Queued /\ i # m /\ work_queue'[i] = work_queue[i]
      /\ \A i \in Queued : i # m => i \in Queued'
  <2>1. /\ work_queue \in Seq(Job)
        /\ work_queue' = SubSeq(work_queue, 1, Len(work_queue) - 1)
    BY <1>0 DEF WorkerLock, Typed
  <2> QED  BY <1>m, <2>1, FrontIs DEF Queued
<1>j. PICK j \in Job : j = work_queue[m]
  BY <1>1
<1>2. /\ worker'[w].job = j /\ worker'[w].at = "run" /\ worker[w].job = NoJob
      /\ \A v \in Workers : v # w => worker'[v] = worker[v]
  <2>1. /\ worker[w].at = "lock"
        /\ worker' = [worker EXCEPT ![w] = [at |-> "run", job |-> j]]
    BY <1>j, <1>m DEF WorkerLock
  <2> QED  BY <1>0, <2>1 DEF Typed
<1>3. j.conn # 0 /\ NoJob.conn = 0 /\ j # NoJob
  BY DEF Job, NoJob
<1>4. Typed'
  <2>1. worker' = [worker EXCEPT ![w] = [at |-> "run", job |-> j]]
    BY <1>j, <1>m DEF WorkerLock
  <2> QED  BY <1>0, <1>g, <1>1, <1>2, <1>3, <2>1 DEF Typed
<1>5. ASSUME NEW c, c # 0
      PROVE  (HasCommand(c))' <=> HasCommand(c)
  <2>1. ASSUME (HasCommand(c))' PROVE HasCommand(c)
    <3>1. CASE \E i \in Queued' : work_queue'[i].conn = c
      BY <1>1, <3>1, Zenon DEF HasCommand
    <3>2. CASE \E v \in Workers : worker'[v].job.conn = c
      BY <1>1, <1>2, <1>j, <3>2 DEF HasCommand
    <3> QED  BY <2>1, <3>1, <3>2 DEF HasCommand
  <2>2. ASSUME HasCommand(c) PROVE (HasCommand(c))'
    <3>1. CASE \E i \in Queued : work_queue[i].conn = c
      <4>1. PICK i \in Queued : work_queue[i].conn = c
        BY <3>1
      <4>2. CASE i = m
        BY <1>2, <1>j, <4>1, <4>2 DEF HasCommand
      <4>3. CASE i # m
        BY <1>1, <4>1, <4>3, Zenon DEF HasCommand
      <4> QED  BY <4>2, <4>3
    <3>2. CASE \E v \in Workers : worker[v].job.conn = c
      BY <1>2, <1>3, <1>5, <3>2 DEF HasCommand
    <3> QED  BY <2>2, <3>1, <3>2 DEF HasCommand
  <2> QED  BY <2>1, <2>2
<1>6. ASSUME NEW c, c # 0, OneCommand(c)
      PROVE  (OneCommand(c))'
  <2>1. \A i, k \in Queued' :
           work_queue'[i].conn = c /\ work_queue'[k].conn = c => i = k
    BY <1>1, <1>6 DEF OneCommand
  <2>2. \A u, v \in Workers :
           worker'[u].job.conn = c /\ worker'[v].job.conn = c => u = v
    <3>1. \A v \in Workers : v # w /\ worker'[v].job.conn = c => j.conn # c
      BY <1>1, <1>2, <1>6, <1>j, Zenon DEF OneCommand
    <3>2. \A u, v \in Workers :
             u # w /\ v # w /\ worker'[u].job.conn = c /\ worker'[v].job.conn = c
                => u = v
      BY <1>2, <1>6 DEF OneCommand
    <3> QED  BY <1>2, <3>1, <3>2, Zenon
  <2>3. \A i \in Queued', v \in Workers :
           ~(work_queue'[i].conn = c /\ worker'[v].job.conn = c)
    <3> SUFFICES ASSUME NEW i \in Queued', NEW v \in Workers,
                        work_queue'[i].conn = c, worker'[v].job.conn = c
                 PROVE  FALSE
      OBVIOUS
    <3>1. i \in Queued /\ i # m /\ work_queue[i].conn = c
      BY <1>1, Zenon
    <3>2. CASE v = w
      BY <1>1, <1>2, <1>6, <1>j, <3>1, <3>2, ZenonT(30) DEF OneCommand
    <3>3. CASE v # w
      BY <1>2, <1>6, <3>1, <3>3, Zenon DEF OneCommand
    <3> QED  BY <3>2, <3>3
  <2> QED  BY <2>1, <2>2, <2>3 DEF OneCommand
<1>7. Numbered'
  BY <1>0, <1>g, <1>1, <1>2, <1>j DEF Numbered
<1>8. Referred' /\ Distinct'
  BY <1>0, <1>g DEF Referred, Distinct, Alive
<1>9. SlotKnown'
  <2> SUFFICES ASSUME NEW s \in Slots, Alive(s)
               PROVE  /\ \A i \in Queued' : work_queue'[i].conn = session[s].conn
                                              => work_queue'[i].slot = s
                      /\ \A v \in Workers : worker'[v].job.conn = session[s].conn
                                              => worker'[v].job.slot = s
    BY <1>g DEF SlotKnown, Alive
  <2>1. \A i \in Queued : work_queue[i].conn = session[s].conn
                             => work_queue[i].slot = s
    BY <1>0 DEF SlotKnown
  <2>2. \A v \in Workers : worker[v].job.conn = session[s].conn
                              => worker[v].job.slot = s
    BY <1>0 DEF SlotKnown
  <2>3. \A i \in Queued' : work_queue'[i].conn = session[s].conn
                              => work_queue'[i].slot = s
    BY <1>1, <2>1
  <2>4. \A v \in Workers : worker'[v].job.conn = session[s].conn
                              => worker'[v].job.slot = s
    BY <1>1, <1>2, <1>j, <2>1, <2>2
  <2> QED  BY <2>3, <2>4, Zenon
<1>10. Quiet'
  <2>1. \A c : (Misled(c))' <=> Misled(c)
    BY <1>g DEF Misled
  <2> QED  BY <1>0, <1>g, <1>5, <1>6, <2>1 DEF Quiet, Alive, Handling
<1>11. Open'
  BY <1>0, <1>g, Zenon DEF Open, Handling
<1>12. AllKept'
  <2>1. \A k : (Kept(k))' <=> Kept(k)
    BY <1>g DEF Kept, Misled
  <2>2. Handling => /\ \A i \in Queued' : Kept(work_queue'[i])
                    /\ \A v \in Workers : worker'[v].job # NoJob => Kept(worker'[v].job)
    BY <1>0, <1>1, <1>2, <1>j DEF AllKept
  <2> QED  BY <1>g, <2>1, <2>2 DEF AllKept, Kept, Misled, Handling
<1> QED  BY <1>4, <1>7, <1>8, <1>9, <1>10, <1>11, <1>12, Zenon DEF Inv

\* A worker answers: its session writes, or another one is misled, or none is
\* there any more.
LEMMA RespondStep ==
    ASSUME Inv, NEW w \in Workers, WorkerRespond(w)
    PROVE  Inv'
<1>0. /\ Typed /\ Numbered /\ Referred /\ Distinct /\ SlotKnown /\ Quiet /\ Open
      /\ AllKept
  BY DEF Inv
<1>g. /\ UNCHANGED <<work_queue, connections, expired>>
      /\ main' = main \/ main' = "crashed"
  BY Zenon DEF WorkerRespond, counts
<1>j. PICK j \in Job : j = worker[w].job
  BY <1>0, Records DEF WorkerRespond, Typed
<1>s. PICK s \in Slots : s = j.slot
  BY DEF Job
<1>1. j.conn \in Nat /\ j.conn # 0 /\ NoJob.conn = 0
  BY Zenon DEF Job, NoJob
<1>2. /\ worker'[w].job = NoJob
      /\ \A v \in Workers : v # w => worker'[v] = worker[v]
      /\ worker' \in [Workers ->
             [at  : {"test", "lock", "wait", "run", "respond", "exited"},
              job : Job \cup {NoJob}]]
      /\ \A v \in Workers : worker'[v].at \in {"run", "respond"}
                               <=> worker'[v].job # NoJob
  BY <1>0 DEF WorkerRespond, Typed
<1>3. \/ /\ session[s].active /\ main' = main
         /\ session' = [session EXCEPT ![s].writes = @ + 1]
         /\ answered' = answered \cup {<<j.conn, session[s].conn>>}
      \/ /\ ~session[s].active /\ main' = main /\ UNCHANGED <<session, answered>>
      \/ /\ session[s].conn # j.conn /\ main' = "crashed"
         /\ UNCHANGED <<session, answered>>
  BY <1>j, <1>s, Zenon DEF WorkerRespond, writeResponse
<1>4. /\ session' \in [Slots -> Record]
      /\ \A t \in Slots :
            /\ session'[t].conn = session[t].conn
            /\ session'[t].active = session[t].active
            /\ session'[t].listed = session[t].listed
            /\ session'[t].reads = session[t].reads
            /\ t # s => session'[t] = session[t]
      /\ \/ session' = session /\ (~session[s].active \/ session[s].conn # j.conn)
         \/ /\ session[s].active /\ session'[s].writes = session[s].writes + 1
            /\ <<j.conn, session[s].conn>> \in answered'
  <2>1. CASE /\ session[s].active
             /\ session' = [session EXCEPT ![s].writes = @ + 1]
             /\ answered' = answered \cup {<<j.conn, session[s].conn>>}
    <3>1. PICK o : o = [session[s] EXCEPT !.writes = @ + 1]
      BY Zenon
    <3>2. session[s] \in Record /\ session[s].writes + 1 \in Nat
      BY <1>0, Records DEF Typed
    <3>3. /\ o \in Record /\ o.conn = session[s].conn /\ o.active = session[s].active
          /\ o.listed = session[s].listed /\ o.reads = session[s].reads
          /\ o.writes = session[s].writes + 1
      BY <3>1, <3>2 DEF Record
    <3>4. session' = [session EXCEPT ![s] = o]
      BY <1>0, <2>1, <3>1 DEF Typed
    <3>5. <<j.conn, session[s].conn>> \in answered'
      BY <2>1, Zenon
    <3> QED  BY <1>0, <2>1, <3>3, <3>4, <3>5 DEF Typed
  <2>2. CASE /\ UNCHANGED session
             /\ ~session[s].active \/ session[s].conn # j.conn
    BY <1>0, <2>2 DEF Typed
  <2> QED  BY <1>3, <2>1, <2>2
<1>5. /\ answered' \subseteq Nat \X Nat
      /\ \A p \in answered : p \in answered'
      /\ \A p \in answered' : p[2] <= connections
  <2>1. session[s].conn \in Nat
    BY <1>0, Records, Zenon
  <2> QED  BY <1>0, <1>1, <1>3, <2>1 DEF Typed, Numbered
<1>6. Typed'
  BY <1>0, <1>g, <1>2, <1>4, <1>5, Zenon DEF Typed
<1>7. \A c : Misled(c) => (Misled(c))'
  BY <1>5 DEF Misled
<1>8. ASSUME NEW c, c # 0
      PROVE  /\ (HasCommand(c))' => HasCommand(c)
             /\ c # j.conn /\ HasCommand(c) => (HasCommand(c))'
             /\ OneCommand(c) => (OneCommand(c))'
             /\ c = j.conn => HasCommand(c) /\ (OneCommand(c) => ~(HasCommand(c))')
  <2>1. /\ (HasCommand(c))' => HasCommand(c)
        /\ c = j.conn => HasCommand(c)
    BY <1>g, <1>1, <1>2, <1>8, <1>j, Zenon DEF HasCommand, Queued
  <2>2. c # j.conn /\ HasCommand(c) => (HasCommand(c))'
    BY <1>g, <1>2, <1>j, Zenon DEF HasCommand, Queued
  <2>3. OneCommand(c) => (OneCommand(c))'
    BY <1>g, <1>1, <1>2, <1>8 DEF OneCommand, Queued
  <2>4. c = j.conn /\ OneCommand(c) => ~(HasCommand(c))'
    BY <1>g, <1>1, <1>2, <1>8, <1>j, ZenonT(30) DEF OneCommand, HasCommand, Queued
  <2> QED  BY <2>1, <2>2, <2>3, <2>4, Zenon
<1>9. Numbered'
  <2>1. \A t \in Slots : session'[t].conn <= connections
    BY <1>0, <1>4, Bounds, Zenon
  <2>2. \A v \in Workers : worker'[v].job.conn <= connections
    <3>1. NoJob.conn <= connections
      BY <1>0, <1>1, Bounds
    <3> QED  BY <1>0, <1>2, <3>1, Bounds, Zenon
  <2>3. /\ \A i \in Queued' : work_queue'[i].conn <= connections
        /\ \A c \in expired' : c <= connections
    BY <1>0, <1>g, Bounds, Zenon DEF Queued
  <2> QED  BY <1>g, <1>5, <2>1, <2>2, <2>3, Zenon DEF Numbered
<1>10. Referred'
  <2>1. ASSUME NEW t \in Slots, session'[t] = session[t]
        PROVE  IF session'[t].conn # 0
               THEN session'[t].listed \/ session'[t].reads > 0
                       \/ session'[t].writes > 0
               ELSE session'[t] = Free
    BY <1>0, <2>1, Zenon DEF Referred, Alive
  <2>2. CASE session[s].active /\ session'[s].writes = session[s].writes + 1
    <3>1. session[s].conn # 0 /\ session[s].writes \in Nat
      BY <1>0, <2>2, FreeIs, Records, Zenon DEF Referred, Alive
    <3> QED  BY <1>4, <2>1, <2>2, <3>1 DEF Referred, Alive
  <2> QED  BY <1>4, <2>1, <2>2, Zenon DEF Referred, Alive
<1>11. Distinct'
  BY <1>0, <1>4 DEF Distinct, Alive
<1>12. SlotKnown'
  <2> SUFFICES ASSUME NEW t \in Slots, (Alive(t))'
               PROVE  (/\ \A i \in Queued : work_queue[i].conn = session[t].conn
                                               => work_queue[i].slot = t
                       /\ \A v \in Workers : worker[v].job.conn = session[t].conn
                                               => worker[v].job.slot = t)'
    BY DEF SlotKnown
  <2>1. Alive(t) /\ session'[t].conn = session[t].conn /\ session[t].conn # 0
    BY <1>4, Zenon DEF Alive
  <2>2. \A i \in Queued' : work_queue'[i].conn = session'[t].conn
                              => work_queue'[i].slot = t
    <3>1. \A i \in Queued : work_queue[i].conn = session[t].conn
                              => work_queue[i].slot = t
      BY <1>0, <2>1 DEF SlotKnown
    <3>2. Queued' = Queued
      BY <1>g, Zenon DEF Queued
    <3> QED  BY <1>g, <2>1, <3>1, <3>2, Zenon
  <2>3. \A v \in Workers : worker'[v].job.conn = session'[t].conn
                              => worker'[v].job.slot = t
    <3>1. \A v \in Workers : worker[v].job.conn = session[t].conn
                                => worker[v].job.slot = t
      BY <1>0, <2>1, Zenon DEF SlotKnown
    <3> QED  BY <1>1, <1>2, <2>1, <3>1, Zenon
  <2> QED  BY <2>2, <2>3
<1>13. Quiet'
  <2> SUFFICES ASSUME NEW t \in Slots, (Alive(t))', ~(Misled(session[t].conn))'
               PROVE  LET p == session[t]
                      IN  (/\ p.reads + p.writes <= 1
                           /\ HasCommand(p.conn) => p.reads + p.writes = 0
                           /\ p.active => p.reads + p.writes = 1 \/ HasCommand(p.conn)
                           /\ Handling /\ HasCommand(p.conn) => p.active
                           /\ OneCommand(p.conn))'
    BY Zenon DEF Quiet
  <2>c. PICK c \in Nat : c = session[t].conn /\ c = session'[t].conn /\ c # 0
    BY <1>0, <1>4, Records, Zenon DEF Alive
  <2>m. ~(Misled(c))' /\ ~Misled(c)
    BY <1>7, <2>c DEF Misled
  <2>q. LET p == session[t]
        IN  /\ p.reads + p.writes <= 1
            /\ HasCommand(c) => p.reads + p.writes = 0
            /\ p.active => p.reads + p.writes = 1 \/ HasCommand(c)
            /\ Handling /\ HasCommand(c) => p.active
            /\ OneCommand(c)
    BY <1>0, <2>c, <2>m, Zenon DEF Quiet, Alive
  <2>h. Handling' => Handling
    BY <1>g DEF Handling
  <2>n. session[t].reads \in Nat /\ session[t].writes \in Nat
    BY <1>0, Records, Zenon
  <2>1. LET p == session'[t]
        IN  /\ p.reads + p.writes <= 1
            /\ (HasCommand(c))' => p.reads + p.writes = 0
            /\ p.active => p.reads + p.writes = 1 \/ (HasCommand(c))'
            /\ Handling' /\ (HasCommand(c))' => p.active
            /\ (OneCommand(c))'
    <3>1. CASE c = j.conn
      <4>1. t = s /\ HasCommand(c) /\ ~(HasCommand(c))' /\ (OneCommand(c))'
        BY <1>0, <1>8, <1>j, <1>s, <2>c, <2>q, <3>1, ZenonT(30) DEF SlotKnown, Alive
      <4>2. \/ session' = session /\ ~session[s].active
            \/ /\ session[s].active /\ session'[s].writes = session[s].writes + 1
               /\ session'[s].reads = session[s].reads
        BY <1>4, <2>c, <3>1, <4>1, Zenon
      <4>3. session[t].reads + session[t].writes = 0
        BY <2>q, <4>1, Zenon
      <4>4. session[t].reads = 0 /\ session[t].writes = 0
        BY <2>n, <4>3, Sums, Zenon
      <4>5. session'[t].reads = 0 /\ session'[t].active = session[t].active
        BY <1>4, <4>4, Zenon
      <4>6. \/ ~session'[t].active /\ session'[t].writes = 0
            \/ session'[t].active /\ session'[t].writes = 1
        BY <4>1, <4>2, <4>4, <4>5
      <4>7. LET p == session'[t]
            IN  p.reads + p.writes <= 1 /\ (p.active => p.reads + p.writes = 1)
        BY <4>5, <4>6
      <4> QED  BY <4>1, <4>7
    <3>2. CASE c # j.conn
      <4>1. ((HasCommand(c))' <=> HasCommand(c)) /\ (OneCommand(c))'
        BY <1>8, <2>c, <2>q, <3>2, Zenon
      <4>2. session'[t] = session[t]
        <5>1. t = s => <<j.conn, c>> \notin answered'
          BY <2>m, <3>2, Zenon DEF Misled
        <5> QED  BY <1>4, <2>c, <5>1, Zenon
      <4> QED  BY <2>h, <2>q, <4>1, <4>2, Zenon
    <3> QED  BY <3>1, <3>2, Zenon
  <2>2. /\ (HasCommand(session[t].conn))' <=> (HasCommand(c))'
        /\ (OneCommand(session[t].conn))' <=> (OneCommand(c))'
    BY <2>c, Zenon DEF HasCommand, OneCommand
  <2> QED  BY <2>1, <2>2, Zenon
<1>14. Open'
  BY <1>0, <1>g, <1>4, Zenon DEF Open, Handling
<1>15. AllKept'
  <2>1. ASSUME NEW k \in Job, Kept(k)
        PROVE  (Kept(k))'
    BY <1>g, <1>4, <1>7, <2>1, Zenon DEF Kept, Job
  <2>2. ASSUME Handling', NEW i \in Queued'
        PROVE  (Kept(work_queue[i]))'
    <3>1. PICK k \in Job : k = work_queue[i] /\ k = work_queue'[i] /\ Kept(k)
      BY <1>0, <1>g, <2>2, Records, Zenon DEF AllKept, Queued, Handling
    <3> QED  BY <2>1, <3>1, Zenon DEF Kept, Misled
  <2>3. ASSUME Handling', NEW v \in Workers, worker'[v].job # NoJob
        PROVE  (Kept(worker[v].job))'
    <3>1. PICK k \in Job : k = worker[v].job /\ k = worker'[v].job /\ Kept(k)
      BY <1>0, <1>g, <1>2, <2>3, Records DEF AllKept, Handling
    <3> QED  BY <2>1, <3>1, Zenon DEF Kept, Misled
  <2> QED  BY <2>2, <2>3 DEF AllKept
<1> QED  BY <1>6, <1>9, <1>10, <1>11, <1>12, <1>13, <1>14, <1>15, Zenon DEF Inv

\* Sessions are taken out of sessions_, by pruning or by stop: each stays for
\* its pending operation or is destroyed.
Stays(t) ==
    /\ session'[t].conn = session[t].conn
    /\ session'[t].reads = session[t].reads
    /\ session'[t].writes = session[t].writes
    /\ session'[t].active => session[t].active
    /\ Handling' => session'[t].active = session[t].active
    /\ session[t].reads > 0 \/ session[t].writes > 0

Unlists(t) ==
    /\ session'[t] = session[t] \/ session'[t] = Free \/ Stays(t)
    /\ Handling' /\ session'[t] = Free /\ session[t].active
          => session[t].conn \in expired'

\* A step that takes sessions out of the list keeps the invariant.
LEMMA UnlistStep ==
    ASSUME Inv, Typed', Open',
           UNCHANGED <<work_queue, worker, connections, answered>>,
           \A t \in Slots : Unlists(t),
           Handling' => Handling,
           expired \subseteq expired',
           \A c \in expired' : c <= connections
    PROVE  Inv'
<1>0. /\ Typed /\ Numbered /\ Referred /\ Distinct /\ SlotKnown /\ Quiet /\ Open
      /\ AllKept
  BY DEF Inv
<1>1. ASSUME NEW c
      PROVE  /\ (HasCommand(c))' <=> HasCommand(c)
             /\ (OneCommand(c))' <=> OneCommand(c)
             /\ (Misled(c))' <=> Misled(c)
  <2>1. (HasCommand(c))' <=> HasCommand(c)
    BY Zenon DEF HasCommand, Queued
  <2>2. (OneCommand(c))' <=> OneCommand(c)
    BY Zenon DEF OneCommand, Queued
  <2> QED  BY <2>1, <2>2, Zenon DEF Misled
<1>2. ASSUME NEW t \in Slots
      PROVE  /\ session'[t].conn = session[t].conn \/ session'[t] = Free
             /\ (Alive(t))' => Alive(t) /\ session'[t].conn = session[t].conn
  BY FreeIs, Zenon DEF Alive, Unlists, Stays
<1>3. Numbered'
  <2>1. \A t \in Slots : session'[t].conn <= connections
    <3>1. Free.conn <= connections
      BY <1>0, FreeIs, Bounds
    <3> QED  BY <1>0, <1>2, <3>1, Bounds, Zenon
  <2> QED  BY <1>0, <2>1, Zenon DEF Numbered, Queued
<1>4. Referred'
  <2> SUFFICES ASSUME NEW t \in Slots
               PROVE  IF session'[t].conn # 0
                      THEN session'[t].listed \/ session'[t].reads > 0
                              \/ session'[t].writes > 0
                      ELSE session'[t] = Free
    BY DEF Referred, Alive
  <2>1. CASE session'[t] = session[t]
    BY <1>0, <2>1, Zenon DEF Referred, Alive
  <2>2. CASE session'[t] # session[t]
    <3>1. session'[t] = Free \/ Stays(t)
      BY <2>2, Zenon DEF Unlists
    <3>2. CASE Stays(t)
      <4>1. session[t].conn # 0
        BY <1>0, <3>2, FreeIs DEF Referred, Alive, Stays
      <4> QED  BY <3>2, <4>1, Zenon DEF Stays
    <3> QED  BY <3>1, <3>2, FreeIs
  <2> QED  BY <2>1, <2>2
<1>5. Distinct' /\ SlotKnown'
  <2>1. Distinct'
    <3> SUFFICES ASSUME NEW s \in Slots, NEW t \in Slots, (Alive(s))',
                        session'[s].conn = session'[t].conn
                 PROVE  s = t
      BY DEF Distinct
    <3>1. (Alive(t))'
      BY Zenon DEF Alive
    <3>2. Alive(s) /\ session[s].conn = session[t].conn
      BY <1>2, <3>1, Zenon
    <3> QED  BY <1>0, <3>2 DEF Distinct
  <2>2. ASSUME NEW t \in Slots, (Alive(t))'
        PROVE  (/\ \A i \in Queued : work_queue[i].conn = session[t].conn
                                        => work_queue[i].slot = t
                /\ \A w \in Workers : worker[w].job.conn = session[t].conn
                                        => worker[w].job.slot = t)'
    <3>1. Alive(t) /\ session'[t].conn = session[t].conn
      BY <1>2, <2>2, Zenon
    <3> QED  BY <1>0, <3>1 DEF SlotKnown, Queued
  <2> QED  BY <2>1, <2>2, Zenon DEF SlotKnown
<1>6. Quiet'
  <2> SUFFICES ASSUME NEW t \in Slots, (Alive(t))', ~(Misled(session[t].conn))'
               PROVE  LET p == session[t]
                      IN  (/\ p.reads + p.writes <= 1
                           /\ HasCommand(p.conn) => p.reads + p.writes = 0
                           /\ p.active => p.reads + p.writes = 1 \/ HasCommand(p.conn)
                           /\ Handling /\ HasCommand(p.conn) => p.active
                           /\ OneCommand(p.conn))'
    BY ZenonT(30) DEF Quiet
  <2>1. /\ session'[t].conn = session[t].conn /\ Alive(t)
        /\ session'[t].reads = session[t].reads
        /\ session'[t].writes = session[t].writes
        /\ session'[t].active => session[t].active
        /\ Handling' => session'[t].active = session[t].active
    <3>1. session'[t] = session[t] \/ Stays(t)
      BY FreeIs, Zenon DEF Unlists, Alive
    <3> QED  BY <1>2, <3>1, Zenon DEF Stays
  <2>2. /\ (HasCommand(session[t].conn))' <=> HasCommand(session[t].conn)
        /\ (OneCommand(session[t].conn))' <=> OneCommand(session[t].conn)
        /\ ~Misled(session[t].conn)
    <3>1. PICK c : c = session[t].conn /\ c = session'[t].conn
      BY <2>1, Zenon
    <3>2. /\ (HasCommand(session[t].conn))' <=> (HasCommand(c))'
          /\ (OneCommand(session[t].conn))' <=> (OneCommand(c))'
          /\ (Misled(session[t].conn))' <=> (Misled(c))'
      BY <3>1 DEF HasCommand, OneCommand, Misled
    <3> QED  BY <1>1, <3>1, <3>2, Zenon
  <2>3. LET p == session[t]
        IN  /\ p.reads + p.writes <= 1
            /\ HasCommand(p.conn) => p.reads + p.writes = 0
            /\ p.active => p.reads + p.writes = 1 \/ HasCommand(p.conn)
            /\ Handling /\ HasCommand(p.conn) => p.active
            /\ OneCommand(p.conn)
    BY <1>0, <2>1, <2>2, Zenon DEF Quiet
  <2> QED  BY <2>1, <2>2, <2>3
<1>7. AllKept'
  <2>1. ASSUME Handling', NEW k \in Job, Kept(k), HasCommand(k.conn)
        PROVE  (Kept(k))'
    <3>1. CASE k.conn \in expired \/ Misled(k.conn)
      BY <1>1, <3>1, Zenon DEF Kept
    <3>2. CASE session[k.slot].conn = k.conn /\ ~Misled(k.conn)
      <4>1. k.slot \in Slots /\ Alive(k.slot)
        BY <3>2, Zenon DEF Alive, Job
      <4>2. session[k.slot].active
        BY <1>0, <2>1, <3>2, <4>1, Zenon DEF Quiet
      <4> QED  BY <1>2, <2>1, <3>2, <4>1, <4>2 DEF Kept, Unlists
    <3> QED  BY <2>1, <3>1, <3>2, ZenonT(30) DEF Kept
  <2>2. /\ \A i \in Queued : HasCommand(work_queue[i].conn)
        /\ \A w \in Workers : HasCommand(worker[w].job.conn)
    BY DEF HasCommand
  <2>3. /\ \A i \in Queued : work_queue[i] \in Job
        /\ \A w \in Workers : worker[w].job # NoJob => worker[w].job \in Job
    BY <1>0, Records
  <2> QED  BY <1>0, <2>1, <2>2, <2>3, Zenon DEF AllKept, Queued
<1> QED  BY <1>3, <1>4, <1>5, <1>6, <1>7, Zenon DEF Inv

\* The monitor prunes the sessions that are closed or idle.
LEMMA PruneStep ==
    ASSUME Inv, monitorClean
    PROVE  Inv'
<1>0. Typed /\ Numbered /\ Referred /\ Open
  BY DEF Inv
<1>g. UNCHANGED <<work_queue, worker, connections, answered, main>>
  BY DEF monitorClean, workers
<1> DEFINE pruned == {s \in Listed : ~isActive(s)}
<1>1. /\ session' = [s \in Slots |->
            IF s \in pruned THEN Settled([session[s] EXCEPT !.listed = FALSE])
                            ELSE session[s]]
      /\ expired' = expired \cup
            {session[s].conn : s \in {t \in pruned : session[t].active}}
  BY DEF monitorClean, cleanupInactiveSessions
<1>2. \A s \in pruned : s \in Slots /\ session[s].listed
  BY Zenon DEF Listed
<1> HIDE DEF pruned
<1>3. ASSUME NEW t \in Slots
      PROVE  /\ session'[t] \in Record
             /\ \/ session'[t] = session[t]
                \/ session'[t] = Free /\ t \in pruned
                \/ /\ session'[t].conn = session[t].conn
                   /\ session'[t].reads = session[t].reads
                   /\ session'[t].writes = session[t].writes
                   /\ session'[t].active = session[t].active
                   /\ session[t].reads > 0 \/ session[t].writes > 0
                   /\ t \in pruned
             /\ session'[t].listed => session[t].listed
  <2>1. CASE t \in pruned
    <3>1. PICK o : o = [session[t] EXCEPT !.listed = FALSE]
      BY Zenon
    <3>2. /\ o \in Record /\ o.conn = session[t].conn /\ o.active = session[t].active
          /\ o.reads = session[t].reads /\ o.writes = session[t].writes /\ ~o.listed
      BY <1>0, <3>1, Zenon DEF Typed, Record
    <3>3. session'[t] = Settled(o)
      BY <1>1, <2>1, <3>1
    <3> QED  BY <2>1, <3>2, <3>3, FreeIs DEF Settled
  <2>2. CASE t \notin pruned
    BY <1>0, <1>1, <2>2 DEF Typed
  <2> QED  BY <2>1, <2>2, Zenon
<1>4. \A s \in pruned : session[s].active => session[s].conn \in expired'
  BY <1>1
<1>5. /\ \A c \in expired : c \in expired'
      /\ expired' \subseteq Nat
      /\ \A c \in expired' : c <= connections
  BY <1>0, <1>1, <1>2, Records DEF Typed, Numbered
<1>6. Typed'
  BY <1>0, <1>g, <1>1, <1>3, <1>5, Zenon DEF Typed
<1>7. Open'
  <2>1. ASSUME Handling', NEW t \in Slots, session'[t].active
        PROVE  session'[t].listed \/ session'[t].conn \in expired'
    BY <1>0, <1>g, <1>3, <1>4, <1>5, <2>1, FreeIs DEF Open, Handling
  <2> QED  BY <1>0, <1>g, <1>3, <2>1, Zenon DEF Open, Handling
<1>8. Handling' => Handling
  BY <1>g, Zenon DEF Handling
<1>9. \A t \in Slots : Unlists(t)
  BY <1>3, <1>4, FreeIs DEF Unlists, Stays
<1> QED  BY <1>g, <1>5, <1>6, <1>7, <1>8, <1>9, UnlistStep

\* stop closes the sessions and clears sessions_.
LEMMA StopStep ==
    ASSUME Inv, stop
    PROVE  Inv'
<1>0. Typed /\ Numbered /\ Referred /\ Open
  BY DEF Inv
<1>g. /\ UNCHANGED <<work_queue, worker, connections, answered, expired>>
      /\ main' = "closed" /\ ~Handling'
  BY Zenon DEF stop, workers, counts, history, Handling
<1>1. session' = [s \in Slots |->
          IF session[s].listed
          THEN Settled([session[s] EXCEPT !.active = FALSE, !.listed = FALSE])
          ELSE session[s]]
  BY Zenon DEF stop
<1>2. ASSUME NEW t \in Slots
      PROVE  /\ session'[t] \in Record
             /\ \/ session'[t] = session[t]
                \/ session'[t] = Free
                \/ /\ session'[t].conn = session[t].conn
                   /\ session'[t].reads = session[t].reads
                   /\ session'[t].writes = session[t].writes
                   /\ ~session'[t].active
                   /\ session[t].reads > 0 \/ session[t].writes > 0
             /\ ~session'[t].listed
  <2>1. CASE session[t].listed
    <3>1. PICK o : o = [session[t] EXCEPT !.active = FALSE, !.listed = FALSE]
      OBVIOUS
    <3>2. /\ o \in Record /\ o.conn = session[t].conn /\ ~o.active
          /\ o.reads = session[t].reads /\ o.writes = session[t].writes /\ ~o.listed
      BY <1>0, <3>1, ZenonT(30) DEF Typed, Record
    <3>3. session'[t] = Settled(o)
      BY <1>1, <2>1, <3>1, Zenon
    <3> QED  BY <3>2, <3>3, FreeIs DEF Settled
  <2>2. CASE ~session[t].listed
    BY <1>0, <1>1, <2>2, Zenon DEF Typed
  <2> QED  BY <2>1, <2>2, Zenon
<1>3. Typed'
  BY <1>0, <1>g, <1>1, <1>2, Zenon DEF Typed
<1>4. Open'
  BY <1>g, <1>2 DEF Open
<1>5. \A c \in expired' : c <= connections
  BY <1>0, <1>g, Zenon DEF Numbered
<1>6. \A t \in Slots : Unlists(t)
  BY <1>g, <1>2 DEF Unlists, Stays
<1> QED  BY <1>g, <1>3, <1>4, <1>5, <1>6, UnlistStep

\* Dropping the commands leaves the open sessions, which are in sessions_ no
\* more, with the operation they live for.
LEMMA StopWorkersStep ==
    ASSUME Inv, stopWorkerThreads
    PROVE  Inv'
<1>0. /\ Typed /\ Numbered /\ Referred /\ Distinct /\ SlotKnown /\ Quiet /\ Open
      /\ AllKept
  BY DEF Inv
<1>g. /\ UNCHANGED <<session, connections, answered, expired>>
      /\ main = "closed" /\ main' = "join" /\ ~Handling' /\ work_queue' = <<>>
  BY DEF stopWorkerThreads, counts, history, Handling
<1>1. Queued' = {}
  BY <1>g DEF Queued
<1>2. /\ \A w \in Workers : worker'[w].job = worker[w].job
      /\ worker' \in [Workers ->
             [at  : {"test", "lock", "wait", "run", "respond", "exited"},
              job : Job \cup {NoJob}]]
      /\ \A w \in Workers : worker'[w].at \in {"run", "respond"}
                               <=> worker'[w].job # NoJob
  <2>1. worker' = [w \in Workers |-> IF w \in Waiting
                                     THEN [worker[w] EXCEPT !.at = "lock"]
                                     ELSE worker[w]]
    BY DEF stopWorkerThreads, Awoken
  <2>2. \A w \in Waiting : worker[w].at = "wait"
    BY DEF Waiting
  <2> QED  BY <1>0, <2>1, <2>2 DEF Typed
<1>3. Typed'
  <2>1. work_queue' \in Seq(Job)
    BY <1>g
  <2> QED  BY <1>0, <1>g, <1>2, <2>1 DEF Typed
<1>4. Numbered' /\ Referred' /\ Distinct' /\ SlotKnown' /\ Open' /\ AllKept'
  <2>1. Numbered'
    BY <1>0, <1>g, <1>1, <1>2, Zenon DEF Numbered
  <2>2. Referred' /\ Distinct' /\ Open'
    BY <1>0, <1>g, Zenon DEF Referred, Distinct, Open, Alive, Handling
  <2>3. SlotKnown'
    BY <1>0, <1>g, <1>1, <1>2 DEF SlotKnown, Alive
  <2> QED  BY <1>g, <2>1, <2>2, <2>3, Zenon DEF AllKept
<1>5. Quiet'
  <2> SUFFICES ASSUME NEW t \in Slots, Alive(t), ~Misled(session[t].conn)
               PROVE  LET p == session[t]
                      IN  /\ p.reads + p.writes <= 1
                          /\ (HasCommand(p.conn))' => p.reads + p.writes = 0
                          /\ p.active => p.reads + p.writes = 1
                          /\ (OneCommand(p.conn))'
    BY <1>g, ZenonT(30) DEF Quiet, Alive, Misled
  <2>1. ~session[t].listed /\ (session[t].reads > 0 \/ session[t].writes > 0)
    BY <1>0, <1>g DEF Open, Referred
  <2>2. session[t].reads \in Nat /\ session[t].writes \in Nat
    BY <1>0, Records
  <2>3. /\ session[t].reads + session[t].writes = 1
        /\ ~HasCommand(session[t].conn)
    <3>1. LET p == session[t]
          IN  p.reads + p.writes <= 1 /\ (HasCommand(p.conn) => p.reads + p.writes = 0)
      BY <1>0, Zenon DEF Quiet
    <3> QED  BY <2>1, <2>2, <3>1
  <2>4. ~(HasCommand(session[t].conn))' /\ (OneCommand(session[t].conn))'
    BY <1>g, <1>1, <1>2, <2>3 DEF HasCommand, OneCommand
  <2> QED  BY <2>2, <2>3, <2>4
<1> QED  BY <1>3, <1>4, <1>5 DEF Inv

\* The other steps move no command and no session.
LEMMA IdleStep ==
    ASSUME Inv,
           \/ \E s \in Slots : grow_idle(s)
           \/ \E w \in Workers : \/ WorkerTest(w) \/ executeCommand(w)
                                 \/ WorkerLock(w) /\ work_queue = <<>>
           \/ monitorTest \/ joinWorkers \/ finish
    PROVE  Inv'
<1>0. Typed /\ Referred
  BY DEF Inv
<1>1. CASE \E s \in Slots : grow_idle(s)
  <2>1. PICK s \in Slots : grow_idle(s)
    BY <1>1
  <2>2. PICK o : o = [session[s] EXCEPT !.idle = TRUE]
    BY Zenon
  <2>3. session[s] \in Record
    BY <1>0 DEF Typed
  <2>4. /\ o \in Record /\ o.conn = session[s].conn /\ o.active = session[s].active
        /\ o.reads = session[s].reads /\ o.writes = session[s].writes
        /\ o.listed = session[s].listed
    BY <2>2, <2>3, Zenon DEF Record
  <2>5. /\ session' = [session EXCEPT ![s] = o] /\ Alive(s)
        /\ UNCHANGED <<work_queue, worker, connections, answered, expired, main>>
    BY <1>0, <2>1, <2>2 DEF grow_idle, Typed, process, workers, counts, history
  <2>6. Typed'
    BY <1>0, <2>4, <2>5, ZenonT(30) DEF Typed
  <2>7. \A t \in Slots :
           /\ session'[t].conn = session[t].conn
           /\ session'[t].active = session[t].active
           /\ session'[t].listed = session[t].listed
           /\ session'[t].reads = session[t].reads
           /\ session'[t].writes = session[t].writes
           /\ ~Alive(t) => session'[t] = session[t]
    BY <1>0, <2>4, <2>5 DEF Typed
  <2> QED  BY <2>5, <2>6, <2>7, SameStep DEF Handling
<1>2. CASE \E w \in Workers : \/ WorkerTest(w) \/ executeCommand(w)
                              \/ WorkerLock(w) /\ work_queue = <<>>
  <2>1. PICK w \in Workers : \/ WorkerTest(w) \/ executeCommand(w)
                             \/ WorkerLock(w) /\ work_queue = <<>>
    BY <1>2
  <2>2. UNCHANGED <<session, work_queue, connections, answered, expired, main>>
    BY <2>1 DEF WorkerTest, executeCommand, WorkerLock, process, counts, history
  <2>3. \/ /\ worker[w].at \in {"test", "lock"}
           /\ \E a \in {"lock", "wait", "exited"} :
                 worker' = [worker EXCEPT ![w].at = a]
        \/ /\ worker[w].at = "run"
           /\ worker' = [worker EXCEPT ![w].at = "respond"]
    BY <2>1 DEF WorkerTest, executeCommand, WorkerLock
  <2>4. /\ \A v \in Workers : worker'[v].job = worker[v].job
        /\ Typed'
    <3>1. CASE \E a \in {"lock", "wait", "exited"} :
                  /\ worker[w].at \in {"test", "lock"}
                  /\ worker' = [worker EXCEPT ![w].at = a]
      BY <1>0, <2>2, <3>1 DEF Typed
    <3>2. CASE /\ worker[w].at = "run"
               /\ worker' = [worker EXCEPT ![w].at = "respond"]
      BY <1>0, <2>2, <3>2 DEF Typed
    <3> QED  BY <2>3, <3>1, <3>2
  <2> QED  BY <2>2, <2>4, SameStep, Zenon DEF Handling
<1>3. CASE monitorTest \/ joinWorkers \/ finish
  <2>1. /\ UNCHANGED <<session, work_queue, worker, connections, answered, expired>>
        /\ main' = main \/ (main \in {"join", "pool"} /\ main' # "run")
    BY <1>3, Zenon DEF monitorTest, joinWorkers, finish, workers, counts, history
  <2>2. Typed'
    BY <1>0, <2>1 DEF Typed
  <2> QED  BY <2>1, <2>2, SameStep DEF Handling
<1> QED  BY <1>1, <1>2, <1>3

\* The invariant is inductive.
LEMMA InvStep == Inv /\ [Next]_vars => Inv'
<1> SUFFICES ASSUME Inv, [Next]_vars PROVE Inv'
  OBVIOUS
<1>1. CASE \E s \in Slots : handle(s)
  BY <1>1, AcceptStep, MessageStep, EndStep DEF handle
<1>2. CASE \E s \in Slots : grow_idle(s)
  BY <1>2, IdleStep
<1>3. CASE \E w \in Workers : workerThreadFunction(w)
  <2>1. PICK w \in Workers : \/ WorkerTest(w) \/ WorkerLock(w)
                             \/ executeCommand(w) \/ WorkerRespond(w)
    BY <1>3 DEF workerThreadFunction
  <2>2. CASE \/ WorkerTest(w) \/ executeCommand(w)
             \/ WorkerLock(w) /\ work_queue = <<>>
    BY <2>2, IdleStep
  <2>3. CASE WorkerLock(w) /\ work_queue # <<>>
    BY <2>3, TakeStep
  <2>4. CASE WorkerRespond(w)
    BY <2>4, RespondStep
  <2> QED  BY <2>1, <2>2, <2>3, <2>4
<1>4. CASE monitorConnections
  BY <1>4, IdleStep, PruneStep DEF monitorConnections
<1>5. CASE stop \/ Shutdown
  BY <1>5, IdleStep, StopStep, StopWorkersStep DEF Shutdown
<1>6. CASE UNCHANGED vars
  <2>1. UNCHANGED <<session, work_queue, worker, connections, answered, expired,
                    main>>
    BY <1>6 DEF vars, process, workers, counts, history
  <2>2. Typed'
    BY <2>1 DEF Inv, Typed
  <2> QED  BY <2>1, <2>2, SameStep DEF Handling
<1> QED  BY <1>1, <1>2, <1>3, <1>4, <1>5, <1>6 DEF Next

\* No worker starts again once main has joined them.
LEMMA JoinedStep == Joined /\ [Next]_vars => Joined'
<1> SUFFICES ASSUME Joined, [Next]_vars PROVE Joined'
  OBVIOUS
<1>1. CASE \E s \in Slots : handle(s)
  BY <1>1 DEF handle, handleAccept, handleMessage, fail, written, Handling,
              process, workers, Joined
<1>2. CASE \E s \in Slots : grow_idle(s)
  BY <1>2 DEF grow_idle, process, workers, Joined
<1>3. CASE \E w \in Workers : workerThreadFunction(w)
  <2>1. PICK w \in Workers : \/ WorkerTest(w) \/ WorkerLock(w)
                             \/ executeCommand(w) \/ WorkerRespond(w)
    BY <1>3 DEF workerThreadFunction
  <2>2. /\ worker[w].at # "exited" /\ UNCHANGED storage_open
        /\ main' = main \/ main' = "crashed"
    BY <2>1 DEF WorkerTest, WorkerLock, executeCommand, WorkerRespond, process
  <2>3. main # "exited"
    BY <1>3 DEF workerThreadFunction, Up
  <2> QED  BY <2>2, <2>3 DEF Joined
<1>4. CASE monitorConnections
  BY <1>4 DEF monitorConnections, monitorTest, monitorClean, workers, Joined
<1>5. CASE stop \/ Shutdown
  BY <1>5, Zenon DEF stop, Shutdown, stopWorkerThreads, joinWorkers, finish, workers,
              Joined
<1>6. CASE UNCHANGED vars
  BY <1>6 DEF vars, process, workers, Joined
<1> QED  BY <1>1, <1>2, <1>3, <1>4, <1>5, <1>6 DEF Next

\* At every point of every run, for any number of slots, workers, connections
\* and messages.
THEOREM ServerInvariant == Spec => [](Inv /\ Joined)
<1>1. Inv /\ Joined /\ [Next]_vars => (Inv /\ Joined)'
  BY InvStep, JoinedStep
<1> QED  BY <1>1, ServerInit, PTL DEF Spec

\* main never shuts the storage down under a command that is executed: stop
\* joins the workers first, and no worker starts again.
THEOREM StorageIsOpen == Spec => []CommandsHaveStorage
<1>1. Joined => CommandsHaveStorage
  BY DEF Joined, CommandsHaveStorage
<1> QED  BY <1>1, ServerInvariant, PTL

\* The session that a queued or executed command points to is the one that
\* received it, until it is pruned for being idle or the server stops.
THEOREM CommandsHaveSession == Spec => []SessionOutlivesCommand
<1>1. Inv => SessionOutlivesCommand
  <2> SUFFICES ASSUME Inv, Handling, NEW j \in Outstanding
               PROVE  Kept(j)
    BY DEF SessionOutlivesCommand, Kept
  <2>1. DOMAIN work_queue = Queued
    BY DEF Inv, Typed, Queued
  <2> QED  BY <2>1 DEF Outstanding, Inv, AllKept
<1> QED  BY <1>1, ServerInvariant, PTL

\* How many elements a set has in which all are the same.
LEMMA AtMostOne ==
    ASSUME NEW T, \A x, y \in T : x = y
    PROVE  Cardinality(T) = IF T = {} THEN 0 ELSE 1
<1>1. CASE T = {}
  BY <1>1, FS_EmptySet
<1>2. CASE T # {}
  <2>1. PICK x : T = {x}
    BY <1>2
  <2> QED  BY <1>2, <2>1, FS_Singleton
<1> QED  BY <1>1, <1>2

\* A session reads, or has its command executed, or writes, one at a time, and
\* always one of them while it is open.
THEOREM OneOperation == Spec => []OneAtATime
<1>1. Inv => OneAtATime
  <2> SUFFICES ASSUME Inv, NEW s \in Slots, Alive(s), ~Misled(session[s].conn)
               PROVE  LET o == session[s]
                          n == o.reads + o.writes + Commands(o.conn)
                      IN  n <= 1 /\ (o.active => n = 1)
    BY DEF OneAtATime
  <2>c. PICK c : c = session[s].conn
    BY Zenon
  <2>1. LET o == session[s]
        IN  /\ o.reads + o.writes <= 1
            /\ HasCommand(c) => o.reads + o.writes = 0
            /\ o.active => o.reads + o.writes = 1 \/ HasCommand(c)
            /\ OneCommand(c)
    BY <2>c DEF Inv, Quiet
  <2>2. session[s].reads \in Nat /\ session[s].writes \in Nat
    BY Records DEF Inv
  <2> DEFINE Q == {i \in DOMAIN work_queue : work_queue[i].conn = c}
             W == {w \in Workers : worker[w].job.conn = c}
  <2>3. DOMAIN work_queue = Queued
    BY DEF Inv, Typed, Queued
  <2>4. /\ Cardinality(Q) = IF Q = {} THEN 0 ELSE 1
        /\ Cardinality(W) = IF W = {} THEN 0 ELSE 1
    <3>1. \A i, k \in Q : i = k
      BY <2>1, <2>3, Zenon DEF OneCommand
    <3>2. \A w, v \in W : w = v
      BY <2>1, ZenonT(30) DEF OneCommand
    <3> QED  BY <3>1, <3>2, AtMostOne, Zenon
  <2>5. (Q = {} \/ W = {}) /\ (HasCommand(c) <=> Q # {} \/ W # {})
    BY <2>1, <2>3 DEF OneCommand, HasCommand
  <2> HIDE DEF Q, W
  <2>6. Commands(c) = IF HasCommand(c) THEN 1 ELSE 0
    <3>1. Commands(c) = Cardinality(Q) + Cardinality(W)
      BY DEF Commands, Q, W
    <3> QED  BY <2>4, <2>5, <3>1
  <2>7. PICK r \in Nat : r = session[s].reads + session[s].writes
    BY <2>2
  <2>8. r + Commands(c) <= 1 /\ (session[s].active => r + Commands(c) = 1)
    <3>1. CASE HasCommand(c)
      BY <2>1, <2>6, <2>7, <3>1
    <3>2. CASE ~HasCommand(c)
      BY <2>1, <2>6, <2>7, <3>2
    <3> QED  BY <3>1, <3>2, Zenon
  <2> QED  BY <2>c, <2>7, <2>8, Zenon
<1> QED  BY <1>1, ServerInvariant, PTL
-------------------------------------------------------------------------------
(* The counters and the flags.                                             *)

\* active_connections_ is the size of sessions_ while handlers run, however the
\* accepts and the monitor's pruning are interleaved.
Counted ==
    /\ connections <= MaxConnections
    /\ running \in BOOLEAN /\ workers_running \in BOOLEAN
    /\ monitor \in {"test", "clean", "exited"}
    /\ main \in {"run", "closed", "join", "pool", "exited", "crashed"}
    /\ IsFiniteSet(Listed)
    /\ Handling => active_connections = Cardinality(Listed)

\* Destroying an object that nothing refers to takes nothing from sessions_.
LEMMA SettledListed ==
    ASSUME NEW o, o.listed \in BOOLEAN
    PROVE  Settled(o).listed = o.listed
BY Zenon DEF Settled, Free

\* A handler, a worker or the clock leaves sessions_ as it is.
LEMMA ListedStays ==
    ASSUME Typed, NEW s \in Slots, NEW o, o.listed = session[s].listed,
           session' = [session EXCEPT ![s] = o]
    PROVE  Listed' = Listed
<1>1. \A t \in Slots : session'[t].listed = session[t].listed
  BY DEF Typed
<1> QED  BY <1>1 DEF Listed

\* Steps that neither accept, prune nor stop keep sessions_ and its counter.
LEMMA SameSessions ==
    ASSUME Counted, Listed' = Listed,
           UNCHANGED <<connections, active_connections, running>>,
           workers_running' \in BOOLEAN, monitor' \in {"test", "clean", "exited"},
           main' \in {"run", "closed", "join", "pool", "exited", "crashed"},
           main' = "run" => main = "run"
    PROVE  Counted'
BY DEF Counted, Handling

\* What the handlers, the workers and the clock do to the objects.
LEMMA SameListed ==
    ASSUME Inv,
           \/ \E s \in Slots :
                 handleMessage(s) \/ fail(s) \/ written(s) \/ grow_idle(s)
           \/ \E w \in Workers : WorkerRespond(w)
    PROVE  Listed' = Listed
<1>1. Typed
  BY DEF Inv
<1>2. \A t \in Slots : session[t] \in Record /\ session[t].listed \in BOOLEAN
  BY <1>1, Zenon DEF Typed, Record
<1>3. ASSUME NEW s \in Slots, handleMessage(s) PROVE Listed' = Listed
  <2> DEFINE o == [session[s] EXCEPT !.idle = FALSE, !.reads = @ - 1]
             q == [o EXCEPT !.writes = @ + 1]
  <2>1. o.listed = session[s].listed /\ q.listed = session[s].listed
    BY <1>2 DEF Record
  <2> HIDE DEF o
  <2>2. Settled(o).listed = session[s].listed
    BY <1>2, <2>1, SettledListed
  <2>3. \/ session' = [session EXCEPT ![s] = Settled(o)]
        \/ session' = [session EXCEPT ![s] = q]
    BY <1>3, Zenon DEF handleMessage, o
  <2> HIDE DEF q
  <2> QED  BY <1>1, <2>1, <2>2, <2>3, ListedStays
<1>4. ASSUME NEW s \in Slots, fail(s) PROVE Listed' = Listed
  <2> DEFINE o == [session[s] EXCEPT !.active = FALSE, !.reads = @ - 1]
             q == [session[s] EXCEPT !.active = FALSE, !.writes = @ - 1]
  <2>1. o.listed = session[s].listed /\ q.listed = session[s].listed
    BY <1>2 DEF Record
  <2>2. \/ session' = [session EXCEPT ![s] = Settled(o)]
        \/ session' = [session EXCEPT ![s] = Settled(q)]
    BY <1>4, Zenon DEF fail
  <2> HIDE DEF o, q
  <2>3. /\ Settled(o).listed = session[s].listed
        /\ Settled(q).listed = session[s].listed
    BY <1>2, <2>1, SettledListed
  <2> QED  BY <1>1, <2>2, <2>3, ListedStays
<1>5. ASSUME NEW s \in Slots, written(s) PROVE Listed' = Listed
  <2> DEFINE o == [session[s] EXCEPT !.writes = @ - 1, !.reads = @ + 1]
  <2>1. o.listed = session[s].listed
    BY <1>2 DEF Record
  <2>2. session' = [session EXCEPT ![s] = o]
    BY <1>1, <1>5, Zenon DEF written, Typed
  <2> HIDE DEF o
  <2> QED  BY <1>1, <2>1, <2>2, ListedStays, Zenon
<1>6. ASSUME NEW s \in Slots, grow_idle(s) PROVE Listed' = Listed
  <2> DEFINE o == [session[s] EXCEPT !.idle = TRUE]
  <2>1. o.listed = session[s].listed
    BY <1>2 DEF Record
  <2>2. session' = [session EXCEPT ![s] = o]
    BY <1>1, <1>6 DEF grow_idle, Typed
  <2> HIDE DEF o
  <2> QED  BY <1>1, <2>1, <2>2, ListedStays, Zenon
<1>7. ASSUME NEW w \in Workers, WorkerRespond(w) PROVE Listed' = Listed
  <2> DEFINE t == worker[w].job.slot
             o == [session[t] EXCEPT !.writes = @ + 1]
  <2>1. t \in Slots
    BY <1>1, <1>7 DEF WorkerRespond, Typed, Job
  <2>2. o.listed = session[t].listed
    BY <1>2, <2>1 DEF Record
  <2>3. session' = session \/ session' = [session EXCEPT ![t] = o]
    BY <1>1, <1>7, <2>1, Zenon DEF WorkerRespond, writeResponse, Typed
  <2> HIDE DEF o, t
  <2>4. CASE session' = session
    BY <2>4 DEF Listed
  <2> QED  BY <1>1, <2>1, <2>2, <2>3, <2>4, ListedStays, ZenonT(30)
<1> QED  BY <1>3, <1>4, <1>5, <1>6, <1>7

\* An accepted connection is counted once, an object pruned is counted once.
LEMMA CountedStep == Inv /\ Counted /\ [Next]_vars => Counted'
<1> SUFFICES ASSUME Inv, Counted, [Next]_vars PROVE Counted'
  OBVIOUS
<1>1. Typed /\ Listed \subseteq Slots
  BY DEF Inv, Listed
<1>2. CASE \E s \in Slots : handleAccept(s)
  <2>1. PICK s \in Slots : handleAccept(s)
    BY <1>2, ZenonT(30)
  <2>2. s \notin Listed
    <3>1. session[s] = Free
      BY <2>1 DEF Inv, Referred, handleAccept
    <3> QED  BY <3>1 DEF Listed, Free
  <2>3. \A t \in Slots : session'[t].listed = IF t = s THEN TRUE ELSE session[t].listed
    <3>1. [Free EXCEPT !.conn = connections + 1, !.active = TRUE,
                       !.listed = TRUE, !.reads = 1].listed = TRUE
      BY DEF Free
    <3>2. session'[s].listed = TRUE
      BY <1>1, <2>1, <3>1 DEF Typed, handleAccept
    <3>3. \A t \in Slots : t # s => session'[t] = session[t]
      BY <1>1, <2>1 DEF Typed, handleAccept
    <3> QED  BY <3>2, <3>3, Zenon
  <2>4. Listed' = Listed \cup {s}
    BY <2>3, Zenon DEF Listed
  <2>5. IsFiniteSet(Listed') /\ Cardinality(Listed') = Cardinality(Listed) + 1
    BY <2>2, <2>4, FS_AddElement DEF Counted
  <2>6. connections' <= MaxConnections
    BY <1>1, <2>1, ServerAssumption DEF Typed, handleAccept
  <2> QED  BY <2>1, <2>5, <2>6 DEF Counted, handleAccept, process, workers, Handling
<1>3. CASE \E s \in Slots : \/ handleMessage(s) \/ fail(s) \/ written(s)
                            \/ grow_idle(s)
  <2>1. Listed' = Listed
    BY <1>3, SameListed
  <2>2. UNCHANGED <<connections, active_connections, process, workers_running>>
    BY <1>3, Zenon DEF handleMessage, fail, written, grow_idle, counts, workers
  <2> QED  BY <2>1, <2>2, SameSessions DEF process, Counted
<1>4. CASE \E w \in Workers : workerThreadFunction(w)
  <2>1. PICK w \in Workers : \/ WorkerTest(w) \/ WorkerLock(w)
                             \/ executeCommand(w) \/ WorkerRespond(w)
    BY <1>4 DEF workerThreadFunction
  <2>2. Listed' = Listed
    <3>1. CASE WorkerRespond(w)
      BY <3>1, SameListed
    <3>2. CASE ~WorkerRespond(w)
      BY <2>1, <3>2 DEF WorkerTest, WorkerLock, executeCommand, Listed
    <3> QED  BY <3>1, <3>2
  <2>3. /\ UNCHANGED <<connections, active_connections, running, monitor,
                       workers_running>>
        /\ main' = main \/ main' = "crashed"
    BY <2>1, Zenon DEF WorkerTest, WorkerLock, executeCommand, WorkerRespond,
                       process, counts
  <2> QED  BY <2>2, <2>3, SameSessions DEF Counted
<1>5. CASE monitorTest
  <2>1. Listed' = Listed
    BY <1>5 DEF monitorTest, Listed
  <2> QED  BY <1>5, <2>1, SameSessions DEF monitorTest, counts, workers, Counted
<1>6. CASE monitorClean
  <2> DEFINE pruned == {s \in Listed : ~isActive(s)}
  <2>1. \A t \in Slots :
           session'[t].listed = IF t \in pruned THEN FALSE ELSE session[t].listed
    <3> SUFFICES ASSUME NEW t \in Slots
                 PROVE  session'[t].listed = IF t \in pruned THEN FALSE
                                             ELSE session[t].listed
      BY Zenon
    <3>1. session'[t] = IF t \in pruned
                        THEN Settled([session[t] EXCEPT !.listed = FALSE])
                        ELSE session[t]
      BY <1>6 DEF monitorClean, cleanupInactiveSessions
    <3>2. PICK o : o = [session[t] EXCEPT !.listed = FALSE]
      BY Zenon
    <3>3. o.listed = FALSE /\ o.listed \in BOOLEAN
      BY <1>1, <3>2 DEF Typed, Record
    <3>4. Settled(o).listed = FALSE
      BY <3>3 DEF Settled, Free
    <3> HIDE DEF pruned
    <3> QED  BY <3>1, <3>2, <3>4, Zenon
  <2>2. active_connections' = active_connections - Cardinality(pruned)
    BY <1>6 DEF monitorClean, cleanupInactiveSessions
  <2>3. pruned \subseteq Listed
    OBVIOUS
  <2> HIDE DEF pruned
  <2>4. Listed' = Listed \ pruned
    BY <2>1, Zenon DEF Listed
  <2>5. /\ IsFiniteSet(Listed') /\ Cardinality(pruned) \in Nat
        /\ Cardinality(Listed) \in Nat
        /\ Cardinality(Listed') = Cardinality(Listed) - Cardinality(pruned)
    <3>1. IsFiniteSet(Listed) /\ IsFiniteSet(pruned) /\ Listed \cap pruned = pruned
      BY <2>3, FS_Subset DEF Counted
    <3>2. Cardinality(pruned) \in Nat /\ Cardinality(Listed) \in Nat
      BY <3>1, FS_CardinalityType
    <3>3. /\ IsFiniteSet(Listed \ pruned)
          /\ Cardinality(Listed \ pruned) = Cardinality(Listed) - Cardinality(pruned)
      BY <3>1, FS_Difference
    <3> QED  BY <2>4, <3>2, <3>3
  <2>6. /\ UNCHANGED <<connections, running, main, workers_running>>
        /\ monitor' = "test"
    BY <1>6 DEF monitorClean, workers
  <2> QED  BY <2>2, <2>5, <2>6 DEF Counted, Handling
<1>7. CASE stop
  <2>1. \A t \in Slots : session'[t].listed = FALSE
    <3> SUFFICES ASSUME NEW t \in Slots PROVE session'[t].listed = FALSE
      BY Zenon
    <3>1. session'[t] =
             IF session[t].listed
             THEN Settled([session[t] EXCEPT !.active = FALSE, !.listed = FALSE])
             ELSE session[t]
      BY <1>7, Zenon DEF stop
    <3>2. PICK o : o = [session[t] EXCEPT !.active = FALSE, !.listed = FALSE]
      OBVIOUS
    <3>3. o.listed = FALSE /\ o.listed \in BOOLEAN
      BY <1>1, <3>2 DEF Typed, Record
    <3>4. Settled(o).listed = FALSE
      BY <3>3 DEF Settled, Free
    <3>5. session[t].listed \in BOOLEAN
      BY <1>1, Records
    <3> QED  BY <3>1, <3>2, <3>4, <3>5
  <2>2. Listed' = {}
    BY <2>1 DEF Listed
  <2> QED  BY <1>7, <2>2, FS_EmptySet, Zenon DEF stop, counts, workers, Counted, Handling
<1>8. CASE Shutdown
  <2>1. Listed' = Listed
    BY <1>8 DEF Shutdown, stopWorkerThreads, joinWorkers, finish, Listed
  <2>2. /\ UNCHANGED <<connections, active_connections, running, monitor>>
        /\ workers_running' = workers_running \/ workers_running' = FALSE
        /\ main' \in {"join", "pool", "exited"}
    BY <1>8, Zenon DEF Shutdown, stopWorkerThreads, joinWorkers, finish, counts,
                       workers
  <2> QED  BY <2>1, <2>2, SameSessions, Zenon DEF Counted
<1>9. CASE UNCHANGED vars
  <2>1. Listed' = Listed
    BY <1>9 DEF vars, Listed
  <2> QED  BY <1>9, <2>1, SameSessions DEF vars, process, workers, counts, Counted
<1> QED
  BY <1>2, <1>3, <1>4, <1>5, <1>6, <1>7, <1>8, <1>9
     DEF Next, handle, monitorConnections

\* While the server runs, active_connections_ is the size of sessions_, though
\* io_context's thread counts up and the monitor's counts down, and an object is
\* in memory only if sessions_ or a pending operation refers to it.
THEOREM ConnectionsCounted == Spec => []TypeOK
<1>1. Init => Counted
  <2>1. ASSUME Init PROVE Listed = {}
    BY <2>1, Zenon DEF Init, Listed, Free
  <2> QED  BY <2>1, FS_EmptySet, ServerAssumption DEF Init, Counted
<1>2. Inv /\ Counted => TypeOK
  <2> SUFFICES ASSUME Inv, Counted PROVE TypeOK
    OBVIOUS
  <2>1. session \in [Slots -> [conn : 0..MaxConnections, active : BOOLEAN,
                               listed : BOOLEAN, reads : Nat, writes : Nat,
                               idle : BOOLEAN]]
    <3>1. \A s \in Slots : session[s] \in Record /\ session[s].conn \in 0..MaxConnections
      BY ServerAssumption DEF Inv, Typed, Numbered, Counted, Record
    <3> QED  BY <3>1, Zenon DEF Inv, Typed, Record
  <2>2. work_queue \in Seq([slot : Slots, conn : Connections])
    <3>1. \A i \in Queued : work_queue[i] \in Job /\ work_queue[i].conn <= connections
      BY Records DEF Inv, Numbered
    <3>2. connections \in Nat /\ connections <= MaxConnections
      BY DEF Inv, Typed, Counted
    <3>3. \A i \in Queued : work_queue[i] \in [slot : Slots, conn : Connections]
      BY <3>1, <3>2, ServerAssumption DEF Job, Connections
    <3>4. work_queue \in Seq(Job) /\ Queued = 1..Len(work_queue)
      BY DEF Inv, Typed, Queued
    <3>5. PICK J : J = [slot : Slots, conn : Connections]
      BY Zenon
    <3>6. \A i \in 1..Len(work_queue) : work_queue[i] \in J
      BY <3>3, <3>4, <3>5
    <3>7. work_queue \in Seq(J)
      BY <3>4, <3>6
    <3> QED  BY <3>5, <3>7, Zenon
  <2>3. \A s \in Slots : session[s] = Settled(session[s])
    <3>1. Free = Settled(Free)
      BY DEF Settled
    <3> QED  BY <3>1 DEF Inv, Referred, Settled
  <2> QED  BY <2>1, <2>2, <2>3 DEF TypeOK, Inv, Typed, Counted
<1>3. Inv /\ Joined /\ Counted /\ [Next]_vars => Counted'
  BY CountedStep
<1> QED  BY <1>1, <1>2, <1>3, ServerInvariant, PTL DEF Spec
===============================================================================
