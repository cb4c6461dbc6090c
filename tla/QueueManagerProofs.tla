-------------------------- MODULE QueueManagerProofs --------------------------
(***************************************************************************)
(* Theorems about QueueManager, for any threads, tasks, groups and widths. *)
(***************************************************************************)
EXTENDS QueueManager, FiniteSetTheorems, TLAPS

\* The time that a step may take.
USE SMTT(20), ZenonT(30), SMTT(25)

\* A size_t that wraps stays within its width.
LEMMA WrapType ==
    ASSUME NEW x \in Int
    PROVE  x % (MaxSize + 1) \in 0..MaxSize
BY WidthAssumption

\* A queue after a node was inserted at place i.
LEMMA InsertedType ==
    ASSUME NEW s \in Seq(Tasks), NEW i \in 1..(Len(s) + 1), NEW e \in Tasks
    PROVE  /\ Inserted(s, i, e) \in Seq(Tasks)
           /\ Len(Inserted(s, i, e)) = Len(s) + 1
           /\ \A j \in 1..(Len(s) + 1) :
                 Inserted(s, i, e)[j] = IF j < i THEN s[j]
                                        ELSE IF j = i THEN e ELSE s[j - 1]
<1> DEFINE a == SubSeq(s, 1, i - 1)
           b == SubSeq(s, i, Len(s))
           m == a \o <<e>>
<1>0. Len(s) \in Nat /\ i \in Int /\ \A k \in 1..Len(s) : s[k] \in Tasks
  OBVIOUS
<1>1. a \in Seq(Tasks) /\ Len(a) = i - 1 /\ \A j \in 1..(i - 1) : a[j] = s[j]
  <2>1. \A k \in 1..(i - 1) : s[k] \in Tasks
    BY <1>0
  <2>2. /\ a \in Seq(Tasks)
        /\ Len(a) = IF 1 <= i - 1 THEN i - 1 - 1 + 1 ELSE 0
        /\ \A k \in 1..(i - 1 - 1 + 1) : a[k] = s[1 + k - 1]
    BY <1>0, <2>1
  <2> QED  BY <1>0, <2>2
<1>2. b \in Seq(Tasks) /\ Len(b) = Len(s) + 1 - i
      /\ \A j \in 1..(Len(s) + 1 - i) : b[j] = s[i + j - 1]
  <2>1. \A k \in i..Len(s) : s[k] \in Tasks
    BY <1>0
  <2>2. /\ b \in Seq(Tasks)
        /\ Len(b) = IF i <= Len(s) THEN Len(s) - i + 1 ELSE 0
        /\ \A k \in 1..(Len(s) - i + 1) : b[k] = s[i + k - 1]
    BY <1>0, <2>1
  <2> QED  BY <1>0, <2>2
<1> HIDE DEF a, b
<1>3. m \in Seq(Tasks) /\ Len(m) = i
      /\ \A j \in 1..i : m[j] = IF j < i THEN s[j] ELSE e
  <2>1. <<e>> \in Seq(Tasks) /\ Len(<<e>>) = 1 /\ <<e>>[1] = e
    OBVIOUS
  <2> QED  BY <1>0, <1>1, <2>1
<1> HIDE DEF m
<1>4. /\ m \o b \in Seq(Tasks)
      /\ Len(m \o b) = i + (Len(s) + 1 - i)
      /\ \A j \in 1..(i + (Len(s) + 1 - i)) :
            (m \o b)[j] = IF j <= i THEN m[j] ELSE b[j - i]
  <2>1. /\ m \o b \in Seq(Tasks)
        /\ Len(m \o b) = Len(m) + Len(b)
        /\ \A j \in 1..(Len(m) + Len(b)) :
              (m \o b)[j] = IF j <= Len(m) THEN m[j] ELSE b[j - Len(m)]
    <3>1. m \in Seq(Tasks) /\ b \in Seq(Tasks)
      BY <1>2, <1>3
    <3> HIDE DEF m
    <3> QED  BY <3>1
  <2> QED  BY <1>2, <1>3, <2>1, Zenon
<1>5. Inserted(s, i, e) = m \o b
  BY DEF Inserted, m, a, b
<1> QED  BY <1>0, <1>2, <1>3, <1>4, <1>5

\* What setMode puts into a new container is a rearrangement of the old one.
LEMMA RefillsType ==
    ASSUME NEW m, NEW s \in Seq(Tasks), NEW r \in Refills(m, s)
    PROVE  /\ r \in Seq(Tasks)
           /\ Len(r) = Len(s)
           /\ Range(r) = Range(s)
           /\ IsInjective(s) => IsInjective(r)
<1>1. PICK p \in Bijection(DOMAIN s, DOMAIN s) : r = [i \in DOMAIN s |-> s[p[i]]]
  BY DEF Refills
<1>2. DOMAIN s = 1..Len(s) /\ Len(s) \in Nat
  OBVIOUS
<1>3. /\ p \in [1..Len(s) -> 1..Len(s)]
      /\ \A i, j \in 1..Len(s) : p[i] = p[j] => i = j
      /\ \A j \in 1..Len(s) : \E i \in 1..Len(s) : p[i] = j
  BY <1>1, <1>2, Zenon DEF Bijection, Injection, Surjection, IsInjective
<1>4. r \in [1..Len(s) -> Tasks]
  BY <1>1, <1>2, <1>3
<1>5. r \in Seq(Tasks) /\ Len(r) = Len(s)
  BY <1>2, <1>4
<1>6. Range(r) = Range(s)
  <2>1. Range(r) \subseteq Range(s)
    BY <1>1, <1>2, <1>3 DEF Range
  <2>2. ASSUME NEW j \in 1..Len(s)
        PROVE  s[j] \in Range(r)
    <3>1. PICK i \in 1..Len(s) : p[i] = j
      BY <1>3
    <3>2. r[i] = s[j]
      BY <1>1, <1>2, <3>1
    <3> QED  BY <1>4, <3>2 DEF Range
  <2> QED  BY <1>2, <2>1, <2>2, Zenon DEF Range
<1>7. ASSUME IsInjective(s)
      PROVE  IsInjective(r)
  <2>1. \A i, j \in 1..Len(s) : s[i] = s[j] => i = j
    BY <1>2, <1>7 DEF IsInjective
  <2>2. \A i \in 1..Len(s) : r[i] = s[p[i]] /\ p[i] \in 1..Len(s)
    BY <1>1, <1>2, <1>3, Zenon
  <2>3. ASSUME NEW i \in 1..Len(s), NEW j \in 1..Len(s), r[i] = r[j]
        PROVE  i = j
    <3>1. s[p[i]] = s[p[j]]
      BY <2>2, <2>3
    <3>2. p[i] = p[j]
      BY <2>1, <2>2, <3>1
    <3> QED  BY <1>3, <3>2
  <2> QED  BY <1>4, <2>3 DEF IsInjective
<1> QED  BY <1>5, <1>6, <1>7

\* Every mode has a container.
LEMMA ContainerType == \A m \in AllModes : Container[m] \in Containers
BY DEF Container, Containers, AllModes

\* The members of a new manager have their types.
LEMMA TypeInit == Init => TypeOK
BY ConstantsAssumption, WidthAssumption
   DEF Init, TypeOK, AllModes, TaskStatus, Ops, Cancelling

\* Every step of every operation keeps the types.
LEMMA TypeStep == TypeOK /\ [Next]_vars => TypeOK'
<1> SUFFICES ASSUME TypeOK, [Next]_vars PROVE TypeOK'
  OBVIOUS
<1> USE ConstantsAssumption, WidthAssumption
<1>1. ASSUME NEW th \in Threads, NEW t \in Tasks, NEW g \in Groups,
             EnqueueRegister(th, t, g)
      PROVE  TypeOK'
  BY <1>1, Zenon DEF TypeOK, EnqueueRegister, Registered, queueVars, counters, Ops,
              Cancelling
<1>2. ASSUME NEW th \in Threads, EnqueueInsert(th)
      PROVE  TypeOK'
  <2> DEFINE t == arg[th]
             g == grp[th]
             c == Container[mode]
             s == queues[c][g]
  <2>1. t \in Tasks /\ g \in Groups /\ c \in Containers /\ s \in Seq(Tasks)
    BY <1>2, ContainerType DEF EnqueueInsert, TypeOK
  <2>2. PICK i \in 1..(Len(s) + 1) :
           queues' = [queues EXCEPT ![c][g] = Inserted(s, i, t)]
    BY <1>2, Zenon DEF EnqueueInsert
  <2>3. Inserted(s, i, t) \in Seq(Tasks)
    BY <2>1, InsertedType, Zenon
  <2>4. queues' \in [Containers -> [Groups -> Seq(Tasks)]]
    <3> HIDE DEF s, t, g, c
    <3> QED  BY <2>1, <2>2, <2>3, Zenon DEF TypeOK
  <2>5. group_names' \in Seq(Groups) /\ arrived' \in Seq(Tasks)
    <3>1. group_names \in Seq(Groups) /\ arrived \in Seq(Tasks)
      BY DEF TypeOK
    <3>2. /\ group_names' \in {group_names, Append(group_names, g)}
          /\ arrived' = Append(arrived, t)
      BY <1>2 DEF EnqueueInsert
    <3> HIDE DEF s, t, g, c
    <3>3. Append(group_names, g) \in Seq(Groups)
      BY <2>1, <3>1
    <3>4. Append(arrived, t) \in Seq(Tasks)
      BY <2>1, <3>1
    <3> QED  BY <3>1, <3>2, <3>3, <3>4, Zenon
  <2> QED  BY <1>2, <2>4, <2>5, Zenon DEF EnqueueInsert, TypeOK, counters, Ops,
                                   Cancelling
<1>3. ASSUME NEW th \in Threads, EnqueueCount(th)
      PROVE  TypeOK'
  BY <1>3 DEF TypeOK, EnqueueCount, queueVars, history, Ops, Cancelling
<1>4. ASSUME NEW th \in Threads, EnqueueTotal(th)
      PROVE  TypeOK'
  BY <1>4 DEF TypeOK, EnqueueTotal, Inc, queueVars, counters, history, Ops,
              Cancelling
<1>5. ASSUME NEW th \in Threads, DequeueTake(th)
      PROVE  TypeOK'
  <2>1. PICK g \in Groups, n \in 0..Len(group_names) :
           /\ Selected(g, n)
           /\ queues' = [queues EXCEPT ![Container[mode]][g] = Popped(@)]
           /\ current_group_index' = Advanced(n)
           /\ arg' = [arg EXCEPT ![th] = Head(Active[g])]
           /\ delivered' = delivered \cup {Head(Active[g])}
           /\ leaked' = IF mode = "PRIORITY"
                        THEN leaked \cup {Head(Active[g])} ELSE leaked
    BY <1>5, Zenon DEF DequeueTake
  <2>2. /\ Container[mode] \in Containers
        /\ Active[g] = queues[Container[mode]][g]
        /\ Active[g] \in Seq(Tasks) /\ Active[g] # <<>>
    <3>1. Active[g] # <<>>
      BY <2>1 DEF Selected
    <3>2. Container[mode] \in Containers
      BY ContainerType DEF TypeOK
    <3> QED  BY <3>1, <3>2 DEF TypeOK, Active
  <2>3. Head(Active[g]) \in Tasks /\ Popped(Active[g]) \in Seq(Tasks)
    BY <2>2 DEF Popped
  <2>4. queues' \in [Containers -> [Groups -> Seq(Tasks)]]
    BY <2>1, <2>2, <2>3, Zenon DEF TypeOK
  <2>5. current_group_index' \in 0..MaxSize
    BY <2>1, WrapType DEF TypeOK, Advanced
  <2> QED  BY <1>5, <2>1, <2>3, <2>4, <2>5, ZenonT(30)
           DEF DequeueTake, TypeOK, counters, Ops, Cancelling
<1>6. ASSUME NEW th \in Threads, DequeueNone(th)
      PROVE  TypeOK'
  <2>1. current_group_index' \in 0..MaxSize
    <3>1. Advanced(Len(group_names)) \in 0..MaxSize
      <4>1. current_group_index + Len(group_names) \in Int
        BY DEF TypeOK
      <4> QED  BY <4>1, WrapType, Zenon DEF Advanced
    <3> QED  BY <1>6, <3>1 DEF DequeueNone, TypeOK
  <2> QED  BY <1>6, <2>1, Zenon DEF DequeueNone, TypeOK, counters, history
<1>7. ASSUME NEW th \in Threads, DequeueCount(th)
      PROVE  TypeOK'
  BY <1>7 DEF TypeOK, DequeueCount, queueVars, history, Ops, Cancelling
<1>8. ASSUME NEW th \in Threads, DequeueTotal(th)
      PROVE  TypeOK'
  BY <1>8 DEF TypeOK, DequeueTotal, Dec, queueVars, counters, history, Ops,
              Cancelling
<1>9. ASSUME NEW th \in Threads, Peek(th)
      PROVE  TypeOK'
  BY <1>9 DEF TypeOK, Peek, queueVars, history
<1>10. ASSUME NEW th \in Threads, NEW id \in Ids, CancelBegin(th, id)
       PROVE  TypeOK'
  BY <1>10 DEF TypeOK, CancelBegin, queueVars, counters, history, Ops,
               Cancelling
<1>11. ASSUME NEW th \in Threads, CancelLoad(th)
       PROVE  TypeOK'
  BY <1>11 DEF TypeOK, CancelLoad, queueVars, counters, history, Ops,
               Cancelling
<1>12. ASSUME NEW th \in Threads, CancelStore(th)
       PROVE  TypeOK'
  BY <1>12 DEF TypeOK, CancelStore, queueVars, counters, history, Ops,
               Cancelling, TaskStatus
<1>13. ASSUME NEW th \in Threads, CancelErase(th)
       PROVE  TypeOK'
  BY <1>13 DEF TypeOK, CancelErase, queueVars, history, Ops, Cancelling
<1>14. ASSUME NEW th \in Threads, CancelTotal(th)
       PROVE  TypeOK'
  BY <1>14 DEF TypeOK, CancelTotal, Dec, queueVars, counters, history, Ops,
               Cancelling
<1>15. ASSUME NEW th \in Threads, Clear(th)
       PROVE  TypeOK'
  <2>1. Queued \subseteq Tasks
    BY DEF TypeOK, Queued, Contents, Range
  <2>2. queues' \in [Containers -> [Groups -> Seq(Tasks)]]
    BY <1>15 DEF Clear
  <2> QED  BY <1>15, <2>1, <2>2 DEF TypeOK, Clear, counters
<1>16. ASSUME NEW th \in Threads, NEW m \in Modes, SetMode(th, m)
       PROVE  TypeOK'
  <2>1. Queued \subseteq Tasks
    BY DEF TypeOK, Queued, Contents, Range
  <2>2. PICK filled \in [Groups -> UNION {Refills(m, Active[g]) : g \in Groups}] :
           /\ \A g \in Groups : filled[g] \in Refills(m, Active[g])
           /\ queues' = Refilled(m, filled)
    BY <1>16, Zenon DEF SetMode
  <2>3. \A g \in Groups : Active[g] \in Seq(Tasks)
    BY ContainerType DEF TypeOK, Active
  <2>4. filled \in [Groups -> Seq(Tasks)]
    BY <2>2, <2>3, RefillsType
  <2>5. queues' \in [Containers -> [Groups -> Seq(Tasks)]]
    BY <2>2, <2>4 DEF Refilled
  <2> QED  BY <1>16, <2>1, <2>5, Zenon DEF TypeOK, SetMode, counters
<1>17. CASE UNCHANGED vars
  BY <1>17 DEF TypeOK, vars, queueVars, counters, history
<1> QED
  BY <1>1, <1>2, <1>3, <1>4, <1>5, <1>6, <1>7, <1>8, <1>9, <1>10, <1>11,
     <1>12, <1>13, <1>14, <1>15, <1>16, <1>17
  DEF Next, CancelNext, CoreNext, Enqueue, Dequeue, Cancel

\* The state of the manager keeps its types under every interleaving of its
\* operations; in particular total_tasks_ and the round robin index stay within
\* the width of size_t.
THEOREM TypeCorrect == Spec => []TypeOK
BY TypeInit, TypeStep, PTL DEF Spec

-------------------------------------------------------------------------------
(* What the three changes of the containers do to their contents.          *)

Queues == [Containers -> [Groups -> Seq(Tasks)]]

\* Inserting a new task adds that task and no other, once.
LEMMA InsertedRange ==
    ASSUME NEW s \in Seq(Tasks), NEW i \in 1..(Len(s) + 1), NEW t \in Tasks,
           IsInjective(s), t \notin Range(s)
    PROVE  /\ Inserted(s, i, t) \in Seq(Tasks)
           /\ IsInjective(Inserted(s, i, t))
           /\ Range(Inserted(s, i, t)) = Range(s) \cup {t}
<1> DEFINE n == Inserted(s, i, t)
<1>1. /\ n \in Seq(Tasks)
      /\ Len(n) = Len(s) + 1
      /\ \A j \in 1..(Len(s) + 1) :
            n[j] = IF j < i THEN s[j] ELSE IF j = i THEN t ELSE s[j - 1]
  BY InsertedType
<1> HIDE DEF n
<1>2. /\ DOMAIN s = 1..Len(s) /\ Len(s) \in Nat
      /\ DOMAIN n = 1..(Len(s) + 1)
  BY <1>1
<1>3. \A j \in 1..Len(s) : s[j] # t
  BY <1>2 DEF Range
<1>4. IsInjective(n)
  <2>1. \A j, k \in 1..Len(s) : s[j] = s[k] => j = k
    BY <1>2 DEF IsInjective
  <2>2. SUFFICES ASSUME NEW j \in 1..(Len(s) + 1), NEW k \in 1..(Len(s) + 1),
                        j < k
                 PROVE  n[j] # n[k]
    BY <1>2 DEF IsInjective
  <2>3. CASE j # i /\ k # i
    <3> DEFINE jj == IF j < i THEN j ELSE j - 1
               kk == IF k < i THEN k ELSE k - 1
    <3>1. n[j] = s[jj] /\ n[k] = s[kk]
      BY <1>1, <1>2, <2>3
    <3>2. jj \in 1..Len(s) /\ kk \in 1..Len(s) /\ jj # kk
      BY <1>2, <2>2, <2>3
    <3> QED  BY <2>1, <3>1, <3>2, Zenon
  <2>4. CASE j = i \/ k = i
    BY <1>1, <1>2, <1>3, <2>2, <2>4
  <2> QED  BY <2>3, <2>4
<1>5. Range(n) \subseteq Range(s) \cup {t}
  <2>1. ASSUME NEW j \in 1..(Len(s) + 1)
        PROVE  n[j] = t \/ \E k \in 1..Len(s) : n[j] = s[k]
    BY <1>1, <1>2
  <2> QED  BY <1>2, <2>1 DEF Range
<1>6. Range(s) \cup {t} \subseteq Range(n)
  <2>1. n[i] = t
    BY <1>1, <1>2
  <2>2. ASSUME NEW j \in 1..Len(s)
        PROVE  \E k \in 1..(Len(s) + 1) : n[k] = s[j]
    <3>1. CASE j < i
      BY <1>1, <1>2, <3>1
    <3>2. CASE j >= i
      <4>1. j + 1 \in 1..(Len(s) + 1) /\ n[j + 1] = s[j]
        BY <1>1, <1>2, <3>2
      <4> QED  BY <4>1
    <3> QED  BY <1>2, <3>1, <3>2
  <2> QED  BY <1>2, <2>1, <2>2 DEF Range
<1> QED  BY <1>1, <1>4, <1>5, <1>6 DEF n

\* Popping removes the head and nothing else.
LEMMA PoppedRange ==
    ASSUME NEW s \in Seq(Tasks), s # <<>>, IsInjective(s)
    PROVE  /\ Head(s) \in Range(s)
           /\ Popped(s) \in Seq(Tasks)
           /\ IsInjective(Popped(s))
           /\ Range(Popped(s)) = Range(s) \ {Head(s)}
<1>1. /\ Len(s) \in Nat \ {0} /\ DOMAIN s = 1..Len(s) /\ Head(s) = s[1]
      /\ Tail(s) \in Seq(Tasks) /\ DOMAIN Tail(s) = 1..(Len(s) - 1)
      /\ \A j \in 1..(Len(s) - 1) : Tail(s)[j] = s[j + 1]
  OBVIOUS
<1>2. \A i, j \in 1..Len(s) : s[i] = s[j] => i = j
  BY <1>1 DEF IsInjective
<1>3. IsInjective(Tail(s))
  BY <1>1, <1>2 DEF IsInjective
<1>4. Range(Tail(s)) \subseteq Range(s) \ {Head(s)}
  BY <1>1, <1>2 DEF Range
<1>5. ASSUME NEW j \in 1..Len(s), s[j] # Head(s)
      PROVE  s[j] \in Range(Tail(s))
  <2>1. j - 1 \in 1..(Len(s) - 1) /\ Tail(s)[j - 1] = s[j]
    BY <1>1, <1>5
  <2> QED  BY <1>1, <2>1, Zenon DEF Range
<1>6. Range(Tail(s)) = Range(s) \ {Head(s)}
  <2>1. ASSUME NEW x \in Range(s), x # Head(s)
        PROVE  x \in Range(Tail(s))
    <3>1. PICK j \in 1..Len(s) : s[j] = x
      BY <1>1 DEF Range
    <3> QED  BY <1>5, <2>1, <3>1
  <2> QED  BY <1>4, <2>1
<1>7. Head(s) \in Range(s)
  BY <1>1 DEF Range
<1> QED  BY <1>1, <1>3, <1>6, <1>7 DEF Popped

\* Inserting into one container, seen from all containers.
LEMMA InsertEffect ==
    ASSUME NEW q \in Queues, PlacedOnce(q),
           NEW c \in Containers, NEW g \in Groups,
           NEW i \in 1..(Len(q[c][g]) + 1),
           NEW t \in Tasks, t \notin Contents(q)
    PROVE  LET r == [q EXCEPT ![c][g] = Inserted(q[c][g], i, t)]
           IN  /\ r \in Queues
               /\ Contents(r) = Contents(q) \cup {t}
               /\ PlacedOnce(r)
<1> DEFINE n == Inserted(q[c][g], i, t)
           r == [q EXCEPT ![c][g] = n]
<1>1. \A d \in Containers, h \in Groups :
         q[d][h] \in Seq(Tasks) /\ t \notin Range(q[d][h])
  BY DEF Queues, Contents
<1>2. n \in Seq(Tasks) /\ IsInjective(n) /\ Range(n) = Range(q[c][g]) \cup {t}
  BY <1>1, InsertedRange DEF PlacedOnce
<1> HIDE DEF n
<1>3. r \in Queues
      /\ \A d \in Containers, h \in Groups :
            r[d][h] = IF d = c /\ h = g THEN n ELSE q[d][h]
  BY <1>2 DEF Queues
<1> HIDE DEF r
<1>4. Contents(r) = Contents(q) \cup {t}
  BY <1>2, <1>3 DEF Contents
<1>5. PlacedOnce(r)
  <2> SUFFICES ASSUME NEW d1 \in Containers, NEW d2 \in Containers,
                      NEW h1 \in Groups, NEW h2 \in Groups
               PROVE  /\ IsInjective(r[d1][h1])
                      /\ d1 # d2 \/ h1 # h2 =>
                            Range(r[d1][h1]) \cap Range(r[d2][h2]) = {}
    BY Zenon DEF PlacedOnce
  <2>1. /\ IsInjective(q[d1][h1])
        /\ d1 # d2 \/ h1 # h2 => Range(q[d1][h1]) \cap Range(q[d2][h2]) = {}
    BY DEF PlacedOnce
  <2> QED  BY <1>1, <1>2, <1>3, <2>1
<1> QED  BY <1>3, <1>4, <1>5, Zenon DEF r, n

\* Popping from one container, seen from all containers.
LEMMA PopEffect ==
    ASSUME NEW q \in Queues, PlacedOnce(q),
           NEW c \in Containers, NEW g \in Groups, q[c][g] # <<>>
    PROVE  LET r == [q EXCEPT ![c][g] = Popped(q[c][g])]
           IN  /\ r \in Queues
               /\ Head(q[c][g]) \in Contents(q)
               /\ Contents(r) = Contents(q) \ {Head(q[c][g])}
               /\ PlacedOnce(r)
<1> DEFINE n == Popped(q[c][g])
           t == Head(q[c][g])
           r == [q EXCEPT ![c][g] = n]
<1>1. \A d \in Containers, h \in Groups :
         q[d][h] \in Seq(Tasks) /\ IsInjective(q[d][h])
  BY Zenon DEF Queues, PlacedOnce
<1>2. /\ t \in Range(q[c][g]) /\ t \in Tasks
      /\ n \in Seq(Tasks) /\ IsInjective(n) /\ Range(n) = Range(q[c][g]) \ {t}
  BY <1>1, PoppedRange
<1> HIDE DEF n, t
<1>3. r \in Queues
      /\ \A d \in Containers, h \in Groups :
            r[d][h] = IF d = c /\ h = g THEN n ELSE q[d][h]
  BY <1>2 DEF Queues
<1> HIDE DEF r
<1>4. \A d \in Containers, h \in Groups :
         d # c \/ h # g => t \notin Range(q[d][h])
  BY <1>2, Zenon DEF PlacedOnce
<1>5. Contents(r) = Contents(q) \ {t}
  BY <1>2, <1>3, <1>4 DEF Contents
<1>6. PlacedOnce(r)
  BY <1>2, <1>3 DEF PlacedOnce
<1>7. t \in Contents(q)
  BY <1>2 DEF Contents
<1> QED  BY <1>3, <1>5, <1>6, <1>7, Zenon DEF r, n, t

-------------------------------------------------------------------------------
(* No task is handed out twice, and only the containers of the current     *)
(* mode hold tasks: for every number of threads, tasks and groups, every   *)
(* mode change, clear and cancelTask included.                             *)

\* What setMode does to the containers: it keeps the tasks, each in one place,
\* and leaves only the containers of the new mode in use.
LEMMA RefillEffect ==
    ASSUME TypeOK, OnlyActiveUsed, PlacedOnce(queues),
           NEW m \in AllModes, NEW filled,
           filled \in [Groups -> UNION {Refills(m, Active[g]) : g \in Groups}],
           \A g \in Groups : filled[g] \in Refills(m, Active[g])
    PROVE  LET r == Refilled(m, filled)
           IN  /\ Contents(r) = Contents(queues)
               /\ PlacedOnce(r)
               /\ \A c \in Containers \ {Container[m]}, g \in Groups :
                     r[c][g] = <<>>
<1> DEFINE r == Refilled(m, filled)
           a == Container[mode]
           b == Container[m]
<1>1. /\ a \in Containers /\ b \in Containers
      /\ \A c \in Containers, g \in Groups :
            queues[c][g] \in Seq(Tasks) /\ IsInjective(queues[c][g])
  BY ContainerType DEF TypeOK, PlacedOnce
<1>2. \A g \in Groups : /\ Range(filled[g]) = Range(queues[a][g])
                        /\ IsInjective(filled[g])
  <2> SUFFICES ASSUME NEW g \in Groups
               PROVE  /\ Range(filled[g]) = Range(queues[a][g])
                      /\ IsInjective(filled[g])
    OBVIOUS
  <2>1. filled[g] \in Refills(m, queues[a][g])
    BY DEF Active
  <2> QED  BY <1>1, <2>1, RefillsType
<1>3. \A c \in Containers, g \in Groups :
         r[c][g] = IF c = b THEN filled[g] ELSE <<>>
  BY DEF Refilled
<1>4. Range(<<>>) = {} /\ IsInjective(<<>>)
  BY DEF Range, IsInjective
<1>5. \A c \in Containers, g \in Groups : c # a => queues[c][g] = <<>>
  BY DEF OnlyActiveUsed
<1> HIDE DEF r, a, b
<1>6. Contents(r) = Contents(queues)
  BY <1>1, <1>2, <1>3, <1>4, <1>5 DEF Contents
<1>7. PlacedOnce(r)
  <2> SUFFICES ASSUME NEW c \in Containers, NEW d \in Containers,
                      NEW g \in Groups, NEW h \in Groups
               PROVE  /\ IsInjective(r[c][g])
                      /\ c # d \/ g # h =>
                            Range(r[c][g]) \cap Range(r[d][h]) = {}
    BY Zenon DEF PlacedOnce
  <2>1. g # h => Range(queues[a][g]) \cap Range(queues[a][h]) = {}
    BY <1>1, Zenon DEF PlacedOnce
  <2> QED  BY <1>2, <1>3, <1>4, <2>1
<1> QED  BY <1>3, <1>6, <1>7, Zenon DEF r, b

-------------------------------------------------------------------------------
\* DeliveredOnce is inductive only together with these: setMode drains nothing
\* but the current containers, and enqueue inserts a task that is nowhere yet.
Delivery == TypeOK /\ OnlyActiveUsed /\ DeliveredOnce /\ PendingApart

\* A new manager has neither queued nor handed out a task.
LEMMA DeliveryInit == Init => Delivery
<1> SUFFICES ASSUME Init PROVE Delivery
  OBVIOUS
<1>1. TypeOK
  BY TypeInit
<1>2. \A c \in Containers, g \in Groups : queues[c][g] = <<>>
  BY DEF Init
<1>3. Range(<<>>) = {} /\ IsInjective(<<>>)
  BY DEF Range, IsInjective
<1>4. Queued = {} /\ PlacedOnce(queues)
  BY <1>2, <1>3 DEF Queued, Contents, PlacedOnce
<1>5. OnlyActiveUsed
  BY <1>2 DEF OnlyActiveUsed
<1>6. PendingApart
  BY <1>4 DEF Init, PendingApart
<1> QED  BY <1>1, <1>4, <1>5, <1>6 DEF Delivery, DeliveredOnce, Init

\* What the three actions that move tasks do to the containers.
LEMMA InsertStep ==
    ASSUME Delivery, NEW th \in Threads, EnqueueInsert(th)
    PROVE  /\ arg[th] \in Tasks
           /\ arg[th] \notin fresh \cup Queued \cup delivered
           /\ Queued' = Queued \cup {arg[th]}
           /\ PlacedOnce(queues')
           /\ OnlyActiveUsed'
<1> DEFINE t == arg[th]
           g == grp[th]
           c == Container[mode]
           s == queues[c][g]
<1>1. PICK i \in 1..(Len(s) + 1) :
         queues' = [queues EXCEPT ![c][g] = Inserted(s, i, t)]
  BY Zenon DEF EnqueueInsert
<1>2. /\ t \in Tasks /\ g \in Groups /\ c \in Containers
      /\ queues \in Queues /\ PlacedOnce(queues) /\ OnlyActiveUsed
      /\ t \notin fresh \cup Queued \cup delivered
  BY ContainerType
     DEF EnqueueInsert, TypeOK, Delivery, PendingApart, DeliveredOnce, Queues
<1>3. t \notin Contents(queues) /\ i \in 1..(Len(queues[c][g]) + 1)
  BY <1>1, <1>2, Zenon DEF Queued
<1>4. \A d \in Containers, h \in Groups : d # c => queues'[d][h] = queues[d][h]
  BY <1>1, <1>2 DEF Queues
<1>5. mode' = mode
  BY Zenon DEF EnqueueInsert
<1>6. OnlyActiveUsed'
  BY <1>2, <1>4, <1>5, ZenonT(30) DEF OnlyActiveUsed
<1> HIDE DEF t, g, c
<1>7. /\ Contents([queues EXCEPT ![c][g] = Inserted(queues[c][g], i, t)])
            = Contents(queues) \cup {t}
      /\ PlacedOnce([queues EXCEPT ![c][g] = Inserted(queues[c][g], i, t)])
  BY <1>2, <1>3, InsertEffect
<1>8. Queued' = Queued \cup {t} /\ PlacedOnce(queues')
  BY <1>1, <1>7, Zenon DEF Queued
<1> QED  BY <1>2, <1>6, <1>8 DEF t

\* A dequeue moves one task from its container to the delivered ones.
LEMMA TakeStep ==
    ASSUME Delivery, NEW th \in Threads, DequeueTake(th)
    PROVE  /\ PlacedOnce(queues')
           /\ OnlyActiveUsed'
           /\ \E t \in Queued : /\ Queued' = Queued \ {t}
                                /\ delivered' = delivered \cup {t}
<1> DEFINE c == Container[mode]
<1>1. PICK g \in Groups :
         /\ queues[c][g] # <<>>
         /\ queues' = [queues EXCEPT ![c][g] = Popped(queues[c][g])]
         /\ delivered' = delivered \cup {Head(queues[c][g])}
  BY DEF DequeueTake, Selected, Active
<1> DEFINE t == Head(queues[c][g])
<1>2. /\ c \in Containers /\ queues \in Queues /\ PlacedOnce(queues)
      /\ OnlyActiveUsed
  BY ContainerType DEF TypeOK, Delivery, DeliveredOnce, Queues
<1>3. t \in Queued /\ Queued' = Queued \ {t} /\ PlacedOnce(queues')
  BY <1>1, <1>2, PopEffect, Zenon DEF Queued
<1>4. \A d \in Containers, h \in Groups : d # c => queues'[d][h] = queues[d][h]
  BY <1>1, <1>2 DEF Queues
<1>5. mode' = mode
  BY Zenon DEF DequeueTake
<1>6. OnlyActiveUsed'
  BY <1>2, <1>4, <1>5, ZenonT(30) DEF OnlyActiveUsed
<1> QED  BY <1>1, <1>3, <1>6, Zenon

\* setMode moves every task to the new mode's containers, and loses none.
LEMMA ModeStep ==
    ASSUME Delivery, NEW th \in Threads, NEW m \in Modes, SetMode(th, m)
    PROVE  Queued' = Queued /\ PlacedOnce(queues') /\ OnlyActiveUsed'
<1>1. PICK filled \in [Groups -> UNION {Refills(m, Active[g]) : g \in Groups}] :
         /\ \A g \in Groups : filled[g] \in Refills(m, Active[g])
         /\ queues' = Refilled(m, filled)
  BY DEF SetMode
<1>2. TypeOK /\ m \in AllModes /\ OnlyActiveUsed /\ PlacedOnce(queues)
  BY ConstantsAssumption DEF Delivery, DeliveredOnce
<1>3. /\ Queued' = Queued
      /\ PlacedOnce(queues')
      /\ \A c \in Containers \ {Container[m]}, g \in Groups :
            queues'[c][g] = <<>>
  BY <1>1, <1>2, RefillEffect DEF Queued
<1>4. mode' = m
  BY DEF SetMode
<1> QED  BY <1>3, <1>4 DEF OnlyActiveUsed

\* A step that leaves the containers and the pending tasks alone, or gives up
\* pending ones.
LEMMA QuietStep ==
    ASSUME Delivery, UNCHANGED <<mode, queues, delivered, fresh>>,
           \A th \in Threads : op'[th] = "enq_insert" =>
               op[th] = "enq_insert" /\ arg'[th] = arg[th]
    PROVE  OnlyActiveUsed' /\ DeliveredOnce' /\ PendingApart'
<1>1. Queued' = Queued
  BY DEF Queued
<1>2. OnlyActiveUsed' /\ DeliveredOnce'
  BY <1>1 DEF Delivery, OnlyActiveUsed, DeliveredOnce
<1>3. PendingApart'
  BY <1>1 DEF Delivery, PendingApart
<1> QED  BY <1>2, <1>3

\* Every step of every operation keeps the inductive invariant.
LEMMA DeliveryStep == Delivery /\ [Next]_vars => Delivery'
<1> SUFFICES ASSUME Delivery, [Next]_vars PROVE Delivery'
  OBVIOUS
<1>0. TypeOK /\ TypeOK'
  BY TypeStep DEF Delivery
<1>1. ASSUME NEW th \in Threads, NEW t \in Tasks, NEW g \in Groups,
             EnqueueRegister(th, t, g)
      PROVE  Delivery'
  <2>1. Queued' = Queued /\ delivered' = delivered
    BY <1>1, Zenon DEF EnqueueRegister, queueVars, Queued
  <2>2. OnlyActiveUsed' /\ DeliveredOnce'
    BY <1>1, <2>1, Zenon DEF EnqueueRegister, queueVars, Delivery, OnlyActiveUsed,
                      DeliveredOnce
  <2>3. \A u \in Threads :
           IF u = th THEN op'[u] = "enq_insert" /\ arg'[u] = t
           ELSE op'[u] = op[u] /\ arg'[u] = arg[u]
    BY <1>0, <1>1 DEF EnqueueRegister, TypeOK
  <2>4. t \in fresh /\ fresh' = fresh \ {t}
    BY <1>1, Zenon DEF EnqueueRegister
  <2>5. PendingApart'
    BY <2>1, <2>3, <2>4 DEF Delivery, PendingApart
  <2> QED  BY <1>0, <2>2, <2>5 DEF Delivery
<1>2. ASSUME NEW th \in Threads, EnqueueInsert(th)
      PROVE  Delivery'
  <2>1. /\ arg[th] \notin fresh \cup Queued \cup delivered
        /\ Queued' = Queued \cup {arg[th]}
        /\ PlacedOnce(queues')
        /\ OnlyActiveUsed'
    BY <1>2, InsertStep
  <2>2. fresh' = fresh /\ delivered' = delivered /\ op[th] = "enq_insert"
    BY <1>2 DEF EnqueueInsert
  <2>3. \A u \in Threads :
           IF u = th THEN op'[u] = "enq_count"
           ELSE op'[u] = op[u] /\ arg'[u] = arg[u]
    BY <1>0, <1>2, Zenon DEF EnqueueInsert, TypeOK
  <2>4. \A u \in Threads \ {th} : op[u] = "enq_insert" => arg[u] # arg[th]
    BY <2>2 DEF Delivery, PendingApart
  <2>5. DeliveredOnce'
    BY <2>1, <2>2 DEF Delivery, DeliveredOnce
  <2>6. PendingApart'
    BY <2>1, <2>2, <2>3, <2>4 DEF Delivery, PendingApart
  <2> QED  BY <1>0, <2>1, <2>5, <2>6 DEF Delivery
<1>3. ASSUME NEW th \in Threads, DequeueTake(th)
      PROVE  Delivery'
  <2>1. PICK t \in Queued : /\ Queued' = Queued \ {t}
                            /\ delivered' = delivered \cup {t}
                            /\ PlacedOnce(queues')
                            /\ OnlyActiveUsed'
    BY <1>3, TakeStep
  <2>2. fresh' = fresh
    BY <1>3 DEF DequeueTake
  <2>3. \A u \in Threads :
           IF u = th THEN op'[u] = "deq_count"
           ELSE op'[u] = op[u] /\ arg'[u] = arg[u]
    <3>1. PICK x : arg' = [arg EXCEPT ![th] = x]
      BY <1>3, Zenon DEF DequeueTake
    <3> QED  BY <1>0, <1>3, <3>1, Zenon DEF DequeueTake, TypeOK
  <2>4. DeliveredOnce'
    BY <2>1, Zenon DEF Delivery, DeliveredOnce
  <2>5. PendingApart'
    BY <2>1, <2>2, <2>3 DEF Delivery, PendingApart
  <2> QED  BY <1>0, <2>1, <2>4, <2>5 DEF Delivery
<1>4. ASSUME NEW th \in Threads, Clear(th)
      PROVE  Delivery'
  <2>1. \A c \in Containers, g \in Groups : queues'[c][g] = <<>>
    BY <1>4 DEF Clear
  <2>2. Range(<<>>) = {} /\ IsInjective(<<>>)
    BY DEF Range, IsInjective
  <2>3. Queued' = {} /\ PlacedOnce(queues')
    BY <2>1, <2>2, Zenon DEF Queued, Contents, PlacedOnce
  <2>4. OnlyActiveUsed'
    BY <2>1 DEF OnlyActiveUsed
  <2>5. UNCHANGED <<fresh, delivered, op, arg>>
    BY <1>4 DEF Clear
  <2>6. DeliveredOnce'
    BY <2>3, <2>5, Zenon DEF DeliveredOnce
  <2>7. PendingApart'
    BY <2>3, <2>5 DEF Delivery, PendingApart
  <2> QED  BY <1>0, <2>4, <2>6, <2>7 DEF Delivery
<1>5. ASSUME NEW th \in Threads, NEW m \in Modes, SetMode(th, m)
      PROVE  Delivery'
  <2>1. Queued' = Queued /\ PlacedOnce(queues') /\ OnlyActiveUsed'
    BY <1>5, ModeStep
  <2>2. UNCHANGED <<fresh, delivered, op, arg>>
    BY <1>5 DEF SetMode
  <2>3. DeliveredOnce'
    BY <2>1, <2>2, Zenon DEF Delivery, DeliveredOnce
  <2>4. PendingApart'
    BY <2>1, <2>2 DEF Delivery, PendingApart
  <2> QED  BY <1>0, <2>1, <2>3, <2>4 DEF Delivery
<1>6. ASSUME UNCHANGED <<mode, queues, delivered, fresh>>,
             \A u \in Threads : op'[u] = "enq_insert" =>
                 op[u] = "enq_insert" /\ arg'[u] = arg[u]
      PROVE  Delivery'
  BY <1>0, <1>6, QuietStep DEF Delivery
<1>7. ASSUME NEW th \in Threads,
             \/ EnqueueCount(th) \/ EnqueueTotal(th)
             \/ DequeueNone(th) \/ DequeueCount(th) \/ DequeueTotal(th)
             \/ Peek(th)
      PROVE  Delivery'
  <2>1. /\ UNCHANGED <<mode, queues, delivered, fresh>>
        /\ \A u \in Threads : op'[u] = "enq_insert" =>
              op[u] = "enq_insert" /\ arg'[u] = arg[u]
    BY <1>0, <1>7, ZenonT(30) DEF EnqueueCount, EnqueueTotal, DequeueNone, DequeueCount,
                      DequeueTotal, Peek, queueVars, history, TypeOK
  <2> QED  BY <1>6, <2>1
<1>8. ASSUME NEW th \in Threads, Cancel(th)
      PROVE  Delivery'
  <2>1. /\ UNCHANGED <<mode, queues, delivered, fresh>>
        /\ \A u \in Threads : op'[u] = "enq_insert" =>
              op[u] = "enq_insert" /\ arg'[u] = arg[u]
    <3>0. DOMAIN op = Threads /\ DOMAIN arg = Threads
      BY <1>0 DEF TypeOK
    <3>1. CASE \E id \in Ids : CancelBegin(th, id)
      BY <3>0, <3>1, ZenonT(30) DEF CancelBegin, queueVars, history
    <3>2. CASE CancelLoad(th) \/ CancelStore(th)
      BY <3>0, <3>2, Zenon DEF CancelLoad, CancelStore, queueVars, history
    <3>3. CASE CancelErase(th) \/ CancelTotal(th)
      BY <3>0, <3>3, Zenon DEF CancelErase, CancelTotal, queueVars, history
    <3> QED  BY <1>8, <3>1, <3>2, <3>3, ZenonT(30) DEF Cancel
  <2> QED  BY <1>6, <2>1
<1>9. CASE UNCHANGED vars
  <2>1. UNCHANGED <<mode, queues, delivered, fresh, op, arg>>
    BY <1>9 DEF vars, queueVars, history
  <2> QED  BY <1>6, <2>1, Zenon
<1> QED
  BY <1>1, <1>2, <1>3, <1>4, <1>5, <1>7, <1>8, <1>9, Zenon
     DEF Next, CancelNext, CoreNext, Enqueue, Dequeue

\* No task is handed out twice: a task is in one place of one container, and in
\* none once dequeue has taken it, however enqueue, dequeue, setMode, cancelTask
\* and clear interleave.
THEOREM NoDoubleDelivery == Spec => []DeliveredOnce
<1>1. Delivery => DeliveredOnce
  BY DEF Delivery
<1> QED  BY <1>1, DeliveryInit, DeliveryStep, PTL DEF Spec

\* setMode leaves nothing behind in the containers of the old mode, and no racing
\* enqueue puts a task there: dequeue sees every queued task.
THEOREM OnlyActiveContainers == Spec => []OnlyActiveUsed
<1>1. Delivery => OnlyActiveUsed
  BY DEF Delivery
<1> QED  BY <1>1, DeliveryInit, DeliveryStep, PTL DEF Spec

-------------------------------------------------------------------------------
(* The counters of QueueManager, which move after the mutexes have been    *)
(* released, and the contents of its containers: for the operations other  *)
(* than clear and cancelTask, for which they do not hold.                  *)

\* The threads that are at label l.
At(l) == {th \in Threads : op[th] = l}

\* The sets the balance is made of are finite, and no larger than Tasks or Threads.
LEMMA Sizes ==
    ASSUME TypeOK
    PROVE  /\ IsFiniteSet(Queued) /\ Cardinality(Queued) \in Nat
           /\ Cardinality(Queued) <= Cardinality(Tasks)
           /\ IsFiniteSet(Uncounted) /\ Cardinality(Uncounted) \in Nat
           /\ Cardinality(Uncounted) <= Cardinality(Threads)
           /\ IsFiniteSet(Overcounted) /\ Cardinality(Overcounted) \in Nat
           /\ Cardinality(Overcounted) <= Cardinality(Threads)
           /\ \A l : IsFiniteSet(At(l)) /\ Cardinality(At(l)) \in Nat
           /\ Cardinality(Tasks) \in Nat /\ Cardinality(Threads) \in Nat
<1>1. IsFiniteSet(Tasks) /\ IsFiniteSet(Threads)
  BY ConstantsAssumption
<1>2. Queued \subseteq Tasks
  BY DEF Queued, Contents
<1>3. Uncounted \subseteq Threads /\ Overcounted \subseteq Threads
      /\ \A l : At(l) \subseteq Threads
  BY DEF Uncounted, Overcounted, At
<1>4. \A S, T : IsFiniteSet(S) /\ T \subseteq S =>
         IsFiniteSet(T) /\ Cardinality(T) <= Cardinality(S)
  BY FS_Subset
<1>5. \A S : IsFiniteSet(S) => Cardinality(S) \in Nat
  BY FS_CardinalityType
<1> QED  BY <1>1, <1>2, <1>3, <1>4, <1>5

\* The same of the next state.
LEMMA SizesAfter ==
    ASSUME TypeOK'
    PROVE  /\ Cardinality(Queued)' \in Nat
           /\ Cardinality(Queued)' <= Cardinality(Tasks)
           /\ Cardinality(Uncounted)' \in Nat
           /\ Cardinality(Uncounted)' <= Cardinality(Threads)
           /\ Cardinality(Overcounted)' \in Nat
           /\ Cardinality(Overcounted)' <= Cardinality(Threads)
<1>1. IsFiniteSet(Tasks) /\ IsFiniteSet(Threads)
  BY ConstantsAssumption
<1>2. /\ Queued' \subseteq Tasks
      /\ Uncounted' \subseteq Threads /\ Overcounted' \subseteq Threads
  BY DEF Queued, Contents, Uncounted, Overcounted
<1>3. \A S, T : IsFiniteSet(S) /\ T \subseteq S =>
         Cardinality(T) \in Nat /\ Cardinality(T) <= Cardinality(S)
  BY FS_Subset, FS_CardinalityType
<1> QED  BY <1>1, <1>2, <1>3

\* Cardinality when one element comes or goes.
LEMMA OneMore ==
    ASSUME NEW S, IsFiniteSet(S), NEW x, x \notin S
    PROVE  Cardinality(S \cup {x}) = Cardinality(S) + 1
BY FS_AddElement

\* A member less counts one less.
LEMMA OneLess ==
    ASSUME NEW S, IsFiniteSet(S), NEW x \in S
    PROVE  Cardinality(S \ {x}) = Cardinality(S) - 1
BY FS_RemoveElement

-------------------------------------------------------------------------------
\* Nothing is lost.

\* The elements after an Append.
LEMMA AppendRange ==
    ASSUME NEW s \in Seq(Tasks), NEW t \in Tasks
    PROVE  Range(Append(s, t)) = Range(s) \cup {t}
<1>1. /\ Len(s) \in Nat /\ DOMAIN s = 1..Len(s)
      /\ DOMAIN Append(s, t) = 1..(Len(s) + 1)
      /\ \A i \in 1..Len(s) : Append(s, t)[i] = s[i]
      /\ Append(s, t)[Len(s) + 1] = t
  OBVIOUS
<1>2. Range(Append(s, t)) \subseteq Range(s) \cup {t}
  <2>1. ASSUME NEW i \in 1..(Len(s) + 1)
        PROVE  Append(s, t)[i] \in Range(s) \cup {t}
    <3>1. i \in 1..Len(s) \/ i = Len(s) + 1
      BY <1>1
    <3> QED  BY <1>1, <3>1 DEF Range
  <2> QED  BY <1>1, <2>1 DEF Range
<1>3. Range(s) \cup {t} \subseteq Range(Append(s, t))
  <2>1. \A i \in 1..Len(s) : i \in 1..(Len(s) + 1)
    BY <1>1
  <2>2. Len(s) + 1 \in 1..(Len(s) + 1)
    BY <1>1
  <2> QED  BY <1>1, <2>1, <2>2 DEF Range
<1> QED  BY <1>2, <1>3

\* The metrics, up to the operations under way.
CountsAccounted ==
    enqueue_count + Cardinality(At("enq_count"))
        = dequeue_count + Cardinality(At("deq_count")) + Cardinality(Queued)

Counting == Delivery /\ NothingLost /\ SizeAccounted /\ CountsAccounted

\* A new manager has nothing queued and has counted nothing.
LEMMA CountingInit == Init => Counting
<1> SUFFICES ASSUME Init PROVE Counting
  OBVIOUS
<1>1. Delivery
  BY DeliveryInit
<1>2. \A c \in Containers, g \in Groups : queues[c][g] = <<>>
  BY DEF Init
<1>3. Range(<<>>) = {}
  BY DEF Range
<1>4. Queued = {}
  BY <1>2, <1>3 DEF Queued, Contents
<1>5. /\ Uncounted = {} /\ Overcounted = {}
      /\ At("enq_count") = {} /\ At("deq_count") = {}
  BY DEF Init, Uncounted, Overcounted, At
<1>6. Cardinality({}) = 0
  BY FS_EmptySet
<1>7. NothingLost
  BY <1>3, <1>4 DEF Init, NothingLost
<1>8. total_tasks = 0 /\ enqueue_count = 0 /\ dequeue_count = 0
  BY DEF Init
<1>9. /\ Cardinality(Queued) = 0
      /\ Cardinality(Uncounted) = 0 /\ Cardinality(Overcounted) = 0
      /\ Cardinality(At("enq_count")) = 0 /\ Cardinality(At("deq_count")) = 0
  BY <1>4, <1>5, <1>6
<1>10. SizeAccounted
  BY <1>8, <1>9 DEF SizeAccounted, Balance
<1>11. CountsAccounted
  BY <1>8, <1>9 DEF CountsAccounted
<1> QED  BY <1>1, <1>7, <1>10, <1>11 DEF Counting

\* A step that moves no task and no thread that is counted.
LEMMA StillStep ==
    ASSUME Counting, Queued' = Queued,
           UNCHANGED <<delivered, arrived, total_tasks, enqueue_count,
                       dequeue_count>>,
           Uncounted' = Uncounted, Overcounted' = Overcounted,
           At("enq_count")' = At("enq_count"),
           At("deq_count")' = At("deq_count")
    PROVE  NothingLost' /\ SizeAccounted' /\ CountsAccounted'
<1>1. NothingLost'
  BY DEF Counting, NothingLost
<1>2. SizeAccounted'
  BY DEF Counting, SizeAccounted, Balance
<1>3. CountsAccounted'
  BY Zenon DEF Counting, CountsAccounted
<1> QED  BY <1>1, <1>2, <1>3

\* Every critical section and counter access of enqueue, dequeue, peek and
\* setMode keeps the accounts.
LEMMA CountingStep == Counting /\ [CoreNext]_vars => Counting'
<1> SUFFICES ASSUME Counting, [CoreNext]_vars PROVE Counting'
  OBVIOUS
<1> DEFINE Kept == NothingLost' /\ SizeAccounted' /\ CountsAccounted'
<1>0. Delivery /\ TypeOK /\ Delivery' /\ TypeOK'
  BY DeliveryStep DEF Counting, Delivery, Next, CancelNext
<1> SUFFICES Kept
  BY <1>0 DEF Counting
<1>n. /\ enqueue_count \in Nat /\ dequeue_count \in Nat
      /\ Cardinality(At("enq_count")) \in Nat
      /\ Cardinality(At("deq_count")) \in Nat
      /\ Cardinality(Queued) \in Nat
  BY <1>0, Sizes, Zenon DEF TypeOK
<1>s. /\ Cardinality(Queued) \in Nat /\ Cardinality(Uncounted) \in Nat
      /\ Cardinality(Overcounted) \in Nat /\ MaxSize \in Nat
      /\ Cardinality(Queued) + Cardinality(Overcounted) <= MaxSize
      /\ Cardinality(Uncounted) <= MaxSize
      /\ (Cardinality(Queued) + Cardinality(Overcounted))' <= MaxSize
      /\ Cardinality(Uncounted)' \in 0..MaxSize
  <2>1. /\ Cardinality(Tasks) \in Nat /\ Cardinality(Threads) \in Nat
        /\ MaxSize \in Nat
        /\ Cardinality(Tasks) + Cardinality(Threads) <= MaxSize
    BY <1>0, Sizes, WidthAssumption, Zenon
  <2>2. /\ Cardinality(Queued) \in Nat /\ Cardinality(Uncounted) \in Nat
        /\ Cardinality(Overcounted) \in Nat
        /\ Cardinality(Queued) <= Cardinality(Tasks)
        /\ Cardinality(Uncounted) <= Cardinality(Threads)
        /\ Cardinality(Overcounted) <= Cardinality(Threads)
    BY <1>0, Sizes
  <2>3. (/\ Cardinality(Queued) \in Nat /\ Cardinality(Uncounted) \in Nat
         /\ Cardinality(Overcounted) \in Nat
         /\ Cardinality(Queued) <= Cardinality(Tasks)
         /\ Cardinality(Uncounted) <= Cardinality(Threads)
         /\ Cardinality(Overcounted) <= Cardinality(Threads))'
    BY <1>0, SizesAfter, Zenon
  <2> QED  BY <2>1, <2>2, <2>3
<1>t. total_tasks \in Nat
  BY <1>0, <1>s DEF TypeOK
<1>1. ASSUME NEW th \in Threads, NEW t \in Tasks, NEW g \in Groups,
             EnqueueRegister(th, t, g)
      PROVE  Kept
  <2>1. op[th] = "idle" /\ op' = [op EXCEPT ![th] = "enq_insert"]
    BY <1>1 DEF EnqueueRegister
  <2>m. op'[th] = "enq_insert" /\ \A u \in Threads : u # th => op'[u] = op[u]
    BY <1>0, <2>1, Zenon DEF TypeOK
  <2>2. /\ Uncounted' = Uncounted /\ Overcounted' = Overcounted
        /\ At("enq_count")' = At("enq_count")
        /\ At("deq_count")' = At("deq_count")
    BY <2>1, <2>m, Zenon DEF Uncounted, Overcounted, At
  <2>3. /\ Queued' = Queued
        /\ UNCHANGED <<delivered, arrived, total_tasks, enqueue_count,
                       dequeue_count>>
    BY <1>1 DEF EnqueueRegister, queueVars, counters, Queued
  <2> QED  BY <2>2, <2>3, StillStep, Zenon
<1>2. ASSUME NEW th \in Threads, EnqueueInsert(th)
      PROVE  Kept
  <2>1. /\ arg[th] \in Tasks /\ arg[th] \notin Queued
        /\ Queued' = Queued \cup {arg[th]}
    BY <1>0, <1>2, InsertStep, Zenon
  <2>2. /\ op[th] = "enq_insert" /\ op' = [op EXCEPT ![th] = "enq_count"]
        /\ arrived' = Append(arrived, arg[th])
        /\ UNCHANGED <<delivered, total_tasks, enqueue_count, dequeue_count>>
    BY <1>2 DEF EnqueueInsert, counters
  <2>m. op'[th] = "enq_count" /\ \A u \in Threads : u # th => op'[u] = op[u]
    BY <1>0, <2>2, Zenon DEF TypeOK
  <2>3. /\ Uncounted' = Uncounted \cup {th} /\ th \notin Uncounted
        /\ Overcounted' = Overcounted
        /\ At("enq_count")' = At("enq_count") \cup {th}
        /\ th \notin At("enq_count")
        /\ At("deq_count")' = At("deq_count")
    BY <2>2, <2>m, Zenon DEF Uncounted, Overcounted, At
  <2>4. /\ Cardinality(Queued') = Cardinality(Queued) + 1
        /\ Cardinality(Uncounted') = Cardinality(Uncounted) + 1
        /\ Cardinality(At("enq_count")') = Cardinality(At("enq_count")) + 1
    BY <1>0, <2>1, <2>3, Sizes, OneMore
  <2>5. NothingLost'
    <3>1. Range(arrived') = Range(arrived) \cup {arg[th]}
      BY <1>0, <2>1, <2>2, AppendRange, Zenon DEF TypeOK
    <3> QED  BY <2>1, <2>2, <3>1 DEF Counting, NothingLost
  <2>6. SizeAccounted'
    <3>1. Balance' = Balance
      BY <1>s, <2>3, <2>4 DEF Balance
    <3> QED  BY <2>2, <3>1, Zenon DEF Counting, SizeAccounted
  <2>7. CountsAccounted'
    <3>1. /\ enqueue_count' = enqueue_count /\ dequeue_count' = dequeue_count
          /\ Cardinality(At("deq_count")') = Cardinality(At("deq_count"))
      BY <2>2, <2>3
    <3>2. enqueue_count + Cardinality(At("enq_count"))
             = dequeue_count + Cardinality(At("deq_count")) + Cardinality(Queued)
      BY DEF Counting, CountsAccounted
    <3> QED  BY <1>n, <2>4, <3>1, <3>2 DEF CountsAccounted
  <2> QED  BY <2>5, <2>6, <2>7
<1>3. ASSUME NEW th \in Threads, EnqueueCount(th)
      PROVE  Kept
  <2>1. /\ op[th] = "enq_count" /\ op' = [op EXCEPT ![th] = "enq_total"]
        /\ enqueue_count' = enqueue_count + 1
        /\ Queued' = Queued
        /\ UNCHANGED <<delivered, arrived, total_tasks, dequeue_count>>
    BY <1>3 DEF EnqueueCount, queueVars, history, Queued
  <2>m. op'[th] = "enq_total" /\ \A u \in Threads : u # th => op'[u] = op[u]
    BY <1>0, <2>1, Zenon DEF TypeOK
  <2>2. /\ Uncounted' = Uncounted /\ Overcounted' = Overcounted
        /\ At("enq_count")' = At("enq_count") \ {th} /\ th \in At("enq_count")
        /\ At("deq_count")' = At("deq_count")
    BY <2>1, <2>m, Zenon DEF Uncounted, Overcounted, At
  <2>3. Cardinality(At("enq_count")') = Cardinality(At("enq_count")) - 1
    BY <1>0, <2>2, Sizes, OneLess, Zenon
  <2>4. NothingLost' /\ SizeAccounted'
    BY <2>1, <2>2, Zenon DEF Counting, NothingLost, SizeAccounted, Balance
  <2>5. CountsAccounted'
    BY <1>0, <2>1, <2>2, <2>3, <1>n DEF Counting, CountsAccounted
  <2> QED  BY <2>4, <2>5, Zenon
<1>4. ASSUME NEW th \in Threads, EnqueueTotal(th)
      PROVE  Kept
  <2>1. /\ op[th] = "enq_total" /\ op' = [op EXCEPT ![th] = "idle"]
        /\ total_tasks' = Inc(total_tasks)
        /\ Queued' = Queued
        /\ UNCHANGED <<delivered, arrived, enqueue_count, dequeue_count>>
    BY <1>4 DEF EnqueueTotal, queueVars, history, counters, Queued
  <2>m. op'[th] = "idle" /\ \A u \in Threads : u # th => op'[u] = op[u]
    BY <1>0, <2>1, Zenon DEF TypeOK
  <2>2. /\ Uncounted' = Uncounted \ {th} /\ th \in Uncounted
        /\ Overcounted' = Overcounted
        /\ At("enq_count")' = At("enq_count")
        /\ At("deq_count")' = At("deq_count")
    BY <2>1, <2>m, Zenon DEF Uncounted, Overcounted, At
  <2>3. Cardinality(Uncounted') = Cardinality(Uncounted) - 1
    BY <1>0, <2>2, Sizes, OneLess, Zenon
  <2>4. NothingLost' /\ CountsAccounted'
    BY <2>1, <2>2, Zenon DEF Counting, NothingLost, CountsAccounted
  <2>5. SizeAccounted'
    <3>1. Cardinality(Queued') = Cardinality(Queued)
          /\ Cardinality(Overcounted') = Cardinality(Overcounted)
      BY <2>1, <2>2, Zenon
    <3>2. Balance \in Int /\ Balance' = Balance + 1
      BY <1>s, <2>3, <3>1 DEF Balance
    <3>b. Balance < MaxSize
      BY <1>s, <2>3 DEF Balance
    <3>3. total_tasks = IF Balance < 0 THEN Balance + MaxSize + 1 ELSE Balance
      BY DEF Counting, SizeAccounted
    <3> HIDE DEF Balance
    <3> QED  BY <1>s, <1>t, <2>1, <3>2, <3>b, <3>3 DEF SizeAccounted, Inc
  <2> QED  BY <2>4, <2>5, Zenon
<1>5. ASSUME NEW th \in Threads, DequeueTake(th)
      PROVE  Kept
  <2>1. PICK t \in Queued : /\ Queued' = Queued \ {t}
                            /\ delivered' = delivered \cup {t}
    BY <1>0, <1>5, TakeStep, Zenon
  <2>2. /\ op[th] = "idle" /\ op' = [op EXCEPT ![th] = "deq_count"]
        /\ UNCHANGED <<arrived, total_tasks, enqueue_count, dequeue_count>>
    BY <1>5 DEF DequeueTake, counters
  <2>m. op'[th] = "deq_count" /\ \A u \in Threads : u # th => op'[u] = op[u]
    BY <1>0, <2>2, Zenon DEF TypeOK
  <2>3. /\ Overcounted' = Overcounted \cup {th} /\ th \notin Overcounted
        /\ Uncounted' = Uncounted
        /\ At("deq_count")' = At("deq_count") \cup {th}
        /\ th \notin At("deq_count")
        /\ At("enq_count")' = At("enq_count")
    BY <2>2, <2>m, Zenon DEF Uncounted, Overcounted, At
  <2>4. /\ Cardinality(Queued') = Cardinality(Queued) - 1
        /\ Cardinality(Overcounted') = Cardinality(Overcounted) + 1
        /\ Cardinality(At("deq_count")') = Cardinality(At("deq_count")) + 1
    BY <1>0, <2>1, <2>3, Sizes, OneMore, OneLess, Zenon
  <2>5. NothingLost'
    BY <2>1, <2>2 DEF Counting, NothingLost
  <2>6. SizeAccounted'
    <3>1. Balance' = Balance
      BY <1>s, <2>3, <2>4 DEF Balance
    <3> QED  BY <2>2, <3>1, Zenon DEF Counting, SizeAccounted
  <2>7. CountsAccounted'
    BY <1>0, <2>2, <2>3, <2>4, <1>n DEF Counting, CountsAccounted
  <2> QED  BY <2>5, <2>6, <2>7
<1>6. ASSUME NEW th \in Threads, DequeueCount(th)
      PROVE  Kept
  <2>1. /\ op[th] = "deq_count" /\ op' = [op EXCEPT ![th] = "deq_total"]
        /\ dequeue_count' = dequeue_count + 1
        /\ Queued' = Queued
        /\ UNCHANGED <<delivered, arrived, total_tasks, enqueue_count>>
    BY <1>6 DEF DequeueCount, queueVars, history, Queued
  <2>m. op'[th] = "deq_total" /\ \A u \in Threads : u # th => op'[u] = op[u]
    BY <1>0, <2>1, Zenon DEF TypeOK
  <2>2. /\ Uncounted' = Uncounted /\ Overcounted' = Overcounted
        /\ At("deq_count")' = At("deq_count") \ {th} /\ th \in At("deq_count")
        /\ At("enq_count")' = At("enq_count")
    BY <2>1, <2>m DEF Uncounted, Overcounted, At
  <2>3. Cardinality(At("deq_count")') = Cardinality(At("deq_count")) - 1
    BY <1>0, <2>2, Sizes, OneLess, Zenon
  <2>4. NothingLost' /\ SizeAccounted'
    BY <2>1, <2>2, Zenon DEF Counting, NothingLost, SizeAccounted, Balance
  <2>5. CountsAccounted'
    BY <1>0, <2>1, <2>2, <2>3, <1>n DEF Counting, CountsAccounted
  <2> QED  BY <2>4, <2>5
<1>7. ASSUME NEW th \in Threads, DequeueTotal(th)
      PROVE  Kept
  <2>1. /\ op[th] = "deq_total" /\ op' = [op EXCEPT ![th] = "idle"]
        /\ total_tasks' = Dec(total_tasks)
        /\ Queued' = Queued
        /\ UNCHANGED <<delivered, arrived, enqueue_count, dequeue_count>>
    BY <1>7 DEF DequeueTotal, queueVars, history, counters, Queued
  <2>m. op'[th] = "idle" /\ \A u \in Threads : u # th => op'[u] = op[u]
    BY <1>0, <2>1, Zenon DEF TypeOK
  <2>2. /\ Overcounted' = Overcounted \ {th} /\ th \in Overcounted
        /\ Uncounted' = Uncounted
        /\ At("enq_count")' = At("enq_count")
        /\ At("deq_count")' = At("deq_count")
    BY <2>1, <2>m, Zenon DEF Uncounted, Overcounted, At
  <2>3. Cardinality(Overcounted') = Cardinality(Overcounted) - 1
    BY <1>0, <2>2, Sizes, OneLess, Zenon
  <2>4. NothingLost' /\ CountsAccounted'
    BY <2>1, <2>2 DEF Counting, NothingLost, CountsAccounted
  <2>5. SizeAccounted'
    <3>1. Balance \in Int /\ Balance' = Balance - 1 /\ Balance + MaxSize >= 0
      BY <1>s, <2>1, <2>2, <2>3 DEF Balance
    <3>2. total_tasks = IF Balance < 0 THEN Balance + MaxSize + 1 ELSE Balance
      BY DEF Counting, SizeAccounted
    <3> HIDE DEF Balance
    <3> QED  BY <1>s, <1>t, <2>1, <3>1, <3>2 DEF SizeAccounted, Dec
  <2> QED  BY <2>4, <2>5
<1>8. ASSUME NEW th \in Threads, NEW m \in Modes, SetMode(th, m)
      PROVE  Kept
  <2>1. Queued' = Queued
    BY <1>0, <1>8, ModeStep, Zenon
  <2>2. UNCHANGED <<delivered, arrived, total_tasks, enqueue_count,
                    dequeue_count, op>>
    BY <1>8 DEF SetMode, counters
  <2>3. /\ Uncounted' = Uncounted /\ Overcounted' = Overcounted
        /\ At("enq_count")' = At("enq_count")
        /\ At("deq_count")' = At("deq_count")
    BY <2>2 DEF Uncounted, Overcounted, At
  <2> QED  BY <2>1, <2>2, <2>3, StillStep
<1>9. ASSUME \/ UNCHANGED vars
             \/ \E th \in Threads : DequeueNone(th) \/ Peek(th)
      PROVE  Kept
  <2>1. /\ UNCHANGED <<delivered, arrived, total_tasks, enqueue_count,
                       dequeue_count, op>>
        /\ Queued' = Queued
    BY <1>9 DEF DequeueNone, Peek, vars, queueVars, counters, history, Queued
  <2>2. /\ Uncounted' = Uncounted /\ Overcounted' = Overcounted
        /\ At("enq_count")' = At("enq_count")
        /\ At("deq_count")' = At("deq_count")
    BY <2>1 DEF Uncounted, Overcounted, At
  <2> QED  BY <2>1, <2>2, StillStep, Zenon
<1> QED
  BY <1>1, <1>2, <1>3, <1>4, <1>5, <1>6, <1>7, <1>8, <1>9, Zenon
     DEF CoreNext, Enqueue, Dequeue

\* Without clear no inserted task disappears: it is still in a container or a
\* dequeue has taken it, across every change of mode.
THEOREM NoTaskLost == CoreSpec => []NothingLost
<1>1. Counting => NothingLost
  BY DEF Counting
<1> QED  BY <1>1, CountingInit, CountingStep, PTL DEF CoreSpec

\* Without clear and cancelTask total_tasks_ is the number of queued tasks up to
\* the operations under way, modulo the width of size_t: the error the late
\* counting makes is never more than those operations.
THEOREM SizeTracksQueue == CoreSpec => []SizeAccounted
<1>1. Counting => SizeAccounted
  BY DEF Counting
<1> QED  BY <1>1, CountingInit, CountingStep, PTL DEF CoreSpec

\* Hence size() and the metrics are exact whenever no operation is under way.
THEOREM SizeExactAtRest == CoreSpec => []SizeAtRest
<1>1. Counting => SizeAtRest
  <2> SUFFICES ASSUME Counting, AtRest
               PROVE  /\ total_tasks = Cardinality(Queued)
                      /\ enqueue_count - dequeue_count = Cardinality(Queued)
    BY DEF SizeAtRest
  <2>1. /\ Uncounted = {} /\ Overcounted = {}
        /\ At("enq_count") = {} /\ At("deq_count") = {}
    BY DEF AtRest, Uncounted, Overcounted, At
  <2>2. Cardinality({}) = 0
    BY FS_EmptySet
  <2>3. TypeOK
    BY Zenon DEF Counting, Delivery
  <2>4. total_tasks = Cardinality(Queued)
    BY <2>1, <2>2, <2>3, Sizes DEF Counting, SizeAccounted, Balance
  <2>5. enqueue_count - dequeue_count = Cardinality(Queued)
    <3>1. /\ enqueue_count \in Nat /\ dequeue_count \in Nat
          /\ Cardinality(Queued) \in Nat
      BY <2>3, Sizes DEF TypeOK
    <3>2. enqueue_count + 0 = dequeue_count + 0 + Cardinality(Queued)
      BY <2>1, <2>2 DEF Counting, CountsAccounted
    <3>3. \A a, b, c \in Nat : a + 0 = b + 0 + c => a - b = c
      OBVIOUS
    <3> QED  BY <3>1, <3>2, <3>3, ZenonT(30)
  <2> QED  BY <2>4, <2>5
<1> QED  BY <1>1, CountingInit, CountingStep, PTL DEF CoreSpec

-------------------------------------------------------------------------------
(* cancelTask: its accesses to a task's status are one critical section of *)
(* task_mutex_, though none of dequeue, setMode or peek takes that mutex.  *)

Cancelled == {t \in Tasks : status[t] = "CANCELLED"}

\* One thread is inside cancelTask; what it found QUEUED stays so until it stores
\* CANCELLED; what it has stored and not yet counted is all that is uncounted.
Cancels ==
    /\ \A th, u \in Threads :
          op[th] \in Cancelling /\ op[u] \in Cancelling => th = u
    /\ \A th \in Threads : op[th] \in {"can_load", "can_store"} =>
          status[arg[th]] = "QUEUED"
    /\ cancel_count + Cardinality(At("can_erase")) = Cardinality(Cancelled)

\* Threads are finitely many, and so are tasks.
LEMMA CancelSizes ==
    /\ IsFiniteSet(At("can_erase")) /\ IsFiniteSet(Cancelled)
    /\ Cardinality(At("can_erase")) \in Nat /\ Cardinality(Cancelled) \in Nat
<1>1. At("can_erase") \subseteq Threads /\ Cancelled \subseteq Tasks
  BY DEF At, Cancelled
<1>2. IsFiniteSet(At("can_erase")) /\ IsFiniteSet(Cancelled)
  BY <1>1, ConstantsAssumption, FS_Subset, ZenonT(30)
<1> QED  BY <1>2, FS_CardinalityType

\* Steps that enter no critical section of cancelTask and store no status.
LEMMA OutsideCancel ==
    ASSUME TypeOK, Cancels, UNCHANGED <<status, cancel_count>>,
           \A u \in Threads : /\ op'[u] \in Cancelling =>
                                    op'[u] = op[u] /\ arg'[u] = arg[u]
                              /\ op[u] = "can_erase" => op'[u] = op[u]
    PROVE  Cancels'
<1>1. At("can_erase")' = At("can_erase") /\ Cancelled' = Cancelled
  BY DEF At, Cancelled, Cancelling
<1> QED  BY <1>1 DEF Cancels, Cancelling

\* The steps of cancelTask itself.
LEMMA CancelStep ==
    ASSUME TypeOK, Cancels, NEW th \in Threads, Cancel(th)
    PROVE  Cancels'
<1>1. DOMAIN op = Threads /\ DOMAIN arg = Threads
  BY DEF TypeOK
<1>2. CASE \E id \in Ids : CancelBegin(th, id)
  <2>1. /\ \A u \in Threads : op[u] \notin Cancelling
        /\ \A u \in Threads : IF u = th THEN op'[u] = "can_load"
                              ELSE op'[u] = op[u] /\ arg'[u] = arg[u]
        /\ status[arg'[th]] = "QUEUED"
        /\ UNCHANGED <<status, cancel_count>>
    BY <1>1, <1>2, Zenon DEF CancelBegin, TaskMutexFree, counters
  <2>2. At("can_erase")' = At("can_erase") /\ Cancelled' = Cancelled
    BY <2>1 DEF At, Cancelled, Cancelling
  <2> QED  BY <2>1, <2>2, ZenonT(30) DEF Cancels, Cancelling
<1>3. CASE CancelLoad(th)
  <2>1. status[arg[th]] = "QUEUED"
    BY <1>3, Zenon DEF Cancels, CancelLoad
  <2>2. /\ op[th] = "can_load"
        /\ \A u \in Threads : op'[u] = IF u = th THEN "can_store" ELSE op[u]
        /\ UNCHANGED <<status, cancel_count, arg>>
    BY <1>1, <1>3, <2>1, ZenonT(30) DEF CancelLoad, counters
  <2>3. At("can_erase")' = At("can_erase") /\ Cancelled' = Cancelled
    BY <2>2, Zenon DEF At, Cancelled
  <2> QED  BY <2>1, <2>2, <2>3, ZenonT(30) DEF Cancels, Cancelling
<1>4. CASE CancelStore(th)
  <2>1. /\ op[th] = "can_store"
        /\ \A u \in Threads : op'[u] = IF u = th THEN "can_erase" ELSE op[u]
        /\ UNCHANGED <<cancel_count, arg>>
        /\ status' = [status EXCEPT ![arg[th]] = "CANCELLED"]
    BY <1>1, <1>4, Zenon DEF CancelStore, counters
  <2>2. arg[th] \in Tasks /\ status[arg[th]] = "QUEUED"
    BY <2>1 DEF Cancels, TypeOK, Cancelling
  <2>3. /\ At("can_erase")' = At("can_erase") \cup {th}
        /\ th \notin At("can_erase")
    BY <2>1, Zenon DEF At
  <2>4. Cancelled' = Cancelled \cup {arg[th]} /\ arg[th] \notin Cancelled
    BY <2>1, <2>2 DEF Cancelled, TypeOK
  <2>5. /\ Cardinality(At("can_erase")') = Cardinality(At("can_erase")) + 1
        /\ Cardinality(Cancelled') = Cardinality(Cancelled) + 1
    BY <2>3, <2>4, CancelSizes, OneMore, ZenonT(30)
  <2>6. \A u \in Threads : u # th => op[u] \notin Cancelling
    BY <2>1, Zenon DEF Cancels, Cancelling
  <2>7. cancel_count' + Cardinality(At("can_erase")') = Cardinality(Cancelled')
    BY <2>1, <2>5, CancelSizes DEF Cancels, TypeOK
  <2> QED  BY <2>1, <2>6, <2>7, Zenon DEF Cancels, Cancelling
<1>5. CASE CancelErase(th)
  <2>1. /\ op[th] = "can_erase"
        /\ \A u \in Threads : op'[u] = IF u = th THEN "can_total" ELSE op[u]
        /\ UNCHANGED <<status, arg>> /\ cancel_count' = cancel_count + 1
    BY <1>1, <1>5, ZenonT(30) DEF CancelErase
  <2>2. /\ At("can_erase")' = At("can_erase") \ {th} /\ th \in At("can_erase")
        /\ Cancelled' = Cancelled
    BY <2>1 DEF At, Cancelled
  <2>3. Cardinality(At("can_erase")') = Cardinality(At("can_erase")) - 1
    BY <2>2, CancelSizes, OneLess
  <2>4. cancel_count' + Cardinality(At("can_erase")') = Cardinality(Cancelled')
    <3>1. PICK n \in Nat, k \in Nat, c \in Nat :
             /\ n = Cardinality(At("can_erase"))
             /\ k = Cardinality(Cancelled)
             /\ c = cancel_count
      BY CancelSizes, Zenon DEF TypeOK
    <3>2. c + n = k
      BY <3>1, Zenon DEF Cancels
    <3>3. (c + 1) + (n - 1) = k
      BY <3>2
    <3> QED  BY <2>1, <2>2, <2>3, <3>1, <3>3, Zenon
  <2> QED  BY <2>1, <2>4, Zenon DEF Cancels, Cancelling
<1>6. CASE CancelTotal(th)
  <2>1. /\ op[th] = "can_total"
        /\ \A u \in Threads : IF u = th THEN op'[u] = "idle"
                              ELSE op'[u] = op[u] /\ arg'[u] = arg[u]
        /\ UNCHANGED <<status, cancel_count>>
    BY <1>1, <1>6, Zenon DEF CancelTotal, counters
  <2> QED  BY <2>1, OutsideCancel DEF Cancelling
<1> QED  BY <1>2, <1>3, <1>4, <1>5, <1>6, Zenon DEF Cancel

\* Every step of every operation.
LEMMA CancelsStep == TypeOK /\ Cancels /\ [Next]_vars => Cancels'
<1> SUFFICES ASSUME TypeOK, Cancels, [Next]_vars PROVE Cancels'
  OBVIOUS
<1>1. DOMAIN op = Threads /\ DOMAIN arg = Threads
  BY Zenon DEF TypeOK
<1>2. ASSUME NEW th \in Threads, NEW l \in Ops \ Cancelling,
             op[th] \notin Cancelling, op' = [op EXCEPT ![th] = l],
             \A u \in Threads : u # th => arg'[u] = arg[u],
             UNCHANGED <<status, cancel_count>>
      PROVE  Cancels'
  BY <1>1, <1>2, OutsideCancel, Zenon DEF Cancelling
<1>3. ASSUME UNCHANGED <<op, arg, status, cancel_count>> PROVE Cancels'
  BY <1>3, OutsideCancel
<1>4. ASSUME NEW th \in Threads, Enqueue(th) PROVE Cancels'
  <2>1. CASE \E t \in Tasks, g \in Groups : EnqueueRegister(th, t, g)
    BY <1>1, <1>2, <2>1, Zenon DEF EnqueueRegister, counters, Ops, Cancelling
  <2>2. CASE EnqueueInsert(th)
    BY <1>1, <1>2, <2>2, Zenon DEF EnqueueInsert, counters, Ops, Cancelling
  <2>3. CASE EnqueueCount(th) \/ EnqueueTotal(th)
    BY <1>1, <1>2, <2>3, Zenon DEF EnqueueCount, EnqueueTotal, counters, Ops, Cancelling
  <2> QED  BY <1>4, <2>1, <2>2, <2>3 DEF Enqueue
<1>5. ASSUME NEW th \in Threads, Dequeue(th) PROVE Cancels'
  <2>1. CASE DequeueTake(th)
    <3>1. PICK x : arg' = [arg EXCEPT ![th] = x]
      BY <2>1, Zenon DEF DequeueTake
    <3> QED  BY <1>1, <1>2, <2>1, <3>1, Zenon DEF DequeueTake, counters, Ops, Cancelling
  <2>2. CASE DequeueNone(th)
    BY <1>3, <2>2, Zenon DEF DequeueNone, counters
  <2>3. CASE DequeueCount(th) \/ DequeueTotal(th)
    BY <1>1, <1>2, <2>3 DEF DequeueCount, DequeueTotal, counters, Ops, Cancelling
  <2> QED  BY <1>5, <2>1, <2>2, <2>3 DEF Dequeue
<1>6. ASSUME NEW th \in Threads, Peek(th) \/ Clear(th) \/ \E m \in Modes : SetMode(th, m)
      PROVE  Cancels'
  <2>1. UNCHANGED <<op, arg, status, cancel_count>>
    BY <1>6, Zenon DEF Peek, Clear, SetMode, counters
  <2> QED  BY <1>3, <2>1
<1>7. ASSUME UNCHANGED vars PROVE Cancels'
  BY <1>3, <1>7 DEF vars, counters
<1> QED  BY <1>4, <1>5, <1>6, <1>7, CancelStep DEF Next, CancelNext, CoreNext

\* A task is cancelled at most once and cancel_count_ counts exactly the tasks
\* that are: for any number of threads that cancel, and dequeue, the same tasks.
THEOREM CancelCountedOnce == Spec => []CancelledOnce
<1>1. Init => Cancels
  <2> SUFFICES ASSUME Init PROVE Cancels
    OBVIOUS
  <2>1. At("can_erase") = {} /\ Cancelled = {}
    BY DEF Init, At, Cancelled
  <2>2. Cardinality({}) = 0
    BY FS_EmptySet
  <2>3. cancel_count + Cardinality(At("can_erase")) = Cardinality(Cancelled)
    <3>1. cancel_count = 0
      BY DEF Init
    <3>2. 0 + 0 = 0
      OBVIOUS
    <3> QED  BY <2>1, <2>2, <3>1, <3>2, Zenon
  <2> QED  BY <2>3 DEF Init, Cancels, Cancelling
<1>2. TypeOK /\ Cancels => CancelledOnce
  <2> SUFFICES ASSUME TypeOK, Cancels, TaskMutexFree
               PROVE  cancel_count = Cardinality(Cancelled)
    BY DEF CancelledOnce, Cancelled
  <2>1. At("can_erase") = {}
    BY DEF At, TaskMutexFree, Cancelling
  <2>2. Cardinality({}) = 0
    BY FS_EmptySet
  <2>3. cancel_count + 0 = Cardinality(Cancelled) /\ cancel_count \in Nat
    BY <2>1, <2>2, Zenon DEF Cancels, TypeOK
  <2> QED  BY <2>3
<1> QED  BY <1>1, <1>2, CancelsStep, TypeCorrect, PTL DEF Spec
===============================================================================
