-------------------------- MODULE QueueManagerOrder ---------------------------
(***************************************************************************)
(* Theorems about the task that dequeue takes: which one it is in PRIORITY *)
(* mode, that there is one, how long a group waits in ROUND_ROBIN mode and *)
(* in which order a group is served.                                       *)
(***************************************************************************)
EXTENDS RoundRobin, QueueManagerProofs

\* The time that a step may take.
USE SMTT(20), ZenonT(30), SMTT(25)

-------------------------------------------------------------------------------
(* PRIORITY mode.                                                          *)

\* A skip list in descending order of priority.
Descending(s) ==
    \A i, j \in 1..Len(s) : i < j => Priority[s[j]] <= Priority[s[i]]
Ranked == \A g \in Groups : Descending(queues["priority"][g])

\* addTaskToPriority puts the node behind the greater ones and in front of the rest.
LEMMA DescendingInsert ==
    ASSUME NEW s \in Seq(Tasks), Descending(s), NEW t \in Tasks,
           NEW i \in 1..(Len(s) + 1), Slot("PRIORITY", s, t, i)
    PROVE  Descending(Inserted(s, i, t))
<1> DEFINE n == Inserted(s, i, t)
<1>1. /\ Len(n) = Len(s) + 1
      /\ \A j \in 1..(Len(s) + 1) :
            n[j] = IF j < i THEN s[j] ELSE IF j = i THEN t ELSE s[j - 1]
  BY InsertedType
<1> HIDE DEF n
<1>2. /\ Len(s) \in Nat /\ \A j \in 1..Len(s) : s[j] \in Tasks
      /\ \A u \in Tasks : Priority[u] \in Int
  BY ConstantsAssumption
<1>3. /\ \A j \in 1..(i - 1) : Priority[s[j]] > Priority[t]
      /\ i <= Len(s) => Priority[s[i]] <= Priority[t]
  BY DEF Slot
<1>4. \A j \in i..Len(s) : Priority[s[j]] <= Priority[t]
  <2> SUFFICES ASSUME NEW j \in i..Len(s) PROVE Priority[s[j]] <= Priority[t]
    OBVIOUS
  <2>1. Priority[s[j]] <= Priority[s[i]] /\ i \in 1..Len(s) /\ j \in 1..Len(s)
    BY <1>2 DEF Descending
  <2>2. s[i] \in Tasks /\ s[j] \in Tasks
    BY <1>2, <2>1
  <2> QED  BY <1>2, <1>3, <2>1, <2>2
<1>5. ASSUME NEW j \in 1..(Len(s) + 1), NEW k \in 1..(Len(s) + 1), j < k
      PROVE  Priority[n[k]] <= Priority[n[j]]
  <2>1. CASE j = i
    <3>1. n[j] = t /\ n[k] = s[k - 1] /\ k - 1 \in i..Len(s)
      BY <1>1, <1>2, <1>5, <2>1
    <3> QED  BY <1>4, <3>1
  <2>2. CASE k = i
    <3>1. n[k] = t /\ n[j] = s[j] /\ j \in 1..(i - 1) /\ s[j] \in Tasks
      BY <1>1, <1>2, <1>5, <2>2
    <3> QED  BY <1>2, <1>3, <3>1
  <2>3. CASE j # i /\ k # i
    <3> DEFINE jj == IF j < i THEN j ELSE j - 1
               kk == IF k < i THEN k ELSE k - 1
    <3>1. n[j] = s[jj] /\ n[k] = s[kk]
      BY <1>1, <2>3
    <3>2. jj \in 1..Len(s) /\ kk \in 1..Len(s) /\ jj < kk
      BY <1>2, <1>5, <2>3
    <3> HIDE DEF jj, kk
    <3> QED  BY <3>1, <3>2 DEF Descending
  <2> QED  BY <2>1, <2>2, <2>3
<1>6. Descending(n)
  BY <1>1, <1>5 DEF Descending
<1> QED  BY <1>6 DEF n

\* A pop leaves the order of the rest.
LEMMA DescendingPop ==
    ASSUME NEW s \in Seq(Tasks), Descending(s), s # <<>>
    PROVE  Descending(Popped(s))
<1>1. /\ Len(s) \in Nat \ {0} /\ Len(Tail(s)) = Len(s) - 1
      /\ \A j \in 1..(Len(s) - 1) : Tail(s)[j] = s[j + 1]
  OBVIOUS
<1>2. PICK n : n = Tail(s)
  BY Zenon
<1>3. ASSUME NEW i \in 1..(Len(s) - 1), NEW j \in 1..(Len(s) - 1), i < j
      PROVE  Priority[n[j]] <= Priority[n[i]]
  <2>1. n[i] = s[i + 1] /\ n[j] = s[j + 1]
    BY <1>1, <1>2
  <2>2. i + 1 \in 1..Len(s) /\ j + 1 \in 1..Len(s) /\ i + 1 < j + 1
    BY <1>1, <1>3
  <2> QED  BY <2>1, <2>2 DEF Descending
<1> QED  BY <1>1, <1>2, <1>3 DEF Descending, Popped

\* setMode adds the drained tasks one by one, each in its place.
LEMMA DescendingRefill ==
    ASSUME NEW s \in Seq(Tasks), NEW r \in Refills("PRIORITY", s)
    PROVE  Descending(r)
<1>1. PICK f \in Bijection(DOMAIN s, DOMAIN s) :
         /\ r = [i \in DOMAIN s |-> s[f[i]]]
         /\ \A i, j \in DOMAIN s : i < j => InFront("PRIORITY", s, f[i], f[j])
  BY DEF Refills
<1>2. DOMAIN s = 1..Len(s) /\ Len(s) \in Nat /\ \A j \in 1..Len(s) : s[j] \in Tasks
  OBVIOUS
<1>3. \A i \in 1..Len(s) : f[i] \in 1..Len(s)
  BY <1>1, <1>2 DEF Bijection, Injection, Surjection
<1>4. Len(r) = Len(s) /\ \A i \in 1..Len(s) : r[i] = s[f[i]]
  BY <1>1, <1>2
<1>5. ASSUME NEW i \in 1..Len(s), NEW j \in 1..Len(s), i < j
      PROVE  Priority[s[f[j]]] <= Priority[s[f[i]]]
  <2>1. /\ s[f[i]] \in Tasks /\ s[f[j]] \in Tasks
        /\ Priority[s[f[i]]] \in Int /\ Priority[s[f[j]]] \in Int
    BY <1>2, <1>3, ConstantsAssumption
  <2>2. \/ Priority[s[f[i]]] > Priority[s[f[j]]]
        \/ Priority[s[f[i]]] = Priority[s[f[j]]]
    BY <1>1, <1>2, <1>5 DEF InFront
  <2> QED  BY <2>1, <2>2
<1> QED  BY <1>4, <1>5 DEF Descending

\* Every operation keeps the skip lists in order.
LEMMA RankedStep == TypeOK /\ Ranked /\ [Next]_vars => Ranked'
<1> SUFFICES ASSUME TypeOK, Ranked, [Next]_vars PROVE Ranked'
  OBVIOUS
<1>0. /\ queues \in [Containers -> [Groups -> Seq(Tasks)]]
      /\ Container[mode] \in Containers /\ "priority" \in Containers
  BY ContainerType DEF TypeOK, Containers
<1>1. ASSUME NEW g \in Groups, NEW n, queues' = [queues EXCEPT ![Container[mode]][g] = n],
             mode = "PRIORITY" => Descending(n)
      PROVE  Ranked'
  <2> SUFFICES ASSUME NEW h \in Groups PROVE Descending(queues'["priority"][h])
    BY DEF Ranked
  <2>1. CASE Container[mode] = "priority" /\ h = g
    <3>1. mode = "PRIORITY"
      BY <2>1 DEF TypeOK, Container, AllModes
    <3>2. queues'["priority"][h] = n
      BY <1>0, <1>1, <2>1
    <3> QED  BY <1>1, <3>1, <3>2
  <2>2. CASE ~(Container[mode] = "priority" /\ h = g)
    <3>1. queues'["priority"][h] = queues["priority"][h]
      BY <1>0, <1>1, <2>2
    <3> QED  BY <3>1 DEF Ranked
  <2> QED  BY <2>1, <2>2
<1>2. mode = "PRIORITY" => Container[mode] = "priority"
  BY DEF Container, AllModes
<1>3. ASSUME NEW th \in Threads, EnqueueInsert(th) PROVE Ranked'
  <2> DEFINE g == grp[th]
             t == arg[th]
             s == queues[Container[mode]][g]
  <2>1. PICK i \in 1..(Len(s) + 1) :
           /\ Slot(mode, s, t, i)
           /\ queues' = [queues EXCEPT ![Container[mode]][g] = Inserted(s, i, t)]
    BY <1>3, Zenon DEF EnqueueInsert
  <2>2. g \in Groups /\ t \in Tasks /\ s \in Seq(Tasks)
    BY <1>0, <1>3 DEF EnqueueInsert, TypeOK
  <2>3. mode = "PRIORITY" => Descending(s)
    BY <1>2, <2>2 DEF Ranked
  <2> HIDE DEF s, t, g
  <2>4. mode = "PRIORITY" => Descending(Inserted(s, i, t))
    BY <2>1, <2>2, <2>3, DescendingInsert
  <2> QED  BY <1>1, <2>1, <2>2, <2>4, Zenon
<1>4. ASSUME NEW th \in Threads, DequeueTake(th) PROVE Ranked'
  <2> DEFINE c == Container[mode]
  <2>1. PICK g \in Groups :
           /\ queues[c][g] # <<>>
           /\ queues' = [queues EXCEPT ![c][g] = Popped(queues[c][g])]
    BY <1>4 DEF DequeueTake, Selected, Active
  <2>2. queues[c][g] \in Seq(Tasks)
    BY <1>0
  <2>3. mode = "PRIORITY" => Descending(queues[c][g])
    BY <1>2 DEF Ranked
  <2>4. mode = "PRIORITY" => Descending(Popped(queues[c][g]))
    BY <2>1, <2>2, <2>3, DescendingPop
  <2> QED  BY <1>1, <2>1, <2>4, Zenon
<1>5. Descending(<<>>)
  BY DEF Descending
<1>6. ASSUME NEW th \in Threads, Clear(th) PROVE Ranked'
  BY <1>0, <1>5, <1>6 DEF Clear, Ranked
<1>7. ASSUME NEW th \in Threads, NEW m \in Modes, SetMode(th, m) PROVE Ranked'
  <2>1. PICK filled : /\ \A g \in Groups : filled[g] \in Refills(m, Active[g])
                      /\ queues' = Refilled(m, filled)
    BY <1>7, Zenon DEF SetMode
  <2> SUFFICES ASSUME NEW g \in Groups PROVE Descending(queues'["priority"][g])
    BY DEF Ranked
  <2>2. queues'["priority"][g] = IF Container[m] = "priority" THEN filled[g] ELSE <<>>
    BY <1>0, <2>1 DEF Refilled
  <2>3. CASE Container[m] = "priority"
    <3>1. m = "PRIORITY"
      BY <2>3, ConstantsAssumption DEF Container, AllModes
    <3>2. Active[g] \in Seq(Tasks)
      BY <1>0 DEF Active
    <3>3. Descending(filled[g])
      BY <2>1, <3>1, <3>2, DescendingRefill
    <3> QED  BY <2>2, <2>3, <3>3
  <2> QED  BY <1>5, <2>2, <2>3
<1>8. ASSUME queues' = queues PROVE Ranked'
  BY <1>8 DEF Ranked
<1>9. ASSUME NEW th \in Threads,
             \/ \E t \in Tasks, g \in Groups : EnqueueRegister(th, t, g)
             \/ EnqueueCount(th) \/ EnqueueTotal(th)
             \/ DequeueNone(th) \/ DequeueCount(th) \/ DequeueTotal(th)
             \/ Peek(th)
      PROVE  Ranked'
  <2>1. queues' = queues
    BY <1>9, Zenon DEF EnqueueRegister, EnqueueCount, EnqueueTotal, DequeueNone,
                       DequeueCount, DequeueTotal, Peek, queueVars
  <2> QED  BY <1>8, <2>1
<1>10. ASSUME NEW th \in Threads, Cancel(th) PROVE Ranked'
  <2>1. queues' = queues
    BY <1>10, Zenon DEF Cancel, CancelBegin, CancelLoad, CancelStore, CancelErase,
                        CancelTotal, queueVars
  <2> QED  BY <1>8, <2>1
<1>11. ASSUME UNCHANGED vars PROVE Ranked'
  BY <1>8, <1>11 DEF vars, queueVars
<1> QED
  BY <1>3, <1>4, <1>6, <1>7, <1>9, <1>10, <1>11
     DEF Next, CancelNext, CoreNext, Enqueue, Dequeue

\* Only a dequeue that takes a task adds to the delivered ones.
LEMMA DeliveredBy ==
    ASSUME [Next]_vars, delivered' # delivered
    PROVE  \E th \in Threads : DequeueTake(th)
<1>1. UNCHANGED vars => delivered' = delivered
  BY DEF vars, history
<1>2. ASSUME NEW th \in Threads, Enqueue(th) PROVE delivered' = delivered
  BY <1>2, Zenon DEF Enqueue, EnqueueRegister, EnqueueInsert, EnqueueCount, EnqueueTotal,
              history
<1>3. ASSUME NEW th \in Threads, Cancel(th) PROVE delivered' = delivered
  BY <1>3, Zenon DEF Cancel, CancelBegin, CancelLoad, CancelStore, CancelErase,
              CancelTotal, history
<1>4. ASSUME NEW th \in Threads,
             \/ DequeueNone(th) \/ DequeueCount(th) \/ DequeueTotal(th) \/ Peek(th)
             \/ Clear(th) \/ \E m \in Modes : SetMode(th, m)
      PROVE  delivered' = delivered
  BY <1>4, Zenon DEF DequeueNone, DequeueCount, DequeueTotal, Peek, Clear, SetMode,
                     history
<1> QED  BY <1>1, <1>2, <1>3, <1>4, Zenon DEF Next, CancelNext, CoreNext, Dequeue

\* In PRIORITY mode no queued task of any group precedes the one that dequeue
\* takes, after any changes of mode and with any number of groups.
THEOREM HighestTaken == Spec => HighestFirst
<1>1. Init => Ranked
  BY DEF Init, Ranked, Descending, Containers
<1>2. Delivery /\ Ranked /\ [Next]_vars
         => [mode = "PRIORITY" =>
                \A t \in delivered' \ delivered :
                    \A u \in Queued : Priority[u] <= Priority[t]]_vars
  <2> SUFFICES ASSUME Delivery, Ranked, [Next]_vars, mode = "PRIORITY",
                      NEW t \in delivered' \ delivered, NEW u \in Queued
               PROVE  Priority[u] <= Priority[t]
    OBVIOUS
  <2>1. PICK th \in Threads : DequeueTake(th)
    BY DeliveredBy
  <2>2. PICK g \in Groups : /\ Active[g] # <<>> /\ Highest(g)
                            /\ delivered' = delivered \cup {Head(Active[g])}
    BY <2>1 DEF DequeueTake, Selected
  <2>3. t = Head(Active[g])
    BY <2>2
  <2>4. /\ Container[mode] = "priority" /\ "priority" \in Containers
        /\ Active = queues["priority"]
    BY DEF Container, AllModes, Active, Containers
  <2>5. PICK h \in Groups : u \in Range(queues["priority"][h])
    <3>1. PICK c \in Containers, h \in Groups : u \in Range(queues[c][h])
      BY DEF Queued, Contents
    <3>2. c # "priority" => queues[c][h] = <<>>
      BY <2>4 DEF Delivery, OnlyActiveUsed
    <3>3. Range(<<>>) = {}
      BY DEF Range
    <3> QED  BY <3>1, <3>2, <3>3
  <2>6. PICK s \in Seq(Tasks) : s = queues["priority"][h] /\ Descending(s)
    BY <2>4 DEF Delivery, TypeOK, Ranked
  <2>7. PICK k \in 1..Len(s) : u = s[k]
    BY <2>5, <2>6 DEF Range
  <2>8. s # <<>> /\ Len(s) \in Nat \ {0} /\ Head(s) = s[1] /\ s[1] \in Tasks
    BY <2>7
  <2>9. Priority[u] <= Priority[s[1]]
    <3>1. CASE k = 1
      <4>1. Priority[s[1]] \in Int
        BY <2>8, ConstantsAssumption
      <4> QED  BY <2>7, <3>1, <4>1
    <3>2. CASE k # 1
      BY <2>6, <2>7, <2>8, <3>2 DEF Descending
    <3> QED  BY <3>1, <3>2
  <2>10. Priority[s[1]] <= Priority[t]
    BY <2>2, <2>3, <2>4, <2>6, <2>8 DEF Highest
  <2>11. u \in Tasks /\ t \in Tasks
    <3>1. Active[g] \in Seq(Tasks)
      BY <2>4 DEF Delivery, TypeOK
    <3> QED  BY <2>2, <2>3, <3>1 DEF Queued, Contents
  <2>12. Priority[u] \in Int /\ Priority[t] \in Int /\ Priority[s[1]] \in Int
    BY <2>8, <2>11, ConstantsAssumption
  <2> QED  BY <2>9, <2>10, <2>12
<1>3. Delivery => TypeOK
  BY DEF Delivery
<1> QED
  BY <1>1, <1>2, <1>3, RankedStep, DeliveryInit, DeliveryStep, PTL
     DEF Spec, HighestFirst

-------------------------------------------------------------------------------
(* ROUND_ROBIN mode: remainders.                                           *)

\* Division with remainder.
LEMMA Division ==
    ASSUME NEW L \in Nat \ {0}, NEW c \in Nat
    PROVE  c % L \in 0..(L - 1) /\ \E d \in Nat : c = L * d + (c % L)
<1>1. c % L \in 0..(L - 1) /\ c \div L \in Nat
  OBVIOUS
<1>2. PICK d \in Nat : d = c \div L
  BY <1>1
<1>3. PICK r \in Nat : r = c % L
  BY <1>1
<1>4. c = L * d + r
  BY <1>2, <1>3
<1> QED  BY <1>1, <1>3, <1>4, Zenon

\* The remainder is the only one.
LEMMA Remainder ==
    ASSUME NEW L \in Nat \ {0}, NEW d \in Nat, NEW q \in 0..(L - 1)
    PROVE  (L * d + q) % L = q
OBVIOUS

\* A multiple and a remainder, as numbers of their own.
LEMMA Quotient ==
    ASSUME NEW L \in Nat \ {0}, NEW x \in Nat
    PROVE  \E q \in 0..(L - 1), f \in Nat : x = L * f + q
BY Division, Zenon

\* L draws in a row meet every remainder.
LEMMA EveryRemainder ==
    ASSUME NEW L \in Nat \ {0}, NEW c \in Nat, NEW q \in 0..(L - 1)
    PROVE  \E k \in 0..(L - 1) : (c + k) % L = q
<1>1. PICK r \in 0..(L - 1), d \in Nat : c = L * d + r
  BY Division, Zenon
<1>2. CASE r <= q
  <2>1. q - r \in 0..(L - 1) /\ c + (q - r) = L * d + q
    BY <1>1, <1>2
  <2>2. (L * d + q) % L = q
    BY Remainder
  <2> QED  BY <2>1, <2>2, Zenon
<1>3. CASE r > q
  <2>1. q - r + L \in 0..(L - 1) /\ c + (q - r + L) = L * (d + 1) + q
    BY <1>1, <1>3
  <2>2. (L * (d + 1) + q) % L = q
    BY Remainder
  <2> QED  BY <2>1, <2>2, Zenon
<1> QED  BY <1>2, <1>3

\* Wrapping at a multiple of L keeps the remainder.
LEMMA WrapRemainder ==
    ASSUME NEW L \in Nat \ {0}, NEW M \in Nat \ {0}, M % L = 0, NEW x \in Nat
    PROVE  (x % M) % L = x % L
<1>1. PICK e \in Nat : M = L * e
  <2>1. PICK e \in Nat : M = L * e + (M % L)
    BY Division, Zenon
  <2> QED  BY <2>1
<1>2. PICK r \in 0..(M - 1), d \in Nat : r = x % M /\ x = M * d + r
  <2>1. x % M \in 0..(M - 1) /\ \E d \in Nat : x = M * d + (x % M)
    BY Division, Zenon
  <2> QED  BY <2>1, Zenon
<1>3. r \in Nat
  OBVIOUS
<1>4. PICK q \in 0..(L - 1), f \in Nat : q = r % L /\ r = L * f + q
  <2>1. r % L \in 0..(L - 1) /\ \E f \in Nat : r = L * f + (r % L)
    BY <1>3, Division, Zenon
  <2> QED  BY <2>1
<1>5. PICK p \in Nat : M * d = L * p
  <2>1. e * d \in Nat /\ M * d = L * (e * d)
    BY <1>1
  <2> QED  BY <2>1, Zenon
<1>6. L * (p + f) = L * p + L * f /\ p + f \in Nat
  OBVIOUS
<1>7. x = L * (p + f) + q
  BY <1>2, <1>4, <1>5, <1>6
<1>8. x % L = q
  BY <1>6, <1>7, Remainder
<1> QED  BY <1>2, <1>4, <1>8

\* The scan of the round robin does not pass the end of size_t, or passes it
\* where the number of groups divides 2^64.
Unbroken ==
    \/ current_group_index + Len(group_names) <= MaxSize
    \/ (MaxSize + 1) % Len(group_names) = 0

\* As long as it does not, the draws go round the groups in order.
LEMMA Draws ==
    ASSUME TypeOK, Unbroken, group_names # <<>>,
           NEW n \in 0..Len(group_names)
    PROVE  /\ Advanced(n) \in Nat
           /\ Advanced(n) % Len(group_names)
                 = (current_group_index + n) % Len(group_names)
<1>1. PICK L \in Nat \ {0} : L = Len(group_names)
  BY DEF TypeOK
<1>2. PICK M \in Nat \ {0} : M = MaxSize + 1
  BY WidthAssumption
<1>3. PICK c \in Nat : c = current_group_index
  BY WidthAssumption DEF TypeOK
<1>4. n \in Nat /\ n <= L /\ c + n \in Nat
  BY <1>1
<1>5. Advanced(n) = (c + n) % M
  BY <1>2, <1>3 DEF Advanced
<1>6. (c + n) % M \in Nat
  BY <1>4
<1>7. CASE c + L <= MaxSize
  <2>1. c + n \in 0..(M - 1)
    BY <1>2, <1>4, <1>7, WidthAssumption
  <2>2. (M * 0 + (c + n)) % M = c + n
    BY <2>1, Remainder
  <2>3. M * 0 + (c + n) = c + n
    BY <1>4
  <2> QED  BY <1>1, <1>3, <1>5, <1>6, <2>2, <2>3
<1>8. CASE M % L = 0
  <2>1. PICK x \in Nat : x = c + n
    BY <1>4
  <2>2. (x % M) % L = x % L
    BY <1>8, WrapRemainder, Zenon
  <2> QED  BY <1>1, <1>3, <1>5, <1>6, <2>1, <2>2
<1> QED  BY <1>1, <1>2, <1>3, <1>7, <1>8 DEF Unbroken

-------------------------------------------------------------------------------
(* dequeue finds a task if there is one.                                   *)

\* A set of numbers has a least one.
LEMMA Least ==
    ASSUME NEW T, T \subseteq Nat, T # {}
    PROVE  \E m \in T : \A n \in T : m <= n
<1>1. PICK R : R = OpToRel(<, Nat)
  OBVIOUS
<1>2. IsWellFoundedOn(R, Nat)
  BY <1>1, NatLessThanWellFounded
<1>3. PICK m \in T : \A n \in T : ~(<<n, m>> \in R)
  BY <1>2, WFMin, Zenon
<1>4. \A n \in T : n < m => <<n, m>> \in R
  BY <1>1 DEF OpToRel
<1>5. \A n \in T : ~(n < m)
  BY <1>3, <1>4, Zenon
<1> QED  BY <1>5

\* Of finitely many numbers one is the greatest.
LEMMA Greatest ==
    ASSUME NEW S, IsFiniteSet(S), S # {}, NEW f \in [S -> Int]
    PROVE  \E x \in S : \A y \in S : f[y] <= f[x]
<1> DEFINE Above(x) == {y \in S : f[y] > f[x]}
           N == {Cardinality(Above(x)) : x \in S}
<1>1. \A x \in S : IsFiniteSet(Above(x)) /\ Cardinality(Above(x)) \in Nat
  <2>1. \A x \in S : Above(x) \subseteq S
    OBVIOUS
  <2> HIDE DEF Above
  <2>2. \A x \in S : IsFiniteSet(Above(x))
    BY <2>1, FS_Subset
  <2> QED  BY <2>2, FS_CardinalityType
<1>2. PICK m \in N : \A n \in N : m <= n
  <2> HIDE DEF Above
  <2>1. N \subseteq Nat /\ N # {}
    BY <1>1
  <2> HIDE DEF N
  <2> QED  BY <2>1, Least, Zenon
<1>3. PICK x \in S : m = Cardinality(Above(x))
  OBVIOUS
<1>4. ASSUME NEW y \in S, f[y] > f[x] PROVE FALSE
  <2>1. Above(y) \subseteq Above(x) /\ y \in Above(x) /\ y \notin Above(y)
    BY <1>4
  <2>2. Cardinality(Above(y)) \in N
    BY Zenon
  <2> HIDE DEF Above, N
  <2>3. Above(y) # Above(x)
    BY <2>1
  <2>4. Cardinality(Above(y)) < Cardinality(Above(x))
    BY <1>1, <2>1, <2>3, FS_Subset, FS_CardinalityType
  <2> QED  BY <1>1, <1>2, <1>3, <2>2, <2>4
<1> QED  BY <1>4

\* A group that has a task is one of group_names_.
Named == \A c \in Containers, g \in Groups :
            queues[c][g] # <<>> => g \in Range(group_names)

\* Groups are only added, and only enqueue fills a container of a group.
LEMMA NamedStep == Delivery /\ Named /\ [Next]_vars => Named'
<1> SUFFICES ASSUME Delivery, Named, [Next]_vars PROVE Named'
  OBVIOUS
<1>0. TypeOK /\ queues \in [Containers -> [Groups -> Seq(Tasks)]]
      /\ Container[mode] \in Containers
  BY ContainerType DEF TypeOK, Delivery
<1>1. ASSUME NEW th \in Threads, EnqueueInsert(th) PROVE Named'
  <2> DEFINE k == grp[th]
             a == Container[mode]
  <2>1. k \in Groups /\ group_names \in Seq(Groups)
    BY <1>0, <1>1 DEF EnqueueInsert, TypeOK
  <2>2. PICK n : queues' = [queues EXCEPT ![a][k] = n]
    BY <1>1, Zenon DEF EnqueueInsert
  <2>3. group_names' = IF k \in Range(group_names) THEN group_names
                       ELSE Append(group_names, k)
    BY <1>1, Zenon DEF EnqueueInsert
  <2>4. k \in Range(group_names') /\ Range(group_names) \subseteq Range(group_names')
    <3>1. CASE k \in Range(group_names)
      BY <2>3, <3>1
    <3>2. CASE k \notin Range(group_names)
      <4>1. /\ DOMAIN group_names = 1..Len(group_names) /\ Len(group_names) \in Nat
            /\ DOMAIN group_names' = 1..(Len(group_names) + 1)
            /\ group_names'[Len(group_names) + 1] = k
            /\ \A i \in 1..Len(group_names) : group_names'[i] = group_names[i]
        BY <2>1, <2>3, <3>2
      <4>2. /\ Len(group_names) + 1 \in DOMAIN group_names'
            /\ DOMAIN group_names \subseteq DOMAIN group_names'
        BY <4>1
      <4> QED  BY <4>1, <4>2 DEF Range
    <3> QED  BY <3>1, <3>2
  <2>5. ASSUME NEW c \in Containers, NEW g \in Groups, queues'[c][g] # <<>>
        PROVE  g \in Range(group_names')
    <3>1. CASE c = a /\ g = k
      BY <2>4, <3>1
    <3>2. CASE ~(c = a /\ g = k)
      <4>1. queues'[c][g] = queues[c][g]
        BY <1>0, <2>1, <2>2, <3>2
      <4> QED  BY <2>4, <2>5, <4>1 DEF Named
    <3> QED  BY <3>1, <3>2
  <2> QED  BY <2>5 DEF Named
<1>2. ASSUME group_names' = group_names,
             \A c \in Containers, g \in Groups : queues'[c][g] # <<>> =>
                 \E d \in Containers : queues[d][g] # <<>>
      PROVE  Named'
  BY <1>2 DEF Named
<1>3. ASSUME NEW th \in Threads, DequeueTake(th) PROVE Named'
  <2> DEFINE a == Container[mode]
  <2>1. PICK k \in Groups : /\ queues[a][k] # <<>>
                            /\ queues' = [queues EXCEPT ![a][k] = Popped(queues[a][k])]
    BY <1>3 DEF DequeueTake, Selected, Active
  <2>2. group_names' = group_names
    BY <1>3 DEF DequeueTake
  <2>3. \A c \in Containers, g \in Groups :
           (c = a /\ g = k) \/ queues'[c][g] = queues[c][g]
    BY <1>0, <2>1, Zenon
  <2> QED  BY <1>0, <1>2, <2>1, <2>2, <2>3, Zenon
<1>4. ASSUME NEW th \in Threads, Clear(th) PROVE Named'
  BY <1>2, <1>4 DEF Clear
<1>5. ASSUME NEW th \in Threads, NEW m \in Modes, SetMode(th, m) PROVE Named'
  <2>1. PICK filled : /\ \A g \in Groups : filled[g] \in Refills(m, Active[g])
                      /\ queues' = Refilled(m, filled)
    BY <1>5, Zenon DEF SetMode
  <2>2. group_names' = group_names
    BY <1>5 DEF SetMode
  <2>3. ASSUME NEW c \in Containers, NEW g \in Groups, queues'[c][g] # <<>>
        PROVE  queues[Container[mode]][g] # <<>>
    <3>1. queues'[c][g] = filled[g]
      BY <2>1, <2>3 DEF Refilled
    <3>2. filled[g] \in Refills(m, queues[Container[mode]][g])
      BY <2>1 DEF Active
    <3>3. ASSUME queues[Container[mode]][g] = <<>> PROVE filled[g] = <<>>
      <4>1. DOMAIN <<>> = {}
        OBVIOUS
      <4>2. PICK f : filled[g] = [i \in DOMAIN <<>> |-> <<>>[f[i]]]
        BY <3>2, <3>3, Zenon DEF Refills
      <4>3. \A e : [i \in {} |-> e] = <<>>
        OBVIOUS
      <4> QED  BY <4>1, <4>2
    <3> QED  BY <2>3, <3>1, <3>3
  <2> QED  BY <1>0, <1>2, <2>2, <2>3
<1>6. ASSUME UNCHANGED <<queues, group_names>> PROVE Named'
  BY <1>6 DEF Named
<1>7. ASSUME NEW th \in Threads,
             \/ \E t \in Tasks, g \in Groups : EnqueueRegister(th, t, g)
             \/ EnqueueCount(th) \/ EnqueueTotal(th)
             \/ DequeueNone(th) \/ DequeueCount(th) \/ DequeueTotal(th)
             \/ Peek(th)
      PROVE  Named'
  <2>1. UNCHANGED <<queues, group_names>>
    BY <1>7, Zenon DEF EnqueueRegister, EnqueueCount, EnqueueTotal, DequeueNone,
                       DequeueCount, DequeueTotal, Peek, queueVars
  <2> QED  BY <1>6, <2>1
<1>8. ASSUME NEW th \in Threads, Cancel(th) PROVE Named'
  <2>1. UNCHANGED <<queues, group_names>>
    BY <1>8, Zenon DEF Cancel, CancelBegin, CancelLoad, CancelStore, CancelErase,
                       CancelTotal, queueVars
  <2> QED  BY <1>6, <2>1
<1>9. ASSUME UNCHANGED vars PROVE Named'
  BY <1>6, <1>9 DEF vars, queueVars
<1> QED
  BY <1>1, <1>3, <1>4, <1>5, <1>7, <1>8, <1>9
     DEF Next, CancelNext, CoreNext, Enqueue, Dequeue

\* A draw of the round robin names a group.
LEMMA DrawnGroup ==
    ASSUME TypeOK, group_names # <<>>, NEW k \in Nat
    PROVE  RoundRobinGroup(k) \in Groups
<1>1. Len(group_names) \in Nat \ {0} /\ group_names \in Seq(Groups)
  BY DEF TypeOK
<1>2. Advanced(k) \in Nat
  BY WrapType, WidthAssumption DEF Advanced, TypeOK
<1>3. Advanced(k) % Len(group_names) \in 0..(Len(group_names) - 1)
  BY <1>1, <1>2
<1>4. 1 + (Advanced(k) % Len(group_names)) \in 1..Len(group_names)
  BY <1>1, <1>3
<1> QED  BY <1>1, <1>4 DEF RoundRobinGroup

\* A group of group_names_ is drawn within as many draws as there are groups.
LEMMA GroupIsDrawn ==
    ASSUME TypeOK, Unbroken, NEW g \in Range(group_names)
    PROVE  \E k \in 0..(Len(group_names) - 1) :
              /\ RoundRobinGroup(k) = g
              /\ group_names[1 + ((current_group_index + k) % Len(group_names))] = g
<1>1. group_names \in Seq(Groups) /\ current_group_index \in Nat
  BY WidthAssumption DEF TypeOK
<1>2. PICK p \in 1..Len(group_names) : group_names[p] = g
  BY <1>1 DEF Range
<1>3. PICK L \in Nat \ {0} : L = Len(group_names)
  BY <1>1, <1>2
<1>4. p - 1 \in 0..(L - 1)
  BY <1>2, <1>3
<1>5. PICK k \in 0..(L - 1) : (current_group_index + k) % L = p - 1
  BY <1>1, <1>4, EveryRemainder, Zenon
<1>6. Advanced(k) % L = p - 1
  <2>1. group_names # <<>> /\ k \in 0..Len(group_names)
    BY <1>1, <1>3
  <2> QED  BY <1>3, <1>5, <2>1, Draws
<1>7. 1 + (p - 1) = p
  BY <1>2
<1> QED  BY <1>2, <1>3, <1>5, <1>6, <1>7 DEF RoundRobinGroup

\* The groups have a number, and a list of groups that is not empty is not 0 long.
LEMMA NumberOfGroups ==
    ASSUME TypeOK PROVE Len(group_names) \in Nat /\ 0 \in 0..Len(group_names)
BY DEF TypeOK

\* What holds a group, or has a length, is not empty.
LEMMA NotEmpty ==
    ASSUME NEW s, (\E x : x \in Range(s)) \/ (Len(s) \in Nat \ {0})
    PROVE  s # <<>>
BY DEF Range

\* Draw number m + 1 is one of a scan over L groups.
LEMMA NextDraw ==
    ASSUME NEW L \in Nat, NEW m \in 0..(L - 1)
    PROVE  m \in Nat /\ m + 1 \in 0..L /\ (m + 1) - 1 = m /\ m + 1 > 0
OBVIOUS

\* The draws up to n - 1 have all been looked at.
LEMMA PastDraws ==
    ASSUME NEW n \in Nat, NEW k \in Nat, k # n - 1, k \notin 0..(n - 2)
    PROVE  n <= k
OBVIOUS

\* A round robin scan meets a group that has a task.
LEMMA RoundRobinSelects ==
    ASSUME Delivery, Named, Unbroken, mode = "ROUND_ROBIN",
           NEW g \in Groups, Active[g] # <<>>
    PROVE  \E h \in Groups, n \in 0..Len(group_names) : Selected(h, n)
<1>1. TypeOK /\ Container[mode] \in Containers
  BY ContainerType DEF Delivery, TypeOK
<1>2. Len(group_names) \in Nat
  BY <1>1, NumberOfGroups, Zenon
<1> DEFINE K == {k \in 0..(Len(group_names) - 1) : Active[RoundRobinGroup(k)] # <<>>}
<1>3. g \in Range(group_names)
  BY <1>1 DEF Named, Active
<1>4. PICK k \in 0..(Len(group_names) - 1) : RoundRobinGroup(k) = g
  BY <1>1, <1>3, GroupIsDrawn
<1>5. K \subseteq Nat /\ K # {}
  BY <1>2, <1>4
<1>6. PICK m \in K : \A n \in K : m <= n
  <2> HIDE DEF K
  <2> QED  BY <1>5, Least, Zenon
<1>7. m \in Nat /\ m + 1 \in 0..Len(group_names) /\ (m + 1) - 1 = m /\ m + 1 > 0
  BY <1>2, <1>6, NextDraw, Zenon
<1>8. RoundRobinGroup(m) \in Groups /\ Active[RoundRobinGroup(m)] # <<>>
  <2>1. group_names # <<>>
    BY <1>3, NotEmpty, Zenon
  <2> QED  BY <1>1, <1>6, <1>7, <2>1, DrawnGroup, Zenon
<1>9. \A j \in 0..((m + 1) - 2) : Active[RoundRobinGroup(j)] = <<>>
  <2> SUFFICES ASSUME NEW j \in 0..((m + 1) - 2), Active[RoundRobinGroup(j)] # <<>>
               PROVE  FALSE
    OBVIOUS
  <2>1. j \in K
    BY <1>2, <1>7
  <2>2. m <= j
    BY <1>6, <2>1
  <2> QED  BY <1>7, <2>2
<1>10. Selected(RoundRobinGroup(m), m + 1)
  BY <1>7, <1>8, <1>9, Zenon DEF Selected, RoundRobinHit
<1> QED  BY <1>7, <1>8, <1>10, ZenonT(30)

\* No group is named "" and no priority is INT_MIN: getTaskFromPriority takes both
\* for "none found".
Selectable == "" \notin Groups /\ \A t \in Tasks : Priority[t] > IntMin

\* Each mode's selection finds a group if a container of the mode is not empty.
LEMMA SomeSelected ==
    ASSUME Delivery, Named, Unbroken, Selectable,
           NEW g \in Groups, Active[g] # <<>>
    PROVE  \E h \in Groups, n \in 0..Len(group_names) : Selected(h, n)
<1>1. TypeOK /\ Container[mode] \in Containers
      /\ \A h \in Groups : Active[h] \in Seq(Tasks)
  BY ContainerType DEF Delivery, TypeOK, Active
<1>2. 0 \in 0..Len(group_names)
  BY <1>1, NumberOfGroups, Zenon
<1>3. CASE mode \in {"FIFO", "LIFO"}
  <2>1. Selected(g, 0)
    BY <1>3, Zenon DEF Selected
  <2> QED  BY <1>2, <2>1, Zenon
<1>4. CASE mode = "PRIORITY"
  <2> DEFINE S == {h \in Groups : Active[h] # <<>>}
             f == [h \in S |-> Priority[Head(Active[h])]]
  <2>1. \A h \in S : Head(Active[h]) \in Tasks
    BY <1>1
  <2>2. f \in [S -> Int] /\ \A h \in S : f[h] = Priority[Head(Active[h])]
    BY <2>1, ConstantsAssumption
  <2>3. IsFiniteSet(S) /\ S # {}
    BY ConstantsAssumption, FS_Subset
  <2> HIDE DEF f
  <2>4. PICK h \in S : \A y \in S : f[y] <= f[h]
    <3> HIDE DEF S
    <3> QED  BY <2>2, <2>3, Greatest
  <2>5. h \in Groups /\ Active[h] # <<>> /\ Priority[Head(Active[h])] > IntMin
    BY <2>1, Zenon DEF Selectable
  <2>6. Highest(h)
    BY <2>1, <2>2, <2>4, <2>5 DEF Highest
  <2>7. Selected(h, 0)
    BY <1>4, <2>5, <2>6, Zenon DEF Selected, Selectable
  <2>8. 0 \in 0..Len(group_names)
    BY <1>2
  <2> QED  BY <2>5, <2>7, <2>8
<1>5. CASE mode = "ROUND_ROBIN"
  BY <1>5, RoundRobinSelects
<1> QED  BY <1>1, <1>3, <1>4, <1>5, Zenon DEF TypeOK, AllModes

\* A new manager has no groups and no tasks.
LEMMA NamedInit == Init => Named
BY DEF Init, Named

\* If a task is queued and size() is not zero, dequeue finds a task, in every mode
\* and after any changes of mode: but for a round robin scan that passes the end
\* of size_t in the middle, a group named "" and a priority of INT_MIN.
THEOREM QueuedIsServed ==
    ASSUME Selectable
    PROVE  Spec => [](Unbroken => ServesQueued)
<1>1. Delivery /\ Named => (Unbroken => ServesQueued)
  <2> SUFFICES ASSUME Delivery, Named, Unbroken, Queued # {}
               PROVE  \E g \in Groups, n \in 0..Len(group_names) : Selected(g, n)
    BY DEF ServesQueued
  <2>1. PICK c \in Containers, g \in Groups : queues[c][g] # <<>>
    <3>1. Range(<<>>) = {}
      BY DEF Range
    <3> QED  BY <3>1 DEF Queued, Contents
  <2>2. Active[g] # <<>>
    BY <2>1 DEF Delivery, OnlyActiveUsed, Active
  <2> QED  BY <2>2, SomeSelected
<1> QED
  BY <1>1, NamedInit, NamedStep, DeliveryInit, DeliveryStep, PTL DEF Spec

-------------------------------------------------------------------------------
(* How often round robin can pass over a group.                            *)

\* The index is k draws away from a group, which waits for as many dequeues.
Away(g, k) ==
    group_names[1 + ((current_group_index + k) % Len(group_names))] = g

\* What makes BoundedBypass inductive: a group that has been passed over b times
\* is met within the next Len(group_names) - b draws.
Turns ==
    /\ bypassed \in [Groups -> Nat]
    /\ \A g \in Groups : bypassed[g] > 0 =>
          /\ mode = "ROUND_ROBIN"
          /\ \E k \in 0..(Len(group_names) - 1) :
                bypassed[g] + k <= Len(group_names) - 1 /\ Away(g, k)

\* After n of k draws, k - n are left.
LEMMA DrawsLeft ==
    ASSUME NEW n \in Nat, NEW k \in Nat, n <= k,
           current_group_index \in Nat, Len(group_names) \in Nat \ {0},
           Advanced(n) \in Nat,
           Advanced(n) % Len(group_names) = (current_group_index + n) % Len(group_names)
    PROVE  (Advanced(n) + (k - n)) % Len(group_names)
              = (current_group_index + k) % Len(group_names)
<1>1. PICK L \in Nat \ {0} : L = Len(group_names)
  BY Zenon
<1>2. PICK a \in Nat : a = Advanced(n)
  BY Zenon
<1>3. PICK c \in Nat : c = current_group_index
  BY Zenon
<1>4. PICK b \in Nat : b = c + n
  OBVIOUS
<1>5. PICK j \in Nat : j = k - n
  OBVIOUS
<1>6. a % L = b % L
  BY <1>1, <1>2, <1>3, <1>4, Zenon
<1>7. PICK r \in 0..(L - 1) : r = a % L /\ r = b % L
  BY <1>6, Division, Zenon
<1>8. PICK d \in Nat : a = L * d + r
  BY <1>7, Division, Zenon
<1>9. PICK e \in Nat : b = L * e + r
  BY <1>7, Division, Zenon
<1>10. PICK x \in Nat : x = r + j
  OBVIOUS
<1>11. PICK q \in 0..(L - 1), f \in Nat : x = L * f + q
  BY Quotient, Zenon
<1>12. a + j = L * (d + f) + q /\ c + k = L * (e + f) + q
  BY <1>4, <1>5, <1>8, <1>9, <1>10, <1>11
<1>13. d + f \in Nat /\ e + f \in Nat
  OBVIOUS
<1>14. (L * (d + f) + q) % L = q /\ (L * (e + f) + q) % L = q
  BY <1>13, Remainder, Zenon
<1>15. (a + j) % L = (c + k) % L
  BY <1>12, <1>14, Zenon
<1> QED  BY <1>1, <1>2, <1>3, <1>5, <1>15, Zenon

\* A dequeue that serves another group moves the index towards group g, by at
\* least one draw and not past it.
LEMMA TurnComesCloser ==
    ASSUME Delivery, Unbroken, mode = "ROUND_ROBIN",
           NEW g \in Groups, NEW h \in Groups \ {g}, Active[g] # <<>>,
           NEW n \in 0..Len(group_names), Selected(h, n),
           NEW k \in 0..(Len(group_names) - 1), Away(g, k),
           current_group_index' = Advanced(n), group_names' = group_names
    PROVE  n > 0 /\ n <= k /\ Away(g, k - n)'
<1>1. TypeOK
  BY DEF Delivery
<1>2. n > 0 /\ RoundRobinHit(h, n)
  BY Zenon DEF Selected
<1>3. PICK L \in Nat \ {0} : L = Len(group_names)
  BY <1>1 DEF TypeOK
<1>4. group_names # <<>>
  BY <1>3, NotEmpty, ZenonT(30)
<1>5. current_group_index \in Nat /\ k \in 0..L /\ n \in Nat /\ k \in Nat
  BY <1>1, <1>3, WidthAssumption DEF TypeOK
<1>6. RoundRobinGroup(k) = g
  <2>1. k \in 0..Len(group_names)
    BY <1>3, <1>5, Zenon
  <2>2. Advanced(k) % Len(group_names) = (current_group_index + k) % Len(group_names)
    BY <1>1, <1>4, <2>1, Draws, Zenon
  <2> QED  BY <2>2, Zenon DEF RoundRobinGroup, Away
<1>7. k # n - 1
  BY <1>2, <1>6, Zenon DEF RoundRobinHit
<1>8. k \notin 0..(n - 2)
  BY <1>2, <1>6, Zenon DEF RoundRobinHit
<1>9. n <= k
  BY <1>5, <1>7, <1>8, PastDraws, ZenonT(30)
<1>10. /\ Advanced(n) \in Nat
       /\ Advanced(n) % Len(group_names) = (current_group_index + n) % Len(group_names)
  BY <1>1, <1>4, Draws
<1>11. (Advanced(n) + (k - n)) % Len(group_names)
          = (current_group_index + k) % Len(group_names)
  <2>1. Len(group_names) \in Nat \ {0}
    BY <1>3, Zenon
  <2> QED  BY <1>5, <1>9, <1>10, <2>1, DrawsLeft, ZenonT(30)
<1>12. Away(g, k - n)'
  BY <1>11, Zenon DEF Away
<1> QED  BY <1>2, <1>9, <1>12

\* Only dequeue moves the index, and one that finds nothing moves it only where
\* no group has a task.
LEMMA IndexRests ==
    ASSUME Delivery, Named, Unbroken, mode = "ROUND_ROBIN", [CoreNext]_vars,
           delivered' = delivered,
           NEW g \in Groups, Waits(g), mode' = mode
    PROVE  current_group_index' = current_group_index
<1>1. UNCHANGED vars => current_group_index' = current_group_index
  BY DEF vars, queueVars
<1>2. ASSUME NEW th \in Threads, Enqueue(th)
      PROVE  current_group_index' = current_group_index
  BY <1>2, Zenon DEF Enqueue, EnqueueRegister, EnqueueInsert, EnqueueCount, EnqueueTotal,
                     queueVars
<1>3. ASSUME NEW th \in Threads, DequeueTake(th) PROVE FALSE
  BY <1>3, TakeStep DEF Delivery, DeliveredOnce
<1>4. ASSUME NEW th \in Threads, DequeueNone(th)
      PROVE  current_group_index' = current_group_index
  <2>1. queues' = queues
    BY <1>4, Zenon DEF DequeueNone
  <2>2. Active[g] # <<>>
    BY <2>1 DEF Waits, Active, Container, AllModes
  <2>3. PICK h \in Groups, n \in 0..Len(group_names) : Selected(h, n)
    BY <2>2, RoundRobinSelects
  <2> QED  BY <1>4, <2>3, Zenon DEF DequeueNone
<1>5. ASSUME NEW th \in Threads,
             DequeueCount(th) \/ DequeueTotal(th) \/ Peek(th)
      PROVE  current_group_index' = current_group_index
  BY <1>5, Zenon DEF DequeueCount, DequeueTotal, Peek, queueVars
<1>6. ASSUME NEW th \in Threads, NEW m \in Modes, SetMode(th, m)
      PROVE  current_group_index' = current_group_index
  BY <1>6, Zenon DEF SetMode
<1> QED  BY <1>1, <1>2, <1>3, <1>4, <1>5, <1>6, Zenon DEF CoreNext, Dequeue

\* No step lets a group wait longer than its turn.
LEMMA TurnsStep ==
    ASSUME Delivery, Named, Unbroken, Turns, [RRNext]_<<vars, bypassed>>
    PROVE  Turns'
<1>1. TypeOK /\ group_names \in Seq(Groups)
  BY DEF Delivery, TypeOK
<1>2. CASE UNCHANGED <<vars, bypassed>>
  BY <1>2 DEF Turns, Away, vars, queueVars
<1>3. CASE RRNext
  <2>1. /\ CoreNext
        /\ \A g \in Groups : bypassed'[g] = IF CountAgain(g) THEN 0
                                            ELSE IF delivered' # delivered
                                            THEN bypassed[g] + 1 ELSE bypassed[g]
    BY <1>3 DEF RRNext
  <2>2. bypassed' \in [Groups -> Nat]
    BY <1>3 DEF RRNext, Turns
  <2>3. ASSUME NEW g \in Groups, bypassed'[g] > 0
        PROVE  /\ mode' = "ROUND_ROBIN"
               /\ \E k \in 0..(Len(group_names') - 1) :
                     bypassed'[g] + k <= Len(group_names') - 1 /\ Away(g, k)'
    <3>1. ~CountAgain(g)
      BY <2>1, <2>3
    <3>2. Waits(g) /\ ~Served(g) /\ mode' = "ROUND_ROBIN" /\ group_names' = group_names
      BY <3>1, Zenon DEF CountAgain
    <3>3. bypassed[g] \in Nat
      BY DEF Turns
    <3>4. CASE delivered' = delivered
      <4>1. bypassed'[g] = bypassed[g] /\ bypassed[g] > 0
        BY <2>1, <2>3, <3>1, <3>4
      <4>2. mode = "ROUND_ROBIN"
        BY <4>1 DEF Turns
      <4>3. current_group_index' = current_group_index
        BY <2>1, <3>2, <3>4, <4>2, IndexRests
      <4> QED  BY <3>2, <4>1, <4>3 DEF Turns, Away
    <3>5. CASE delivered' # delivered
      <4>1. bypassed'[g] = bypassed[g] + 1
        BY <2>1, <3>1, <3>5
      <4>2. PICK th \in Threads : DequeueTake(th)
        BY <2>1, <3>5, DeliveredBy DEF Next, CancelNext
      <4>3. mode = "ROUND_ROBIN"
        BY <3>2, <4>2, Zenon DEF DequeueTake
      <4>4. PICK h \in Groups, n \in 0..Len(group_names) :
              /\ Selected(h, n)
              /\ queues' = [queues EXCEPT ![Container[mode]][h] = Popped(@)]
              /\ current_group_index' = Advanced(n)
        BY <4>2, Zenon DEF DequeueTake
      <4>5. Container[mode] = "fifo" /\ "fifo" \in Containers
        BY <4>3 DEF Container, AllModes, Containers
      <4>6. /\ queues["fifo"][g] \in Seq(Tasks) /\ Active = queues["fifo"]
            /\ queues' = [queues EXCEPT !["fifo"][h] = Popped(@)]
            /\ queues \in [Containers -> [Groups -> Seq(Tasks)]]
        BY <1>1, <4>4, <4>5 DEF TypeOK, Active
      <4>7. h # g
        <5> SUFFICES ASSUME h = g PROVE FALSE
          OBVIOUS
        <5>1. Active[h] # <<>>
          BY <4>4, Zenon DEF Selected
        <5>2. queues'["fifo"][g] = Tail(queues["fifo"][g])
          BY <4>5, <4>6 DEF Popped
        <5>3. PICK w \in Seq(Tasks) : w = queues["fifo"][g]
          BY <4>6
        <5>4. w # <<>>
          BY <4>6, <5>1, <5>3
        <5>5. Len(Tail(w)) < Len(w)
          BY <5>4
        <5> QED  BY <3>2, <5>2, <5>3, <5>5, Zenon DEF Served
      <4>8. Active[g] # <<>>
        BY <3>2, <4>5, <4>6, <4>7 DEF Waits
      <4>9. PICK k \in 0..(Len(group_names) - 1) :
              bypassed[g] + k <= Len(group_names) - 1 /\ Away(g, k)
        <5>1. CASE bypassed[g] > 0
          BY <5>1 DEF Turns
        <5>2. CASE bypassed[g] = 0
          <6>1. g \in Range(group_names)
            BY <4>5, <4>6, <4>8 DEF Named
          <6>2. PICK k \in 0..(Len(group_names) - 1) : Away(g, k)
            BY <1>1, <6>1, GroupIsDrawn DEF Away
          <6> QED  BY <1>1, <5>2, <6>2
        <5> QED  BY <3>3, <5>1, <5>2
      <4>10. n > 0 /\ n <= k /\ Away(g, k - n)'
        BY <3>2, <4>3, <4>4, <4>7, <4>8, <4>9, TurnComesCloser, Zenon
      <4>11. /\ k - n \in 0..(Len(group_names) - 1)
             /\ bypassed'[g] + (k - n) <= Len(group_names) - 1
        BY <1>1, <3>3, <4>1, <4>9, <4>10
      <4> QED  BY <3>2, <4>10, <4>11
    <3> QED  BY <3>4, <3>5
  <2> QED  BY <2>2, <2>3 DEF Turns
<1> QED  BY <1>2, <1>3

\* While the list of groups stays the same, getTaskRoundRobin passes over a group
\* that has a task at most once for each of the other groups: for any number of
\* groups, tasks and threads, as long as no scan passes the end of size_t in the
\* middle.
THEOREM BypassIsBounded == RRSpec /\ []Unbroken => []BoundedBypass
<1>1. RRInit => Delivery /\ Named /\ Turns
  BY DeliveryInit, NamedInit DEF RRInit, Turns
<1>2. Delivery /\ Named /\ Unbroken /\ Turns /\ [RRNext]_<<vars, bypassed>>
         => Delivery' /\ Named' /\ Turns'
  <2>1. [RRNext]_<<vars, bypassed>> => [Next]_vars
    BY DEF RRNext, Next, CancelNext
  <2> QED  BY <2>1, DeliveryStep, NamedStep, TurnsStep
<1>3. Delivery /\ Turns => BoundedBypass
  <2> SUFFICES ASSUME Delivery, Turns, NEW g \in Groups, bypassed[g] > 0
               PROVE  bypassed[g] < Len(group_names)
    BY DEF BoundedBypass
  <2>1. PICK k \in 0..(Len(group_names) - 1) : bypassed[g] + k <= Len(group_names) - 1
    BY DEF Turns
  <2>2. bypassed[g] \in Nat /\ Len(group_names) \in Nat
    BY DEF Turns, Delivery, TypeOK
  <2> QED  BY <2>1, <2>2
<1> QED  BY <1>1, <1>2, <1>3, PTL DEF RRSpec

-------------------------------------------------------------------------------
(* Order of arrival, where only FIFO and ROUND_ROBIN are used.             *)

\* The tasks of s are in the order in which a has them.
Follows(s, a) ==
    \A i, j \in DOMAIN s, k, l \in DOMAIN a :
        i < j /\ a[k] = s[i] /\ a[l] = s[j] => k < l

\* What makes ArrivalOrder inductive: no task can arrive a second time.
Lined ==
    /\ mode \in {"FIFO", "ROUND_ROBIN"}
    /\ Range(arrived) \cap fresh = {}
    /\ \A th \in Threads : op[th] = "enq_insert" => arg[th] \notin Range(arrived)
    /\ \A g \in Groups : Follows(queues["fifo"][g], arrived)

\* A task that arrives last and is queued last follows the others, ...
LEMMA FollowsArrival ==
    ASSUME NEW s \in Seq(Tasks), NEW a \in Seq(Tasks), Follows(s, a),
           NEW t \in Tasks, t \notin Range(a), t \notin Range(s)
    PROVE  /\ Follows(s, Append(a, t))
           /\ Follows(Inserted(s, Len(s) + 1, t), Append(a, t))
<1>1. PICK b \in Seq(Tasks) : b = Append(a, t)
  <2>1. Append(a, t) \in Seq(Tasks)
    OBVIOUS
  <2> QED  BY <2>1, Zenon
<1>2. PICK m \in Nat : m = Len(a) /\ DOMAIN a = 1..m
  OBVIOUS
<1>3. DOMAIN b = 1..(m + 1) /\ b[m + 1] = t /\ \A k \in 1..m : b[k] = a[k]
  BY <1>1, <1>2
<1>4. PICK n \in Nat : n = Len(s) /\ DOMAIN s = 1..n
  OBVIOUS
<1>5. n + 1 \in 1..(Len(s) + 1)
  BY <1>4
<1>6. PICK r \in Seq(Tasks) :
         /\ r = Inserted(s, n + 1, t)
         /\ DOMAIN r = 1..(n + 1)
         /\ \A j \in 1..n : r[j] = s[j]
         /\ r[n + 1] = t
  <2>1. PICK e \in 1..(Len(s) + 1) : e = n + 1
    BY <1>5
  <2> DEFINE q == Inserted(s, e, t)
  <2>2. /\ q \in Seq(Tasks)
        /\ Len(q) = Len(s) + 1
        /\ \A j \in 1..(Len(s) + 1) :
              q[j] = IF j < e THEN s[j] ELSE IF j = e THEN t ELSE s[j - 1]
    BY InsertedType
  <2>3. q = Inserted(s, n + 1, t)
    BY <2>1, Zenon
  <2> HIDE DEF q
  <2>4. DOMAIN q = 1..(n + 1)
    BY <1>4, <2>2
  <2>5. (\A j \in 1..n : q[j] = s[j]) /\ q[n + 1] = t
    BY <1>4, <2>1, <2>2
  <2> QED  BY <2>2, <2>3, <2>4, <2>5, Zenon
<1>7. \A i \in 1..n : s[i] # t
  BY <1>4 DEF Range
<1>8. \A k \in 1..m : a[k] # t
  BY <1>2 DEF Range
<1>9. ASSUME NEW i \in 1..n, NEW j \in 1..n, i < j,
             NEW k \in 1..(m + 1), NEW l \in 1..(m + 1), b[k] = s[i], b[l] = s[j]
      PROVE  k < l
  <2>1. k \in 1..m /\ l \in 1..m
    BY <1>3, <1>7, <1>9
  <2>2. a[k] = s[i] /\ a[l] = s[j]
    BY <1>3, <1>9, <2>1
  <2> QED  BY <1>2, <1>4, <1>9, <2>1, <2>2, ZenonT(30) DEF Follows
<1>10. Follows(s, b)
  BY <1>3, <1>4, <1>9, ZenonT(30) DEF Follows
<1>11. Follows(r, b)
  <2> SUFFICES ASSUME NEW i \in 1..(n + 1), NEW j \in 1..(n + 1), i < j,
                      NEW k \in 1..(m + 1), NEW l \in 1..(m + 1),
                      b[k] = r[i], b[l] = r[j]
               PROVE  k < l
    BY <1>3, <1>6 DEF Follows
  <2>1. i \in 1..n /\ r[i] = s[i]
    BY <1>6
  <2>2. CASE j \in 1..n
    BY <1>6, <1>9, <2>1, <2>2
  <2>3. CASE j = n + 1
    <3>1. b[l] = t /\ b[k] # t
      BY <1>6, <1>7, <2>1, <2>3, Zenon
    <3>2. l = m + 1 /\ k # m + 1
      BY <1>3, <1>8, <3>1
    <3> QED  BY <3>2
  <2> QED  BY <2>2, <2>3
<1> QED  BY <1>1, <1>4, <1>6, <1>10, <1>11

\* ... the rest of a container keeps its order when its head is taken, ...
LEMMA FollowsPop ==
    ASSUME NEW s \in Seq(Tasks), s # <<>>, NEW a \in Seq(Tasks), Follows(s, a)
    PROVE  Follows(Popped(s), a)
<1>1. PICK n \in Nat \ {0} : n = Len(s) /\ DOMAIN s = 1..n
  OBVIOUS
<1>2. PICK r \in Seq(Tasks) : /\ r = Tail(s) /\ DOMAIN r = 1..(n - 1)
                              /\ \A j \in 1..(n - 1) : r[j] = s[j + 1]
  <2>1. /\ Tail(s) \in Seq(Tasks) /\ DOMAIN Tail(s) = 1..(n - 1)
        /\ \A j \in 1..(n - 1) : Tail(s)[j] = s[j + 1]
    BY <1>1
  <2> QED  BY <2>1, Zenon
<1>3. SUFFICES ASSUME NEW i \in 1..(n - 1), NEW j \in 1..(n - 1), i < j,
                      NEW k \in DOMAIN a, NEW l \in DOMAIN a, a[k] = r[i], a[l] = r[j]
               PROVE  k < l
  BY <1>2, Zenon DEF Follows, Popped
<1>4. i + 1 \in DOMAIN s /\ j + 1 \in DOMAIN s /\ i + 1 < j + 1
  BY <1>1, <1>3
<1>5. a[k] = s[i + 1] /\ a[l] = s[j + 1]
  BY <1>2, <1>3
<1> QED  BY <1>4, <1>5, Zenon DEF Follows

\* ... and setMode refills a list in the order in which it drained it.
LEMMA FollowsRefill ==
    ASSUME NEW s \in Seq(Tasks), NEW a \in Seq(Tasks), Follows(s, a),
           NEW m \in {"FIFO", "ROUND_ROBIN"}, NEW r \in Refills(m, s)
    PROVE  Follows(r, a)
<1>1. PICK p \in [DOMAIN s -> DOMAIN s] :
         /\ r = [i \in DOMAIN s |-> s[p[i]]]
         /\ \A i, j \in DOMAIN s : i < j => InFront(m, s, p[i], p[j])
  BY Zenon DEF Refills, Bijection, Injection, Surjection
<1>2. SUFFICES ASSUME NEW i \in DOMAIN s, NEW j \in DOMAIN s, i < j,
                      NEW k \in DOMAIN a, NEW l \in DOMAIN a, a[k] = r[i], a[l] = r[j]
               PROVE  k < l
  <2>1. DOMAIN r = DOMAIN s
    BY <1>1
  <2> QED  BY <2>1, Zenon DEF Follows
<1>3. p[i] \in DOMAIN s /\ p[j] \in DOMAIN s /\ r[i] = s[p[i]] /\ r[j] = s[p[j]]
  BY <1>1
<1>4. p[i] < p[j]
  BY <1>1, <1>2, Zenon DEF InFront
<1> QED  BY <1>2, <1>3, <1>4, Zenon DEF Follows

\* Every step keeps each list in order of arrival.
LEMMA LinedStep ==
    ASSUME Modes \subseteq {"FIFO", "ROUND_ROBIN"}, Delivery, Lined, [Next]_vars
    PROVE  Lined'
<1>1. /\ TypeOK /\ arrived \in Seq(Tasks) /\ "fifo" \in Containers
      /\ queues \in [Containers -> [Groups -> Seq(Tasks)]]
      /\ Container[mode] = "fifo" /\ Active = queues["fifo"]
  BY Zenon DEF Delivery, TypeOK, Lined, Container, AllModes, Containers, Active
<1>2. \A g \in Groups : Range(queues["fifo"][g]) \subseteq Queued
  BY <1>1 DEF Queued, Contents, Range
<1>3. ASSUME mode' = mode, queues' = queues, arrived' = arrived, fresh' \subseteq fresh,
             \A th \in Threads : op'[th] = "enq_insert" =>
                 op[th] = "enq_insert" /\ arg'[th] = arg[th]
      PROVE  Lined'
  BY <1>3, Zenon DEF Lined
<1>4. ASSUME NEW th \in Threads, NEW t \in Tasks, NEW g \in Groups,
             EnqueueRegister(th, t, g)
      PROVE  Lined'
  <2>1. /\ mode' = mode /\ queues' = queues /\ arrived' = arrived
        /\ fresh' = fresh \ {t} /\ t \in fresh
        /\ op' = [op EXCEPT ![th] = "enq_insert"] /\ arg' = [arg EXCEPT ![th] = t]
    BY <1>4, Zenon DEF EnqueueRegister, queueVars
  <2>2. \A u \in Threads : op'[u] = "enq_insert" => arg'[u] \notin Range(arrived)
    BY <1>1, <2>1 DEF TypeOK, Lined
  <2> QED  BY <2>1, <2>2 DEF Lined
<1>5. ASSUME NEW th \in Threads, EnqueueInsert(th) PROVE Lined'
  <2>1. PICK t \in Tasks, g \in Groups : t = arg[th] /\ g = grp[th]
    BY <1>1, <1>5 DEF EnqueueInsert, TypeOK
  <2>2. PICK s \in Seq(Tasks) : s = queues["fifo"][g]
    BY <1>1
  <2>3. /\ op[th] = "enq_insert" /\ mode' = mode /\ fresh' = fresh
        /\ arrived' = Append(arrived, t)
        /\ op' = [op EXCEPT ![th] = "enq_count"]
        /\ arg' = [arg EXCEPT ![th] = NoTask]
    BY <1>5, <2>1, Zenon DEF EnqueueInsert
  <2>4. queues' = [queues EXCEPT !["fifo"][g] = Inserted(s, Len(s) + 1, t)]
    <3>1. PICK i : /\ Slot(mode, s, t, i)
                   /\ queues' = [queues EXCEPT !["fifo"][g] = Inserted(s, i, t)]
      BY <1>1, <1>5, <2>1, <2>2, Zenon DEF EnqueueInsert
    <3>2. i = Len(s) + 1
      BY <3>1 DEF Slot, Lined
    <3> QED  BY <3>1, <3>2, Zenon
  <2>5. /\ t \notin Range(arrived) /\ t \notin Queued /\ t \notin fresh
        /\ \A u \in Threads \ {th} : op[u] = "enq_insert" => arg[u] # t
    BY <2>1, <2>3, Zenon DEF Lined, Delivery, PendingApart
  <2>6. Range(arrived') = Range(arrived) \cup {t}
    BY <1>1, <2>3, AppendRange
  <2>7. ASSUME NEW h \in Groups PROVE Follows(queues'["fifo"][h], arrived')
    <3>1. PICK r \in Seq(Tasks) : r = queues["fifo"][h]
      BY <1>1
    <3>2. Follows(r, arrived) /\ t \notin Range(r)
      BY <1>2, <2>5, <3>1 DEF Lined
    <3>3. /\ Follows(r, Append(arrived, t))
          /\ Follows(Inserted(r, Len(r) + 1, t), Append(arrived, t))
      <4>1. PICK a \in Seq(Tasks) : a = arrived
        BY <1>1
      <4>2. Follows(r, a) /\ t \notin Range(r) /\ t \notin Range(a)
        BY <2>5, <3>2, <4>1
      <4>3. /\ Follows(r, Append(a, t))
            /\ Follows(Inserted(r, Len(r) + 1, t), Append(a, t))
        BY <4>2, FollowsArrival
      <4> QED  BY <4>1, <4>3, Zenon
    <3> DEFINE n == Inserted(s, Len(s) + 1, t)
    <3>4. h = g => queues'["fifo"][h] = n /\ r = s
      <4> HIDE DEF n
      <4> QED  BY <1>1, <2>2, <2>4, <3>1 DEF n
    <3>5. h # g => queues'["fifo"][h] = r
      BY <1>1, <2>4, <3>1, Zenon
    <3> QED  BY <2>3, <3>3, <3>4, <3>5, Zenon
  <2>8. \A u \in Threads : op'[u] = "enq_insert" => arg'[u] \notin Range(arrived')
    <3>1. \A u \in Threads : op'[u] = "enq_insert" =>
             u # th /\ op[u] = "enq_insert" /\ arg'[u] = arg[u]
      BY <1>1, <2>3 DEF TypeOK
    <3> QED  BY <2>5, <2>6, <3>1, ZenonT(30) DEF Lined
  <2>9. Range(arrived') \cap fresh' = {}
    BY <2>3, <2>5, <2>6 DEF Lined
  <2> QED  BY <2>3, <2>7, <2>8, <2>9, ZenonT(30) DEF Lined
<1>6. ASSUME NEW th \in Threads, DequeueTake(th) PROVE Lined'
  <2>1. PICK g \in Groups :
           /\ queues["fifo"][g] # <<>>
           /\ queues' = [queues EXCEPT !["fifo"][g] = Popped(queues["fifo"][g])]
    BY <1>1, <1>6 DEF DequeueTake, Selected, Active
  <2>2. /\ mode' = mode /\ arrived' = arrived /\ fresh' = fresh
        /\ op[th] = "idle" /\ op' = [op EXCEPT ![th] = "deq_count"]
        /\ \E x : arg' = [arg EXCEPT ![th] = x]
    BY <1>6, Zenon DEF DequeueTake
  <2>3. ASSUME NEW h \in Groups PROVE Follows(queues'["fifo"][h], arrived)
    <3>1. queues["fifo"][h] \in Seq(Tasks) /\ Follows(queues["fifo"][h], arrived)
      BY <1>1 DEF Lined
    <3>2. h = g => Follows(Popped(queues["fifo"][h]), arrived)
      BY <1>1, <2>1, <3>1, FollowsPop
    <3>3. h = g => queues'["fifo"][h] = Popped(queues["fifo"][h])
      BY <1>1, <2>1
    <3>4. h # g => queues'["fifo"][h] = queues["fifo"][h]
      BY <1>1, <2>1
    <3> QED  BY <3>1, <3>2, <3>3, <3>4, ZenonT(30)
  <2>4. \A u \in Threads : op'[u] = "enq_insert" =>
           op[u] = "enq_insert" /\ arg'[u] = arg[u]
    BY <1>1, <2>2 DEF TypeOK
  <2> QED  BY <2>2, <2>3, <2>4, ZenonT(30) DEF Lined
<1>7. ASSUME NEW th \in Threads, Clear(th) PROVE Lined'
  <2>1. /\ mode' = mode /\ arrived' = arrived /\ fresh' = fresh
        /\ op' = op /\ arg' = arg
        /\ queues' = [c \in Containers |-> [g \in Groups |-> <<>>]]
    BY <1>7, Zenon DEF Clear
  <2>2. \A g \in Groups : queues'["fifo"][g] = <<>>
    BY <1>1, <2>1
  <2>3. Follows(<<>>, arrived)
    BY DEF Follows
  <2> QED  BY <2>1, <2>2, <2>3, Zenon DEF Lined
<1>8. ASSUME NEW th \in Threads, NEW m \in Modes, SetMode(th, m) PROVE Lined'
  <2>1. PICK filled : /\ \A g \in Groups : filled[g] \in Refills(m, Active[g])
                      /\ queues' = Refilled(m, filled)
    BY <1>8, Zenon DEF SetMode
  <2>2. /\ mode' = m /\ m \in {"FIFO", "ROUND_ROBIN"} /\ arrived' = arrived
        /\ fresh' = fresh /\ op' = op /\ arg' = arg
    BY <1>8, ZenonT(30) DEF SetMode
  <2>3. Container[m] = "fifo"
    BY <2>2 DEF Container, AllModes
  <2>4. \A g \in Groups : queues'["fifo"][g] = filled[g]
    BY <1>1, <2>1, <2>3 DEF Refilled
  <2>5. ASSUME NEW g \in Groups PROVE Follows(filled[g], arrived)
    <3>1. queues["fifo"][g] \in Seq(Tasks) /\ Follows(queues["fifo"][g], arrived)
          /\ filled[g] \in Refills(m, queues["fifo"][g])
      BY <1>1, <2>1, ZenonT(30) DEF Lined
    <3> QED  BY <1>1, <2>2, <3>1, FollowsRefill, Zenon
  <2> QED  BY <2>2, <2>4, <2>5, Zenon DEF Lined
<1>9. ASSUME NEW th \in Threads,
             \/ EnqueueCount(th) \/ EnqueueTotal(th)
             \/ DequeueNone(th) \/ DequeueCount(th) \/ DequeueTotal(th)
             \/ Peek(th)
      PROVE  Lined'
  <2>1. /\ mode' = mode /\ queues' = queues /\ arrived' = arrived /\ fresh' = fresh
        /\ \A u \in Threads : op'[u] = "enq_insert" =>
              op[u] = "enq_insert" /\ arg'[u] = arg[u]
    BY <1>1, <1>9, Zenon DEF EnqueueCount, EnqueueTotal, DequeueNone, DequeueCount,
                      DequeueTotal, Peek, queueVars, history, TypeOK
  <2> QED  BY <1>3, <2>1
<1>10. ASSUME NEW th \in Threads, Cancel(th) PROVE Lined'
  <2>1. /\ mode' = mode /\ queues' = queues /\ arrived' = arrived /\ fresh' = fresh
        /\ \A u \in Threads : op'[u] = "enq_insert" =>
              op[u] = "enq_insert" /\ arg'[u] = arg[u]
    BY <1>1, <1>10, Zenon DEF Cancel, CancelBegin, CancelLoad, CancelStore, CancelErase,
                       CancelTotal, queueVars, history, TypeOK
  <2> QED  BY <1>3, <2>1
<1>11. ASSUME UNCHANGED vars PROVE Lined'
  BY <1>3, <1>11, Zenon DEF vars, queueVars, history
<1> QED
  BY <1>4, <1>5, <1>6, <1>7, <1>8, <1>9, <1>10, <1>11, ZenonT(30)
     DEF Next, CancelNext, CoreNext, Enqueue, Dequeue

\* Where setMode is called with FIFO and ROUND_ROBIN only, each group is served in
\* order of arrival: for any number of threads, with cancelTask and clear.
THEOREM ServedInOrder ==
    ASSUME Modes \subseteq {"FIFO", "ROUND_ROBIN"}
    PROVE  Spec => []ArrivalOrder
<1>1. Init => Lined
  <2> SUFFICES ASSUME Init PROVE Lined
    OBVIOUS
  <2>1. Range(<<>>) = {} /\ Follows(<<>>, <<>>)
    BY DEF Range, Follows
  <2>2. \A g \in Groups : queues["fifo"][g] = <<>>
    BY DEF Init, Containers
  <2>3. mode = "FIFO" /\ arrived = <<>> /\ \A th \in Threads : op[th] = "idle"
    BY DEF Init
  <2> QED  BY <2>1, <2>2, <2>3 DEF Lined
<1>2. Lined => ArrivalOrder
  <2> SUFFICES ASSUME Lined PROVE ArrivalOrder
    OBVIOUS
  <2>1. Active = queues["fifo"]
    BY DEF Active, Container, AllModes, Lined
  <2> QED  BY <2>1, ZenonT(30) DEF Lined, Follows, ArrivalOrder
<1> QED
  BY <1>1, <1>2, DeliveryInit, DeliveryStep, LinedStep, PTL DEF Spec

===============================================================================
