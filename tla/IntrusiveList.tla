----------------------------- MODULE IntrusiveList -----------------------------
(***************************************************************************)
(* IntrusiveList of utils/DataStructures, on which LockFreeQueue rests.    *)
(* A step is one access to an atomic.  QueueManager calls the list with    *)
(* queue_mutex_ held (Locked); the class itself takes no lock.             *)
(***************************************************************************)
EXTENDS Integers, Sequences, FiniteSets

CONSTANTS
    Threads,   \* the callers
    Nodes,     \* the nodes; a node that has been taken may be used again
    Null,      \* nullptr
    Locked     \* TRUE when the callers hold a mutex during each operation

VARIABLES
    head, tail, next, size,   \* the list: its atomics and those of the nodes
    free,                     \* nodes outside the list
    pc, node, near,           \* where a thread is and its local variables
    got                       \* what the last popFront of a thread returned

list   == <<head, tail, next, size>>
locals == <<pc, node, near>>
vars   == <<list, free, locals, got>>

Go(th, l) == pc' = [pc EXCEPT ![th] = l]

\* The mutex, if there is one: an operation begins when no other is under way.
BeginsAnytime(th) == pc[th] = "idle"
Begins(th) == pc[th] = "idle" /\ (Locked => \A u \in Threads : pc[u] = "idle")

-------------------------------------------------------------------------------
(* pushBack: exchange the tail, then link the node.                        *)

PushBack(th, n) ==
    /\ Begins(th)
    /\ n \in free
    /\ free' = free \ {n}
    /\ next' = [next EXCEPT ![n] = Null]
    /\ node' = [node EXCEPT ![th] = n]
    /\ Go(th, "back_exchange")
    /\ UNCHANGED <<head, tail, size, near, got>>

BackExchange(th) ==
    /\ pc[th] = "back_exchange"
    /\ near' = [near EXCEPT ![th] = tail]
    /\ tail' = node[th]
    /\ Go(th, "back_link")
    /\ UNCHANGED <<head, next, size, free, node, got>>

BackLink(th) ==
    /\ pc[th] = "back_link"
    /\ IF near[th] # Null
       THEN next' = [next EXCEPT ![near[th]] = node[th]] /\ UNCHANGED head
       ELSE head' = node[th] /\ UNCHANGED next
    /\ Go(th, "push_size")
    /\ UNCHANGED <<tail, size, free, node, near, got>>

PushSize(th) ==
    /\ pc[th] = "push_size"
    /\ size' = size + 1
    /\ Go(th, "idle")
    /\ UNCHANGED <<head, tail, next, free, node, near, got>>

-------------------------------------------------------------------------------
(* pushFront: compare_exchange_weak may also fail for no reason, which     *)
(* changes nothing but the expected value, read anew.                      *)

PushFront(th, n) ==
    /\ Begins(th)
    /\ n \in free
    /\ free' = free \ {n}
    /\ next' = [next EXCEPT ![n] = head]
    /\ node' = [node EXCEPT ![th] = n]
    /\ Go(th, "front_cas")
    /\ UNCHANGED <<head, tail, size, near, got>>

FrontCas(th) ==
    /\ pc[th] = "front_cas"
    /\ head = next[node[th]]
    /\ head' = node[th]
    /\ Go(th, "front_tail")
    /\ UNCHANGED <<tail, next, size, free, node, near, got>>

FrontRetry(th) ==
    /\ pc[th] = "front_cas"
    /\ next' = [next EXCEPT ![node[th]] = head]
    /\ UNCHANGED <<head, tail, size, free, locals, got>>

FrontTail(th) ==
    /\ pc[th] = "front_tail"
    /\ tail' = IF next[node[th]] = Null THEN node[th] ELSE tail
    /\ Go(th, "push_size")
    /\ UNCHANGED <<head, next, size, free, node, near, got>>

-------------------------------------------------------------------------------
(* popFront.                                                               *)

Returned(th, r) == got' = [got EXCEPT ![th] = r]

PopLoad(th) ==
    /\ Begins(th)
    /\ node' = [node EXCEPT ![th] = head]
    /\ IF head = Null THEN Returned(th, Null) /\ UNCHANGED pc
                      ELSE Go(th, "pop_next") /\ UNCHANGED got
    /\ UNCHANGED <<list, free, near>>

PopNext(th) ==
    /\ pc[th] = "pop_next"
    /\ near' = [near EXCEPT ![th] = next[node[th]]]
    /\ Go(th, "pop_cas")
    /\ UNCHANGED <<list, free, node, got>>

PopCas(th) ==
    /\ pc[th] = "pop_cas"
    /\ head = node[th]
    /\ head' = near[th]
    /\ Returned(th, node[th])
    /\ Go(th, "pop_tail")
    /\ UNCHANGED <<tail, next, size, free, node, near>>

PopRetry(th) ==
    /\ pc[th] = "pop_cas"
    /\ node' = [node EXCEPT ![th] = head]
    /\ IF head = Null THEN Returned(th, Null) /\ Go(th, "idle")
                      ELSE Go(th, "pop_next") /\ UNCHANGED got
    /\ UNCHANGED <<list, free, near>>

PopTail(th) ==
    /\ pc[th] = "pop_tail"
    /\ tail' = IF near[th] = Null THEN Null ELSE tail
    /\ Go(th, "pop_size")
    /\ UNCHANGED <<head, next, size, free, node, near, got>>

\* The caller deletes the node, whose memory may become that of a new one.
PopSizeForgotten(th) ==
    /\ pc[th] = "pop_size"
    /\ free' = free \cup {node[th]}
    /\ Go(th, "idle")
    /\ UNCHANGED <<list, node, near, got>>
PopSize(th) ==
    /\ pc[th] = "pop_size"
    /\ size' = size - 1
    /\ free' = free \cup {node[th]}
    /\ Go(th, "idle")
    /\ UNCHANGED <<head, tail, next, node, near, got>>

-------------------------------------------------------------------------------
Init ==
    /\ head = Null
    /\ tail = Null
    /\ next = [n \in Nodes |-> Null]
    /\ size = 0
    /\ free = Nodes
    /\ pc   = [th \in Threads |-> "idle"]
    /\ node = [th \in Threads |-> Null]
    /\ near = [th \in Threads |-> Null]
    /\ got  = [th \in Threads |-> Null]

pushBack(th) ==
    \/ \E n \in Nodes : PushBack(th, n)
    \/ BackExchange(th) \/ BackLink(th) \/ PushSize(th)
pushFront(th) ==
    \/ \E n \in Nodes : PushFront(th, n)
    \/ FrontCas(th) \/ FrontRetry(th) \/ FrontTail(th)
popFront(th) ==
    \/ PopLoad(th) \/ PopNext(th) \/ PopCas(th) \/ PopRetry(th)
    \/ PopTail(th) \/ PopSize(th)

Next == \E th \in Threads : pushBack(th) \/ pushFront(th) \/ popFront(th)
Spec == Init /\ [][Next]_vars

\* LockFreeQueue: pushBack and popFront only.
QueueNext == \E th \in Threads : pushBack(th) \/ popFront(th)
QueueSpec == Init /\ [][QueueNext]_vars

-------------------------------------------------------------------------------
(* Properties.                                                             *)

\* The nodes from the head on; the k-th is reached by k links.
Hop[k \in 0..Cardinality(Nodes)] ==
    IF k = 0 THEN head
    ELSE IF Hop[k - 1] = Null THEN Null ELSE next[Hop[k - 1]]

Reached == {Hop[k] : k \in 0..Cardinality(Nodes)} \ {Null}
Chain == [k \in 1..Cardinality(Reached) |-> Hop[k - 1]]

AtRest == \A th \in Threads : pc[th] = "idle"

\* Between operations size_ counts the nodes, the tail is the last of them and
\* every node is either in the list or outside.
RestInv ==
    AtRest => /\ size = Len(Chain)
              /\ tail = IF Chain = <<>> THEN Null ELSE Chain[Len(Chain)]
              /\ Reached = Nodes \ free

\* The callers that hold a mutex see a deque.
Deque == INSTANCE Deque WITH items <- Chain
RefinesDeque == Deque!Spec

\* README.md, "Lock-free data structures": callers without a mutex lose no node.
NoNodeLost == AtRest => Nodes \ free \subseteq Reached

===============================================================================
