----------------------------- MODULE LockFreeStack -----------------------------
(***************************************************************************)
(* LockFreeStack of utils/DataStructures.  A step is one access to an      *)
(* atomic.  QueueManager deletes a node it has taken, so that the memory   *)
(* of the node may be that of a later one (Reuse), and holds queue_mutex_  *)
(* during each operation (Locked); the class itself takes no lock.         *)
(***************************************************************************)
EXTENDS Integers, Sequences, FiniteSets

CONSTANTS Threads, Nodes, Null, Locked, Reuse

VARIABLES
    head, next, size,    \* the stack and the links of the nodes
    free, gone,          \* nodes not pushed yet, and nodes taken and deleted
    pc, item, near,      \* where a thread is and its local variables
    got                  \* what the last pop of a thread returned

vars == <<head, next, size, free, gone, pc, item, near, got>>

Go(th, l) == pc' = [pc EXCEPT ![th] = l]
Begins(th) == pc[th] = "idle" /\ (Locked => \A u \in Threads : pc[u] = "idle")

-------------------------------------------------------------------------------
(* push; compare_exchange_weak may fail for no reason.                     *)

Push(th, n) ==
    /\ Begins(th)
    /\ n \in free
    /\ free' = free \ {n}
    /\ next' = [next EXCEPT ![n] = head]
    /\ item' = [item EXCEPT ![th] = n]
    /\ Go(th, "push_cas")
    /\ UNCHANGED <<head, size, gone, near, got>>

PushCas(th) ==
    /\ pc[th] = "push_cas"
    /\ head = next[item[th]]
    /\ head' = item[th]
    /\ Go(th, "push_size")
    /\ UNCHANGED <<next, size, free, gone, item, near, got>>

PushRetry(th) ==
    /\ pc[th] = "push_cas"
    /\ next' = [next EXCEPT ![item[th]] = head]
    /\ UNCHANGED <<head, size, free, gone, pc, item, near, got>>

PushSize(th) ==
    /\ pc[th] = "push_size"
    /\ size' = size + 1
    /\ item' = [item EXCEPT ![th] = Null]
    /\ Go(th, "idle")
    /\ UNCHANGED <<head, next, free, gone, near, got>>

-------------------------------------------------------------------------------
(* pop: the successor is read before the exchange and again after each     *)
(* failure of it.                                                          *)

PopLoad(th) ==
    /\ Begins(th)
    /\ IF head = Null
       THEN got' = [got EXCEPT ![th] = Null] /\ UNCHANGED <<pc, item>>
       ELSE item' = [item EXCEPT ![th] = head] /\ Go(th, "pop_next")
            /\ UNCHANGED got
    /\ UNCHANGED <<head, next, size, free, gone, near>>

PopNext(th) ==
    /\ pc[th] = "pop_next"
    /\ near' = [near EXCEPT ![th] = next[item[th]]]
    /\ Go(th, "pop_cas")
    /\ UNCHANGED <<head, next, size, free, gone, item, got>>

PopCasBlind(th) ==
    /\ pc[th] = "pop_cas"
    /\ head' = near[th]
    /\ got' = [got EXCEPT ![th] = item[th]]
    /\ Go(th, "pop_size")
    /\ UNCHANGED <<next, size, free, gone, item, near>>
PopCas(th) ==
    /\ pc[th] = "pop_cas"
    /\ head = item[th]
    /\ head' = near[th]
    /\ got' = [got EXCEPT ![th] = item[th]]
    /\ Go(th, "pop_size")
    /\ UNCHANGED <<next, size, free, gone, item, near>>

PopRetry(th) ==
    /\ pc[th] = "pop_cas"
    /\ IF head = Null
       THEN /\ got' = [got EXCEPT ![th] = Null]
            /\ item' = [item EXCEPT ![th] = Null]
            /\ Go(th, "idle")
       ELSE /\ item' = [item EXCEPT ![th] = head]
            /\ Go(th, "pop_next")
            /\ UNCHANGED got
    /\ near' = [near EXCEPT ![th] = Null]
    /\ UNCHANGED <<head, next, size, free, gone>>

PopSize(th) ==
    /\ pc[th] = "pop_size"
    /\ size' = size - 1
    /\ free' = IF Reuse THEN free \cup {item[th]} ELSE free
    /\ gone' = IF Reuse THEN gone ELSE gone \cup {item[th]}
    /\ item' = [item EXCEPT ![th] = Null]
    /\ near' = [near EXCEPT ![th] = Null]
    /\ Go(th, "idle")
    /\ UNCHANGED <<head, next, got>>

-------------------------------------------------------------------------------
Init ==
    /\ head = Null
    /\ next = [n \in Nodes |-> Null]
    /\ size = 0
    /\ free = Nodes
    /\ gone = {}
    /\ pc   = [th \in Threads |-> "idle"]
    /\ item = [th \in Threads |-> Null]
    /\ near = [th \in Threads |-> Null]
    /\ got  = [th \in Threads |-> Null]

push(th) ==
    \/ \E n \in Nodes : Push(th, n)
    \/ PushCas(th) \/ PushRetry(th) \/ PushSize(th)
pop(th) ==
    \/ PopLoad(th) \/ PopNext(th) \/ PopCas(th) \/ PopRetry(th) \/ PopSize(th)

Next == \E th \in Threads : push(th) \/ pop(th)
Spec == Init /\ [][Next]_vars

-------------------------------------------------------------------------------
(* Properties.                                                             *)

\* The nodes from the head on; the k-th is reached by k links.
Hop[k \in 0..Cardinality(Nodes)] ==
    IF k = 0 THEN head
    ELSE IF Hop[k - 1] = Null THEN Null ELSE next[Hop[k - 1]]
Reached == {Hop[k] : k \in 0..Cardinality(Nodes)} \ {Null}
Chain == [k \in 1..Cardinality(Reached) |-> Hop[k - 1]]

AtRest == \A th \in Threads : pc[th] = "idle"

\* Between operations every node that was pushed and not taken can be reached
\* from the head, no other one can, and size_ is their number.
StackWhole ==
    AtRest => /\ Reached = Nodes \ (free \cup gone)
              /\ size = Cardinality(Reached)

\* The callers see a stack: push and pop take effect in one step, the successful
\* exchange of the head.
Abstract == INSTANCE Deque WITH items <- Chain
RefinesDeque == Abstract!Spec

===============================================================================
