-------------------------------- MODULE Deque --------------------------------
(***************************************************************************)
(* What the containers of utils/DataStructures promise to several threads: *)
(* a sequence of nodes that grows at either end and shrinks at the front,  *)
(* each operation in one step.                                             *)
(***************************************************************************)
EXTENDS Sequences

CONSTANTS Threads, Nodes, Null

VARIABLES
    items,    \* the nodes in the container, the next one to be taken first
    got       \* what the last take of each thread returned

vars == <<items, got>>

Init == items = <<>> /\ got = [th \in Threads |-> Null]

PushBack(n) == items' = Append(items, n) /\ UNCHANGED got

PushFront(n) == items' = <<n>> \o items /\ UNCHANGED got

Pop(th) ==
    /\ items # <<>>
    /\ got' = [got EXCEPT ![th] = Head(items)]
    /\ items' = Tail(items)

PopNone(th) ==
    /\ items = <<>>
    /\ got' = [got EXCEPT ![th] = Null]
    /\ UNCHANGED items

Next ==
    \/ \E n \in Nodes : PushBack(n) \/ PushFront(n)
    \/ \E th \in Threads : Pop(th) \/ PopNone(th)

Spec == Init /\ [][Next]_vars

===============================================================================
