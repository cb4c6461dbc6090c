----------------------------- MODULE PriorityList -----------------------------
(***************************************************************************)
(* What LockFreePriorityQueue promises: entries in descending order of     *)
(* priority, the newest first among equals, taken from the front.          *)
(***************************************************************************)
EXTENDS Integers, SequencesExt

CONSTANTS Nodes, Priorities, Null

VARIABLES
    items,    \* pairs of a node and its priority
    got       \* the node that the last dequeue returned

vars == <<items, got>>

Init == items = <<>> /\ got = Null

Enqueue(n, p) ==
    /\ \E i \in 1..(Len(items) + 1) :
          /\ \A j \in 1..(i - 1) : items[j][2] > p
          /\ i <= Len(items) => items[i][2] <= p
          /\ items' = InsertAt(items, i, <<n, p>>)
    /\ UNCHANGED got

Dequeue ==
    /\ items # <<>>
    /\ got' = items[1][1]
    /\ items' = Tail(items)

DequeueNone == items = <<>> /\ got' = Null /\ UNCHANGED items

Clear == items' = <<>> /\ UNCHANGED got

Next ==
    \/ \E n \in Nodes, p \in Priorities : Enqueue(n, p)
    \/ Dequeue
    \/ DequeueNone
    \/ Clear

Spec == Init /\ [][Next]_vars

===============================================================================
