---------------------------- MODULE MCQueueManager ----------------------------
(***************************************************************************)
(* Small instances of QueueManager for TLC.                                *)
(***************************************************************************)
EXTENDS QueueManager, TLC

CONSTANTS t1, t2, t3

\* Two tasks of equal priority, and one that goes first.
MCPriority == [t \in Tasks |-> IF t = t3 THEN 100 ELSE 50]

\* Every task has an id of its own.
MCId == [t \in Tasks |-> t]

\* The threads are alike, and so are the tasks of equal priority.
Symmetry == Permutations(Threads) \cup Permutations({t1, t2} \cap Tasks)

===============================================================================
