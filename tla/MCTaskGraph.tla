----------------------------- MODULE MCTaskGraph -----------------------------
(***************************************************************************)
(* TaskGraph for TLC: tasks are alike, and so are callers.                 *)
(***************************************************************************)
EXTENDS TaskGraph, TLC

Symmetry == Permutations(TaskIds) \cup Permutations(Clients)

===============================================================================
