----------------------------- MODULE MCRoundRobin -----------------------------
(***************************************************************************)
(* RoundRobin for TLC: tasks that differ in nothing but their name.        *)
(***************************************************************************)
EXTENDS RoundRobin

MCPriority == [t \in Tasks |-> 50]
MCId == [t \in Tasks |-> t]

===============================================================================
