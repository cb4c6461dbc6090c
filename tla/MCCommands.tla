------------------------------ MODULE MCCommands ------------------------------
(***************************************************************************)
(* The commands and what they rest on, for TLC: a Task, the mutexes, and   *)
(* the commands themselves.  A behaviour is one of a single module, the    *)
(* variable part, and the variables of the others stay as they began.      *)
(***************************************************************************)
EXTENDS Task, Locks, Commands, TLC

VARIABLE part

partVars == <<part, lifeVars, lockVars, vars>>

PartsInit ==
    /\ part \in {"task", "locks", "commands"}
    /\ LifeInit /\ LockInit /\ Init
    /\ part # "task" => max_retries = CHOOSE n \in Limits : TRUE
    /\ part # "locks" => policy = CHOOSE p \in Policies : TRUE
    /\ part # "commands" => Len(storage) = 1

PartsNext ==
    /\ UNCHANGED part
    /\ \/ part = "task" /\ LifeNext /\ UNCHANGED <<lockVars, vars>>
       \/ part = "locks" /\ LockNext /\ UNCHANGED <<lifeVars, vars>>
       \/ part = "commands" /\ Next /\ UNCHANGED <<lifeVars, lockVars>>

PartsSpec == PartsInit /\ [][PartsNext]_partVars

Symmetry == Permutations(Threads)
===============================================================================
