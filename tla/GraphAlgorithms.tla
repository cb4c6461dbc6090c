--------------------------- MODULE GraphAlgorithms ---------------------------
(***************************************************************************)
(* The graph algorithms of utils/DataStructures: hasCycle on every         *)
(* graph of Nodes, calculateTaskLevels on every acyclic one, and           *)
(* findCriticalPath on the acyclic ones of Tasks.  A behaviour is one call *)
(* of one of them, the variable call; the others' variables are empty.     *)
(***************************************************************************)
EXTENDS CycleSearch

CONSTANTS LevelNodes, Tasks, None

VARIABLES
    call,
    lGraph, lLevels, lStack,
    pGraph, pInDegree, pQueue, pOrder, pDone, pDistance, pParent, pPath

ASSUME TasksAssumption == Tasks \subseteq Int /\ None \notin Tasks \cup Nodes

levelVars == <<lGraph, lLevels, lStack>>
pathVars  == <<pGraph, pInDegree, pQueue, pOrder, pDone, pDistance, pParent, pPath>>
allVars   == <<call, searchVars, levelVars, pathVars>>

Levels == INSTANCE TaskLevels WITH
    Nodes <- LevelNodes, graph <- lGraph, levels <- lLevels, stack <- lStack

Path == INSTANCE CriticalPath WITH
    graph <- pGraph, inDegree <- pInDegree, queue <- pQueue, order <- pOrder,
    done <- pDone, distance <- pDistance, parent <- pParent, path <- pPath

NoSearch ==
    graph = <<>> /\ states = <<>> /\ stack = <<>> /\ result = "running"
NoLevels ==
    lGraph = <<>> /\ lLevels = <<>> /\ lStack = <<>>
NoPath ==
    /\ pGraph = <<>> /\ pInDegree = <<>> /\ pQueue = <<>> /\ pOrder = <<>>
    /\ pDone = 0 /\ pDistance = <<>> /\ pParent = <<>> /\ pPath = <<>>

AlgorithmsInit ==
    \/ call = "hasCycle" /\ SearchInit /\ NoLevels /\ NoPath
    \/ call = "calculateTaskLevels" /\ NoSearch /\ Levels!Init /\ NoPath
    \/ call = "findCriticalPath" /\ NoSearch /\ NoLevels /\ Path!Init

AlgorithmsStep ==
    /\ UNCHANGED call
    /\ \/ call = "hasCycle" /\ Step /\ UNCHANGED <<levelVars, pathVars>>
       \/ call = "calculateTaskLevels" /\ Levels!Step /\ UNCHANGED <<searchVars, pathVars>>
       \/ call = "findCriticalPath" /\ Path!Step /\ UNCHANGED <<searchVars, levelVars>>

Done ==
    CASE call = "hasCycle"            -> result # "running"
      [] call = "calculateTaskLevels" -> Levels!Done
      [] call = "findCriticalPath"    -> pPath # <<>>
      [] OTHER                        -> TRUE

\* The algorithms are sequential calls, which do not stop in the middle.
AlgorithmsNext == AlgorithmsStep \/ (Done /\ UNCHANGED allVars)
-------------------------------------------------------------------------------
\* calculateTaskLevels: a level, once known, is the length of the longest chain
\* of dependencies.
LevelsRight == call = "calculateTaskLevels" => Levels!LevelsRight

\* findCriticalPath: the path is a chain of dependencies from the root to a task
\* without dependencies, with no part cut off.
PathIsWhole == call = "findCriticalPath" => Path!PathIsWhole

\* Each call returns: hasCycle on cyclic graphs too, calculateTaskLevels with a
\* level for every task, findCriticalPath with a path.
Returns == <>Done

===============================================================================
