------------------------------ MODULE Containers ------------------------------
(***************************************************************************)
(* The containers of utils/DataStructures: the list and the skip           *)
(* list under the mutex that QueueManager holds, and the stack both under  *)
(* a mutex, with nodes whose memory is used again, and without one, with   *)
(* nodes that are not.  They share nothing, so a behaviour is one of a     *)
(* single container, the variable use, and the others stay as they began.  *)
(***************************************************************************)
EXTENDS Integers, FiniteSets

CONSTANTS
    Threads, Nodes,            \* callers and nodes of the list and the stack
    Priorities, MaxLevel,      \* of the skip list
    Sentinel,                  \* the skip list's head_
    Null

VARIABLES
    use,
    lHead, lTail, lNext, lSize, lFree, lPc, lNode, lNear, lGot,
    sHead, sNext, sSize, sFree, sGone, sPc, sItem, sNear, sGot,
    pNext, pPriority, pLevel, pSize, pUsed, pGot

listVars  == <<lHead, lTail, lNext, lSize, lFree, lPc, lNode, lNear, lGot>>
stackVars == <<sHead, sNext, sSize, sFree, sGone, sPc, sItem, sNear, sGot>>
skipVars  == <<pNext, pPriority, pLevel, pSize, pUsed, pGot>>

List == INSTANCE IntrusiveList WITH
    Locked <- TRUE, head <- lHead, tail <- lTail, next <- lNext, size <- lSize,
    free <- lFree, pc <- lPc, node <- lNode, near <- lNear, got <- lGot

LockedStack == INSTANCE LockFreeStack WITH
    Locked <- TRUE, Reuse <- TRUE, head <- sHead, next <- sNext, size <- sSize,
    free <- sFree, gone <- sGone, pc <- sPc, item <- sItem, near <- sNear,
    got <- sGot

BareStack == INSTANCE LockFreeStack WITH
    Locked <- FALSE, Reuse <- FALSE, head <- sHead, next <- sNext, size <- sSize,
    free <- sFree, gone <- sGone, pc <- sPc, item <- sItem, near <- sNear,
    got <- sGot

Skip == INSTANCE SkipList WITH
    head <- Sentinel, next <- pNext, priority <- pPriority, level <- pLevel,
    size <- pSize, used <- pUsed, got <- pGot

Empty == List!Init /\ BareStack!Init /\ Skip!Init

Init == use \in {"list", "locked stack", "bare stack", "skip list"} /\ Empty

Next ==
    /\ UNCHANGED use
    /\ \/ use = "list" /\ List!Next /\ UNCHANGED <<stackVars, skipVars>>
       \/ use = "locked stack" /\ LockedStack!Next /\ UNCHANGED <<listVars, skipVars>>
       \/ use = "bare stack" /\ BareStack!Next /\ UNCHANGED <<listVars, skipVars>>
       \/ use = "skip list" /\ Skip!Next /\ UNCHANGED <<listVars, stackVars>>

vars == <<use, listVars, stackVars, skipVars>>
-------------------------------------------------------------------------------
\* Callers see a deque in IntrusiveList and LockFreeStack: pushBack, pushFront,
\* popFront, push and pop take effect in one step each.  The list's callers hold a
\* mutex; the stack's need none as long as no popped node's memory is used again.
AreDeques == List!RefinesDeque /\ BareStack!RefinesDeque

\* LockFreePriorityQueue serves by descending priority, the newest first among
\* equals.
SkipListIsSorted == Skip!RefinesPriorityList

\* Each level of the skip list is made of the nodes that are high enough, in the
\* order of level 0: what dequeue relies on when it takes a node out of its
\* levels.
LevelsAgree == Skip!LevelsAgree

\* Between operations size_ is the number of nodes, a list's tail its last node,
\* and no node that was put in and not taken is out of reach.
NoneLost == List!RestInv /\ BareStack!StackWhole /\ Skip!SizeIsLength

===============================================================================
