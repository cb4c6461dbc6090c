--------------------------------- MODULE Task ---------------------------------
(***************************************************************************)
(* The life of one Task object (core/Task).  Its methods are called        *)
(* without a lock in common: by the workers of the thread pool, by the     *)
(* commands run, kill and cancel, and by the commands that edit a task.    *)
(* A step is one access to the atomic status_, or a plain access to        *)
(* retry_count_.  Any thread may call any method at any time.              *)
(***************************************************************************)
EXTENDS Integers, FiniteSets

CONSTANTS
    Callers,     \* the callers
    Limits       \* the values setMaxRetries is called with

VARIABLES
    status,         \* Task::status_
    retry_count,    \* Task::retry_count_
    max_retries,    \* Task::max_retries_
    pc,             \* where each thread is
    copy,           \* the status that a thread's toJson has read
    completions     \* successful calls of markCompleted

lifeVars == <<status, retry_count, max_retries, pc, copy, completions>>

TaskStatus == {"CREATED", "QUEUED", "RUNNING", "COMPLETED", "FAILED",
               "CANCELLED"}
TerminalStatus == {"COMPLETED", "FAILED", "CANCELLED"}

ASSUME LimitsAssumption == Limits \subseteq Nat /\ Limits # {}

\* The threads that are past markFailed's exchange.
Failing == {"fail_check", "fail_inc", "fail_store"}
Labels == {"idle", "cancel_store", "from_json"} \cup Failing

InRetry == {th \in Callers : pc[th] \in Failing}
-------------------------------------------------------------------------------
(* compare_exchange_strong: nothing happens unless the status is expected. *)

MarkQueuedAnyway(th) ==
    /\ pc[th] = "idle"
    /\ status' = "QUEUED"
    /\ UNCHANGED <<retry_count, max_retries, pc, copy, completions>>
MarkQueued(th) ==
    /\ pc[th] = "idle"
    /\ status = "CREATED"
    /\ status' = "QUEUED"
    /\ UNCHANGED <<retry_count, max_retries, pc, copy, completions>>

MarkStarted(th) ==
    /\ pc[th] = "idle"
    /\ status = "QUEUED"
    /\ status' = "RUNNING"
    /\ UNCHANGED <<retry_count, max_retries, pc, copy, completions>>

MarkCompleted(th) ==
    /\ pc[th] = "idle"
    /\ status = "RUNNING"
    /\ status' = "COMPLETED"
    /\ completions' = completions + 1
    /\ UNCHANGED <<retry_count, max_retries, pc, copy>>

-------------------------------------------------------------------------------
(* markFailed: one exchange, then retry_count_ and the status once more.   *)

MarkFailedUnchecked(th) ==
    /\ pc[th] = "idle"
    /\ status \in {"RUNNING", "FAILED"}
    /\ status' = "FAILED"
    /\ pc' = [pc EXCEPT ![th] = "fail_check"]
    /\ UNCHANGED <<retry_count, max_retries, copy, completions>>
MarkFailed(th) ==
    /\ pc[th] = "idle"
    /\ status = "RUNNING"
    /\ status' = "FAILED"
    /\ pc' = [pc EXCEPT ![th] = "fail_check"]
    /\ UNCHANGED <<retry_count, max_retries, copy, completions>>

canRetryInclusive == retry_count <= max_retries
canRetry == retry_count < max_retries

FailCheck(th) ==
    /\ pc[th] = "fail_check"
    /\ pc' = [pc EXCEPT ![th] = IF canRetry THEN "fail_inc" ELSE "idle"]
    /\ UNCHANGED <<status, retry_count, max_retries, copy, completions>>

FailCount(th) ==
    /\ pc[th] = "fail_inc"
    /\ retry_count' = retry_count + 1
    /\ pc' = [pc EXCEPT ![th] = "fail_store"]
    /\ UNCHANGED <<status, max_retries, copy, completions>>

FailStore(th) ==
    /\ pc[th] = "fail_store"
    /\ status' = "CREATED"
    /\ pc' = [pc EXCEPT ![th] = "idle"]
    /\ UNCHANGED <<retry_count, max_retries, copy, completions>>

-------------------------------------------------------------------------------
(* cancel reads the status and stores CANCELLED in a second access.        *)

CancelLoad(th) ==
    /\ pc[th] = "idle"
    /\ status \notin TerminalStatus
    /\ pc' = [pc EXCEPT ![th] = "cancel_store"]
    /\ UNCHANGED <<status, retry_count, max_retries, copy, completions>>

CancelStore(th) ==
    /\ pc[th] = "cancel_store"
    /\ status' = "CANCELLED"
    /\ pc' = [pc EXCEPT ![th] = "idle"]
    /\ UNCHANGED <<retry_count, max_retries, copy, completions>>

SetMaxRetries(th, n) ==
    /\ pc[th] = "idle"
    /\ max_retries' = n
    /\ UNCHANGED <<status, retry_count, pc, copy, completions>>

-------------------------------------------------------------------------------
(* setSchedule writes the task to JSON and reads the JSON back into it.    *)

ToJson(th) ==
    /\ pc[th] = "idle"
    /\ copy' = [copy EXCEPT ![th] = <<status, retry_count, max_retries>>]
    /\ pc' = [pc EXCEPT ![th] = "from_json"]
    /\ UNCHANGED <<status, retry_count, max_retries, completions>>

FromJson(th) ==
    /\ pc[th] = "from_json"
    /\ status' = copy[th][1]
    /\ retry_count' = copy[th][2]
    /\ max_retries' = copy[th][3]
    /\ copy' = [copy EXCEPT ![th] = <<>>]
    /\ pc' = [pc EXCEPT ![th] = "idle"]
    /\ UNCHANGED completions

-------------------------------------------------------------------------------
LifeInit ==
    /\ status = "CREATED"
    /\ retry_count = 0
    /\ max_retries \in Limits
    /\ pc = [th \in Callers |-> "idle"]
    /\ copy = [th \in Callers |-> <<>>]
    /\ completions = 0

Fail(th) == MarkFailed(th) \/ FailCheck(th) \/ FailCount(th) \/ FailStore(th)
Cancel(th) == CancelLoad(th) \/ CancelStore(th)
Edit(th) == ToJson(th) \/ FromJson(th)

\* Everything but setSchedule, and everything.
LifeNext ==
    \E th \in Callers :
        \/ MarkQueued(th)
        \/ MarkStarted(th)
        \/ MarkCompleted(th)
        \/ Fail(th)
        \/ Cancel(th)
        \/ \E n \in Limits : SetMaxRetries(th, n)
TaskNext == LifeNext \/ \E th \in Callers : Edit(th)

LifeSpec == LifeInit /\ [][LifeNext]_lifeVars
TaskSpec     == LifeInit /\ [][TaskNext]_lifeVars
-------------------------------------------------------------------------------
(* Properties.                                                             *)

\* Types; retry_count_ never passes the greatest limit that was ever set,
\* although the check and the increment are apart.
LifeTypeOK ==
    /\ status \in TaskStatus
    /\ retry_count \in Nat
    /\ \E n \in Limits : retry_count <= n
    /\ max_retries \in Limits
    /\ pc \in [Callers -> Labels \ {"from_json"}]
    /\ completions \in Nat

\* At most one thread is in the part of markFailed that works on retry_count_,
\* which is no atomic: the exchange on the status protects it, even from a task
\* that is cancelled or started again meanwhile.
RetryExclusive == \A a, b \in InRetry : a = b

\* A task is completed at most once, whatever retries and cancellations race.
CompletedOnce == completions <= 1

\* README.md, "Comprehensive thread safety": a task that has completed is not
\* reported as something else later.
CompletedIsFinal == completions > 0 => status = "COMPLETED"

===============================================================================
