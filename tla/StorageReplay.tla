----------------------------- MODULE StorageReplay ----------------------------
(***************************************************************************)
(* persistence/Storage: what replayWAL reads from the log that the calls   *)
(* of module Storage have written.                                         *)
(***************************************************************************)
EXTENDS Storage, SequencesExt

(* replayWAL: an iterator yields keys in the order of their bytes, and the *)
(* keys are decimal numerals.  The key wal:0 holds a number, in which      *)
(* "operation" is not found: it is skipped.                                *)

Digits[n \in Nat] ==
    IF n < 10 THEN <<n>> ELSE Append(Digits[n \div 10], n % 10)

KeyBefore(m, n) ==
    LET a == Digits[m]
        b == Digits[n]
    IN  \E k \in 1..Len(b) :
          /\ \A l \in 1..(k - 1) : l <= Len(a) /\ a[l] = b[l]
          /\ k > Len(a) \/ a[k] < b[k]

replayWAL ==
    LET keys == SetToSortSeq(DOMAIN wal, KeyBefore)
    IN  [k \in 1..Len(keys) |-> wal[keys[k]]]

\* The tasks after an entry of the log has been applied to them.
Applied(ts, e) ==
    CASE e.op = "save_task"     -> [ts EXCEPT ![e.id] = e.data]
      [] e.op = "update_status" -> [ts EXCEPT ![e.id].status = e.data.status]
      [] OTHER                  -> ts
-------------------------------------------------------------------------------
\* The keys of the log, as numerals, are equally long.
EquallyLong == \A m, n \in DOMAIN wal : Len(Digits[m]) = Len(Digits[n])

\* Whenever no call holds mutex_, what replayWAL lists, applied in that order
\* to the tasks of the last truncateWAL, gives the tasks of the database: as
\* long as there was no crash, no batch and no failed write of an entry, and
\* the order of the keys is that of the numbers.
RecoveredIsStored ==
    mutex = None /\ crashes = 0 /\ upset = {} /\ EquallyLong =>
        FoldLeft(Applied, base, replayWAL) = tasks

===============================================================================
