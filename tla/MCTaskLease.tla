----------------------------- MODULE MCTaskLease -----------------------------
(* Small instances of TaskLease for TLC. *)
EXTENDS TaskLeaseProps

\* Task 1 belongs to the singleton, every other task to a child.
MCSingletonFirst == [t \in Task |-> IF t = 1 THEN "a" ELSE "b"]

=============================================================================
