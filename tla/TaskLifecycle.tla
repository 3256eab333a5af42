--------------------------- MODULE TaskLifecycle ----------------------------
(***************************************************************************)
(* What the scheduler and its workers promise of every task, seen from the *)
(* task row and the supervisor's mail: it starts, it finishes once, and    *)
(* the first outcome worth telling is told in the same step. Only once a   *)
(* serve process was killed may a finished task be taken up again.         *)
(***************************************************************************)
CONSTANTS Task,      \* the tasks the promise is about
          Told       \* pairs <<task, outcome>> the supervisor is told of

VARIABLES status, notice, abandoned

vars == <<status, notice, abandoned>>

Outcome == {"completed", "failed", "cancelled"}

Init ==
    /\ status = [t \in Task |-> "pending"]
    /\ notice = [t \in Task |-> "none"]
    /\ abandoned = FALSE

\* Work starts; on a finished task only what a dead serve left behind does that
Start(t) ==
    /\ status[t] = "pending" \/ abandoned
    /\ status' = [status EXCEPT ![t] = "in_progress"]
    /\ UNCHANGED <<notice, abandoned>>

\* The outcome and its notice are one step; the first notice stands
Finish(t, o) ==
    /\ status[t] \notin Outcome \/ abandoned
    /\ status' = [status EXCEPT ![t] = o]
    /\ notice' = IF <<t, o>> \in Told /\ notice[t] = "none"
                 THEN [notice EXCEPT ![t] = o] ELSE notice
    /\ UNCHANGED abandoned

Abandon == abandoned' = TRUE /\ UNCHANGED <<status, notice>>

Next ==
    \/ \E t \in Task : Start(t) \/ \E o \in Outcome : Finish(t, o)
    \/ Abandon

Spec == Init /\ [][Next]_vars

=============================================================================
