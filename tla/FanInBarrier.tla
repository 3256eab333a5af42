----------------------------- MODULE FanInBarrier ---------------------------
(***************************************************************************)
(* What a fan-in group promises its coordinator: it is resolved at most    *)
(* once, as met only when a quorum of distinct legs was counted, and never *)
(* before the mail that wakes the coordinator is there. A group whose      *)
(* resolution is broken may be put in quarantine instead.                  *)
(***************************************************************************)
EXTENDS Integers, FiniteSets

CONSTANTS Leg, Quorum

VARIABLES state, counted, overdue, told

vars == <<state, counted, overdue, told>>

Init == state = "none" /\ counted = {} /\ overdue = FALSE /\ told = FALSE

Enough == Cardinality(counted) >= Quorum

Open == state = "none" /\ state' = "open" /\ UNCHANGED <<counted, overdue, told>>

\* A result, or word of a failure, arrives; late ones are welcome too
Count(l) ==
    /\ state # "none" /\ l \notin counted
    /\ counted' = counted \cup {l}
    /\ UNCHANGED <<state, overdue, told>>

TimeOut ==
    /\ state = "open" /\ ~overdue
    /\ overdue' = TRUE
    /\ UNCHANGED <<state, counted, told>>

\* The wake mail needs a reason
Tell ==
    /\ state # "none" /\ ~told
    /\ Enough \/ overdue
    /\ told' = TRUE
    /\ UNCHANGED <<state, counted, overdue>>

Resolve ==
    /\ state = "open"
    /\ \/ told /\ Enough /\ state' = "quorum_met"
       \/ told /\ overdue /\ state' = "expired"
       \/ state' \in {"cancelled", "poisoned"}
    /\ UNCHANGED <<counted, overdue, told>>

Next == Open \/ TimeOut \/ Tell \/ Resolve \/ \E l \in Leg : Count(l)

Spec == Init /\ [][Next]_vars

=============================================================================
