----------------------------- MODULE FanInProps -----------------------------
(***************************************************************************)
(* What FanIn promises.                                                    *)
(***************************************************************************)
EXTENDS FanIn

\* "A resolved group can never end up with no wake": the coordinator's mail is
\* there before the group is closed by its verdict, whatever dies in between.
NoSilentResolution == group \in Verdict => wake # "none"

\* The same of a group that is closed in quarantine (scheduler.py 705-708 makes no
\* difference): its mail, of either kind, is there or about to be inserted.
NeverWithoutWake ==
    group \in Verdict \cup {"poisoned"} => wake # "none" \/ notice \/ sched.at = "notice"

\* The wake mail tells the verdict that the group then has, unless resolution
\* was interrupted between the mail and the flip.
WakeTellsVerdict ==
    group \in Verdict /\ faults \cap {"serve", "poison"} = {} => wake = group

\* A leg that sent its result, however late and wherever the result is on its
\* way, is never downgraded to failed (and so never run again for it).
SentIsNotDowngraded ==
    [][\A r \in Run : task[r] = "unsent" /\ task'[r] = "failed" => outbox[r] = "none"]_vars

\* No crash of the dispatcher loses a result: a row marked dispatched is in
\* the coordinator's mailbox.
NoResultLost == \A r \in Run : outbox[r] = "dispatched" => r \in inbox

\* The coordinator is told that a leg failed only when its task did.
SentinelIsTrue ==
    \A l \in Leg : <<l, Sentinel>> \in inbox => task[<<l, 1>>] \in {"failed", "cancelled"}

\* What the coordinator is told is there when the group is closed, and true.
CoordinatorIsTold == NoSilentResolution /\ WakeTellsVerdict /\ NoResultLost /\ SentinelIsTrue

\* Seen from the group row, the counted legs and the wake mail, the tools, the
\* dispatcher and Phase 0.5 do what FanInBarrier promises.
Barrier == INSTANCE FanInBarrier WITH
    state <- group, counted <- Counted, told <- wake # "none"

IsBarrier == Barrier!Spec

\* A result in the outbox reaches the coordinator, whatever happens meanwhile.
ResultArrives == \A r \in Run : outbox[r] = "pending" ~> r \in inbox

\* A leg that failed without a result does not hold the group up: it is counted
\* while the group is open, without help from the deadline.
FailureIsCounted ==
    \A l \in Leg : task[<<l, 1>>] \in {"failed", "cancelled"}
                       ~> (l \in Counted \/ group # "open")

\* A group past its deadline does not stay open.
OverdueResolves == (group = "open" /\ overdue) ~> group # "open"

\* Neither a result, nor a leg without one, nor a group past its deadline goes
\* unnoticed.
GroupMovesOn == ResultArrives /\ FailureIsCounted /\ OverdueResolves

=============================================================================
