-------------------------- MODULE SupervisionProps --------------------------
(***************************************************************************)
(* Properties of Supervision.                                              *)
(***************************************************************************)
EXTENDS Supervision

GrantedIn(period) == {k \in DOMAIN granted : granted[k].time \in period}

\* However restarts after failures and recoveries after crashes mix, and however
\* serve is killed between a count and what it allows, an agent gets no more than
\* max_restarts_total charged re-runs in its life, and in any max_seconds no more
\* than the two windows that can touch them allow (sqlite_impl.py 2591-2651).
RestartBudget ==
    /\ MaxTotal # 0 => Cardinality({k \in DOMAIN granted : granted[k].charged}) <= MaxTotal
    /\ \A t \in 0..now : Cardinality(GrantedIn(t..(t + MaxSeconds))) <= 2 * MaxRestarts

\* Restarts do not pile up: of the tasks that the reaper started at most one is in
\* flight, also when work is dispatched, fails or expires while the reaper decides
\* on what it read before (scheduler.py 986-1040).
OneRestartAtATime ==
    Cardinality({j \in DOMAIN task : task[j].of # 0 /\ task[j].status \in InFlight}) <= 1

\* Restarting is bounded, in total, in time and at once.
RestartsAreBounded == RestartBudget /\ OneRestartAtATime

\* What the supervisor was told is final: the agent of an escalation or a failure
\* notice has been reclaimed, and is not restarted any more.
ToldMeansOver ==
    [][mail # {} =>
        /\ agent # "live" /\ agent' # "live"
        /\ \A j \in DOMAIN task' \ DOMAIN task : task'[j].of = 0]_vars

\* An ephemeral agent that was given work does not stay for ever: a chain of
\* failures, crashes and restarts comes to an end, and the agent is reclaimed. What
\* keeps it is a task that was unwound, which stays in flight with no lease to expire
\* (scheduler.py 2332-2346), and nothing else.
Reclaimed ==
    (policy # "permanent" /\ task # <<>>)
        ~> (agent # "live" \/ \E i \in DOMAIN task : task[i].status = "unwound")

=============================================================================
