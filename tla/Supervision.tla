---------------------------- MODULE Supervision ----------------------------
(***************************************************************************)
(* One ephemeral agent under the reaper (Phase 0.8) and under the limit on *)
(* lease recovery (Phase 2): its tasks, its restart intensity, its         *)
(* archival and what its supervisor is told. The claim and the fencing of  *)
(* a task are TaskLease; here a task whose worker died or stalled has an   *)
(* expired lease, and one whose worker was unwound has none.               *)
(*                                                                         *)
(* An operator M<Name> marked "slip" is <Name> with a likely mistake in    *)
(* it. Nothing uses it: it documents what the properties guard against.    *)
(***************************************************************************)
EXTENDS Integers, Sequences, FiniteSets

CONSTANTS
    Policy,         \* restart policies in question
    MaxRestarts,    \* max_restarts
    MaxSeconds,     \* max_seconds
    MaxTotal,       \* max_restarts_total, 0 for off
    MaxDispatch,    \* bound on the tasks that the supervisor dispatches
    MaxCancels,     \* bound on the cancel requests
    MaxTask,        \* bound on the indices that fairness speaks of
    MaxTime,        \* bound on the clock
    MaxCrashes      \* bound on the crashes of serve

ASSUME SupervisionAssumption ==
    /\ Policy \subseteq {"permanent", "transient", "temporary"}
    /\ MaxRestarts \in Nat /\ MaxSeconds \in Nat /\ MaxTotal \in Nat
    /\ MaxDispatch \in Nat /\ MaxCancels \in Nat /\ MaxTask \in Nat
    /\ MaxTime \in Nat /\ MaxCrashes \in Nat

VARIABLES
    policy,     \* metadata.supervision.restart, fixed
    now,        \* the clock
    agent,      \* live, or the archive_reason
    task,       \* the agent's tasks in the order of their creation: status,
                \* cancel_requested, the task that it restarts
    intensity,  \* supervision_state: restart_count, total, window_start_at
    mail,       \* what _insert_supervision_mail told the supervisor
    asking,     \* dispatch_task has found the agent live
    sched,      \* the scheduler: where it is, the clock that its phase took,
                \* the task and the outcome it read
    crashes,    \* of serve, bounded
    granted     \* history: the re-runs that were granted

vars == <<policy, now, agent, task, intensity, mail, asking, sched, crashes, granted>>

InFlight == {"pending", "running", "expired", "unwound"}
Over     == {"completed", "failed", "cancelled"}
Resting  == [at |-> "idle", now |-> 0, task |-> 0, outcome |-> "completed"]
NoWindow == [count |-> 0, total |-> 0, start |-> -1]

TypeOK ==
    /\ policy \in Policy /\ now \in 0..MaxTime
    /\ agent \in {"live", "reaped", "storm_halted", "manual"}
    /\ task \in Seq([status: InFlight \cup Over, flagged: BOOLEAN, of: Nat])
    /\ intensity \in [count: Nat, total: Nat, start: -1..MaxTime]
    /\ mail \subseteq {"escalation"} \X {0} \cup {"failed"} \X DOMAIN task
    /\ asking \in BOOLEAN
    /\ sched \in [at: {"idle", "found", "read", "bump", "rerun", "giveup"},
                  now: 0..now, task: Nat, outcome: InFlight \cup Over]
    /\ crashes \in 0..MaxCrashes
    /\ granted \in Seq([time: 0..MaxTime, charged: BOOLEAN])

Init ==
    /\ policy \in Policy /\ now = 0 /\ agent = "live" /\ task = <<>>
    /\ intensity = NoWindow /\ mail = {} /\ asking = FALSE /\ sched = Resting
    /\ crashes = 0 /\ granted = <<>>

-----------------------------------------------------------------------------
(* The agent's tasks *)

New(of) == [status |-> "pending", flagged |-> FALSE, of |-> of]

\* dispatch_task finds the agent live, and creates the task in a later commit
Ask ==
    /\ agent = "live" /\ ~asking
    /\ Cardinality({i \in DOMAIN task : task[i].of = 0}) < MaxDispatch
    /\ asking' = TRUE
    /\ UNCHANGED <<policy, now, agent, task, intensity, mail, sched, crashes, granted>>

Dispatch ==
    /\ asking
    /\ task' = Append(task, New(0)) /\ asking' = FALSE
    /\ UNCHANGED <<policy, now, agent, intensity, mail, sched, crashes, granted>>

Moves(i, from, to) == task[i].status = from /\ task' = [task EXCEPT ![i].status = to]

\* A task is claimed, and ends; a worker that stalled still ends it, as long as
\* nobody has taken over. Two wakeups of one agent may overlap
Work(i) ==
    /\ \/ Moves(i, "pending", "running")
       \/ \E status \in {"running", "expired"} :
            \/ Moves(i, status, "completed")
            \/ Moves(i, status, "failed")
            \/ task[i].flagged /\ Moves(i, status, "cancelled")
    /\ UNCHANGED <<policy, now, agent, intensity, mail, asking, sched, crashes, granted>>

LeaseExpires(i) ==
    /\ Moves(i, "running", "expired")
    /\ UNCHANGED <<policy, now, agent, intensity, mail, asking, sched, crashes, granted>>

\* Ctrl-C, or a Step 9 that raises for the failed wakeup too: the finally releases the
\* lease of a task that is still in progress. find_expired_leases never returns it
Unwind(i) ==
    /\ \E status \in {"running", "expired"} : Moves(i, status, "unwound")
    /\ UNCHANGED <<policy, now, agent, intensity, mail, asking, sched, crashes, granted>>

\* A heartbeat that comes late
Renew(i) ==
    /\ Moves(i, "expired", "running")
    /\ UNCHANGED <<policy, now, agent, intensity, mail, asking, sched, crashes, granted>>

\* request_cancel: only on a task that is not over
Cancel(i) ==
    /\ task[i].status \in InFlight /\ ~task[i].flagged
    /\ Cardinality({j \in DOMAIN task : task[j].flagged}) < MaxCancels
    /\ task' = [task EXCEPT ![i].flagged = TRUE]
    /\ UNCHANGED <<policy, now, agent, intensity, mail, asking, sched, crashes, granted>>

\* archive_agent, by the supervisor
Archive ==
    /\ agent = "live"
    /\ agent' = "manual"
    /\ UNCHANGED <<policy, now, task, intensity, mail, asking, sched, crashes, granted>>

TimePasses ==
    /\ now < MaxTime
    /\ now' = now + 1
    /\ UNCHANGED <<policy, agent, task, intensity, mail, asking, sched, crashes, granted>>

-----------------------------------------------------------------------------
(* Restart intensity *)

Elapsed(at) == intensity.start = -1 \/ at - intensity.start > MaxSeconds

\* (slip) the total is forgotten
MBumped(charged, at) ==
    [count |-> IF Elapsed(at) THEN 1 ELSE intensity.count + 1,
     total |-> intensity.total,
     start |-> IF Elapsed(at) THEN at ELSE intensity.start]

\* bump_and_check_intensity counts a restart, whether or not it is allowed
Bumped(charged, at) ==
    [count |-> IF Elapsed(at) THEN 1 ELSE intensity.count + 1,
     total |-> intensity.total + (IF charged THEN 1 ELSE 0),
     start |-> IF Elapsed(at) THEN at ELSE intensity.start]

Within(charged, at) ==
    /\ Bumped(charged, at).count <= MaxRestarts
    /\ charged /\ MaxTotal # 0 => Bumped(charged, at).total <= MaxTotal

Grant(charged, at) == granted' = Append(granted, [time |-> at, charged |-> charged])

\* agents.archive: only a live agent
ArchiveAs(reason) == agent' = IF agent = "live" THEN reason ELSE agent

-----------------------------------------------------------------------------
(* Phase 0.8 *)

\* find_reapable_ephemerals: work was dispatched, and none is left
Reapable ==
    /\ agent = "live" /\ task # <<>>
    /\ \A i \in DOMAIN task : task[i].status \in Over

Find ==
    /\ sched.at = "idle" /\ Reapable
    /\ sched' = [at |-> "found", now |-> now, task |-> 0, outcome |-> "completed"]
    /\ UNCHANGED <<policy, now, agent, task, intensity, mail, asking, crashes, granted>>

\* find_latest_task_for_agent: a task dispatched meanwhile is the latest
ReadLatest ==
    /\ sched.at = "found"
    /\ sched' = [at |-> "read", now |-> sched.now, task |-> Len(task),
                  outcome |-> task[Len(task)].status]
    /\ UNCHANGED <<policy, now, agent, task, intensity, mail, asking, crashes, granted>>

\* _should_restart
ShouldRestart ==
    \/ policy = "permanent"
    \/ policy = "transient" /\ sched.outcome = "failed"

\* (slip) the escalation leaves the agent live
MRestart ==
    LET charged == sched.outcome = "failed" IN
    /\ sched.at = "read" /\ ShouldRestart
    /\ intensity' = Bumped(charged, sched.now)
    /\ \/ /\ Within(charged, sched.now)
          /\ task' = Append(task, New(sched.task)) /\ Grant(charged, sched.now)
          /\ UNCHANGED mail
       \/ /\ ~Within(charged, sched.now)
          /\ mail' = mail \cup {<<"escalation", 0>>}
          /\ UNCHANGED <<task, granted>>
    /\ sched' = Resting
    /\ UNCHANGED <<policy, now, agent, asking, crashes>>

\* One transaction: the bump, and the restart or the end of it
Restart ==
    LET charged == sched.outcome = "failed" IN
    /\ sched.at = "read" /\ ShouldRestart
    /\ intensity' = Bumped(charged, sched.now)
    /\ \/ /\ Within(charged, sched.now)
          /\ task' = Append(task, New(sched.task)) /\ Grant(charged, sched.now)
          /\ UNCHANGED <<agent, mail>>
       \/ /\ ~Within(charged, sched.now)
          /\ ArchiveAs("storm_halted")
          /\ mail' = mail \cup {<<"escalation", 0>>}
          /\ UNCHANGED <<task, granted>>
    /\ sched' = Resting
    /\ UNCHANGED <<policy, now, asking, crashes>>

\* (slip) the notice names the agent only
MReap ==
    /\ sched.at = "read" /\ ~ShouldRestart
    /\ ArchiveAs("reaped")
    /\ mail' = IF sched.outcome = "failed" THEN mail \cup {<<"failed", 0>>} ELSE mail
    /\ sched' = Resting
    /\ UNCHANGED <<policy, now, task, intensity, asking, crashes, granted>>

\* One transaction: the notice of a failure and the archival
Reap ==
    /\ sched.at = "read" /\ ~ShouldRestart
    /\ ArchiveAs("reaped")
    /\ mail' = IF sched.outcome = "failed" THEN mail \cup {<<"failed", sched.task>>} ELSE mail
    /\ sched' = Resting
    /\ UNCHANGED <<policy, now, task, intensity, asking, crashes, granted>>

-----------------------------------------------------------------------------
(* Phase 2 *)

FindExpired(i) ==
    /\ sched.at = "idle" /\ task[i].status = "expired"
    /\ sched' = [at |-> "bump", now |-> 0, task |-> i, outcome |-> "completed"]
    /\ UNCHANGED <<policy, now, agent, task, intensity, mail, asking, crashes, granted>>

\* (slip) the recovery is not counted
MBumpRecovery ==
    /\ sched.at = "bump"
    /\ sched' = [sched EXCEPT !.at = "rerun"]
    /\ UNCHANGED <<policy, now, agent, task, intensity, mail, asking, crashes, granted>>

\* _ephemeral_recovery_exceeded: the bump is a commit of its own
BumpRecovery ==
    /\ sched.at = "bump"
    /\ intensity' = Bumped(TRUE, now)
    /\ \/ /\ Within(TRUE, now) /\ Grant(TRUE, now)
          /\ sched' = [sched EXCEPT !.at = "rerun"]
       \/ /\ ~Within(TRUE, now) /\ UNCHANGED granted
          /\ sched' = [sched EXCEPT !.at = "giveup"]
    /\ UNCHANGED <<policy, now, agent, task, mail, asking, crashes>>

\* Phase 2 spawns a worker, which claims the task if the lease is still expired
Rerun ==
    /\ sched.at = "rerun"
    /\ task' = [task EXCEPT ![sched.task].status = IF @ = "expired" THEN "running" ELSE @]
    /\ sched' = Resting
    /\ UNCHANGED <<policy, now, agent, intensity, mail, asking, crashes, granted>>

\* One transaction; update_status is not fenced here
GiveUp ==
    /\ sched.at = "giveup"
    /\ task' = [task EXCEPT ![sched.task].status = "failed"]
    /\ ArchiveAs("storm_halted")
    /\ mail' = mail \cup {<<"escalation", 0>>}
    /\ sched' = Resting
    /\ UNCHANGED <<policy, now, intensity, asking, crashes, granted>>

Scheduler ==
    \/ Find \/ ReadLatest \/ Restart \/ Reap \/ BumpRecovery \/ Rerun \/ GiveUp
    \/ \E i \in DOMAIN task : FindExpired(i)

ServeCrash ==
    /\ sched.at # "idle" /\ crashes < MaxCrashes
    /\ sched' = Resting /\ crashes' = crashes + 1
    /\ UNCHANGED <<policy, now, agent, task, intensity, mail, asking, granted>>

-----------------------------------------------------------------------------
Next ==
    \/ Ask \/ Dispatch \/ Archive \/ TimePasses \/ Scheduler \/ ServeCrash
    \/ \E i \in DOMAIN task : Work(i) \/ LeaseExpires(i) \/ Unwind(i) \/ Renew(i) \/ Cancel(i)

Spec == Init /\ [][Next]_vars

\* serve keeps ticking, and often enough to see one of a task's lapses if there
\* is no end of them; a task is claimed when its turn comes, and ends, loses its lease
\* or is unwound: a worker may die every time
Fairness ==
    /\ WF_vars(Scheduler)
    /\ SF_vars(\E i \in DOMAIN task : FindExpired(i))
    /\ \A i \in 1..MaxTask : WF_vars(i \in DOMAIN task /\ (Work(i) \/ LeaseExpires(i) \/ Unwind(i)))

FairSpec == Spec /\ Fairness

=============================================================================
