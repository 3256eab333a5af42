----------------------------- MODULE TaskLease -----------------------------
(***************************************************************************)
(* The task scheduler's tail (Phases 2 and 3 of Scheduler._tick) and the   *)
(* `lyre run-task` processes it spawns, over the tasks and wakeups tables. *)
(* A worker is one spawned process; it stands for the wakeup id it mints.  *)
(* Every DAO commit is one atomic step, and so is a transaction() block.   *)
(*                                                                         *)
(* An operator M<Name> marked "slip" is <Name> with a likely mistake in    *)
(* it. Nothing uses it: it documents what the properties guard against.    *)
(***************************************************************************)
EXTENDS Integers, FiniteSets

CONSTANTS
    Task, Agent,        \* rows of tasks (numbered as created) and agents
    Worker,             \* processes, numbered as spawned (a bound)
    NoWorker, NoTask,   \* SQL NULL
    AgentOf,            \* tasks.agent_id
    Singleton,          \* agents with parent_agent_id NULL, not ephemeral
    Muted,              \* tasks _emit_task_terminated_mail never announces
    Quiet,              \* tasks it announces only when they fail
    Broken,             \* tasks whose persona is not registered
    GitTask,            \* tasks whose git_context provisioning may fail
    Unspawnable,        \* tasks for which exec raises FileNotFoundError
    MaxConcurrent,      \* config.max_concurrent_tasks
    RecoveryMax,        \* config.singleton_recovery_max, 0 is off
    FaultKinds,         \* faults that may happen, each of them once
    MaxFaults           \* bound on how many of them do

ASSUME TaskLeaseAssumption ==
    /\ Task \subseteq Nat /\ IsFiniteSet(Task) /\ Worker \subseteq Nat
    /\ AgentOf \in [Task -> Agent]
    /\ Singleton \subseteq Agent
    /\ NoWorker \notin Worker
    /\ NoTask \notin Task
    /\ MaxConcurrent \in Nat \ {0}
    /\ RecoveryMax \in Nat
    /\ FaultKinds \subseteq {"worker", "serve", "stop", "stall", "unwind"}
    /\ MaxFaults \in Nat

VARIABLES
    \* tasks
    status, holder, lease, attempts,
    \* outbox: outcome carried by task_terminated:<task>
    notice,
    \* wakeups
    row,
    \* run-task processes
    pc, job, stopped,
    \* the serve process
    serve, active, tick,
    faults

dbVars     == <<status, holder, lease, attempts, notice, row>>
workerVars == <<pc, job, stopped>>
serveVars  == <<serve, active, tick>>
vars       == <<dbVars, workerVars, serveVars, faults>>

OverFetch == 4
Terminal == {"completed", "failed", "cancelled"}
InFlight == {"pending", "in_progress"}
Idle     == [phase |-> "idle", todo |-> {}, claimed |-> {}, slots |-> 0, room |-> 0]

TypeOK ==
    /\ status \in [Task -> InFlight \cup Terminal]
    /\ holder \in [Task -> Worker \cup {NoWorker}]
    /\ lease \in [Task -> {"none", "live", "expired"}]
    /\ attempts \in [Task -> 0..(RecoveryMax + 1)]
    /\ notice \in [Task -> Terminal \cup {"none"}]
    /\ row \in [Worker -> {"none", "open", "abandoned", "ended"}]
    /\ pc \in [Worker -> {"unused", "spawned", "swept", "provisioning", "running",
                          "finalized", "gitfail", "gone", "unwound"}]
    /\ job \in [Worker -> Task \cup {NoTask}]
    /\ stopped \in [Worker -> BOOLEAN]
    /\ serve \in {"up", "draining", "down"}
    /\ active \subseteq Worker
    /\ tick \in [phase: {"idle", "recover", "dispatch"}, todo: SUBSET Task,
                 claimed: SUBSET Agent, slots: 0..MaxConcurrent, room: 0..MaxConcurrent]
    /\ faults \subseteq FaultKinds

Init ==
    /\ status = [t \in Task |-> "pending"]
    /\ holder = [t \in Task |-> NoWorker]
    /\ lease = [t \in Task |-> "none"]
    /\ attempts = [t \in Task |-> 0]
    /\ notice = [t \in Task |-> "none"]
    /\ row = [w \in Worker |-> "none"]
    /\ pc = [w \in Worker |-> "unused"]
    /\ job = [w \in Worker |-> NoTask]
    /\ stopped = [w \in Worker |-> FALSE]
    /\ serve = "up"
    /\ active = {}
    /\ tick = Idle
    /\ faults = {}

-----------------------------------------------------------------------------
(* Repository predicates *)

Alive(w)      == pc[w] \notin {"unused", "gone", "unwound"}
\* (slip) the dedup against own processes forgotten
MActiveTasks  == {}
ActiveTasks   == {job[w] : w \in active}
FreeSlots     == MaxConcurrent - Cardinality(active)
IsSingleton(t) == AgentOf[t] \in Singleton

\* The bound on Worker is used up: the tick passes over what it cannot spawn
Exhausted == \A w \in Worker : pc[w] # "unused"

\* wakeups.has_active_for_agent
HasActive(a) ==
    \E w \in Worker : /\ row[w] = "open"
                      /\ AgentOf[job[w]] = a
                      /\ status[job[w]] \in InFlight

\* tasks.find_pending: the first `limit` pending rows in creation order
FindPending(limit) ==
    LET pending == {t \in Task : status[t] = "pending"}
    IN  {t \in pending : Cardinality({u \in pending : u < t}) < limit}

\* (slip) any status but pending, finished tasks too
MFindExpired(limit) ==
    LET expired == {t \in Task : status[t] # "pending" /\ lease[t] = "expired"}
    IN  IF Cardinality(expired) <= limit
        THEN {expired} ELSE {found \in SUBSET expired : Cardinality(found) = limit}

\* tasks.find_expired_leases: the choice stands for the order of lease_until
FindExpired(limit) ==
    LET expired == {t \in Task : status[t] = "in_progress" /\ lease[t] = "expired"}
    IN  IF Cardinality(expired) <= limit
        THEN {expired} ELSE {found \in SUBSET expired : Cardinality(found) = limit}

\* _emit_task_terminated_mail: which outcomes of t are announced
Announced(t, outcome) == t \notin Muted /\ (t \in Quiet => outcome = "failed")

\* outbox.enqueue under external_id task_terminated:<task>: first write wins
Emit(t, outcome) ==
    IF Announced(t, outcome) /\ notice[t] = "none"
    THEN [notice EXCEPT ![t] = outcome] ELSE notice

\* wakeups.close_orphans_for_task
CloseOrphans(t) ==
    [w \in Worker |-> IF job[w] = t /\ row[w] = "open" THEN "abandoned" ELSE row[w]]

-----------------------------------------------------------------------------
(* The scheduler *)

\* _run_task_in_subprocess: returns at once; the child has written nothing yet
Spawn(t) ==
    \/ /\ t \notin Unspawnable
       /\ \E w \in Worker :
            /\ pc[w] = "unused" /\ \A u \in Worker : pc[u] = "unused" => w <= u
            /\ pc' = [pc EXCEPT ![w] = "spawned"]
            /\ job' = [job EXCEPT ![w] = t]
            /\ active' = active \cup {w}
       /\ UNCHANGED status
    \/ /\ t \in Unspawnable
       /\ status' = [status EXCEPT ![t] = "failed"]
       /\ UNCHANGED <<pc, job, active>>

\* Phase 2 reads a slot's worth of expired leases, then drops the tasks that
\* one of its own processes still runs
BeginTick ==
    /\ serve = "up" /\ tick.phase = "idle"
    /\ \E found \in FindExpired(FreeSlots) :
         tick' = [Idle EXCEPT !.phase = "recover", !.todo = found \ ActiveTasks]
    /\ UNCHANGED <<dbVars, workerVars, serve, active, faults>>

\* _singleton_recovery_exceeded did not stop the task: run it again. The commit
\* of the counter and the spawn are one step: both belong to one serve process.
\* The limits of an ephemeral agent (_ephemeral_recovery_exceeded) are left out:
\* tasks of non-singletons are recovered without a limit.
Recover(t) ==
    /\ serve = "up" /\ tick.phase = "recover" /\ t \in tick.todo
    /\ IF RecoveryMax > 0 /\ IsSingleton(t)
       THEN /\ attempts[t] < RecoveryMax
            /\ attempts' = [attempts EXCEPT ![t] = @ + 1]
       ELSE UNCHANGED attempts
    /\ Spawn(t)
    /\ tick' = [tick EXCEPT !.todo = @ \ {t}]
    /\ UNCHANGED <<holder, lease, notice, row, stopped, serve, faults>>

\* _singleton_recovery_exceeded: over the cap, fail the task for good. The
\* counter saturates: it is only compared with the cap.
GiveUp(t) ==
    /\ serve = "up" /\ tick.phase = "recover" /\ t \in tick.todo
    /\ RecoveryMax > 0 /\ IsSingleton(t) /\ attempts[t] >= RecoveryMax
    /\ attempts' = [attempts EXCEPT ![t] = RecoveryMax + 1]
    /\ status' = [status EXCEPT ![t] = "failed"]
    /\ row' = CloseOrphans(t)
    /\ notice' = Emit(t, "failed")
    /\ tick' = [tick EXCEPT !.todo = @ \ {t}]
    /\ UNCHANGED <<holder, lease, workerVars, serve, active, faults>>

\* Phase 3 opens: one slot stays reserved for singletons when there are several
BeginDispatch ==
    /\ serve = "up" /\ tick.phase = "recover"
    /\ tick.todo = {} \/ Exhausted
    /\ IF FreeSlots = 0
       THEN tick' = Idle
       ELSE tick' = [Idle EXCEPT
              !.phase = "dispatch",
              !.todo = FindPending(OverFetch * FreeSlots) \ ActiveTasks,
              !.slots = FreeSlots,
              !.room = IF MaxConcurrent > 1 THEN FreeSlots - 1 ELSE FreeSlots]
    /\ UNCHANGED <<dbVars, workerVars, serve, active, faults>>

\* Phase 3 passes over a task: no reserved slot, or its agent is busy
SkipPending(t) ==
    LET a == AgentOf[t] IN
    /\ ~IsSingleton(t) => \A u \in tick.todo : ~IsSingleton(u)
    /\ \/ ~IsSingleton(t) /\ tick.room <= 0
       \/ a \in tick.claimed
       \/ HasActive(a)
    /\ tick' = [tick EXCEPT !.todo = @ \ {t}]
    /\ UNCHANGED <<dbVars, workerVars, active>>

\* (slip) the reserved slot is not checked
MDispatchPending(t) ==
    LET a == AgentOf[t] IN
    /\ tick.slots > 0
    /\ ~IsSingleton(t) => \A u \in tick.todo : ~IsSingleton(u)
    /\ a \notin tick.claimed /\ ~HasActive(a)
    /\ Spawn(t)
    /\ tick' = [tick EXCEPT !.todo = @ \ {t}, !.claimed = @ \cup {a},
                            !.slots = @ - 1,
                            !.room = IF IsSingleton(t) THEN @ ELSE @ - 1]
    /\ UNCHANGED <<holder, lease, attempts, notice, row, stopped>>

\* Phase 3 starts a task
DispatchPending(t) ==
    LET a == AgentOf[t] IN
    /\ tick.slots > 0
    /\ ~IsSingleton(t) => \A u \in tick.todo : ~IsSingleton(u)
    /\ IsSingleton(t) \/ tick.room > 0
    /\ a \notin tick.claimed /\ ~HasActive(a)
    /\ Spawn(t)
    /\ tick' = [tick EXCEPT !.todo = @ \ {t}, !.claimed = @ \cup {a},
                            !.slots = @ - 1,
                            !.room = IF IsSingleton(t) THEN @ ELSE @ - 1]
    /\ UNCHANGED <<holder, lease, attempts, notice, row, stopped>>

EndTick ==
    /\ tick.todo = {} \/ tick.slots = 0 \/ Exhausted
    /\ tick' = Idle
    /\ UNCHANGED <<dbVars, workerVars, active>>

Dispatch ==
    /\ serve = "up" /\ tick.phase = "dispatch"
    /\ \/ \E t \in tick.todo : SkipPending(t) \/ DispatchPending(t)
       \/ EndTick
    /\ UNCHANGED <<serve, faults>>

\* _reap_subprocess: the process exited, drop it from _active_subprocesses
Reap(w) ==
    /\ serve # "down" /\ w \in active /\ pc[w] \in {"gone", "unwound"}
    /\ active' = active \ {w}
    /\ UNCHANGED <<dbVars, workerVars, serve, tick, faults>>

-----------------------------------------------------------------------------
(* A worker: Scheduler._run_task_inline inside `lyre run-task` *)

Step(w, from, to) == pc[w] = from /\ pc' = [pc EXCEPT ![w] = to]

\* (slip) the wakeup row is opened before the claim, in a commit of its own
MSweep(w) ==
    /\ Step(w, "spawned", "swept")
    /\ row' = [CloseOrphans(job[w]) EXCEPT ![w] = "open"]
    /\ UNCHANGED <<status, holder, lease, attempts, notice, job, stopped,
                   serveVars, faults>>

\* close_orphans_for_task runs before the claim
Sweep(w) ==
    /\ Step(w, "spawned", "swept")
    /\ row' = CloseOrphans(job[w])
    /\ UNCHANGED <<status, holder, lease, attempts, notice, job, stopped,
                   serveVars, faults>>

MissingPersona(w) ==
    /\ job[w] \in Broken
    /\ Step(w, "swept", "gone")
    /\ status' = [status EXCEPT ![job[w]] = "failed"]
    /\ UNCHANGED <<holder, lease, attempts, notice, row, job, stopped,
                   serveVars, faults>>

\* One transaction: wakeups.start and tasks.claim_lease, or neither
StartAndClaim(w) ==
    LET t == job[w] IN
    /\ pc[w] = "swept" /\ t \notin Broken
    /\ \/ /\ lease[t] \in {"none", "expired"}
          /\ Step(w, "swept", IF t \in GitTask THEN "provisioning" ELSE "running")
          /\ row' = [row EXCEPT ![w] = "open"]
          /\ holder' = [holder EXCEPT ![t] = w]
          /\ lease' = [lease EXCEPT ![t] = "live"]
          /\ status' = [status EXCEPT ![t] = "in_progress"]
       \/ /\ lease[t] = "live"
          /\ Step(w, "swept", "gone")
          /\ UNCHANGED <<row, holder, lease, status>>
    /\ UNCHANGED <<attempts, notice, job, stopped, serveVars, faults>>

\* tasks.release_lease: only the holder's own lease
ReleaseOwn(w) ==
    LET t == job[w] IN
    IF holder[t] = w
    THEN /\ holder' = [holder EXCEPT ![t] = NoWorker]
         /\ lease' = [lease EXCEPT ![t] = "none"]
    ELSE UNCHANGED <<holder, lease>>

\* git_context provisioning failed: release first, then fail, two commits
GitReleases(w) ==
    /\ job[w] \in GitTask
    /\ Step(w, "provisioning", "gitfail")
    /\ ReleaseOwn(w)
    /\ UNCHANGED <<status, attempts, notice, row, job, stopped, serveVars, faults>>

GitFails(w) ==
    /\ Step(w, "gitfail", "gone")
    /\ status' = [status EXCEPT ![job[w]] = "failed"]
    /\ UNCHANGED <<holder, lease, attempts, notice, row, job, stopped,
                   serveVars, faults>>

GitReady(w) ==
    /\ Step(w, "provisioning", "running")
    /\ UNCHANGED <<dbVars, job, stopped, serveVars, faults>>

\* _lease_heartbeat: renew, or ask the loop to stop when the lease was lost
Heartbeat(w) ==
    LET t == job[w] IN
    /\ pc[w] = "running" /\ ~stopped[w]
    /\ \/ /\ holder[t] = w
          /\ lease' = [lease EXCEPT ![t] = "live"]
          /\ UNCHANGED stopped
       \/ /\ holder[t] # w
          /\ stopped' = [stopped EXCEPT ![w] = TRUE]
          /\ UNCHANGED lease
    /\ UNCHANGED <<status, holder, attempts, notice, row, pc, job, serveVars, faults>>

\* (slip) the heartbeat itself gives the lease back
MWallBudget(w) ==
    /\ pc[w] = "running" /\ ~stopped[w]
    /\ stopped' = [stopped EXCEPT ![w] = TRUE]
    /\ ReleaseOwn(w)
    /\ UNCHANGED <<status, attempts, notice, row, pc, job, serveVars, faults>>

\* _lease_heartbeat: the wall budget is spent
WallBudget(w) ==
    /\ pc[w] = "running" /\ ~stopped[w]
    /\ stopped' = [stopped EXCEPT ![w] = TRUE]
    /\ UNCHANGED <<dbVars, pc, job, serveVars, faults>>

\* (slip) update_status without holder_wakeup_id
MUnfenced(w, outcome) ==
    /\ status' = [status EXCEPT ![job[w]] = outcome]
    /\ notice' = Emit(job[w], outcome)

\* (slip) the exception path forgets the notice
MSilentFailure(w, outcome) ==
    LET t == job[w] IN
    IF holder[t] = w
    THEN /\ status' = [status EXCEPT ![t] = outcome]
         /\ notice' = IF outcome = "failed" THEN notice ELSE Emit(t, outcome)
    ELSE UNCHANGED <<status, notice>>

\* update_status(..., holder_wakeup_id=w) followed by the gated notice
FencedOutcome(w, outcome) ==
    LET t == job[w] IN
    IF holder[t] = w
    THEN /\ status' = [status EXCEPT ![t] = outcome]
         /\ notice' = Emit(t, outcome)
    ELSE UNCHANGED <<status, notice>>

\* The Step 9 transaction, on the success and the exception path alike
Finalize(w) ==
    /\ Step(w, "running", "finalized")
    /\ row' = [row EXCEPT ![w] = "ended"]
    /\ \E outcome \in Terminal : FencedOutcome(w, outcome)
    /\ UNCHANGED <<holder, lease, attempts, job, stopped, serveVars, faults>>

Release(w) ==
    /\ Step(w, "finalized", "gone")
    /\ ReleaseOwn(w)
    /\ UNCHANGED <<status, attempts, notice, row, job, stopped, serveVars, faults>>

-----------------------------------------------------------------------------
(* Time and faults *)

Fault(kind) ==
    /\ kind \in FaultKinds \ faults /\ Cardinality(faults) < MaxFaults
    /\ faults' = faults \cup {kind}

\* lease_until passes without a renewal: the holder is dead, or stalls
ExpireLease(t) ==
    /\ lease[t] = "live"
    /\ lease' = [lease EXCEPT ![t] = "expired"]
    /\ IF Alive(holder[t]) THEN Fault("stall") ELSE UNCHANGED faults
    /\ UNCHANGED <<status, holder, attempts, notice, row, workerVars, serveVars>>

\* SIGKILL, or an exception in the unguarded setup: nothing more is written
Crash(w) ==
    /\ Fault("worker")
    /\ Alive(w)
    /\ pc' = [pc EXCEPT ![w] = "gone"]
    /\ UNCHANGED <<dbVars, job, stopped, serveVars>>

\* The finally of _run_task_inline without a Step 9 before it: the wakeup is
\* cancelled (Ctrl-C reaches the process; CancelledError is no Exception), or
\* the transaction of the exception path raises. The lease is released all the
\* same: the task stays in progress and the wakeup row open.
Unwind(w) ==
    /\ Fault("unwind")
    /\ Step(w, "running", "unwound")
    /\ ReleaseOwn(w)
    /\ UNCHANGED <<status, attempts, notice, row, job, stopped, serveVars>>

\* The serve process dies; its children live on as orphans of the system
ServeCrash ==
    /\ Fault("serve")
    /\ serve # "down"
    /\ serve' = "down" /\ active' = {} /\ tick' = Idle
    /\ UNCHANGED <<dbVars, workerVars>>

\* request_stop is seen between two ticks
ServeStop ==
    /\ Fault("stop")
    /\ serve = "up" /\ tick.phase = "idle"
    /\ serve' = "draining"
    /\ UNCHANGED <<dbVars, workerVars, active, tick>>

\* (slip) children are left running
MDrained ==
    /\ serve = "draining"
    /\ serve' = "down" /\ active' = {}
    /\ UNCHANGED <<dbVars, workerVars, tick, faults>>

\* _drain_subprocesses: all children gone, or killed by their cancelled reapers
Drained ==
    /\ serve = "draining"
    /\ serve' = "down"
    /\ active' = {}
    /\ pc' = [w \in Worker |-> IF w \in active /\ Alive(w) THEN "gone" ELSE pc[w]]
    /\ UNCHANGED <<dbVars, job, stopped, tick, faults>>

ServeStart ==
    /\ serve = "down"
    /\ serve' = "up"
    /\ UNCHANGED <<dbVars, workerVars, active, tick, faults>>

-----------------------------------------------------------------------------
SchedulerStep ==
    \/ BeginTick
    \/ \E t \in Task : Recover(t) \/ GiveUp(t)
    \/ BeginDispatch
    \/ Dispatch

WorkerStep(w) ==
    \/ Sweep(w) \/ MissingPersona(w) \/ StartAndClaim(w)
    \/ GitReleases(w) \/ GitFails(w) \/ GitReady(w)
    \/ Heartbeat(w) \/ WallBudget(w) \/ Finalize(w) \/ Release(w)

Next ==
    \/ SchedulerStep
    \/ \E w \in Worker : Reap(w) \/ WorkerStep(w) \/ Crash(w) \/ Unwind(w)
    \/ \E t \in Task : ExpireLease(t)
    \/ ServeCrash \/ ServeStop \/ Drained \/ ServeStart

Spec == Init /\ [][Next]_vars

\* The loop of a lease holder ends within its turn budget; that of a superseded
\* worker is only trusted to end once it was asked to stop. A dead holder's
\* lease runs out. The service manager restarts serve.
Fairness ==
    /\ WF_vars(SchedulerStep) /\ WF_vars(Drained) /\ WF_vars(ServeStart)
    /\ \A w \in Worker :
         /\ WF_vars(Reap(w))
         /\ WF_vars(Heartbeat(w))
         /\ WF_vars(Finalize(w) /\ (stopped[w] \/ holder[job[w]] = w))
         /\ WF_vars(Sweep(w) \/ MissingPersona(w) \/ StartAndClaim(w)
                      \/ GitFails(w) \/ GitReady(w) \/ Release(w))
    /\ \A t \in Task : WF_vars(ExpireLease(t) /\ ~Alive(holder[t]))

FairSpec == Spec /\ Fairness

=============================================================================
