--------------------------- MODULE TaskLeaseProps ---------------------------
(***************************************************************************)
(* What TaskLease promises. The first group holds whatever fails; the      *)
(* second until a serve process dies and leaves its children behind.       *)
(***************************************************************************)
EXTENDS TaskLease

\* Tasks no unfenced failure path of the scheduler or the worker can touch.
Ordinary == Task \ (Broken \cup GitTask \cup Unspawnable)

\* No crash strands a task or its agent (scheduler.py 1955-1970). In parts:
\* no crash leaves an open wakeup row on a task that is still pending: the
\* dispatch gate would count it as in flight and never run the agent again.
NoBrickedAgent ==
    \A w \in Worker : row[w] = "open" => status[job[w]] # "pending"

\* A worker of t left by the finally without a Step 9: it has given the lease
\* back and has left the task in progress.
Unwound(t) == \E w \in Worker : pc[w] = "unwound" /\ job[w] = t

\* A task in progress carries a lease, so that it is recovered once the lease
\* runs out (find_expired_leases never returns a NULL lease_until), unless its
\* worker was unwound. No kill, stall, recovery or restart of serve takes it away.
Recoverable ==
    \A t \in Task \ GitTask :
        status[t] = "in_progress" /\ lease[t] = "none" => Unwound(t)

NothingStranded == NoBrickedAgent /\ Recoverable

\* Step 9: a terminal task that has to be announced has its notice, whatever
\* crashes between the worker's steps.
TerminalIsAnnounced ==
    \A t \in Ordinary :
        status[t] \in Terminal /\ Announced(t, status[t]) => notice[t] # "none"

\* Fencing: a worker whose lease was taken over finishes without a trace on
\* the task row, the lease or the notice of the task it still believes is its.
SupersededIsHarmless ==
    [][\A w \in Worker :
          /\ pc[w] \in {"running", "finalized"} /\ holder[job[w]] # w
          /\ pc'[w] # pc[w]
          => /\ status'[job[w]] = status[job[w]] /\ lease'[job[w]] = lease[job[w]]
             /\ holder'[job[w]] = holder[job[w]] /\ notice'[job[w]] = notice[job[w]]
      ]_vars

\* A lease changes hands only when its holder gives it up or it has run out.
LeaseHandover ==
    [][\A t \in Task : holder[t] # NoWorker /\ holder'[t] # holder[t] =>
          \/ lease[t] = "expired"
          \/ holder'[t] = NoWorker /\ pc'[holder[t]] # pc[holder[t]]
      ]_vars

\* A task has one owner at a time, and the others are powerless (1774, 2204).
Fencing == SupersededIsHarmless /\ LeaseHandover

\* The scheduler never runs more processes than max_concurrent_tasks.
CapRespected == Cardinality(active) <= MaxConcurrent

-----------------------------------------------------------------------------

\* Some serve process was killed and left its workers behind.
Abandoned == "serve" \in faults

\* Two processes never work on one task at the same time, not even when one
\* crashes and its lease is recovered, or serve is stopped and started again.
OneProcessPerTask == ~Abandoned =>
    \A v, w \in Worker : Alive(v) /\ Alive(w) /\ job[v] = job[w] => v = w

\* Processes are few, and one to a task, however they are spawned and reaped.
ProcessesAreCounted == CapRespected /\ OneProcessPerTask

\* A wakeup in progress is visible to the gate that keeps its agent sequential.
RunningIsVisible == ~Abandoned =>
    \A w \in Worker : pc[w] \in {"provisioning", "running"} => HasActive(AgentOf[job[w]])

\* Who works is alone at it, and known to the gate.
Exclusive == OneProcessPerTask /\ RunningIsVisible

\* The outcome announced to the supervisor is the outcome the task has.
NoticeTellsOutcome == ~Abandoned =>
    \A t \in Ordinary :
        status[t] \in Terminal /\ notice[t] # "none" => notice[t] = status[t]

\* Who waits for a task is told of its end, and told the truth.
NoticeHolds == TerminalIsAnnounced /\ NoticeTellsOutcome

\* Seen from the task rows and the notices, the scheduler and its workers do
\* what TaskLifecycle promises: a task is finished once, together with its
\* notice, and is not taken up again.
Contract == INSTANCE TaskLifecycle WITH
    Task      <- Ordinary,
    Told      <- {to \in Ordinary \X Terminal : Announced(to[1], to[2])},
    status    <- [t \in Ordinary |-> status[t]],
    notice    <- [t \in Ordinary |-> notice[t]],
    abandoned <- Abandoned

Lifecycle == Contract!Spec

\* A task whose worker was unwound is not recovered, and while its wakeup row is
\* open the gate keeps its agent from every other task.
Stuck(t) == status[t] = "in_progress" /\ lease[t] = "none" /\ Unwound(t)
Blocked(t) ==
    \E u \in Task : /\ Stuck(u) /\ AgentOf[u] = AgentOf[t]
                    /\ u = t \/ \E w \in Worker : job[w] = u /\ row[w] = "open"

\* Every task is eventually finished, through crashes and recoveries, unless an
\* unwound wakeup of its agent blocks it: nothing else holds a task up for ever.
EveryTaskFinishes ==
    \A t \in Task \ GitTask : <>(status[t] \in Terminal \/ Blocked(t))

\* A worker that lost its lease is told so and leaves its agent loop.
SupersededStops ==
    \A w \in Worker :
        (pc[w] = "running" /\ holder[job[w]] # w) ~> (pc[w] # "running")

\* A wakeup that is not stalled comes to its end, in time or by being superseded.
Progress == EveryTaskFinishes /\ SupersededStops

=============================================================================
