-------------------------- MODULE TaskLeaseProofs ---------------------------
(***************************************************************************)
(* Proofs of what TaskLeaseProps states, for every number of agents, tasks *)
(* and processes and every configuration.                                  *)
(***************************************************************************)
EXTENDS TaskLeaseProps, FiniteSetTheorems, TLAPS

USE TaskLeaseAssumption

\* The room a tick still has is room the process table has.
Budget ==
    /\ IsFiniteSet(active)
    /\ Cardinality(active) <= MaxConcurrent
    /\ tick.phase = "recover" =>
          Cardinality(tick.todo) + Cardinality(active) <= MaxConcurrent
    /\ tick.phase = "dispatch" =>
          tick.slots + Cardinality(active) <= MaxConcurrent

\* A process that exists has a task.
Assigned ==
    \A w \in Worker :
        /\ pc[w] # "unused" => job[w] \in Task
        /\ row[w] # "none" => pc[w] # "unused"
        /\ w \in active => pc[w] # "unused"

TypeInv == TypeOK /\ Assigned

\* The types hold when the system is new.
LEMMA TypeInit == Init => TypeInv
  BY DEF Init, TypeInv, TypeOK, Assigned, Idle, InFlight, Terminal

\* A spawn starts one worker, for the task.
LEMMA SpawnType ==
  ASSUME TypeInv, NEW t \in Task, Spawn(t)
  PROVE  /\ status' \in [Task -> InFlight \cup Terminal]
         /\ pc' \in [Worker -> {"unused", "spawned", "swept", "provisioning",
                                "running", "finalized", "gitfail", "gone", "unwound"}]
         /\ job' \in [Worker -> Task \cup {NoTask}]
         /\ active' \subseteq Worker
         /\ \A w \in Worker :
              /\ pc'[w] # "unused" => job'[w] \in Task
              /\ row[w] # "none" => pc'[w] # "unused"
              /\ w \in active' => pc'[w] # "unused"
<1> USE DEF TypeInv, TypeOK, Assigned
<1>1. CASE t \in Unspawnable
  <2>1. status' = [status EXCEPT ![t] = "failed"] /\ UNCHANGED <<pc, job, active>>
    BY <1>1 DEF Spawn
  <2> QED
    BY <2>1 DEF Terminal
<1>2. CASE t \notin Unspawnable
  <2>1. PICK w \in Worker : /\ pc[w] = "unused"
                            /\ pc' = [pc EXCEPT ![w] = "spawned"]
                            /\ job' = [job EXCEPT ![w] = t]
                            /\ active' = active \cup {w}
    BY <1>2 DEF Spawn
  <2>2. UNCHANGED status
    BY <1>2 DEF Spawn
  <2> QED
    BY <2>1, <2>2
<1> QED
  BY <1>1, <1>2

\* What the tick has in hand when it begins to recover, and when it begins to dispatch.
LEMMA TickBegins ==
  /\ BeginTick => \E found \in FindExpired(FreeSlots) :
        tick' = [phase |-> "recover", todo |-> found \ ActiveTasks,
                 claimed |-> {}, slots |-> 0, room |-> 0]
  /\ BeginDispatch /\ FreeSlots = 0 =>
        tick' = [phase |-> "idle", todo |-> {}, claimed |-> {}, slots |-> 0, room |-> 0]
  /\ BeginDispatch /\ FreeSlots # 0 =>
        tick' = [phase |-> "dispatch", todo |-> FindPending(OverFetch * FreeSlots) \ ActiveTasks,
                 claimed |-> {}, slots |-> FreeSlots,
                 room |-> IF MaxConcurrent > 1 THEN FreeSlots - 1 ELSE FreeSlots]
<1>1. ASSUME NEW todo, NEW x, x = [Idle EXCEPT !.phase = "recover", !.todo = todo]
      PROVE  x = [phase |-> "recover", todo |-> todo, claimed |-> {}, slots |-> 0, room |-> 0]
  <2>1. /\ x = [f \in DOMAIN x |-> x[f]]
        /\ DOMAIN x = {"phase", "todo", "claimed", "slots", "room"}
    BY <1>1 DEF Idle
  <2>2. x.phase = "recover" /\ x.todo = todo /\ x.claimed = {} /\ x.slots = 0 /\ x.room = 0
    BY <1>1 DEF Idle
  <2> QED
    BY <2>1, <2>2
<1>2. ASSUME NEW todo, NEW slots, NEW room, NEW x,
             x = [Idle EXCEPT !.phase = "dispatch", !.todo = todo, !.slots = slots, !.room = room]
      PROVE  x = [phase |-> "dispatch", todo |-> todo, claimed |-> {}, slots |-> slots, room |-> room]
  <2>1. /\ x = [f \in DOMAIN x |-> x[f]]
        /\ DOMAIN x = {"phase", "todo", "claimed", "slots", "room"}
    BY <1>2 DEF Idle
  <2>2. x.phase = "dispatch" /\ x.todo = todo /\ x.claimed = {} /\ x.slots = slots /\ x.room = room
    BY <1>2 DEF Idle
  <2> QED
    BY <2>1, <2>2
<1>3. BeginTick => \E found \in FindExpired(FreeSlots) :
         tick' = [Idle EXCEPT !.phase = "recover", !.todo = found \ ActiveTasks]
  BY DEF BeginTick
<1>4. BeginDispatch /\ FreeSlots = 0 =>
         tick' = [phase |-> "idle", todo |-> {}, claimed |-> {}, slots |-> 0, room |-> 0]
  BY DEF BeginDispatch, Idle
<1>5. BeginDispatch /\ FreeSlots # 0 =>
         tick' = [Idle EXCEPT !.phase = "dispatch", !.todo = FindPending(OverFetch * FreeSlots) \ ActiveTasks,
                              !.slots = FreeSlots,
                              !.room = IF MaxConcurrent > 1 THEN FreeSlots - 1 ELSE FreeSlots]
  BY DEF BeginDispatch
<1> QED
  BY <1>1, <1>2, <1>3, <1>4, <1>5

\* What recovery finds are tasks.
LEMMA FoundType == \A n : \A found \in FindExpired(n) : found \subseteq Task
  BY DEF FindExpired

\* What dispatch finds are tasks.
LEMMA PendingType == \A n : FindPending(n) \subseteq Task
  BY DEF FindPending

\* The wakeups of a dead worker are closed, and no others made.
LEMMA OrphansType ==
  ASSUME TypeOK, NEW t
  PROVE  /\ CloseOrphans(t) \in [Worker -> {"none", "open", "abandoned", "ended"}]
         /\ \A w \in Worker : CloseOrphans(t)[w] # "none" => row[w] # "none"
  BY DEF TypeOK, CloseOrphans

\* Every step keeps the types.
LEMMA TypeStep == TypeInv /\ Budget /\ [Next]_vars => TypeInv'
<1> SUFFICES ASSUME TypeInv, Budget, [Next]_vars PROVE TypeInv'
  OBVIOUS
<1> USE DEF TypeInv, TypeOK, Assigned
<1>1. CASE UNCHANGED vars
  BY <1>1 DEF vars, dbVars, workerVars, serveVars
<1>2. CASE BeginTick
  <2>1. PICK found \in FindExpired(FreeSlots) :
          tick' = [phase |-> "recover", todo |-> found \ ActiveTasks,
                   claimed |-> {}, slots |-> 0, room |-> 0]
    BY <1>2, TickBegins
  <2>2. tick' \in [phase: {"idle", "recover", "dispatch"}, todo: SUBSET Task,
                   claimed: SUBSET Agent, slots: 0..MaxConcurrent, room: 0..MaxConcurrent]
    BY <2>1, FoundType
  <2> QED
    BY <1>2, <2>2 DEF BeginTick, dbVars, workerVars
<1>3. ASSUME NEW t \in Task, Recover(t) PROVE TypeInv'
  BY <1>3, SpawnType DEF Recover
<1>4. ASSUME NEW t \in Task, GiveUp(t) PROVE TypeInv'
  BY <1>4 DEF GiveUp, CloseOrphans, Emit, Terminal, InFlight, workerVars
<1>5. CASE BeginDispatch
  <2>1. FreeSlots \in 0..MaxConcurrent
    BY FS_CardinalityType DEF Budget, FreeSlots
  <2>2. tick' \in [phase: {"idle", "recover", "dispatch"}, todo: SUBSET Task,
                   claimed: SUBSET Agent, slots: 0..MaxConcurrent, room: 0..MaxConcurrent]
    <3>1. CASE FreeSlots = 0
      BY <1>5, <3>1, TickBegins
    <3>2. CASE FreeSlots # 0
      <4>1. tick' = [phase |-> "dispatch", todo |-> FindPending(OverFetch * FreeSlots) \ ActiveTasks,
                     claimed |-> {}, slots |-> FreeSlots,
                     room |-> IF MaxConcurrent > 1 THEN FreeSlots - 1 ELSE FreeSlots]
        BY <1>5, <3>2, TickBegins
      <4>2. FreeSlots - 1 \in 0..MaxConcurrent
        BY <2>1, <3>2
      <4> QED
        BY <2>1, <4>1, <4>2, PendingType
    <3> QED
      BY <3>1, <3>2
  <2> QED
    BY <1>5, <2>2 DEF BeginDispatch, dbVars, workerVars
<1>6. ASSUME NEW t \in tick.todo, SkipPending(t), Dispatch PROVE TypeInv'
  BY <1>6 DEF SkipPending, Dispatch, dbVars, workerVars
<1>7. ASSUME NEW t \in tick.todo, DispatchPending(t), Dispatch PROVE TypeInv'
  <2>1. t \in Task
    OBVIOUS
  <2>2. tick' \in [phase: {"idle", "recover", "dispatch"}, todo: SUBSET Task,
                   claimed: SUBSET Agent, slots: 0..MaxConcurrent, room: 0..MaxConcurrent]
    <3>1. /\ tick.slots - 1 \in 0..MaxConcurrent
          /\ ~IsSingleton(t) => tick.room - 1 \in 0..MaxConcurrent
      BY <1>7 DEF DispatchPending
    <3>2. AgentOf[t] \in Agent
      BY <2>1
    <3> QED
      BY <1>7, <3>1, <3>2 DEF DispatchPending
  <2> QED
    BY <1>7, <2>1, <2>2, SpawnType DEF DispatchPending, Dispatch
<1>8. CASE EndTick /\ Dispatch
  BY <1>8 DEF EndTick, Dispatch, Idle, dbVars, workerVars
<1>9. ASSUME NEW w \in Worker, Reap(w) PROVE TypeInv'
  BY <1>9 DEF Reap, dbVars, workerVars
<1>10. ASSUME NEW w \in Worker, WorkerStep(w) PROVE TypeInv'
  <2> USE DEF Step, serveVars, Terminal, InFlight
  <2>1. job[w] \in Task
    BY <1>10 DEF WorkerStep, Sweep, MissingPersona, StartAndClaim, GitReleases, GitFails,
                 GitReady, Heartbeat, WallBudget, Finalize, Release
  <2>2. CASE Sweep(w)
    BY <2>1, <2>2, OrphansType DEF Sweep
  <2>8. CASE MissingPersona(w)
    BY <2>1, <2>8 DEF MissingPersona
  <2>3. CASE StartAndClaim(w)
    BY <2>1, <2>3 DEF StartAndClaim
  <2>4. CASE GitReleases(w)
    BY <2>1, <2>4 DEF GitReleases, ReleaseOwn
  <2>9. CASE GitFails(w)
    BY <2>1, <2>9 DEF GitFails
  <2>10. CASE GitReady(w)
    BY <2>1, <2>10 DEF GitReady, dbVars
  <2>5. CASE Heartbeat(w)
    <3>1. CASE holder[job[w]] = w
      BY <2>1, <2>5, <3>1 DEF Heartbeat
    <3>2. CASE holder[job[w]] # w
      BY <2>1, <2>5, <3>2 DEF Heartbeat
    <3> QED
      BY <3>1, <3>2
  <2>11. CASE WallBudget(w)
    BY <2>1, <2>11 DEF WallBudget, dbVars
  <2>6. CASE Finalize(w)
    BY <2>1, <2>6 DEF Finalize, FencedOutcome, Emit
  <2>7. CASE Release(w)
    BY <2>1, <2>7 DEF Release, ReleaseOwn
  <2> QED
    BY <1>10, <2>2, <2>3, <2>4, <2>5, <2>6, <2>7, <2>8, <2>9, <2>10, <2>11 DEF WorkerStep
<1>11. ASSUME NEW w \in Worker, Crash(w) PROVE TypeInv'
  BY <1>11 DEF Crash, Fault, Alive, dbVars, serveVars
<1>17. ASSUME NEW w \in Worker, Unwind(w) PROVE TypeInv'
  <2>1. job[w] \in Task /\ pc[w] = "running"
    BY <1>17 DEF Unwind, Step
  <2> QED
    BY <1>17, <2>1 DEF Unwind, Step, Fault, ReleaseOwn, serveVars
<1>12. ASSUME NEW t \in Task, ExpireLease(t) PROVE TypeInv'
  <2>1. faults' \subseteq FaultKinds
    <3>1. CASE Alive(holder[t])
      <4>1. Fault("stall")
        BY <1>12, <3>1 DEF ExpireLease
      <4> QED
        BY <4>1 DEF Fault
    <3>2. CASE ~Alive(holder[t])
      BY <1>12, <3>2 DEF ExpireLease
    <3> QED
      BY <3>1, <3>2
  <2> QED
    BY <1>12, <2>1 DEF ExpireLease, workerVars, serveVars
<1>13. CASE ServeCrash
  BY <1>13 DEF ServeCrash, Fault, Idle, dbVars, workerVars
<1>14. CASE ServeStop
  BY <1>14 DEF ServeStop, Fault, dbVars, workerVars
<1>15. CASE Drained
  BY <1>15 DEF Drained, dbVars
<1>16. CASE ServeStart
  BY <1>16 DEF ServeStart, dbVars, workerVars
<1> QED
  BY <1>1, <1>2, <1>3, <1>4, <1>5, <1>6, <1>7, <1>8, <1>9, <1>10, <1>11, <1>12, <1>13,
     <1>14, <1>15, <1>16, <1>17
     DEF Next, SchedulerStep, Dispatch

-----------------------------------------------------------------------------
(* The cap on processes *)

\* A spawn adds one worker to the active ones at most.
LEMMA SpawnBudget ==
  ASSUME IsFiniteSet(active), NEW t, Spawn(t)
  PROVE  /\ IsFiniteSet(active')
         /\ Cardinality(active') <= Cardinality(active) + 1
<1>1. CASE active' = active
  BY <1>1, FS_CardinalityType
<1>2. CASE active' # active
  <2>1. PICK w : active' = active \cup {w}
    BY <1>2 DEF Spawn
  <2> QED
    <3>1. IsFiniteSet(active \cup {w})
      BY FS_AddElement
    <3>2. Cardinality(active \cup {w}) =
            IF w \in active THEN Cardinality(active) ELSE Cardinality(active) + 1
      BY FS_AddElement
    <3>3. Cardinality(active) \in Nat
      BY FS_CardinalityType
    <3> QED
      BY <2>1, <3>1, <3>2, <3>3
<1> QED
  BY <1>1, <1>2

\* Recovery finds no more than it asks for.
LEMMA FoundSize ==
  ASSUME NEW n \in Nat, NEW found \in FindExpired(n)
  PROVE  IsFiniteSet(found) /\ Cardinality(found) <= n
<1> DEFINE expired == {t \in Task : status[t] = "in_progress" /\ lease[t] = "expired"}
<1>1. IsFiniteSet(expired)
  BY FS_Subset
<1>2. found \subseteq expired /\ Cardinality(found) <= n
  <2>1. Cardinality(expired) \in Nat
    BY <1>1, FS_CardinalityType
  <2>2. CASE Cardinality(expired) <= n
    BY <2>2 DEF FindExpired
  <2>3. CASE ~(Cardinality(expired) <= n)
    <3>1. found \in {f \in SUBSET expired : Cardinality(f) = n}
      BY <2>3 DEF FindExpired
    <3> QED
      BY <3>1
  <2> QED
    BY <2>2, <2>3
<1> QED
  BY <1>1, <1>2, FS_Subset

\* Every step keeps to the free slots that the tick counted.
LEMMA BudgetStep == TypeInv /\ Budget /\ [Next]_vars => Budget'
<1> SUFFICES ASSUME TypeInv, Budget, [Next]_vars PROVE Budget'
  OBVIOUS
<1>0. /\ FreeSlots \in Nat /\ FreeSlots + Cardinality(active) = MaxConcurrent
      /\ Cardinality(active) \in Nat /\ tick.slots \in Nat
      /\ IsFiniteSet(tick.todo) /\ Cardinality(tick.todo) \in Nat
  BY FS_CardinalityType, FS_Subset DEF TypeInv, TypeOK, Budget, FreeSlots
<1> USE DEF Budget
<1>1. CASE UNCHANGED <<active, tick>>
  BY <1>1
<1>2. CASE BeginTick
  <2>1. PICK found \in FindExpired(FreeSlots) :
          tick' = [phase |-> "recover", todo |-> found \ ActiveTasks,
                   claimed |-> {}, slots |-> 0, room |-> 0]
    BY <1>2 DEF BeginTick, Idle
  <2>2. Cardinality(found \ ActiveTasks) <= FreeSlots
    BY <1>0, FoundSize, FS_Subset, FS_CardinalityType
  <2> QED
    BY <1>0, <1>2, <2>1, <2>2, FS_CardinalityType, FoundSize, FS_Subset DEF BeginTick
<1>3. ASSUME NEW t \in Task, Recover(t) PROVE Budget'
  <2>1. Cardinality(tick.todo \ {t}) = Cardinality(tick.todo) - 1
    BY <1>0, <1>3, FS_RemoveElement DEF Recover
  <2>2. tick'.todo = tick.todo \ {t} /\ tick'.phase = "recover" /\ tick.phase = "recover"
    BY <1>3 DEF Recover, TypeInv, TypeOK
  <2>3. IsFiniteSet(active') /\ Cardinality(active') <= Cardinality(active) + 1
    BY <1>3, SpawnBudget DEF Recover
  <2>4. t \in tick.todo /\ Cardinality(tick.todo) >= 1
    BY <1>0, <1>3, <2>1, FS_RemoveElement, FS_CardinalityType, FS_Subset DEF Recover
  <2> QED
    BY <1>0, <2>1, <2>2, <2>3, <2>4, FS_CardinalityType
<1>4. ASSUME NEW t \in Task, GiveUp(t) PROVE Budget'
  <2>1. Cardinality(tick.todo \ {t}) <= Cardinality(tick.todo)
    BY <1>0, FS_Subset
  <2>2. tick'.todo = tick.todo \ {t} /\ tick'.phase = "recover" /\ tick.phase = "recover"
    BY <1>4 DEF GiveUp, TypeInv, TypeOK
  <2>3. IsFiniteSet(tick.todo \ {t})
    BY <1>0, FS_Subset
  <2> QED
    BY <1>0, <1>4, <2>1, <2>2, <2>3, FS_CardinalityType DEF GiveUp
<1>5. CASE BeginDispatch
  <2>1. UNCHANGED active
    BY <1>5 DEF BeginDispatch
  <2>2. CASE FreeSlots = 0
    BY <1>0, <1>5, <2>1, <2>2 DEF BeginDispatch, Idle
  <2>3. CASE FreeSlots # 0
    <3>1. tick'.phase = "dispatch" /\ tick'.slots = FreeSlots
      BY <1>5, <2>3 DEF BeginDispatch, Idle
    <3> QED
      BY <1>0, <2>1, <3>1
  <2> QED
    BY <2>2, <2>3
<1>6. ASSUME NEW t \in tick.todo, SkipPending(t), Dispatch PROVE Budget'
  BY <1>6 DEF SkipPending, Dispatch, TypeInv, TypeOK
<1>7. ASSUME NEW t \in tick.todo, DispatchPending(t), Dispatch PROVE Budget'
  <2>1. tick'.slots = tick.slots - 1 /\ tick'.phase = "dispatch" /\ tick.slots > 0
    BY <1>7 DEF DispatchPending, Dispatch, TypeInv, TypeOK
  <2>2. IsFiniteSet(active') /\ Cardinality(active') <= Cardinality(active) + 1
    BY <1>7, SpawnBudget DEF DispatchPending
  <2> QED
    BY <1>0, <1>7, <2>1, <2>2, FS_CardinalityType DEF Dispatch
<1>8. CASE EndTick /\ Dispatch
  BY <1>8 DEF EndTick, Dispatch, Idle
<1>9. ASSUME NEW w \in Worker, Reap(w) PROVE Budget'
  <2>1. IsFiniteSet(active') /\ Cardinality(active') <= Cardinality(active)
    BY <1>9, FS_Subset DEF Reap
  <2> QED
    BY <1>0, <1>9, <2>1, FS_CardinalityType DEF Reap
<1>10. CASE ServeCrash
  BY <1>10, FS_EmptySet DEF ServeCrash, Idle
<1>11. CASE Drained
  <2>1. IsFiniteSet(active') /\ Cardinality(active') = 0
    BY <1>11, FS_EmptySet DEF Drained
  <2> QED
    BY <1>0, <1>11, <2>1 DEF Drained
<1>13. ASSUME NEW w \in Worker, WorkerStep(w) \/ Crash(w) \/ Unwind(w) PROVE Budget'
  BY <1>1, <1>13 DEF WorkerStep, Crash, Unwind, Sweep, MissingPersona, StartAndClaim, GitReleases,
        GitFails, GitReady, Heartbeat, WallBudget, Finalize, Release, serveVars
<1>14. ASSUME NEW t \in Task, ExpireLease(t) PROVE Budget'
  BY <1>1, <1>14 DEF ExpireLease, serveVars
<1>15. CASE ServeStop \/ ServeStart
  BY <1>1, <1>15 DEF ServeStop, ServeStart
<1> QED
  BY <1>1, <1>2, <1>3, <1>4, <1>5, <1>6, <1>7, <1>8, <1>9, <1>10, <1>11, <1>13,
     <1>14, <1>15 DEF Next, SchedulerStep, Dispatch, vars, serveVars

\* No worker is active yet.
LEMMA BudgetInit == Init => Budget
  BY FS_EmptySet DEF Init, Budget, Idle

\* The types and the budget hold throughout.
LEMMA Bookkeeping == Spec => [](TypeInv /\ Budget)
<1>1. Init => TypeInv /\ Budget
  BY TypeInit, BudgetInit
<1>2. TypeInv /\ Budget /\ [Next]_vars => (TypeInv /\ Budget)'
  BY TypeStep, BudgetStep
<1> QED
  BY <1>1, <1>2, PTL DEF Spec

\* Every state of every behaviour has the declared types.
THEOREM TypeCorrect == Spec => []TypeOK
<1>1. TypeInv /\ Budget => TypeOK
  BY DEF TypeInv
<1> QED
  BY <1>1, Bookkeeping, PTL

\* The scheduler never runs more processes than max_concurrent_tasks, however
\* recovery, dispatch and reaping interleave.
THEOREM CapIsRespected == Spec => []CapRespected
<1>1. TypeInv /\ Budget => CapRespected
  BY DEF Budget, CapRespected
<1> QED
  BY <1>1, Bookkeeping, PTL

-----------------------------------------------------------------------------
(* What holds of the rows at every commit, whatever fails *)

LeaseRow == \A t \in Task : lease[t] = "none" <=> holder[t] = NoWorker
Stages ==
    \A w \in Worker :
        /\ pc[w] \in {"provisioning", "gitfail"} => job[w] \in GitTask
        /\ pc[w] = "finalized" /\ holder[job[w]] = w => status[job[w]] \in Terminal

Rows == LeaseRow /\ Stages /\ NoBrickedAgent /\ Recoverable /\ TerminalIsAnnounced

\* There are no rows yet.
LEMMA RowsInit == Init => Rows
  BY DEF Init, Rows, LeaseRow, Stages, NoBrickedAgent, Recoverable,
         TerminalIsAnnounced, Ordinary, Terminal

\* Who was unwound stays so: nothing more happens to its process.
LEMMA UnwoundStays ==
  ASSUME TypeInv, [Next]_vars, NEW t \in Task, Unwound(t)
  PROVE  Unwound(t)'
<1>1. PICK w \in Worker : pc[w] = "unwound" /\ job[w] = t
  BY DEF Unwound
<1> SUFFICES pc'[w] = pc[w] /\ job'[w] = job[w]
  BY <1>1 DEF Unwound
<1> USE DEF TypeInv, TypeOK
<1>2. CASE UNCHANGED <<pc, job>>
  BY <1>2
<1>3. ASSUME NEW u \in Task, Spawn(u) PROVE pc'[w] = pc[w] /\ job'[w] = job[w]
  BY <1>1, <1>3 DEF Spawn
<1>4. ASSUME NEW v \in Worker, WorkerStep(v) \/ Crash(v) \/ Unwind(v)
      PROVE  pc'[w] = pc[w] /\ job'[w] = job[w]
  <2>1. UNCHANGED job /\ pc[v] # "unwound" /\ \A x \in Worker \ {v} : pc'[x] = pc[x]
    <3>1. CASE Crash(v) \/ Unwind(v)
      BY <3>1 DEF Crash, Unwind, Alive, Step
    <3>2. CASE Sweep(v) \/ MissingPersona(v) \/ GitReleases(v) \/ GitFails(v) \/ GitReady(v)
      BY <3>2 DEF Sweep, MissingPersona, GitReleases, GitFails, GitReady, Step
    <3>3. CASE StartAndClaim(v)
      BY <3>3 DEF StartAndClaim, Step
    <3>4. CASE Heartbeat(v) \/ WallBudget(v) \/ Finalize(v) \/ Release(v)
      BY <3>4 DEF Heartbeat, WallBudget, Finalize, Release, Step
    <3> QED
      BY <1>4, <3>1, <3>2, <3>3, <3>4 DEF WorkerStep
  <2> QED
    BY <1>1, <2>1
<1>5. CASE Drained
  BY <1>1, <1>5 DEF Drained, Alive
<1> QED
  BY <1>2, <1>3, <1>4, <1>5 DEF Next, vars, dbVars, workerVars, SchedulerStep, BeginTick, Recover,
     GiveUp, BeginDispatch, Dispatch, SkipPending, DispatchPending, EndTick, Reap, ExpireLease,
     ServeCrash, ServeStop, ServeStart

\* A worker that only dies changes no row.
LEMMA RowsSame ==
  ASSUME Rows, UNCHANGED <<status, holder, lease, notice, row, job>>,
         \A t \in Task : Unwound(t) => Unwound(t)',
         \A w \in Worker : pc'[w] # pc[w] => pc'[w] = "gone"
  PROVE  Rows'
  BY DEF Rows, LeaseRow, Stages, NoBrickedAgent, Recoverable, TerminalIsAnnounced, Announced

\* A spawn leaves the rows of the tasks as they must be.
LEMMA SpawnRows ==
  ASSUME TypeInv, Rows, NEW t \in Task, Spawn(t), UNCHANGED <<holder, lease, notice, row>>,
         \A u \in Task : Unwound(u) => Unwound(u)'
  PROVE  Rows'
<1> USE DEF Rows, TypeInv, TypeOK, Assigned
<1>1. CASE t \in Unspawnable
  <2>1. /\ status' = [status EXCEPT ![t] = "failed"]
        /\ UNCHANGED <<pc, job>>
    BY <1>1 DEF Spawn
  <2>2. LeaseRow' /\ Recoverable'
    BY <2>1 DEF LeaseRow, Recoverable
  <2>3. Stages'
    BY <2>1 DEF Stages, Terminal
  <2>4. NoBrickedAgent'
    BY <2>1 DEF NoBrickedAgent
  <2>5. TerminalIsAnnounced'
    BY <1>1, <2>1 DEF TerminalIsAnnounced, Ordinary, Announced
  <2> QED
    BY <2>2, <2>3, <2>4, <2>5
<1>2. CASE t \notin Unspawnable
  <2>1. PICK w \in Worker : /\ pc[w] = "unused"
                            /\ pc' = [pc EXCEPT ![w] = "spawned"]
                            /\ job' = [job EXCEPT ![w] = t]
    BY <1>2 DEF Spawn
  <2>2. UNCHANGED status
    BY <1>2 DEF Spawn
  <2>3. LeaseRow' /\ Recoverable' /\ TerminalIsAnnounced'
    BY <2>2 DEF LeaseRow, Recoverable, TerminalIsAnnounced, Announced
  <2>4. Stages'
    BY <2>1, <2>2 DEF Stages
  <2>5. NoBrickedAgent'
    BY <2>1, <2>2 DEF NoBrickedAgent
  <2> QED
    BY <2>3, <2>4, <2>5
<1> QED
  BY <1>1, <1>2

\* What one worker's step does to the rows of its own task.
LEMMA WorkerRows ==
  ASSUME TypeInv, Rows, NEW w \in Worker, WorkerStep(w),
         \A t \in Task : Unwound(t) => Unwound(t)'
  PROVE  Rows'
<1> USE DEF TypeInv, TypeOK, Assigned, Step, Rows
<1>0. job[w] \in Task
  BY DEF WorkerStep, Sweep, MissingPersona, StartAndClaim, GitReleases, GitFails,
         GitReady, Heartbeat, WallBudget, Finalize, Release
<1>1. CASE Sweep(w)
  <2>1. \A v \in Worker : row'[v] = "open" => row[v] = "open"
    BY <1>1 DEF Sweep, CloseOrphans
  <2> QED
    BY <1>0, <1>1, <2>1 DEF Sweep, LeaseRow, Stages, NoBrickedAgent, Recoverable,
                            TerminalIsAnnounced, Announced
<1>2. CASE MissingPersona(w)
  <2>1. LeaseRow' /\ Recoverable' /\ NoBrickedAgent'
    BY <1>0, <1>2 DEF MissingPersona, LeaseRow, Recoverable, NoBrickedAgent
  <2>2. Stages'
    BY <1>0, <1>2 DEF MissingPersona, Stages, Terminal
  <2>3. TerminalIsAnnounced'
    BY <1>0, <1>2 DEF MissingPersona, TerminalIsAnnounced, Ordinary, Announced
  <2> QED
    BY <2>1, <2>2, <2>3
<1>3. CASE StartAndClaim(w)
  <2> DEFINE t == job[w]
  <2>1. CASE lease[t] = "live"
    <3>1. /\ UNCHANGED <<status, holder, lease, notice, row, job>>
          /\ pc' = [pc EXCEPT ![w] = "gone"]
      BY <1>3, <2>1 DEF StartAndClaim
    <3> QED
      BY <3>1, RowsSame
  <2>2. CASE lease[t] # "live"
    <3>1. /\ pc' = [pc EXCEPT ![w] = IF t \in GitTask THEN "provisioning" ELSE "running"]
          /\ row' = [row EXCEPT ![w] = "open"]
          /\ holder' = [holder EXCEPT ![t] = w]
          /\ lease' = [lease EXCEPT ![t] = "live"]
          /\ status' = [status EXCEPT ![t] = "in_progress"]
          /\ UNCHANGED <<notice, job>>
      BY <1>3, <2>2 DEF StartAndClaim
    <3>2. LeaseRow' /\ Recoverable'
      BY <1>0, <3>1 DEF LeaseRow, Recoverable
    <3>3. Stages'
      <4>1. SUFFICES ASSUME NEW v \in Worker
                     PROVE  /\ pc'[v] \in {"provisioning", "gitfail"} => job[v] \in GitTask
                            /\ pc'[v] = "finalized" /\ holder'[job[v]] = v => status'[job[v]] \in Terminal
        BY <3>1 DEF Stages
      <4>2. CASE v = w
        BY <3>1, <4>2
      <4>3. CASE v # w
        BY <1>0, <3>1, <4>3 DEF Stages
      <4> QED
        BY <4>2, <4>3
    <3>4. NoBrickedAgent'
      BY <1>0, <3>1 DEF NoBrickedAgent
    <3>5. TerminalIsAnnounced'
      BY <1>0, <3>1 DEF TerminalIsAnnounced, Announced, Terminal, Ordinary
    <3> QED
      BY <3>2, <3>3, <3>4, <3>5
  <2> QED
    BY <2>1, <2>2
<1>4. CASE GitReleases(w)
  <2>1. Recoverable'
    BY <1>0, <1>4 DEF GitReleases, ReleaseOwn, Recoverable
  <2>2. LeaseRow'
    BY <1>0, <1>4 DEF GitReleases, ReleaseOwn, LeaseRow
  <2>3. Stages'
    <3>1. \A v \in Worker : holder'[job[v]] = v /\ job[v] \in Task => holder[job[v]] = v
      <4>1. CASE holder[job[w]] = w
        <5>1. holder' = [holder EXCEPT ![job[w]] = NoWorker]
          BY <1>4, <4>1 DEF GitReleases, ReleaseOwn
        <5> QED
          BY <1>0, <5>1
      <4>2. CASE holder[job[w]] # w
        BY <1>0, <1>4, <4>2 DEF GitReleases, ReleaseOwn
      <4> QED
        BY <4>1, <4>2
    <3> QED
      BY <1>0, <1>4, <3>1 DEF GitReleases, Stages
  <2>4. NoBrickedAgent' /\ TerminalIsAnnounced'
    BY <1>4 DEF GitReleases, NoBrickedAgent, TerminalIsAnnounced, Announced
  <2> QED
    BY <2>1, <2>2, <2>3, <2>4
<1>5. CASE GitFails(w)
  <2>1. LeaseRow' /\ Recoverable' /\ NoBrickedAgent'
    BY <1>0, <1>5 DEF GitFails, LeaseRow, Recoverable, NoBrickedAgent
  <2>2. Stages'
    BY <1>0, <1>5 DEF GitFails, Stages, Terminal
  <2>3. TerminalIsAnnounced'
    BY <1>0, <1>5 DEF GitFails, TerminalIsAnnounced, Ordinary, Announced, Stages
  <2> QED
    BY <2>1, <2>2, <2>3
<1>6. CASE GitReady(w)
  BY <1>6 DEF GitReady, dbVars, LeaseRow, Stages, NoBrickedAgent, Recoverable,
              TerminalIsAnnounced, Announced
<1>7. CASE Heartbeat(w)
  <2>1. \A t \in Task : lease'[t] = "none" <=> lease[t] = "none"
    <3>1. CASE holder[job[w]] = w
      BY <1>0, <1>7, <3>1 DEF Heartbeat, LeaseRow
    <3>2. CASE holder[job[w]] # w
      BY <1>7, <3>2 DEF Heartbeat
    <3> QED
      BY <3>1, <3>2
  <2> QED
    BY <1>7, <2>1 DEF Heartbeat, LeaseRow, Stages, NoBrickedAgent, Recoverable,
                      TerminalIsAnnounced, Announced
<1>8. CASE WallBudget(w)
  BY <1>8, RowsSame DEF WallBudget, dbVars
<1>9. CASE Finalize(w)
  <2>1. PICK outcome \in Terminal : FencedOutcome(w, outcome)
    BY <1>9 DEF Finalize
  <2>2. \A t \in Task : notice'[t] = "none" => notice[t] = "none"
    BY <1>0, <2>1 DEF FencedOutcome, Emit, Terminal
  <2>3. CASE holder[job[w]] # w
    <3>1. UNCHANGED <<status, notice>>
      BY <2>1, <2>3 DEF FencedOutcome
    <3> QED
      BY <1>9, <2>3, <3>1 DEF Finalize, LeaseRow, Stages, NoBrickedAgent, Recoverable,
                              TerminalIsAnnounced, Announced
  <2>4. CASE holder[job[w]] = w
    <3>1. /\ status' = [status EXCEPT ![job[w]] = outcome]
          /\ notice' = Emit(job[w], outcome)
      BY <2>1, <2>4 DEF FencedOutcome
    <3>2. LeaseRow' /\ Recoverable' /\ NoBrickedAgent'
      BY <1>0, <1>9, <3>1 DEF Finalize, LeaseRow, Recoverable, NoBrickedAgent, Terminal
    <3>3. Stages'
      BY <1>0, <1>9, <3>1 DEF Finalize, Stages, Terminal
    <3>4. Announced(job[w], outcome) => notice'[job[w]] # "none"
      BY <1>0, <3>1 DEF Emit, Terminal
    <3>5. TerminalIsAnnounced'
      BY <1>0, <2>2, <3>1, <3>4 DEF TerminalIsAnnounced, Announced, Ordinary
    <3> QED
      BY <3>2, <3>3, <3>5
  <2> QED
    BY <2>3, <2>4
<1>10. CASE Release(w)
  <2>1. Recoverable'
    BY <1>0, <1>10 DEF Release, ReleaseOwn, Recoverable, Stages, Terminal
  <2>2. LeaseRow'
    BY <1>0, <1>10 DEF Release, ReleaseOwn, LeaseRow
  <2>3. Stages'
    <3>1. \A v \in Worker : holder'[job[v]] = v /\ job[v] \in Task => holder[job[v]] = v
      <4>1. CASE holder[job[w]] = w
        <5>1. holder' = [holder EXCEPT ![job[w]] = NoWorker]
          BY <1>10, <4>1 DEF Release, ReleaseOwn
        <5> QED
          BY <1>0, <5>1
      <4>2. CASE holder[job[w]] # w
        BY <1>0, <1>10, <4>2 DEF Release, ReleaseOwn
      <4> QED
        BY <4>1, <4>2
    <3> QED
      BY <1>0, <1>10, <3>1 DEF Release, Stages
  <2>4. NoBrickedAgent' /\ TerminalIsAnnounced'
    BY <1>10 DEF Release, NoBrickedAgent, TerminalIsAnnounced, Announced
  <2> QED
    BY <2>1, <2>2, <2>3, <2>4
<1> QED
  BY <1>1, <1>2, <1>3, <1>4, <1>5, <1>6, <1>7, <1>8, <1>9, <1>10 DEF WorkerStep

\* Giving back the lease without a Step 9 leaves the task to nobody, and says so.
LEMMA UnwindRows ==
  ASSUME TypeInv, Rows, NEW w \in Worker, Unwind(w),
         \A t \in Task : Unwound(t) => Unwound(t)'
  PROVE  Rows'
<1> USE DEF TypeInv, TypeOK, Assigned, Step, Rows
<1>1. job[w] \in Task /\ pc[w] = "running" /\ pc' = [pc EXCEPT ![w] = "unwound"]
  BY DEF Unwind
<1>2. Unwound(job[w])'
  BY <1>1 DEF Unwound, Unwind
<1>3. \A t \in Task \ {job[w]} : holder'[t] = holder[t] /\ lease'[t] = lease[t]
  BY <1>1 DEF Unwind, ReleaseOwn
<1>4. LeaseRow'
  BY <1>1 DEF Unwind, ReleaseOwn, LeaseRow
<1>5. Recoverable'
  BY <1>1, <1>2, <1>3 DEF Unwind, Recoverable
<1>6. Stages'
  <2>1. \A v \in Worker : holder'[job[v]] = v /\ job[v] \in Task => holder[job[v]] = v
    <3>1. CASE holder[job[w]] = w
      <4>1. holder' = [holder EXCEPT ![job[w]] = NoWorker]
        BY <3>1 DEF Unwind, ReleaseOwn
      <4> QED
        BY <1>1, <4>1
    <3>2. CASE holder[job[w]] # w
      BY <3>2 DEF Unwind, ReleaseOwn
    <3> QED
      BY <3>1, <3>2
  <2> QED
    BY <1>1, <2>1 DEF Unwind, Stages
<1>7. NoBrickedAgent' /\ TerminalIsAnnounced'
  BY DEF Unwind, NoBrickedAgent, TerminalIsAnnounced, Announced
<1> QED
  BY <1>4, <1>5, <1>6, <1>7

\* Every step leaves them so.
LEMMA RowsStep == TypeInv /\ Rows /\ [Next]_vars => Rows'
<1> SUFFICES ASSUME TypeInv, Rows, [Next]_vars PROVE Rows'
  OBVIOUS
<1>0. \A t \in Task : Unwound(t) => Unwound(t)'
  BY UnwoundStays
<1>1. CASE UNCHANGED <<dbVars, workerVars>>
  BY <1>0, <1>1, RowsSame DEF dbVars, workerVars
<1>2. CASE BeginTick \/ BeginDispatch \/ (Dispatch /\ EndTick)
  BY <1>1, <1>2 DEF BeginTick, BeginDispatch, EndTick
<1>3. ASSUME NEW t \in Task, Recover(t) PROVE Rows'
  BY <1>0, <1>3, SpawnRows DEF Recover
<1>4. ASSUME NEW t \in Task, GiveUp(t) PROVE Rows'
  <2> USE DEF TypeInv, TypeOK, Rows
  <2>1. /\ status' = [status EXCEPT ![t] = "failed"] /\ notice' = Emit(t, "failed")
        /\ row' = CloseOrphans(t) /\ UNCHANGED <<holder, lease, pc, job>>
    BY <1>4 DEF GiveUp, workerVars
  <2>2. LeaseRow' /\ Recoverable'
    BY <1>0, <2>1 DEF LeaseRow, Recoverable
  <2>3. Stages'
    BY <2>1 DEF Stages, Terminal
  <2>4. NoBrickedAgent'
    BY <2>1 DEF NoBrickedAgent, CloseOrphans
  <2>5. TerminalIsAnnounced'
    BY <2>1 DEF TerminalIsAnnounced, Announced, Emit, Ordinary
  <2> QED
    BY <2>2, <2>3, <2>4, <2>5
<1>5. ASSUME NEW t \in tick.todo, Dispatch, SkipPending(t) \/ DispatchPending(t) PROVE Rows'
  <2>1. t \in Task
    BY DEF TypeInv, TypeOK
  <2>2. CASE SkipPending(t)
    BY <1>1, <2>2 DEF SkipPending
  <2>3. CASE DispatchPending(t)
    BY <1>0, <2>1, <2>3, SpawnRows DEF DispatchPending
  <2> QED
    BY <1>5, <2>2, <2>3
<1>6. ASSUME NEW w \in Worker, WorkerStep(w) PROVE Rows'
  BY <1>0, <1>6, WorkerRows
<1>7. ASSUME NEW w \in Worker, Reap(w) \/ Crash(w) PROVE Rows'
  BY <1>0, <1>7, RowsSame DEF Reap, Crash, dbVars, workerVars, TypeInv, TypeOK
<1>10. ASSUME NEW w \in Worker, Unwind(w) PROVE Rows'
  BY <1>0, <1>10, UnwindRows
<1>8. ASSUME NEW t \in Task, ExpireLease(t) PROVE Rows'
  <2>1. \A u \in Task : lease'[u] = "none" <=> lease[u] = "none"
    BY <1>8 DEF ExpireLease, TypeInv, TypeOK
  <2> QED
    BY <1>0, <1>8, <2>1 DEF ExpireLease, workerVars, Rows, LeaseRow, Stages, NoBrickedAgent,
                      Recoverable, TerminalIsAnnounced, Announced
<1>9. CASE ServeCrash \/ ServeStop \/ Drained \/ ServeStart
  BY <1>0, <1>9, RowsSame DEF ServeCrash, ServeStop, Drained, ServeStart, dbVars, workerVars,
                        TypeInv, TypeOK
<1> QED
  BY <1>1, <1>2, <1>3, <1>4, <1>5, <1>6, <1>7, <1>8, <1>9, <1>10
     DEF Next, SchedulerStep, Dispatch, vars

\* What the rows say of each other holds throughout.
LEMMA Committed == Spec => [](TypeInv /\ Rows)
<1>1. TypeInv /\ Rows /\ [Next]_vars => Rows'
  BY RowsStep
<1> QED
  BY <1>1, RowsInit, Bookkeeping, PTL DEF Spec

\* No crash leaves an open wakeup row on a pending task: no agent is ever
\* locked out of dispatch.
THEOREM NeverBricked == Spec => []NoBrickedAgent
  BY Committed, PTL DEF Rows

\* A task in progress keeps a lease that recovery will find, through every
\* kill, stall and restart; only a worker that was unwound takes it away (and, on
\* the git provisioning path, one that is killed between two commits).
THEOREM AlwaysRecoverable == Spec => []Recoverable
  BY Committed, PTL DEF Rows

\* No crash separates a terminal status from the notice it calls for.
THEOREM TerminalAnnounced == Spec => []TerminalIsAnnounced
  BY Committed, PTL DEF Rows

-----------------------------------------------------------------------------
(* Fencing *)

\* A lease changes hands only when its holder gives it up or it has run out.
THEOREM HandoverIsClean == Spec => LeaseHandover
<1> DEFINE Clean(t) == holder[t] # NoWorker /\ holder'[t] # holder[t] =>
                          \/ lease[t] = "expired"
                          \/ holder'[t] = NoWorker /\ pc'[holder[t]] # pc[holder[t]]
<1>1. ASSUME TypeInv, Rows, [Next]_vars, NEW t \in Task, holder'[t] # holder[t]
      PROVE  Clean(t)
  <2>1. PICK w \in Worker : StartAndClaim(w) \/ GitReleases(w) \/ Release(w) \/ Unwind(w)
    BY <1>1 DEF Next, SchedulerStep, WorkerStep, vars, dbVars, BeginTick, Recover, GiveUp,
         BeginDispatch, Dispatch, SkipPending, DispatchPending, EndTick, Reap, Crash,
         ExpireLease, ServeCrash, ServeStop, Drained, ServeStart, Sweep, MissingPersona,
         GitFails, GitReady, Heartbeat, WallBudget, Finalize
  <2>2. CASE StartAndClaim(w)
    <3>1. t = job[w] /\ lease[t] # "live"
      BY <1>1, <2>2 DEF StartAndClaim, TypeInv, TypeOK
    <3> QED
      BY <1>1, <3>1 DEF TypeInv, TypeOK, Rows, LeaseRow
  <2>3. CASE GitReleases(w) \/ Release(w) \/ Unwind(w)
    <3>1. ReleaseOwn(w) /\ pc'[w] # pc[w]
      <4>1. CASE GitReleases(w)
        BY <1>1, <4>1 DEF GitReleases, Step, TypeInv, TypeOK
      <4>2. CASE Release(w)
        BY <1>1, <4>2 DEF Release, Step, TypeInv, TypeOK
      <4>3. CASE Unwind(w)
        BY <1>1, <4>3 DEF Unwind, Step, TypeInv, TypeOK
      <4> QED
        BY <2>3, <4>1, <4>2, <4>3
    <3>2. holder[job[w]] = w /\ holder' = [holder EXCEPT ![job[w]] = NoWorker]
      BY <1>1, <3>1 DEF ReleaseOwn
    <3> QED
      BY <1>1, <3>1, <3>2 DEF TypeInv, TypeOK
  <2> QED
    BY <2>1, <2>2, <2>3
<1>2. TypeInv /\ Rows /\ [Next]_vars => [\A t \in Task : Clean(t)]_vars
  BY <1>1
<1> QED
  BY <1>2, Committed, PTL DEF Spec, LeaseHandover

\* A worker that was superseded ends without a trace on the task it lost.
THEOREM SupersededHarmless == Spec => SupersededIsHarmless
<1> DEFINE Harmless(w) ==
        /\ pc[w] \in {"running", "finalized"} /\ holder[job[w]] # w
        /\ pc'[w] # pc[w]
        => /\ status'[job[w]] = status[job[w]] /\ lease'[job[w]] = lease[job[w]]
           /\ holder'[job[w]] = holder[job[w]] /\ notice'[job[w]] = notice[job[w]]
<1>1. ASSUME TypeInv, [Next]_vars, NEW w \in Worker,
             pc[w] \in {"running", "finalized"}, holder[job[w]] # w, pc'[w] # pc[w]
      PROVE  UNCHANGED <<status, lease, holder, notice>>
  <2> USE DEF TypeInv, TypeOK, Step
  <2>1. CASE \E v \in Worker : WorkerStep(v)
    <3>1. Finalize(w) \/ Release(w)
      BY <1>1, <2>1 DEF WorkerStep, Sweep, MissingPersona, StartAndClaim, GitReleases,
           GitFails, GitReady, Heartbeat, WallBudget, Finalize, Release
    <3>2. CASE Finalize(w)
      BY <1>1, <3>2 DEF Finalize, FencedOutcome
    <3>3. CASE Release(w)
      BY <1>1, <3>3 DEF Release, ReleaseOwn
    <3> QED
      BY <3>1, <3>2, <3>3 
  <2>2. CASE \E v \in Worker : Crash(v)
    BY <2>2 DEF Crash, dbVars
  <2>6. CASE \E v \in Worker : Unwind(v)
    <3>1. PICK v \in Worker : Unwind(v)
      BY <2>6
    <3>2. v = w
      BY <1>1, <3>1 DEF Unwind
    <3> QED
      BY <1>1, <3>1, <3>2 DEF Unwind, ReleaseOwn
  <2>3. CASE \E t \in Task : Spawn(t)
    BY <1>1, <2>3 DEF Spawn
  <2>4. CASE Drained
    BY <2>4 DEF Drained, dbVars
  <2>5. CASE UNCHANGED pc
    BY <1>1, <2>5
  <2> QED
    BY <1>1, <2>1, <2>2, <2>3, <2>4, <2>5, <2>6 DEF Next, SchedulerStep, vars, workerVars,
         BeginTick, Recover, GiveUp, BeginDispatch, Dispatch, SkipPending, DispatchPending,
         EndTick, Reap, ExpireLease, ServeCrash, ServeStop, ServeStart
<1>2. TypeInv /\ [Next]_vars => [\A w \in Worker : Harmless(w)]_vars
  BY <1>1
<1> QED
  BY <1>2, Bookkeeping, PTL DEF Spec, SupersededIsHarmless

-----------------------------------------------------------------------------
(* What holds until a serve process is killed *)

\* Every process is in the table of the serve process that runs, no two of them
\* have the same task, and no tick is about to start a task that has one.
Owned == ~Abandoned =>
    /\ \A w \in Worker : Alive(w) => w \in active
    /\ \A v, w \in active : job[v] = job[w] => v = w
    /\ serve = "down" => active = {}
    /\ \A t \in tick.todo, w \in active : job[w] # t

\* Neither a process nor a tick works on a task that is finished.
Unfinished == ~Abandoned =>
    /\ \A w \in Worker :
         pc[w] \in {"spawned", "swept", "provisioning", "running", "gitfail"}
            => status[job[w]] \in InFlight
    /\ \A t \in tick.todo : status[t] \in InFlight

\* Nobody owns a task yet.
LEMMA OwnedInit == Init => Owned /\ Unfinished
  BY DEF Init, Owned, Unfinished, Alive, Idle

\* The worker that a spawn starts owns its task alone.
LEMMA SpawnOwned ==
  ASSUME TypeInv, Owned, NEW t \in tick.todo, Spawn(t), serve = "up",
         tick' = [tick EXCEPT !.todo = tick.todo \ {t}] \/ tick'.todo = tick.todo \ {t},
         UNCHANGED <<serve, faults>>
  PROVE  Owned'
<1> USE DEF TypeInv, TypeOK, Assigned, Owned, Alive, Abandoned
<1>0. tick'.todo = tick.todo \ {t}
  OBVIOUS
<1>1. CASE t \in Unspawnable
  <2>1. UNCHANGED <<pc, job, active>>
    BY <1>1 DEF Spawn
  <2> QED
    BY <1>0, <2>1
<1>2. CASE t \notin Unspawnable
  <2>1. PICK w \in Worker : /\ pc[w] = "unused"
                            /\ pc' = [pc EXCEPT ![w] = "spawned"]
                            /\ job' = [job EXCEPT ![w] = t]
                            /\ active' = active \cup {w}
    BY <1>2 DEF Spawn
  <2>2. w \notin active
    BY <2>1
  <2> QED
    BY <1>0, <2>1, <2>2
<1> QED
  BY <1>1, <1>2

\* Every step keeps a task to one living worker.
LEMMA OwnedStep == TypeInv /\ Owned /\ [Next]_vars => Owned'
<1> SUFFICES ASSUME TypeInv, Owned, [Next]_vars PROVE Owned'
  OBVIOUS
<1> USE DEF TypeInv, TypeOK, Assigned, Owned, Alive, Abandoned
<1>1. CASE UNCHANGED <<pc, job, serve, active, tick, faults>>
  BY <1>1
<1>2. CASE BeginTick \/ BeginDispatch
  <2>0. \A u \in tick'.todo : u \notin ActiveTasks
    <3>1. CASE BeginTick
      BY <3>1 DEF BeginTick, Idle
    <3>2. CASE BeginDispatch
      <4>1. CASE FreeSlots = 0
        BY <3>2, <4>1, TickBegins
      <4>2. CASE FreeSlots # 0
        <5>1. tick'.todo = FindPending(OverFetch * FreeSlots) \ ActiveTasks
          BY <3>2, <4>2, TickBegins
        <5> QED
          BY <5>1
      <4> QED
        BY <4>1, <4>2
    <3> QED
      BY <1>2, <3>1, <3>2
  <2>1. \A u \in tick'.todo, w \in active : job[w] # u
    BY <2>0 DEF ActiveTasks
  <2> QED
    BY <1>2, <2>1 DEF BeginTick, BeginDispatch, workerVars
<1>3. ASSUME NEW t \in Task, Recover(t) PROVE Owned'
  BY <1>3, SpawnOwned DEF Recover
<1>4. ASSUME NEW t \in Task, GiveUp(t) PROVE Owned'
  BY <1>4 DEF GiveUp, workerVars
<1>5. ASSUME NEW t \in tick.todo, SkipPending(t), Dispatch PROVE Owned'
  BY <1>5 DEF SkipPending, Dispatch, workerVars
<1>6. ASSUME NEW t \in tick.todo, DispatchPending(t), Dispatch PROVE Owned'
  <2>1. tick'.todo = tick.todo \ {t}
    BY <1>6 DEF DispatchPending
  <2> QED
    BY <1>6, <2>1, SpawnOwned DEF DispatchPending, Dispatch
<1>7. CASE EndTick /\ Dispatch
  BY <1>7 DEF EndTick, Dispatch, Idle, workerVars
<1>8. ASSUME NEW w \in Worker, Reap(w) PROVE Owned'
  BY <1>8 DEF Reap, workerVars
<1>9. ASSUME NEW w \in Worker, WorkerStep(w) \/ Crash(w) \/ Unwind(w) PROVE Owned'
  <2>1. /\ UNCHANGED <<job, serve, active, tick>> /\ faults \subseteq faults'
        /\ \A v \in Worker : Alive(v)' => Alive(v)
    BY <1>9 DEF WorkerStep, Crash, Unwind, Fault, Sweep, MissingPersona, StartAndClaim, GitReleases,
          GitFails, GitReady, Heartbeat, WallBudget, Finalize, Release, serveVars, Step
  <2> QED
    BY <2>1
<1>10. ASSUME NEW t \in Task, ExpireLease(t) PROVE Owned'
  <2>1. UNCHANGED <<pc, job, serve, active, tick>> /\ faults \subseteq faults'
    BY <1>10 DEF ExpireLease, Fault, serveVars, workerVars
  <2> QED
    BY <2>1
<1>11. CASE ServeCrash
  BY <1>11 DEF ServeCrash, Fault
<1>12. CASE ServeStop
  BY <1>12 DEF ServeStop, Fault, workerVars
<1>13. CASE Drained
  BY <1>13 DEF Drained
<1>14. CASE ServeStart
  BY <1>14 DEF ServeStart, workerVars
<1> QED
  BY <1>1, <1>2, <1>3, <1>4, <1>5, <1>6, <1>7, <1>8, <1>9, <1>10, <1>11, <1>12, <1>13,
     <1>14 DEF Next, SchedulerStep, Dispatch, vars, workerVars, serveVars

\* Unless a serve process was killed, no two live processes share a task,
\* whatever else crashes, stalls or is recovered.
THEOREM ProcessPerTask == Spec => []OneProcessPerTask
<1>1. TypeInv /\ Owned => OneProcessPerTask
  BY DEF Owned, OneProcessPerTask, Abandoned
<1> QED
  BY <1>1, OwnedInit, OwnedStep, Bookkeeping, PTL DEF Spec

\* A fault that happened has happened.
LEMMA FaultsStay == [Next]_vars => faults \subseteq faults'
<1> SUFFICES ASSUME [Next]_vars PROVE faults \subseteq faults'
  OBVIOUS
<1>1. CASE UNCHANGED vars
  BY <1>1 DEF vars
<1>2. CASE SchedulerStep
  BY <1>2 DEF SchedulerStep, BeginTick, Recover, GiveUp, BeginDispatch, Dispatch
<1>3. ASSUME NEW w \in Worker, Reap(w) \/ WorkerStep(w) \/ Crash(w) \/ Unwind(w)
      PROVE  faults \subseteq faults'
  <2>1. CASE WorkerStep(w)
    BY <2>1 DEF WorkerStep, Sweep, MissingPersona, StartAndClaim, GitReleases, GitFails,
       GitReady, Heartbeat, WallBudget, Finalize, Release
  <2>2. CASE Reap(w) \/ Crash(w) \/ Unwind(w)
    BY <2>2 DEF Reap, Crash, Unwind, Fault
  <2> QED
    BY <1>3, <2>1, <2>2
<1>4. ASSUME NEW t \in Task, ExpireLease(t) PROVE faults \subseteq faults'
  BY <1>4 DEF ExpireLease, Fault
<1>5. CASE ServeCrash \/ ServeStop \/ Drained \/ ServeStart
  BY <1>5 DEF ServeCrash, ServeStop, Drained, ServeStart, Fault
<1> QED
  BY <1>1, <1>2, <1>3, <1>4, <1>5 DEF Next

\* What a process or a tick works on is not finished by another.
LEMMA UnfinishedStep == TypeInv /\ Owned /\ Unfinished /\ [Next]_vars => Unfinished'
<1> SUFFICES ASSUME TypeInv, Owned, Unfinished, [Next]_vars, ~Abandoned' PROVE Unfinished'
  BY DEF Unfinished
<1> USE DEF TypeInv, TypeOK, Assigned, Unfinished
<1>0. ~Abandoned
  BY FaultsStay DEF Abandoned
<1>1. CASE UNCHANGED <<status, pc, job, tick>>
  BY <1>0, <1>1
<1>2. CASE BeginTick \/ BeginDispatch
  <2>1. \A u \in tick'.todo : status[u] \in InFlight
    <3>1. CASE BeginTick
      <4>1. PICK found \in FindExpired(FreeSlots) : tick'.todo = found \ ActiveTasks
        BY <3>1 DEF BeginTick, Idle
      <4>2. \A u \in found : status[u] = "in_progress"
        BY DEF FindExpired
      <4> QED
        BY <4>1, <4>2 DEF InFlight
    <3>2. CASE BeginDispatch
      <4>1. tick'.todo = {} \/ tick'.todo = FindPending(OverFetch * FreeSlots) \ ActiveTasks
        <5>1. CASE FreeSlots = 0
          BY <3>2, <5>1, TickBegins
        <5>2. CASE FreeSlots # 0
          BY <3>2, <5>2, TickBegins
        <5> QED
          BY <5>1, <5>2
      <4>2. \A u \in FindPending(OverFetch * FreeSlots) : status[u] = "pending"
        BY DEF FindPending
      <4> QED
        BY <4>1, <4>2 DEF InFlight
    <3> QED
      BY <1>2, <3>1, <3>2
  <2> QED
    BY <1>0, <1>2, <2>1 DEF BeginTick, BeginDispatch, dbVars, workerVars
<1>3. ASSUME NEW t \in tick.todo, Spawn(t), tick'.todo = tick.todo \ {t} PROVE Unfinished'
  <2>1. CASE t \in Unspawnable
    <3>1. status' = [status EXCEPT ![t] = "failed"] /\ UNCHANGED <<pc, job>>
      BY <1>3, <2>1 DEF Spawn
    <3>2. \A w \in Worker : Alive(w) => job[w] # t
      BY <1>0, <1>3 DEF Owned
    <3> QED
      BY <1>0, <1>3, <3>1, <3>2 DEF Alive
  <2>2. CASE t \notin Unspawnable
    <3>1. PICK w \in Worker : /\ pc[w] = "unused"
                              /\ pc' = [pc EXCEPT ![w] = "spawned"]
                              /\ job' = [job EXCEPT ![w] = t]
      BY <1>3, <2>2 DEF Spawn
    <3>2. UNCHANGED status
      BY <1>3, <2>2 DEF Spawn
    <3>3. status[t] \in InFlight
      BY <1>0, <1>3
    <3>4. ASSUME NEW v \in Worker,
                 pc'[v] \in {"spawned", "swept", "provisioning", "running", "gitfail"}
          PROVE  status'[job'[v]] \in InFlight
      BY <1>0, <3>1, <3>2, <3>3, <3>4
    <3> QED
      BY <1>3, <1>0, <3>2, <3>4
  <2> QED
    BY <2>1, <2>2
<1>4. ASSUME NEW t \in Task, Recover(t) PROVE Unfinished'
  BY <1>3, <1>4 DEF Recover
<1>5. ASSUME NEW t \in Task, GiveUp(t) PROVE Unfinished'
  <2>1. \A w \in Worker : Alive(w) => job[w] # t
    BY <1>0, <1>5 DEF GiveUp, Owned
  <2> QED
    BY <1>0, <1>5, <2>1 DEF GiveUp, workerVars, Alive
<1>6. ASSUME NEW t \in tick.todo, SkipPending(t) PROVE Unfinished'
  BY <1>0, <1>6 DEF SkipPending, dbVars, workerVars
<1>7. ASSUME NEW t \in tick.todo, DispatchPending(t) PROVE Unfinished'
  <2>1. tick'.todo = tick.todo \ {t} /\ Spawn(t)
    BY <1>7 DEF DispatchPending
  <2> QED
    BY <1>3, <2>1
<1>8. CASE EndTick
  BY <1>0, <1>8 DEF EndTick, Idle, dbVars, workerVars
<1>9. ASSUME NEW w \in Worker, WorkerStep(w) PROVE Unfinished'
  <2>1. /\ Alive(w) /\ job[w] \in Task /\ UNCHANGED <<job, tick>>
        /\ \A t \in Task \ {job[w]} : status'[t] = status[t]
        /\ \A v \in Worker \ {w} : pc'[v] = pc[v]
    BY <1>9 DEF WorkerStep, Alive, Sweep, MissingPersona, StartAndClaim, GitReleases, GitFails,
          GitReady, Heartbeat, WallBudget, Finalize, FencedOutcome, Release, serveVars, dbVars, Step
  <2>2. \A v \in Worker \ {w} : Alive(v) => job[v] # job[w]
    BY <1>0, <2>1 DEF Owned
  <2>3. \A t \in tick.todo : t # job[w]
    BY <1>0, <2>1 DEF Owned
  <2>4. pc'[w] \in {"spawned", "swept", "provisioning", "running", "gitfail"}
          => status'[job[w]] \in InFlight
    <3>1. CASE StartAndClaim(w)
      BY <1>0, <2>1, <3>1 DEF StartAndClaim, Step, InFlight
    <3>2. CASE Sweep(w) \/ MissingPersona(w) \/ GitReleases(w) \/ GitFails(w) \/ GitReady(w)
      BY <1>0, <2>1, <3>2 DEF Sweep, MissingPersona, GitReleases, GitFails, GitReady, Step, dbVars
    <3>3. CASE Heartbeat(w) \/ WallBudget(w)
      BY <1>0, <2>1, <3>3 DEF Heartbeat, WallBudget, dbVars
    <3>4. CASE Finalize(w) \/ Release(w)
      BY <2>1, <3>4 DEF Finalize, Release, Step
    <3> QED
      BY <1>9, <3>1, <3>2, <3>3, <3>4 DEF WorkerStep
  <2>5. ASSUME NEW v \in Worker,
               pc'[v] \in {"spawned", "swept", "provisioning", "running", "gitfail"}
        PROVE  status'[job'[v]] \in InFlight
    <3>1. CASE v = w
      BY <2>1, <2>4, <2>5, <3>1
    <3>2. CASE v # w
      <4>1. Alive(v) /\ status[job[v]] \in InFlight /\ job[v] \in Task
        BY <1>0, <2>1, <2>5, <3>2 DEF Alive
      <4> QED
        BY <2>1, <2>2, <3>2, <4>1
    <3> QED
      BY <3>1, <3>2
  <2>6. \A t \in tick'.todo : status'[t] \in InFlight
    BY <1>0, <2>1, <2>3
  <2> QED
    BY <2>5, <2>6
<1>10. ASSUME NEW w \in Worker, Crash(w) \/ Unwind(w) PROVE Unfinished'
  BY <1>0, <1>10 DEF Crash, Unwind, Step, dbVars, serveVars
<1>11. CASE ServeCrash
  BY <1>0, <1>11 DEF ServeCrash, Idle, dbVars, workerVars
<1>12. CASE Drained
  BY <1>0, <1>12 DEF Drained, dbVars
<1>13. CASE ServeStop \/ ServeStart \/ (\E t \in Task : ExpireLease(t)) \/ (\E w \in Worker : Reap(w))
  BY <1>1, <1>13 DEF ServeStop, ServeStart, ExpireLease, Reap, dbVars, workerVars, serveVars
<1> QED
  BY <1>1, <1>2, <1>4, <1>5, <1>6, <1>7, <1>8, <1>9, <1>10, <1>11, <1>12, <1>13
     DEF Next, SchedulerStep, Dispatch, vars, dbVars, workerVars, serveVars

\* A worker at work has its wakeup row open: nothing but its own end closes it.
RowStaysOpen == ~Abandoned =>
    \A w \in Worker : pc[w] \in {"provisioning", "running"} => row[w] = "open"

\* The wakeup of a worker that lives stays open.
LEMMA RowStaysOpenStep ==
  TypeInv /\ Owned /\ RowStaysOpen /\ [Next]_vars => RowStaysOpen'
<1> SUFFICES ASSUME TypeInv, Owned, RowStaysOpen, [Next]_vars, ~Abandoned'
             PROVE  RowStaysOpen'
  BY DEF RowStaysOpen
<1> USE DEF TypeInv, TypeOK, Assigned, RowStaysOpen
<1>0. ~Abandoned
  BY FaultsStay DEF Abandoned
<1>1. CASE UNCHANGED <<pc, row>>
  BY <1>0, <1>1
<1>2. ASSUME UNCHANGED row, \A w \in Worker : pc'[w] # pc[w] => pc'[w] \in {"gone", "unwound", "spawned"}
      PROVE  RowStaysOpen'
  BY <1>0, <1>2
<1>3. ASSUME NEW t \in Task, Spawn(t), UNCHANGED row PROVE RowStaysOpen'
  BY <1>2, <1>3 DEF Spawn
<1>4. ASSUME NEW t \in Task, GiveUp(t) PROVE RowStaysOpen'
  <2>1. \A w \in Worker : Alive(w) => job[w] # t
    BY <1>0, <1>4 DEF GiveUp, Owned
  <2> QED
    BY <1>0, <1>4, <2>1 DEF GiveUp, CloseOrphans, workerVars, Alive
<1>5. ASSUME NEW w \in Worker, WorkerStep(w) PROVE RowStaysOpen'
  <2> USE DEF Step
  <2>1. CASE Sweep(w)
    <3>1. \A v \in Worker \ {w} : Alive(v) => job[v] # job[w]
      BY <1>0, <2>1 DEF Owned, Sweep, Alive
    <3> QED
      BY <1>0, <2>1, <3>1 DEF Sweep, CloseOrphans, Alive
  <2>2. CASE StartAndClaim(w)
    <3>1. CASE lease[job[w]] = "live"
      BY <1>0, <2>2, <3>1 DEF StartAndClaim
    <3>2. CASE lease[job[w]] # "live"
      BY <1>0, <2>2, <3>2 DEF StartAndClaim
    <3> QED
      BY <3>1, <3>2
  <2>3. CASE GitReady(w)
    BY <1>0, <2>3 DEF GitReady, dbVars
  <2>4. CASE Finalize(w)
    BY <1>0, <2>4 DEF Finalize
  <2>5. CASE MissingPersona(w) \/ GitReleases(w) \/ GitFails(w) \/ Release(w)
    BY <1>0, <2>5 DEF MissingPersona, GitReleases, GitFails, Release
  <2>6. CASE Heartbeat(w) \/ WallBudget(w)
    BY <1>1, <2>6 DEF Heartbeat, WallBudget, dbVars
  <2> QED
    BY <1>5, <2>1, <2>2, <2>3, <2>4, <2>5, <2>6 DEF WorkerStep
<1>6. ASSUME NEW w \in Worker, Crash(w) \/ Unwind(w) PROVE RowStaysOpen'
  BY <1>2, <1>6 DEF Crash, Unwind, Step, dbVars
<1>7. CASE Drained
  BY <1>2, <1>7 DEF Drained, dbVars
<1>8. ASSUME NEW t \in tick.todo, DispatchPending(t) PROVE RowStaysOpen'
  <2>1. t \in Task
    OBVIOUS
  <2> QED
    BY <1>3, <1>8, <2>1 DEF DispatchPending
<1> QED
  BY <1>1, <1>3, <1>4, <1>5, <1>6, <1>7, <1>8
     DEF Next, SchedulerStep, Dispatch, vars, dbVars, workerVars, BeginTick, BeginDispatch,
         Recover, SkipPending, EndTick, Reap, ExpireLease, ServeCrash, ServeStop, ServeStart

\* Unless a serve process was killed, the gate that keeps agents sequential sees
\* every wakeup that is at work.
THEOREM RunningVisible == Spec => []RunningIsVisible
<1>1. Init => RowStaysOpen
  BY DEF Init, RowStaysOpen
<1>2. TypeInv /\ Owned /\ Unfinished /\ RowStaysOpen => RunningIsVisible
  BY DEF TypeInv, Assigned, Unfinished, RowStaysOpen, RunningIsVisible, HasActive
<1>3. TypeInv /\ Owned /\ Unfinished /\ [Next]_vars => Owned' /\ Unfinished'
  BY OwnedStep, UnfinishedStep
<1> QED
  BY <1>1, <1>2, <1>3, OwnedInit, RowStaysOpenStep, Bookkeeping, PTL DEF Spec

-----------------------------------------------------------------------------
(* Refinement of TaskLifecycle *)

\* The new tables are those of the contract.
LEMMA LifecycleInit == Init => Contract!Init
  BY DEF Init, Contract!Init, Ordinary, Abandoned

\* The three ways a step can look from outside.
LEMMA AsStart ==
  ASSUME TypeOK, NEW t \in Task, status[t] = "pending" \/ Abandoned,
         status' = [status EXCEPT ![t] = "in_progress"], UNCHANGED <<notice, faults>>
  PROVE  [Contract!Next]_(Contract!vars)
<1>1. CASE t \in Ordinary
  <2>1. Contract!Start(t)
    BY <1>1 DEF Contract!Start, Abandoned, TypeOK, Ordinary
  <2> QED
    BY <1>1, <2>1 DEF Contract!Next
<1>2. CASE t \notin Ordinary
  BY <1>2 DEF Contract!vars, Abandoned, TypeOK, Ordinary
<1> QED
  BY <1>1, <1>2

\* A task that takes its last status, with its notice, finishes in the contract.
LEMMA AsFinish ==
  ASSUME TypeOK, NEW t \in Task, NEW o \in Terminal, status[t] \in InFlight \/ Abandoned,
         status' = [status EXCEPT ![t] = o], notice' = Emit(t, o), UNCHANGED faults
  PROVE  [Contract!Next]_(Contract!vars)
<1>1. CASE t \in Ordinary
  <2>1. Contract!Finish(t, o)
    <3>1. Abandoned' = Abandoned /\ (status[t] \in InFlight => status[t] \notin Terminal)
      BY DEF Abandoned, InFlight, Terminal
    <3>2. notice' = IF Announced(t, o) /\ notice[t] = "none"
                    THEN [notice EXCEPT ![t] = o] ELSE notice
      BY DEF Emit
    <3>3. [s \in Ordinary |-> status[s]][t] \notin Terminal \/ Abandoned
      BY <1>1, <3>1
    <3>4. [s \in Ordinary |-> status'[s]] = [[s \in Ordinary |-> status[s]] EXCEPT ![t] = o]
      BY <1>1 DEF TypeOK, Ordinary
    <3>5. /\ Announced(t, o) <=> <<t, o>> \in {to \in Ordinary \X Terminal : Announced(to[1], to[2])}
          /\ [s \in Ordinary |-> notice[s]][t] = notice[t]
      BY <1>1
    <3>6. [s \in Ordinary |-> notice'[s]] =
             IF Announced(t, o) /\ notice[t] = "none"
             THEN [[s \in Ordinary |-> notice[s]] EXCEPT ![t] = o] ELSE [s \in Ordinary |-> notice[s]]
      <4>1. CASE Announced(t, o) /\ notice[t] = "none"
        <5>1. notice' = [notice EXCEPT ![t] = o]
          BY <3>2, <4>1
        <5> QED
          BY <1>1, <4>1, <5>1 DEF TypeOK, Ordinary
      <4>2. CASE ~(Announced(t, o) /\ notice[t] = "none")
        BY <3>2, <4>2
      <4> QED
        BY <4>1, <4>2
    <3> QED
      BY <1>1, <3>1, <3>3, <3>4, <3>5, <3>6 DEF Contract!Finish, Contract!Outcome, Terminal
  <2> QED
    BY <1>1, <2>1 DEF Contract!Next, Contract!Outcome, Terminal
<1>2. CASE t \notin Ordinary
  BY <1>2 DEF Contract!vars, Abandoned, TypeOK, Ordinary, Emit
<1> QED
  BY <1>1, <1>2

\* What leaves the status and the notices alone is nothing to the contract.
LEMMA AsNothing ==
  ASSUME TypeOK, \A t \in Ordinary : status'[t] = status[t], UNCHANGED notice,
         UNCHANGED faults \/ (\E k \in FaultKinds : Fault(k))
  PROVE  [Contract!Next]_(Contract!vars)
<1>1. CASE Abandoned' = Abandoned
  BY <1>1 DEF Contract!vars
<1>2. CASE Abandoned' # Abandoned
  <2>1. Contract!Abandon
    BY <1>2 DEF Contract!Abandon, Abandoned, Fault
  <2> QED
    BY <2>1 DEF Contract!Next
<1> QED
  BY <1>1, <1>2

\* Every step is a step of the contract, or none.
LEMMA LifecycleStep ==
  TypeInv /\ Rows /\ Unfinished /\ [Next]_vars => [Contract!Next]_(Contract!vars)
<1> SUFFICES ASSUME TypeInv, Rows, Unfinished, [Next]_vars
             PROVE  [Contract!Next]_(Contract!vars)
  OBVIOUS
<1> USE DEF TypeInv
<1>1. CASE UNCHANGED <<status, notice, faults>>
  BY <1>1, AsNothing
<1>2. ASSUME NEW t \in Task, Spawn(t), UNCHANGED <<notice, faults>>
      PROVE  [Contract!Next]_(Contract!vars)
  <2>1. \A u \in Ordinary : status'[u] = status[u]
    BY <1>2 DEF Spawn, Ordinary, TypeOK
  <2> QED
    BY <1>2, <2>1, AsNothing
<1>3. ASSUME NEW t \in Task, Recover(t) PROVE [Contract!Next]_(Contract!vars)
  BY <1>2, <1>3 DEF Recover
<1>4. ASSUME NEW t \in Task, GiveUp(t) PROVE [Contract!Next]_(Contract!vars)
  <2>1. status[t] \in InFlight \/ Abandoned
    BY <1>4 DEF GiveUp, Unfinished
  <2> QED
    BY <1>4, <2>1, AsFinish DEF GiveUp, Terminal
<1>5. ASSUME NEW t \in tick.todo, DispatchPending(t), Dispatch
      PROVE  [Contract!Next]_(Contract!vars)
  <2>1. t \in Task
    BY DEF TypeOK
  <2> QED
    BY <1>2, <1>5, <2>1 DEF DispatchPending, Dispatch
<1>6. ASSUME NEW w \in Worker, WorkerStep(w) PROVE [Contract!Next]_(Contract!vars)
  <2>0. job[w] \in Task
    BY <1>6 DEF WorkerStep, Sweep, MissingPersona, StartAndClaim, GitReleases, GitFails,
          GitReady, Heartbeat, WallBudget, Finalize, Release, Step, Assigned
  <2>1. CASE StartAndClaim(w)
    <3>1. CASE lease[job[w]] = "live"
      BY <1>1, <2>1, <3>1 DEF StartAndClaim
    <3>2. CASE lease[job[w]] # "live"
      <4>1. status' = [status EXCEPT ![job[w]] = "in_progress"] /\ UNCHANGED <<notice, faults>>
        BY <2>1, <3>2 DEF StartAndClaim
      <4>2. CASE status[job[w]] = "in_progress"
        BY <1>1, <4>1, <4>2 DEF TypeOK
      <4>3. CASE status[job[w]] # "in_progress"
        <5>1. status[job[w]] = "pending" \/ Abandoned
          BY <2>1, <4>3 DEF Unfinished, StartAndClaim, InFlight
        <5> QED
          BY <2>0, <4>1, <5>1, AsStart
      <4> QED
        BY <4>2, <4>3
    <3> QED
      BY <3>1, <3>2
  <2>2. CASE MissingPersona(w) \/ GitFails(w)
    <3>1. job[w] \in Broken \cup GitTask
      BY <2>2 DEF MissingPersona, GitFails, Step, Rows, Stages
    <3>2. status' = [status EXCEPT ![job[w]] = "failed"] /\ UNCHANGED <<notice, faults>>
      BY <2>2 DEF MissingPersona, GitFails
    <3>3. \A u \in Ordinary : status'[u] = status[u]
      BY <3>1, <3>2 DEF Ordinary, TypeOK
    <3> QED
      BY <3>2, <3>3, AsNothing
  <2>3. CASE Finalize(w)
    <3>1. PICK outcome \in Terminal : FencedOutcome(w, outcome)
      BY <2>3 DEF Finalize
    <3>2. CASE holder[job[w]] # w
      BY <1>1, <2>3, <3>1, <3>2 DEF Finalize, FencedOutcome
    <3>3. CASE holder[job[w]] = w
      <4>1. /\ status' = [status EXCEPT ![job[w]] = outcome]
            /\ notice' = Emit(job[w], outcome) /\ UNCHANGED faults
        BY <2>3, <3>1, <3>3 DEF Finalize, FencedOutcome
      <4>2. status[job[w]] \in InFlight \/ Abandoned
        BY <2>3 DEF Unfinished, Finalize, Step
      <4> QED
        BY <2>0, <4>1, <4>2, AsFinish
    <3> QED
      BY <3>2, <3>3
  <2>4. CASE UNCHANGED <<status, notice, faults>>
    BY <1>1, <2>4
  <2> QED
    BY <1>6, <2>1, <2>2, <2>3, <2>4 DEF WorkerStep, Sweep, GitReleases, GitReady, Heartbeat,
        WallBudget, Release, dbVars
<1>7. ASSUME UNCHANGED <<status, notice>>, UNCHANGED faults \/ (\E k \in FaultKinds : Fault(k))
      PROVE  [Contract!Next]_(Contract!vars)
  BY <1>7, AsNothing
<1>8. ASSUME NEW w \in Worker, Crash(w) \/ Unwind(w) PROVE [Contract!Next]_(Contract!vars)
  BY <1>7, <1>8 DEF Crash, Unwind, dbVars, Fault
<1>9. ASSUME NEW t \in Task, ExpireLease(t) PROVE [Contract!Next]_(Contract!vars)
  <2>1. UNCHANGED faults \/ Fault("stall")
    BY <1>9 DEF ExpireLease
  <2> QED
    BY <1>7, <1>9, <2>1 DEF ExpireLease, Fault
<1>10. CASE ServeCrash \/ ServeStop
  BY <1>7, <1>10 DEF ServeCrash, ServeStop, Fault, dbVars
<1> QED
  BY <1>1, <1>3, <1>4, <1>5, <1>6, <1>8, <1>9, <1>10
     DEF Next, SchedulerStep, Dispatch, vars, dbVars, BeginTick, BeginDispatch, SkipPending,
         EndTick, Reap, Drained, ServeStart

\* The parts of the invariant hold together throughout.
LEMMA Orderly == Spec => [](TypeInv /\ Rows /\ Owned /\ Unfinished)
<1>1. Init => Owned /\ Unfinished
  BY OwnedInit
<1>2. TypeInv /\ Owned /\ Unfinished /\ [Next]_vars => Owned' /\ Unfinished'
  BY OwnedStep, UnfinishedStep
<1> QED
  BY <1>1, <1>2, Committed, PTL DEF Spec

\* The scheduler and its workers implement TaskLifecycle: a task is finished
\* once, together with its notice, unless a serve process was killed.
THEOREM ImplementsLifecycle == Spec => Lifecycle
<1>1. TypeInv /\ Rows /\ Unfinished /\ [Next]_vars => [Contract!Next]_(Contract!vars)
  BY LifecycleStep
<1> QED
  BY <1>1, LifecycleInit, Orderly, PTL DEF Spec, Lifecycle, Contract!Spec

\* The outcome that was announced is the outcome the task has: it follows from
\* the contract alone.
THEOREM NoticeIsTrue == Spec => []NoticeTellsOutcome
<1> DEFINE Matches == ~Abandoned =>
      \A t \in Ordinary : notice[t] # "none" => notice[t] = status[t]
<1>1. Init => Matches
  BY DEF Init, Ordinary
<1>2. TypeOK /\ Matches /\ [Contract!Next]_(Contract!vars) => Matches'
  <2> SUFFICES ASSUME TypeOK, Matches, [Contract!Next]_(Contract!vars), ~Abandoned',
                      NEW t \in Ordinary, notice'[t] # "none"
               PROVE  notice'[t] = status'[t]
    OBVIOUS
  <2>0. t \in Task /\ notice[t] \in Terminal \cup {"none"}
    BY DEF Ordinary, TypeOK
  <2> DEFINE S == [u \in Ordinary |-> status[u]]
             N == [u \in Ordinary |-> notice[u]]
  <2>1. S'[t] = status'[t] /\ N'[t] = notice'[t] /\ S[t] = status[t] /\ N[t] = notice[t]
    OBVIOUS
  <2>2. CASE UNCHANGED Contract!vars
    <3>1. S' = S /\ N' = N /\ ~Abandoned
      BY <2>2 DEF Contract!vars
    <3> QED
      BY <2>1, <3>1
  <2>3. CASE Contract!Next
    <3>0. ~Abandoned
      BY <2>3 DEF Contract!Next, Contract!Start, Contract!Finish, Contract!Abandon
    <3>1. ASSUME NEW u \in Ordinary, Contract!Start(u) PROVE N'[t] = S'[t]
      <4>1. /\ S[u] = "pending" /\ S' = [S EXCEPT ![u] = "in_progress"] /\ N' = N
        BY <3>0, <3>1 DEF Contract!Start
      <4>2. t # u
        BY <2>0, <2>1, <3>0, <4>1 DEF Terminal
      <4> QED
        BY <2>1, <3>0, <4>1, <4>2
    <3>2. ASSUME NEW u \in Ordinary, NEW o \in Contract!Outcome, Contract!Finish(u, o)
          PROVE  N'[t] = S'[t]
      <4>1. /\ S[u] \notin Contract!Outcome /\ S' = [S EXCEPT ![u] = o]
            /\ N' = N \/ (N[u] = "none" /\ N' = [N EXCEPT ![u] = o])
        BY <3>0, <3>2 DEF Contract!Finish
      <4>2. CASE t = u
        BY <2>0, <2>1, <3>0, <4>1, <4>2 DEF Contract!Outcome, Terminal
      <4>3. CASE t # u
        BY <2>1, <3>0, <4>1, <4>3
      <4> QED
        BY <4>2, <4>3
    <3>3. CASE Contract!Abandon
      BY <3>3 DEF Contract!Abandon
    <3> QED
      BY <2>1, <2>3, <3>1, <3>2, <3>3 DEF Contract!Next
  <2> QED
    BY <2>2, <2>3
<1>3. Matches => NoticeTellsOutcome
  BY DEF NoticeTellsOutcome
<1>4. TypeInv /\ Rows /\ Unfinished /\ [Next]_vars => [Contract!Next]_(Contract!vars)
  BY LifecycleStep
<1>5. TypeInv => TypeOK
  BY DEF TypeInv
<1> QED
  BY <1>1, <1>2, <1>3, <1>4, <1>5, Orderly, PTL DEF Spec

-----------------------------------------------------------------------------
(* The properties that the runs check, from their parts *)

\* No kill, stall, recovery or restart strands a task in progress without a lease to
\* recover it by, or leaves an open wakeup row on a pending task; only a worker that is
\* unwound (scheduler.py 2346) and the git provisioning (2024) leave a task stranded.
THEOREM NothingIsStranded == Spec => []NothingStranded
  BY NeverBricked, AlwaysRecoverable, PTL DEF NothingStranded

\* Who waits for the end of a task is told of it, and of the end it had.
THEOREM NoticesHold == Spec => []NoticeHolds
  BY TerminalAnnounced, NoticeIsTrue, PTL DEF NoticeHolds

\* A lease has one holder at a time, and whom it was taken from is powerless.
THEOREM LeaseFences == Spec => Fencing
  BY HandoverIsClean, SupersededHarmless, PTL DEF Fencing

\* Unless a serve process was killed, who works on a task is alone at it and
\* known to the gate that keeps its agent sequential.
THEOREM WorkIsExclusive == Spec => []Exclusive
  BY ProcessPerTask, RunningVisible, PTL DEF Exclusive

\* The processes of a scheduler are within its cap and, unless one was killed,
\* one to a task.
THEOREM ProcessesCounted == Spec => []ProcessesAreCounted
  BY CapIsRespected, ProcessPerTask, PTL DEF ProcessesAreCounted

=============================================================================
