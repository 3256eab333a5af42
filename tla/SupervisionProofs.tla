-------------------------- MODULE SupervisionProofs -------------------------
(***************************************************************************)
(* Proofs of what SupervisionProps states, for every policy, every limit   *)
(* and every number of tasks, requests and crashes.                        *)
(***************************************************************************)
EXTENDS SupervisionProps, SequenceTheorems, FiniteSetTheorems, TLAPS

(* Sequences and finite sets *)

\* A row is added at the end.
LEMMA SeqAdd ==
  ASSUME NEW S, NEW s \in Seq(S), NEW e \in S
  PROVE  /\ Append(s, e) \in Seq(S)
         /\ DOMAIN Append(s, e) = DOMAIN s \cup {Len(s) + 1}
         /\ Len(Append(s, e)) = Len(s) + 1
         /\ Len(s) + 1 \notin DOMAIN s
         /\ Append(s, e)[Len(s) + 1] = e
         /\ \A j \in DOMAIN s : Append(s, e)[j] = s[j]
  OBVIOUS

\* A row of a table is replaced.
LEMMA SeqSet ==
  ASSUME NEW S, NEW s \in Seq(S), NEW i \in DOMAIN s, NEW e \in S
  PROVE  /\ [s EXCEPT ![i] = e] \in Seq(S)
         /\ DOMAIN [s EXCEPT ![i] = e] = DOMAIN s
         /\ Len([s EXCEPT ![i] = e]) = Len(s)
         /\ [s EXCEPT ![i] = e][i] = e
         /\ \A j \in DOMAIN s : j # i => [s EXCEPT ![i] = e][j] = s[j]
  BY ExceptSeq

\* The rows that satisfy a condition are finitely many.
LEMMA RowsFinite ==
  ASSUME NEW S, NEW s \in Seq(S), NEW T \in SUBSET DOMAIN s
  PROVE  IsFiniteSet(T) /\ Cardinality(T) \in Nat
<1>1. DOMAIN s = 1..Len(s) /\ Len(s) \in Nat
  OBVIOUS
<1>2. IsFiniteSet(1..Len(s))
  BY <1>1, FS_Interval
<1> QED
  BY <1>1, <1>2, FS_Subset, FS_CardinalityType

\* A set with no two members has at most one.
LEMMA AtMostOne ==
  ASSUME NEW T, IsFiniteSet(T), \A x, y \in T : x = y
  PROVE  Cardinality(T) <= 1
<1>1. CASE T = {}
  BY <1>1, FS_EmptySet
<1>2. CASE T # {}
  <2>1. PICK x : T = {x}
    BY <1>2
  <2> QED
    BY <2>1, FS_Singleton
<1> QED
  BY <1>1, <1>2

\* Two sets together have no more members than one and the other.
LEMMA UnionBound ==
  ASSUME NEW S, NEW T, IsFiniteSet(S), IsFiniteSet(T)
  PROVE  Cardinality(S \cup T) <= Cardinality(S) + Cardinality(T)
<1>1. IsFiniteSet(S \cap T)
  BY FS_Intersection
<1>2. Cardinality(S \cup T) = Cardinality(S) + Cardinality(T) - Cardinality(S \cap T)
  BY FS_Union
<1>3. Cardinality(S) \in Nat /\ Cardinality(T) \in Nat /\ Cardinality(S \cap T) \in Nat
  BY <1>1, FS_CardinalityType
<1> QED
  BY <1>2, <1>3

-----------------------------------------------------------------------------

USE SupervisionAssumption

\* What the scheduler holds between two commits is still there.
Held ==
    /\ sched.at = "found" => task # <<>>
    /\ sched.at \in {"read", "bump", "rerun", "giveup"} => sched.task \in DOMAIN task

TaskRow   == [status: InFlight \cup Over, flagged: BOOLEAN, of: Nat]
Counters  == [count: Nat, total: Nat, start: -1..MaxTime]
Grants    == [time: 0..MaxTime, charged: BOOLEAN]
Phase     == {"idle", "found", "read", "bump", "rerun", "giveup"}
SchedRow(time) == [at: Phase, now: 0..time, task: Nat, outcome: InFlight \cup Over]
Notices(rows)  == {"escalation"} \X {0} \cup {"failed"} \X rows

\* TypeOK with its parts named, for the provers to take apart
Types ==
    /\ policy \in Policy /\ now \in 0..MaxTime
    /\ agent \in {"live", "reaped", "storm_halted", "manual"}
    /\ task \in Seq(TaskRow)
    /\ intensity \in Counters
    /\ mail \subseteq Notices(DOMAIN task)
    /\ sched \in SchedRow(now)
    /\ crashes \in 0..MaxCrashes
    /\ granted \in Seq(Grants)

AskingType == asking \in BOOLEAN

TypeInv == Types /\ Held

\* A notice is inserted with the archival, and no reaping is under way then.
Told ==
    mail # {} => agent # "live" /\ sched.at \notin {"found", "read"}

Restarted(j) == task[j].of # 0 /\ task[j].status \in InFlight

\* The reaper starts from a state with no work left, and only requests that
\* were under way can add to it until it decides.
Sole ==
    /\ sched.at \in {"found", "read"} => \A j \in DOMAIN task : ~Restarted(j)
    /\ \A i, j \in DOMAIN task : Restarted(i) /\ Restarted(j) => i = j

Charged(history) == {k \in DOMAIN history : history[k].charged}

TimedIn(history, period) == {k \in DOMAIN history : history[k].time \in period}

\* No charged re-run goes uncounted.
Counted ==
    /\ Cardinality(Charged(granted)) <= intensity.total
    /\ MaxTotal # 0 => Cardinality(Charged(granted)) <= MaxTotal

Width(t) == t..(t + MaxSeconds)

\* Nothing was granted before the first window opened. Since then what was
\* granted lies in the open window, which the counter bounds, or before it; and the
\* max_seconds before it hold no more than the window that was open then.
Window ==
    /\ intensity.start <= now
    /\ sched.at \in {"found", "read"} => intensity.start <= sched.now
    /\ intensity.start = -1 => granted = <<>>
    /\ intensity.start # -1 =>
          /\ \A k \in DOMAIN granted : granted[k].time <= intensity.start + MaxSeconds
          /\ Cardinality(TimedIn(granted, Width(intensity.start))) <= intensity.count
          /\ Cardinality(TimedIn(granted, Width(intensity.start))) <= MaxRestarts
          /\ Cardinality(TimedIn(granted, (intensity.start - MaxSeconds)..(intensity.start - 1)))
                <= MaxRestarts
    /\ \A t \in Nat : Cardinality(TimedIn(granted, Width(t))) <= 2 * MaxRestarts

-----------------------------------------------------------------------------
(* Rows *)

\* The columns of a task that a step writes, one at a time.
LEMMA RowUpdates ==
  ASSUME NEW row \in TaskRow
  PROVE  /\ \A status \in InFlight \cup Over :
              /\ [row EXCEPT !.status = status] \in TaskRow
              /\ [row EXCEPT !.status = status].status = status
              /\ [row EXCEPT !.status = status].of = row.of
         /\ [row EXCEPT !.flagged = TRUE] \in TaskRow
         /\ [row EXCEPT !.flagged = TRUE].status = row.status
         /\ [row EXCEPT !.flagged = TRUE].of = row.of
  BY DEF TaskRow

\* A task is new.
LEMMA NewRow ==
  ASSUME NEW of \in Nat
  PROVE  New(of) \in TaskRow /\ New(of).of = of /\ New(of).status = "pending"
  BY DEF TaskRow, New, InFlight, Over

\* The bump keeps the counters' types; a count is at least one after it.
LEMMA BumpedType ==
  ASSUME intensity \in Counters, NEW charged \in BOOLEAN, NEW at \in 0..MaxTime
  PROVE  Bumped(charged, at) \in Counters
  BY DEF Counters, Bumped, Elapsed

\* A restart that is granted is added to the history.
LEMMA GrantType ==
  ASSUME granted \in Seq(Grants), NEW charged \in BOOLEAN, NEW at \in 0..MaxTime,
         Grant(charged, at)
  PROVE  granted' \in Seq(Grants)
<1>1. [time |-> at, charged |-> charged] \in Grants
  BY DEF Grants
<1> QED
  BY <1>1, SeqAdd DEF Grant

\* More tasks can be told of more.
LEMMA NoticesGrow ==
  ASSUME NEW rows, NEW more, rows \subseteq more
  PROVE  /\ Notices(rows) \subseteq Notices(more)
         /\ <<"escalation", 0>> \in Notices(rows)
         /\ \A i \in rows : <<"failed", i>> \in Notices(rows)
  BY DEF Notices

\* Every value that the scheduler's record takes is of its type.
LEMMA SchedRests ==
  ASSUME NEW time \in Nat
  PROVE  Resting \in SchedRow(time) /\ Resting.at = "idle"
  BY DEF SchedRow, Phase, Over, Resting

\* A record of the scheduler is one of any later time.
LEMMA SchedAges ==
  ASSUME NEW time \in Nat, NEW row \in SchedRow(time)
  PROVE  row \in SchedRow(time + 1)
  BY DEF SchedRow

\* The scheduler goes on to its next phase.
LEMMA SchedMoves ==
  ASSUME NEW time \in Nat, NEW row \in SchedRow(time), NEW at \in Phase,
         NEW next, next = [row EXCEPT !.at = at]
  PROVE  /\ next \in SchedRow(time) /\ next.at = at
         /\ next.task = row.task /\ next.now = row.now
  BY DEF SchedRow

\* The scheduler takes up a task.
LEMMA SchedRows ==
  ASSUME NEW time \in Nat, NEW at \in Phase, NEW since \in 0..time, NEW i \in Nat,
         NEW status \in InFlight \cup Over
  PROVE  [at |-> at, now |-> since, task |-> i, outcome |-> status] \in SchedRow(time)
  BY DEF SchedRow

\* What one step does to the tasks: nothing, a new task, or one task's status
\* or flag, and a task that is over stays over.
TaskStep ==
    \/ UNCHANGED task
    \/ /\ asking
       /\ task' = Append(task, New(0)) /\ UNCHANGED sched
    \/ /\ sched.at = "read" /\ sched' = Resting
       /\ task' = Append(task, New(sched.task))
    \/ \E i \in DOMAIN task : \E row \in TaskRow :
          /\ task' = [task EXCEPT ![i] = row]
          /\ row.of = task[i].of
          /\ row.status \in InFlight => task[i].status \in InFlight
          /\ sched' \in {sched, Resting}

\* Every step does one of these.
LEMMA TaskSteps == TypeInv /\ [Next]_vars => TaskStep
<1> SUFFICES ASSUME TypeInv, [Next]_vars PROVE TaskStep
  OBVIOUS
<1>1. CASE Dispatch
  BY <1>1 DEF Dispatch, TaskStep
<1>2. CASE Restart
  BY <1>2 DEF Restart, TaskStep
<1>3. CASE Rerun
  <2> DEFINE status == IF task[sched.task].status = "expired" THEN "running" ELSE task[sched.task].status
             row == [task[sched.task] EXCEPT !.status = status]
  <2>1. sched.task \in DOMAIN task /\ task \in Seq(TaskRow)
    BY <1>3 DEF Rerun, TypeInv, Types, Held
  <2>5. task[sched.task] \in TaskRow
    BY <2>1
  <2>2. status \in InFlight \cup Over
    BY <2>5 DEF TaskRow, InFlight
  <2>3. row \in TaskRow /\ row.of = task[sched.task].of /\ row.status = status
    BY <2>2, <2>5, RowUpdates
  <2>4. task' = [task EXCEPT ![sched.task] = row] /\ sched' = Resting
    BY <1>3 DEF Rerun
  <2> HIDE DEF row
  <2> QED
    BY <2>1, <2>3, <2>4 DEF TaskStep, InFlight
<1>4. CASE GiveUp
  <2> DEFINE row == [task[sched.task] EXCEPT !.status = "failed"]
  <2>1. sched.task \in DOMAIN task /\ task \in Seq(TaskRow)
    BY <1>4 DEF GiveUp, TypeInv, Types, Held
  <2>4. task[sched.task] \in TaskRow
    BY <2>1
  <2>2. row \in TaskRow /\ row.of = task[sched.task].of /\ row.status = "failed"
    BY <2>4, RowUpdates DEF Over
  <2>3. task' = [task EXCEPT ![sched.task] = row] /\ sched' = Resting
    BY <1>4 DEF GiveUp
  <2> HIDE DEF row
  <2> QED
    BY <2>1, <2>2, <2>3 DEF TaskStep, InFlight
<1>5. ASSUME NEW i \in DOMAIN task, NEW from \in InFlight, NEW to \in InFlight \cup Over,
             Moves(i, from, to), UNCHANGED sched
      PROVE  TaskStep
  <2> DEFINE row == [task[i] EXCEPT !.status = to]
  <2>1. task[i] \in TaskRow
    BY DEF TypeInv, Types
  <2>2. row \in TaskRow /\ row.of = task[i].of /\ row.status = to
    BY <2>1, RowUpdates
  <2>3. task' = [task EXCEPT ![i] = row] /\ task[i].status \in InFlight
    BY <1>5 DEF Moves
  <2> HIDE DEF row
  <2> QED
    BY <1>5, <2>2, <2>3 DEF TaskStep
<1>6. ASSUME NEW i \in DOMAIN task, Work(i) \/ LeaseExpires(i) \/ Unwind(i) \/ Renew(i) PROVE TaskStep
  BY <1>5, <1>6 DEF Work, LeaseExpires, Unwind, Renew, InFlight, Over
<1>7. ASSUME NEW i \in DOMAIN task, Cancel(i) PROVE TaskStep
  <2> DEFINE row == [task[i] EXCEPT !.flagged = TRUE]
  <2>1. task[i] \in TaskRow
    BY DEF TypeInv, Types
  <2>2. row \in TaskRow /\ row.of = task[i].of /\ row.status = task[i].status
    BY <2>1, RowUpdates
  <2>3. task' = [task EXCEPT ![i] = row] /\ UNCHANGED sched
    BY <1>7 DEF Cancel
  <2> HIDE DEF row
  <2> QED
    BY <2>2, <2>3 DEF TaskStep
<1>8. CASE \/ UNCHANGED vars \/ Ask \/ Archive \/ TimePasses \/ ServeCrash \/ Find \/ ReadLatest
           \/ Reap \/ BumpRecovery \/ \E i \in DOMAIN task : FindExpired(i)
  BY <1>8 DEF vars, Ask, Archive, TimePasses, ServeCrash, Find, ReadLatest, Reap, BumpRecovery,
              FindExpired, TaskStep
<1> QED
  BY <1>1, <1>2, <1>3, <1>4, <1>6, <1>7, <1>8 DEF Next, Scheduler

\* No task is ever deleted.
LEMMA TasksGrow ==
  ASSUME TypeInv, [Next]_vars
  PROVE  /\ task' \in Seq(TaskRow)
         /\ DOMAIN task \subseteq DOMAIN task'
         /\ task # <<>> => task' # <<>>
<1>1. TaskStep
  BY TaskSteps
<1>2. task \in Seq(TaskRow) /\ sched.task \in Nat
  BY DEF TypeInv, Types, SchedRow
<1>3. ASSUME NEW of \in Nat, task' = Append(task, New(of)) 
      PROVE  /\ task' \in Seq(TaskRow) /\ DOMAIN task \subseteq DOMAIN task' /\ task' # <<>>
  <2>1. New(of) \in TaskRow
    BY NewRow
  <2> QED
    BY <1>2, <1>3, <2>1, SeqAdd
<1>4. ASSUME NEW i \in DOMAIN task, NEW row \in TaskRow, task' = [task EXCEPT ![i] = row] 
      PROVE  /\ task' \in Seq(TaskRow) /\ DOMAIN task = DOMAIN task' /\ task' # <<>>
  BY <1>2, <1>4, SeqSet
<1> QED
  BY <1>1, <1>2, <1>3, <1>4 DEF TaskStep

-----------------------------------------------------------------------------
(* Types, and what the scheduler holds *)

\* The types hold when the system is new.
LEMMA TypeInit == Init => TypeInv
<1> SUFFICES ASSUME Init PROVE TypeInv
  OBVIOUS
<1>1. sched \in SchedRow(now) /\ sched.at = "idle"
  BY SchedRests DEF Init
<1>2. intensity \in Counters
  BY DEF Init, NoWindow, Counters
<1> QED
  BY <1>1, <1>2 DEF Init, TypeInv, Types, Held

\* Every step keeps the types.
LEMMA TypeStep == TypeInv /\ [Next]_vars => TypeInv'
<1> SUFFICES ASSUME TypeInv, [Next]_vars PROVE TypeInv'
  OBVIOUS
<1>1. /\ task' \in Seq(TaskRow) /\ DOMAIN task \subseteq DOMAIN task'
      /\ task # <<>> => task' # <<>>
  BY TasksGrow
<1>2. /\ mail \subseteq Notices(DOMAIN task') /\ <<"escalation", 0>> \in Notices(DOMAIN task')
      /\ \A i \in DOMAIN task : <<"failed", i>> \in Notices(DOMAIN task')
  BY <1>1, NoticesGrow DEF TypeInv, Types
<1>19. now \in Nat
  BY DEF TypeInv, Types
<1>3. now \in Nat /\ Resting \in SchedRow(now) /\ Resting.at = "idle"
  BY <1>19, SchedRests
<1> USE DEF TypeInv, Types, Held
<1>4. CASE UNCHANGED vars
  BY <1>4 DEF vars
<1>5. CASE Ask \/ Archive
  BY <1>5 DEF Ask, Archive
<1>6. CASE TimePasses
  <2>1. sched \in SchedRow(now')
    BY <1>3, <1>6, SchedAges DEF TimePasses
  <2> QED
    BY <1>6, <2>1 DEF TimePasses
<1>7. CASE ServeCrash
  BY <1>3, <1>7 DEF ServeCrash
<1>8. CASE Dispatch
  BY <1>1, <1>2, <1>8 DEF Dispatch
<1>9. CASE Find
  <2>1. sched' \in SchedRow(now) /\ sched'.at = "found"
    BY <1>3, <1>9, SchedRows DEF Find, Phase, Over
  <2> QED
    BY <1>9, <2>1 DEF Find, Reapable
<1>10. CASE ReadLatest
  <2>1. task # <<>>
    BY <1>10 DEF ReadLatest
  <2>2. Len(task) \in DOMAIN task /\ Len(task) \in Nat /\ task[Len(task)] \in TaskRow
    BY <2>1
  <2>3. task[Len(task)].status \in InFlight \cup Over
    BY <2>2 DEF TaskRow
  <2>5. sched.now \in 0..now
    BY DEF SchedRow
  <2>4. sched' \in SchedRow(now) /\ sched'.at = "read" /\ sched'.task = Len(task)
    BY <1>3, <1>10, <2>2, <2>3, <2>5, SchedRows DEF ReadLatest, Phase
  <2> QED
    BY <1>10, <2>2, <2>4 DEF ReadLatest
<1>11. sched.now \in 0..MaxTime
  BY DEF SchedRow
<1>12. CASE Restart
  <2>1. intensity' \in Counters
    BY <1>11, <1>12, BumpedType DEF Restart
  <2>2. granted' \in Seq(Grants)
    BY <1>11, <1>12, GrantType DEF Restart
  <2>3. /\ agent' \in {"live", "reaped", "storm_halted", "manual"}
        /\ mail' \subseteq mail \cup {<<"escalation", 0>>}
        /\ sched' = Resting /\ UNCHANGED <<policy, now, crashes>>
    BY <1>12 DEF Restart, ArchiveAs
  <2> QED
    BY <1>1, <1>2, <1>3, <2>1, <2>2, <2>3
<1>13. CASE Reap
  <2>1. /\ agent' \in {"live", "reaped", "storm_halted", "manual"}
        /\ sched' = Resting /\ UNCHANGED <<policy, now, crashes, task, intensity, granted>>
    BY <1>13 DEF Reap, ArchiveAs
  <2>2. mail' \subseteq Notices(DOMAIN task')
    BY <1>2, <1>13 DEF Reap
  <2> QED
    BY <1>3, <2>1, <2>2
<1>14. CASE BumpRecovery
  <2>1. intensity' \in Counters
    BY <1>14, BumpedType DEF BumpRecovery
  <2>2. granted' \in Seq(Grants)
    BY <1>14, GrantType DEF BumpRecovery
  <2>3. \E at \in {"rerun", "giveup"} : sched' = [sched EXCEPT !.at = at]
    BY <1>14 DEF BumpRecovery
  <2>4. /\ sched'.at \in {"rerun", "giveup"} /\ sched'.task = sched.task
        /\ sched' \in SchedRow(now)
    BY <1>3, <2>3, SchedMoves DEF Phase
  <2> QED
    BY <1>14, <2>1, <2>2, <2>4 DEF BumpRecovery
<1>15. CASE Rerun
  BY <1>1, <1>2, <1>3, <1>15 DEF Rerun
<1>16. CASE GiveUp
  <2>1. /\ agent' \in {"live", "reaped", "storm_halted", "manual"}
        /\ mail' = mail \cup {<<"escalation", 0>>}
        /\ sched' = Resting /\ UNCHANGED <<policy, now, crashes, intensity, granted>>
    BY <1>16 DEF GiveUp, ArchiveAs
  <2> QED
    BY <1>1, <1>2, <1>3, <2>1
<1>17. ASSUME NEW i \in DOMAIN task, FindExpired(i) PROVE TypeInv'
  <2>1. i \in Nat
    OBVIOUS
  <2>2. sched' \in SchedRow(now) /\ sched'.at = "bump" /\ sched'.task = i
    BY <1>3, <1>17, <2>1, SchedRows DEF FindExpired, Phase, Over
  <2> QED
    BY <1>17, <2>2 DEF FindExpired
<1>18. ASSUME NEW i \in DOMAIN task, Work(i) \/ LeaseExpires(i) \/ Unwind(i) \/ Renew(i) \/ Cancel(i)
       PROVE  TypeInv'
  <2>1. UNCHANGED <<policy, now, agent, intensity, mail, sched, crashes, granted>>
    BY <1>18 DEF Work, LeaseExpires, Unwind, Renew, Cancel
  <2> QED
    BY <1>1, <1>2, <2>1
<1> QED
  BY <1>4, <1>5, <1>6, <1>7, <1>8, <1>9, <1>10, <1>12, <1>13, <1>14, <1>15, <1>16, <1>17, <1>18
     DEF Next, Scheduler

\* Every variable keeps its type, and the task that the scheduler decided on exists
\* when it acts on it, whatever happened in between (scheduler.py 986-1040, 1083-1140).
THEOREM TypesHold == Spec => []TypeOK
<1>1. Init => AskingType
  BY DEF Init, AskingType
<1>2. AskingType /\ [Next]_vars => AskingType'
  BY Zenon DEF AskingType, Next, vars, Ask, Dispatch, Archive, TimePasses, Scheduler, Find,
     ReadLatest, Restart, Reap, BumpRecovery, Rerun, GiveUp, FindExpired, ServeCrash, Work,
     LeaseExpires, Unwind, Renew, Cancel
<1>3. TypeInv /\ AskingType => TypeOK
  BY Zenon DEF TypeInv, Types, AskingType, TypeOK, TaskRow, Counters, Grants, Phase, SchedRow, Notices
<1> QED
  BY <1>1, <1>2, <1>3, TypeInit, TypeStep, PTL DEF Spec

-----------------------------------------------------------------------------
(* What the supervisor is told *)

\* A bump is over when the next phase decides.
LEMMA AfterBump ==
  ASSUME Types, BumpRecovery
  PROVE  sched'.at \in {"rerun", "giveup"}
<1>1. PICK at \in {"rerun", "giveup"} : sched' = [sched EXCEPT !.at = at]
  BY DEF BumpRecovery
<1>2. now \in Nat /\ sched \in SchedRow(now)
  BY DEF Types
<1> QED
  BY <1>1, <1>2, SchedMoves DEF Phase

\* Nobody has been told of anything yet.
LEMMA ToldInit == Init => Told
  BY DEF Init, Told, Resting

\* A notice is inserted with the archival.
LEMMA ToldStep == Types /\ Told /\ [Next]_vars => Told'
<1> SUFFICES ASSUME Types, Told, [Next]_vars PROVE Told'
  OBVIOUS
<1> USE DEF Told
<1>1. CASE UNCHANGED vars
  BY <1>1 DEF vars
<1>2. CASE Ask \/ Dispatch \/ Archive \/ TimePasses
  BY <1>2 DEF Ask, Dispatch, Archive, TimePasses
<1>3. CASE Find \/ ReadLatest
  BY <1>3 DEF Find, ReadLatest, Reapable
<1>4. CASE Restart \/ Reap \/ GiveUp
  BY <1>4 DEF Restart, Reap, GiveUp, ArchiveAs, Resting
<1>5. CASE BumpRecovery
  BY <1>5, AfterBump DEF BumpRecovery
<1>6. CASE Rerun \/ ServeCrash
  BY <1>6 DEF Rerun, ServeCrash, Resting
<1>7. ASSUME NEW i \in DOMAIN task, FindExpired(i) PROVE Told'
  BY <1>7 DEF FindExpired
<1>8. ASSUME NEW i \in DOMAIN task, Work(i) \/ LeaseExpires(i) \/ Unwind(i) \/ Renew(i) \/ Cancel(i)
      PROVE  Told'
  BY <1>8 DEF Work, LeaseExpires, Unwind, Renew, Cancel
<1> QED
  BY <1>1, <1>2, <1>3, <1>4, <1>5, <1>6, <1>7, <1>8 DEF Next, Scheduler

\* An agent that was archived stays archived.
LEMMA ArchivedForGood == agent # "live" /\ [Next]_vars => agent' # "live"
<1> SUFFICES ASSUME agent # "live", [Next]_vars PROVE agent' # "live"
  OBVIOUS
<1>1. CASE Archive \/ Restart \/ Reap \/ GiveUp
  BY <1>1 DEF Archive, Restart, Reap, GiveUp, ArchiveAs
<1>2. CASE UNCHANGED agent
  BY <1>2
<1> QED
  BY <1>1, <1>2 DEF Next, Scheduler, vars, Ask, Dispatch, TimePasses, ServeCrash, Find, ReadLatest,
     BumpRecovery, Rerun, FindExpired, Work, LeaseExpires, Unwind, Renew, Cancel

\* What the supervisor was told is final, for every policy and every interleaving of the
\* reaper's two commits with dispatches, manual archivals and crashes: the agent of an
\* escalation or a failure notice is archived and no restart follows
\* (scheduler.py 986-1081, 1083-1140; sqlite_impl.py 2591-2651).
THEOREM ToldIsFinal == Spec => ToldMeansOver
<1> DEFINE Final == mail # {} => /\ agent # "live" /\ agent' # "live"
                                 /\ \A j \in DOMAIN task' \ DOMAIN task : task'[j].of = 0
<1>1. TypeInv /\ Told /\ [Next]_vars => Final
  <2> SUFFICES ASSUME TypeInv, Told, [Next]_vars, mail # {}
               PROVE  /\ agent # "live" /\ agent' # "live"
                      /\ \A j \in DOMAIN task' \ DOMAIN task : task'[j].of = 0
    OBVIOUS
  <2>1. agent # "live" /\ sched.at # "read"
    BY DEF Told
  <2>2. agent' # "live"
    BY <2>1, ArchivedForGood
  <2>3. task \in Seq(TaskRow)
    BY DEF TypeInv, Types
  <2>4. ASSUME NEW j \in DOMAIN task' \ DOMAIN task PROVE task'[j].of = 0
    <3>1. CASE task' = Append(task, New(0))
      <4>1. New(0) \in TaskRow /\ New(0).of = 0
        BY NewRow
      <4>2. task'[j] = New(0)
        BY <2>3, <3>1, <4>1, SeqAdd
      <4> QED
        BY <4>1, <4>2
    <3>2. CASE DOMAIN task' = DOMAIN task
      BY <3>2
    <3> QED
      BY <2>1, <2>3, <3>1, <3>2, TaskSteps, SeqSet DEF TaskStep
  <2> QED
    BY <2>1, <2>2, <2>4
<1>2. TypeInv => Types
  BY DEF TypeInv
<1>3. ToldMeansOver <=> [][Final]_vars
  BY DEF ToldMeansOver
<1>4. TypeInv /\ Told /\ [Next]_vars => [Final]_vars
  BY <1>1
<1> QED
  BY <1>2, <1>3, <1>4, TypeInit, TypeStep, ToldInit, ToldStep, PTL DEF Spec

-----------------------------------------------------------------------------
(* One restart at a time *)

\* The reaper starts where every task is over.
LEMMA OnlyFindFinds ==
  ASSUME Types, [Next]_vars, sched.at \notin {"found", "read"}, sched'.at \in {"found", "read"}
  PROVE  \A j \in DOMAIN task : task[j].status \in Over
<1>1. CASE Find
  BY <1>1 DEF Find, Reapable
<1>2. CASE BumpRecovery
  BY <1>2, AfterBump
<1>3. CASE sched' = Resting
  BY <1>3 DEF Resting
<1>4. CASE UNCHANGED sched
  BY <1>4
<1>5. CASE ReadLatest \/ \E i \in DOMAIN task : FindExpired(i)
  BY <1>5 DEF ReadLatest, FindExpired
<1> QED
  BY <1>1, <1>2, <1>3, <1>4, <1>5 DEF Next, Scheduler, vars, Ask, Dispatch, Archive, TimePasses,
     ServeCrash, Restart, Reap, Rerun, GiveUp, Work, LeaseExpires, Unwind, Renew, Cancel

\* There is no task to restart yet.
LEMMA SoleInit == Init => Sole
  BY DEF Init, Sole, Resting

\* The reaper finds no re-run in flight when it grants one.
LEMMA SoleStep == TypeInv /\ Sole /\ [Next]_vars => Sole'
<1> SUFFICES ASSUME TypeInv, Sole, [Next]_vars PROVE Sole'
  OBVIOUS
<1>1. task \in Seq(TaskRow)
  BY DEF TypeInv, Types
<1> Types
  BY DEF TypeInv
<1>2. CASE UNCHANGED task
  <2>1. \A j \in DOMAIN task : Restarted(j)' <=> Restarted(j)
    BY <1>2 DEF Restarted
  <2>2. CASE sched'.at \in {"found", "read"} /\ sched.at \notin {"found", "read"}
    <3>1. \A j \in DOMAIN task : task[j].status \in Over
      BY <2>2, OnlyFindFinds
    <3>2. \A j \in DOMAIN task : ~Restarted(j)
      BY <3>1 DEF Restarted, Over, InFlight
    <3> QED
      BY <1>2, <2>1, <3>2 DEF Sole
  <2> QED
    BY <1>2, <2>1, <2>2 DEF Sole
<1>3. CASE task' = Append(task, New(0)) /\ UNCHANGED sched
  <2>1. New(0) \in TaskRow /\ New(0).of = 0
    BY NewRow
  <2>2. /\ DOMAIN task' = DOMAIN task \cup {Len(task) + 1}
        /\ \A j \in DOMAIN task : task'[j] = task[j]
        /\ task'[Len(task) + 1] = New(0)
    BY <1>1, <1>3, <2>1, SeqAdd
  <2>3. \A j \in DOMAIN task' : Restarted(j)' => j \in DOMAIN task /\ Restarted(j)
    BY <2>1, <2>2 DEF Restarted
  <2> QED
    BY <1>3, <2>3 DEF Sole
<1>4. CASE sched.at = "read" /\ sched' = Resting /\ task' = Append(task, New(sched.task))
  <2>1. sched.task \in Nat
    BY DEF TypeInv, Types, SchedRow
  <2>2. New(sched.task) \in TaskRow
    BY <2>1, NewRow
  <2>3. /\ DOMAIN task' = DOMAIN task \cup {Len(task) + 1}
        /\ \A j \in DOMAIN task : task'[j] = task[j]
    BY <1>1, <1>4, <2>2, SeqAdd
  <2>4. \A j \in DOMAIN task : ~Restarted(j)
    BY <1>4 DEF Sole
  <2>5. \A j \in DOMAIN task' : Restarted(j)' => j = Len(task) + 1
    BY <2>3, <2>4 DEF Restarted
  <2> QED
    BY <1>4, <2>5 DEF Sole, Resting
<1>5. ASSUME NEW i \in DOMAIN task, NEW row \in TaskRow,
             task' = [task EXCEPT ![i] = row], row.of = task[i].of,
             row.status \in InFlight => task[i].status \in InFlight,
             sched' \in {sched, Resting}
      PROVE  Sole'
  <2>1. /\ DOMAIN task' = DOMAIN task /\ task'[i] = row
        /\ \A j \in DOMAIN task : j # i => task'[j] = task[j]
    BY <1>1, <1>5, SeqSet
  <2>2. \A j \in DOMAIN task : Restarted(j)' => Restarted(j)
    BY <1>5, <2>1 DEF Restarted
  <2>3. sched'.at \in {"found", "read"} => sched.at \in {"found", "read"}
    BY <1>5 DEF Resting
  <2> QED
    BY <2>1, <2>2, <2>3 DEF Sole
<1> QED
  BY <1>2, <1>3, <1>4, <1>5, TaskSteps DEF TaskStep

\* Of the tasks that the reaper started at most one is in flight, for every policy and
\* whatever is dispatched, recovered or crashes meanwhile (scheduler.py 986-1040).
THEOREM RestartsDoNotPileUp == Spec => []OneRestartAtATime
<1>1. TypeInv /\ Sole => OneRestartAtATime
  <2> SUFFICES ASSUME TypeInv, Sole PROVE OneRestartAtATime
    OBVIOUS
  <2> DEFINE S == {j \in DOMAIN task : task[j].of # 0 /\ task[j].status \in InFlight}
  <2>1. task \in Seq(TaskRow)
    BY DEF TypeInv, Types
  <2>2. IsFiniteSet(S)
    BY <2>1, RowsFinite
  <2>3. \A x, y \in S : x = y
    BY DEF Sole, Restarted
  <2>4. Cardinality(S) <= 1
    BY <2>2, <2>3, AtMostOne
  <2> QED
    BY <2>4 DEF OneRestartAtATime
<1> QED
  BY <1>1, TypeInit, TypeStep, SoleInit, SoleStep, PTL DEF Spec

-----------------------------------------------------------------------------
(* The restart budget *)

\* The counters and the grants change together, in the two places that bump, and the
\* clock of a bump is the one its phase took.
BumpStep(charged, at) ==
    /\ at = now \/ (sched.at = "read" /\ at = sched.now)
    /\ intensity' = Bumped(charged, at)
    /\ (Within(charged, at) /\ Grant(charged, at)) \/ UNCHANGED granted
    /\ sched'.at \notin {"found", "read"} /\ now' = now

\* A step leaves the restart counters alone, or bumps them once.
LEMMA BumpSteps ==
  ASSUME TypeInv, [Next]_vars
  PROVE  \/ UNCHANGED <<granted, intensity>>
         \/ \E charged \in BOOLEAN, at \in 0..MaxTime : BumpStep(charged, at)
<1>1. CASE Restart
  <2> DEFINE charged == sched.outcome = "failed"
  <2>1. charged \in BOOLEAN /\ sched.now \in 0..MaxTime
    BY DEF TypeInv, Types, SchedRow
  <2>2. BumpStep(charged, sched.now)
    BY <1>1 DEF BumpStep, Restart, Resting
  <2> QED
    BY <2>1, <2>2
<1>2. CASE BumpRecovery
  <2>1. now \in 0..MaxTime
    BY DEF TypeInv, Types
  <2>2. sched'.at \notin {"found", "read"}
    BY <1>2, AfterBump DEF TypeInv
  <2>4. (Within(TRUE, now) /\ Grant(TRUE, now)) \/ UNCHANGED granted
    BY <1>2 DEF BumpRecovery
  <2>5. intensity' = Bumped(TRUE, now) /\ now' = now
    BY <1>2 DEF BumpRecovery
  <2>3. BumpStep(TRUE, now)
    BY <2>2, <2>4, <2>5, Zenon DEF BumpStep
  <2> QED
    BY <2>1, <2>3
<1> QED
  BY <1>1, <1>2 DEF Next, Scheduler, vars, Ask, Dispatch, Archive, TimePasses, ServeCrash, Find,
     ReadLatest, Reap, Rerun, GiveUp, FindExpired, Work, LeaseExpires, Unwind, Renew, Cancel

\* A grant adds one entry, to the periods that hold its time.
LEMMA GrantAdds ==
  ASSUME granted \in Seq(Grants), NEW charged \in BOOLEAN, NEW at \in 0..MaxTime,
         Grant(charged, at)
  PROVE  /\ Cardinality(Charged(granted'))
               = Cardinality(Charged(granted)) + (IF charged THEN 1 ELSE 0)
         /\ \A period : /\ at \in period =>
                              TimedIn(granted', period) = TimedIn(granted, period) \cup {Len(granted) + 1}
                        /\ at \notin period => TimedIn(granted', period) = TimedIn(granted, period)
         /\ \A period : Cardinality(TimedIn(granted', period)) <= Cardinality(TimedIn(granted, period)) + 1
<1> DEFINE entry == [time |-> at, charged |-> charged]
           k == Len(granted) + 1
<1>1. entry \in Grants /\ entry.time = at /\ entry.charged = charged
  BY DEF Grants
<1>2. granted' = Append(granted, entry)
  BY DEF Grant
<1> HIDE DEF entry
<1>3. /\ DOMAIN granted' = DOMAIN granted \cup {k} /\ k \notin DOMAIN granted
      /\ granted'[k] = entry /\ \A j \in DOMAIN granted : granted'[j] = granted[j]
  BY <1>1, <1>2, SeqAdd
<1> HIDE DEF k
<1>4. Charged(granted') = Charged(granted) \cup (IF charged THEN {k} ELSE {})
  BY <1>1, <1>3 DEF Charged
<1>5. IsFiniteSet(Charged(granted)) /\ k \notin Charged(granted)
  BY <1>3, RowsFinite DEF Charged
<1>6. Cardinality(Charged(granted'))
        = Cardinality(Charged(granted)) + (IF charged THEN 1 ELSE 0)
  <2>1. CASE charged
    BY <1>4, <1>5, <2>1, FS_AddElement
  <2>2. CASE ~charged
    BY <1>4, <1>5, <2>2, FS_CardinalityType
  <2> QED
    BY <2>1, <2>2
<1>7. ASSUME NEW period
      PROVE  /\ at \in period => TimedIn(granted', period) = TimedIn(granted, period) \cup {k}
             /\ at \notin period => TimedIn(granted', period) = TimedIn(granted, period)
  BY <1>1, <1>3 DEF TimedIn
<1>8. ASSUME NEW period
      PROVE  Cardinality(TimedIn(granted', period)) <= Cardinality(TimedIn(granted, period)) + 1
  <2>1. /\ IsFiniteSet(TimedIn(granted, period)) /\ k \notin TimedIn(granted, period)
        /\ Cardinality(TimedIn(granted, period)) \in Nat
    BY <1>3, RowsFinite DEF TimedIn
  <2>4. Cardinality(TimedIn(granted, period) \cup {k}) = Cardinality(TimedIn(granted, period)) + 1
    BY <2>1, FS_AddElement
  <2>2. CASE at \in period
    <3>1. TimedIn(granted', period) = TimedIn(granted, period) \cup {k}
      BY <1>7, <2>2
    <3>2. Cardinality(TimedIn(granted', period)) = Cardinality(TimedIn(granted, period)) + 1
      BY <2>4, <3>1
    <3> QED
      BY <2>1, <3>2
  <2>3. CASE at \notin period
    BY <1>7, <2>1, <2>3
  <2> QED
    BY <2>2, <2>3
<1> QED
  BY <1>6, <1>7, <1>8 DEF k

\* An empty history has no charge and nothing in any period.
LEMMA NothingGranted ==
  ASSUME granted = <<>>
  PROVE  Charged(granted) = {} /\ \A period : TimedIn(granted, period) = {}
  BY DEF Charged, TimedIn

\* The counters start at nothing.
LEMMA CountedInit == Init => Counted
  BY NothingGranted, FS_EmptySet DEF Init, Counted, NoWindow

\* No charged re-run goes uncounted.
LEMMA CountedStep == TypeInv /\ Counted /\ [Next]_vars => Counted'
<1> SUFFICES ASSUME TypeInv, Counted, [Next]_vars PROVE Counted'
  OBVIOUS
<1>1. granted \in Seq(Grants) /\ intensity.total \in Nat
  BY DEF TypeInv, Types, Counters
<1>2. Cardinality(Charged(granted)) \in Nat
  BY <1>1, RowsFinite DEF Charged
<1>3. CASE UNCHANGED <<granted, intensity>>
  BY <1>3 DEF Counted
<1>4. ASSUME NEW charged \in BOOLEAN, NEW at \in 0..MaxTime, BumpStep(charged, at)
      PROVE  Counted'
  <2>1. intensity'.total = intensity.total + (IF charged THEN 1 ELSE 0)
    BY <1>4 DEF BumpStep, Bumped
  <2>2. CASE UNCHANGED granted
    BY <1>1, <1>2, <2>1, <2>2 DEF Counted
  <2>3. CASE Within(charged, at) /\ Grant(charged, at)
    <3>1. Cardinality(Charged(granted')) = Cardinality(Charged(granted)) + (IF charged THEN 1 ELSE 0)
      BY <1>1, <2>3, GrantAdds
    <3>2. charged /\ MaxTotal # 0 => intensity'.total <= MaxTotal
      BY <1>4, <2>3 DEF BumpStep, Within
    <3> QED
      BY <1>1, <1>2, <2>1, <3>1, <3>2 DEF Counted
  <2> QED
    BY <1>4, <2>2, <2>3 DEF BumpStep
<1> QED
  BY <1>3, <1>4, BumpSteps

\* No window is open yet.
LEMMA WindowInit == Init => Window
<1> SUFFICES ASSUME Init PROVE Window
  OBVIOUS
<1>1. intensity.start = -1 /\ granted = <<>> /\ now = 0 /\ sched.at = "idle"
  BY DEF Init, NoWindow, Resting
<1>2. \A t \in Nat : Cardinality(TimedIn(granted, Width(t))) = 0
  BY <1>1, NothingGranted, FS_EmptySet
<1> QED
  BY <1>1, <1>2 DEF Window

\* A longer period holds no fewer restarts.
LEMMA TimedMonotone ==
  ASSUME NEW history \in Seq(Grants), NEW period, NEW wider,
         \A k \in DOMAIN history : history[k].time \in period => history[k].time \in wider
  PROVE  /\ IsFiniteSet(TimedIn(history, period)) /\ Cardinality(TimedIn(history, period)) \in Nat
         /\ IsFiniteSet(TimedIn(history, wider)) /\ Cardinality(TimedIn(history, wider)) \in Nat
         /\ Cardinality(TimedIn(history, period)) <= Cardinality(TimedIn(history, wider))
<1>1. \A p : TimedIn(history, p) \in SUBSET DOMAIN history
  BY DEF TimedIn
<1>2. TimedIn(history, period) \subseteq TimedIn(history, wider)
  BY DEF TimedIn
<1> QED
  BY <1>1, <1>2, RowsFinite, FS_Subset

\* Time does not go back, and what a phase found it found at its time.
LEMMA ClockSteps ==
  ASSUME Types, [Next]_vars
  PROVE  /\ now' >= now
         /\ sched'.at \in {"found", "read"} =>
               \/ sched'.now = now
               \/ (sched.at \in {"found", "read"} /\ sched'.now = sched.now)
<1>1. now \in Nat
  BY DEF Types
<1>2. CASE BumpRecovery
  <2>1. now' = now
    BY <1>2 DEF BumpRecovery
  <2>2. sched'.at \notin {"found", "read"}
    BY <1>2, AfterBump
  <2> QED
    BY <1>1, <2>1, <2>2
<1>3. CASE sched' = Resting /\ UNCHANGED now
  BY <1>1, <1>3 DEF Resting
<1>4. CASE UNCHANGED sched /\ (TimePasses \/ UNCHANGED now)
  BY <1>1, <1>4 DEF TimePasses
<1>5. CASE Find \/ ReadLatest \/ \E i \in DOMAIN task : FindExpired(i)
  BY <1>1, <1>5 DEF Find, ReadLatest, FindExpired
<1> QED
  BY <1>2, <1>3, <1>4, <1>5 DEF Next, Scheduler, vars, Ask, Dispatch, Archive, TimePasses,
     ServeCrash, Restart, Reap, Rerun, GiveUp, Work, LeaseExpires, Unwind, Renew, Cancel

\* A grant that opens a window: everything before lies in the one that closes.
LEMMA WindowOpens ==
  ASSUME TypeInv, Window, NEW charged \in BOOLEAN, NEW at \in 0..MaxTime,
         BumpStep(charged, at), intensity.start <= at, Elapsed(at)
  PROVE  Window'
<1>1. /\ granted \in Seq(Grants) /\ intensity.start \in Int /\ now \in Nat
      /\ at \in Nat /\ at <= now
  BY DEF TypeInv, Types, Counters, BumpStep, SchedRow
<1>2. \A k \in DOMAIN granted : granted[k].time \in Nat
  <2>1. \A k \in DOMAIN granted : granted[k] \in Grants
    BY <1>1
  <2> QED
    BY <2>1 DEF Grants
<1>3. intensity'.start = at /\ intensity'.count = 1
  BY DEF BumpStep, Bumped
<1>4. now' = now /\ sched'.at \notin {"found", "read"}
  BY DEF BumpStep
<1> DEFINE before == (at - MaxSeconds)..(at - 1)
<1>5. \A k \in DOMAIN granted : granted[k].time < at
  <2>1. CASE intensity.start = -1
    <3>1. granted = <<>>
      BY <2>1 DEF Window
    <3> QED
      BY <3>1
  <2>2. CASE intensity.start # -1
    <3>1. \A k \in DOMAIN granted : granted[k].time <= intensity.start + MaxSeconds
      BY <2>2 DEF Window
    <3>2. intensity.start + MaxSeconds < at
      BY <1>1, <2>2 DEF Elapsed
    <3> QED
      BY <1>1, <1>2, <3>1, <3>2
  <2> QED
    BY <2>1, <2>2
<1>6. Cardinality(TimedIn(granted, Width(at))) = 0
  <2>1. TimedIn(granted, Width(at)) = {}
    BY <1>1, <1>2, <1>5 DEF TimedIn, Width
  <2> QED
    BY <2>1, FS_EmptySet
<1>7. Cardinality(TimedIn(granted, before)) \in Nat /\ Cardinality(TimedIn(granted, before)) <= MaxRestarts
  <2>1. CASE intensity.start = -1
    <3>1. TimedIn(granted, before) = {}
      BY <2>1, NothingGranted DEF Window
    <3> HIDE DEF before
    <3> QED
      BY <3>1, FS_EmptySet
  <2>2. CASE intensity.start # -1
    <3>1. \A k \in DOMAIN granted : granted[k].time \in before =>
             granted[k].time \in Width(intensity.start)
      <4>1. \A k \in DOMAIN granted : granted[k].time <= intensity.start + MaxSeconds
        BY <2>2 DEF Window
      <4> QED
        BY <1>1, <1>2, <2>2, <4>1 DEF Elapsed, Width
    <3>2. Cardinality(TimedIn(granted, Width(intensity.start))) <= MaxRestarts
      BY <2>2 DEF Window
    <3> HIDE DEF before
    <3>3. /\ Cardinality(TimedIn(granted, before)) \in Nat
          /\ Cardinality(TimedIn(granted, Width(intensity.start))) \in Nat
          /\ Cardinality(TimedIn(granted, before)) <= Cardinality(TimedIn(granted, Width(intensity.start)))
      BY <1>1, <3>1, TimedMonotone
    <3> QED
      BY <3>2, <3>3
  <2> QED
    BY <2>1, <2>2
<1>8. CASE UNCHANGED granted
  <2>1. intensity'.start <= now' /\ intensity'.start # -1 /\ intensity'.start = at
    BY <1>1, <1>3, <1>4
  <2>2. \A k \in DOMAIN granted : granted[k].time <= at + MaxSeconds
    BY <1>1, <1>2, <1>5
  <2>3. /\ Cardinality(TimedIn(granted, Width(at))) <= intensity'.count
        /\ Cardinality(TimedIn(granted, Width(at))) <= MaxRestarts
    BY <1>3, <1>6
  <2>4. \A t \in Nat : Cardinality(TimedIn(granted, Width(t))) <= 2 * MaxRestarts
    BY DEF Window
  <2> QED
    BY <1>4, <1>7, <1>8, <2>1, <2>2, <2>3, <2>4 DEF Window
<1>9. CASE Within(charged, at) /\ Grant(charged, at)
  <2>1. 1 <= MaxRestarts
    BY <1>3, <1>9 DEF Within, BumpStep
  <2>2. \A period : /\ Cardinality(TimedIn(granted', period)) <= Cardinality(TimedIn(granted, period)) + 1
                    /\ at \notin period => TimedIn(granted', period) = TimedIn(granted, period)
    BY <1>1, <1>9, GrantAdds
  <2>3. \A k \in DOMAIN granted' : granted'[k].time <= at
    <3>1. [time |-> at, charged |-> charged] \in Grants
      BY DEF Grants
    <3>2. \A k \in DOMAIN granted' : (k \in DOMAIN granted /\ granted'[k] = granted[k])
                                     \/ granted'[k] = [time |-> at, charged |-> charged]
      BY <1>1, <1>9, <3>1, SeqAdd DEF Grant
    <3> QED
      BY <1>1, <1>2, <1>5, <3>2
  <2>4. TimedIn(granted', before) = TimedIn(granted, before)
    BY <1>1, <2>2
  <2>5. Cardinality(TimedIn(granted', Width(at))) <= 1
    BY <1>6, <2>2
  <2>6. ASSUME NEW t \in Nat
        PROVE  Cardinality(TimedIn(granted', Width(t))) <= 2 * MaxRestarts
    <3>1. CASE at \notin Width(t)
      BY <2>2, <3>1 DEF Window
    <3>2. CASE at \in Width(t)
      <4>1. \A k \in DOMAIN granted : granted[k].time \in Width(t) => granted[k].time \in before
        BY <1>1, <1>2, <1>5, <3>2 DEF Width
      <4> HIDE DEF before
      <4>2. /\ Cardinality(TimedIn(granted, Width(t))) \in Nat
            /\ Cardinality(TimedIn(granted, Width(t))) <= MaxRestarts
        BY <1>1, <1>7, <4>1, TimedMonotone
      <4>3. granted' \in Seq(Grants)
        BY <1>1, <1>9, GrantType
      <4>4. Cardinality(TimedIn(granted', Width(t))) \in Nat
        BY <4>3, TimedMonotone
      <4> QED
        BY <2>1, <2>2, <4>2, <4>4
    <3> QED
      BY <3>1, <3>2
  <2>7. granted' \in Seq(Grants)
    BY <1>1, <1>9, GrantType
  <2>8. Cardinality(TimedIn(granted', Width(at))) \in Nat
    BY <2>7, TimedMonotone
  <2>9. /\ intensity'.start <= now'
        /\ sched'.at \in {"found", "read"} => intensity'.start <= sched'.now
        /\ intensity'.start # -1
    BY <1>1, <1>3, <1>4
  <2>10. \A k \in DOMAIN granted' : granted'[k].time <= intensity'.start + MaxSeconds
    <3>1. granted' \in Seq(Grants)
      BY <2>7
    <3>2. \A k \in DOMAIN granted' : granted'[k].time \in Nat
      <4>1. \A k \in DOMAIN granted' : granted'[k] \in Grants
        BY <3>1
      <4> QED
        BY <4>1 DEF Grants
    <3> QED
      BY <1>1, <1>3, <2>3, <3>2
  <2>11. /\ Cardinality(TimedIn(granted', Width(intensity'.start))) <= intensity'.count
         /\ Cardinality(TimedIn(granted', Width(intensity'.start))) <= MaxRestarts
    BY <1>3, <2>1, <2>5, <2>8
  <2>12. Cardinality(TimedIn(granted', (intensity'.start - MaxSeconds)..(intensity'.start - 1)))
           <= MaxRestarts
    BY <1>3, <1>7, <2>4
  <2> QED
    BY <2>6, <2>9, <2>10, <2>11, <2>12 DEF Window, Width
<1> QED
  BY <1>8, <1>9 DEF BumpStep

\* A grant inside the open window.
LEMMA WindowFills ==
  ASSUME TypeInv, Window, NEW charged \in BOOLEAN, NEW at \in 0..MaxTime,
         BumpStep(charged, at), intensity.start <= at, ~Elapsed(at)
  PROVE  Window'
<1>1. /\ granted \in Seq(Grants) /\ intensity.start \in Int /\ intensity.count \in Nat
      /\ now \in Nat /\ at \in Nat /\ at <= now
  BY DEF TypeInv, Types, Counters, BumpStep, SchedRow
<1>2. intensity.start # -1 /\ at <= intensity.start + MaxSeconds
  BY <1>1 DEF Elapsed
<1>3. intensity'.start = intensity.start /\ intensity'.count = intensity.count + 1
  BY DEF BumpStep, Bumped
<1>4. now' = now /\ sched'.at \notin {"found", "read"}
  BY DEF BumpStep
<1> DEFINE open == Width(intensity.start)
           before == (intensity.start - MaxSeconds)..(intensity.start - 1)
<1>5. /\ Cardinality(TimedIn(granted, open)) <= intensity.count
      /\ Cardinality(TimedIn(granted, open)) <= MaxRestarts
      /\ Cardinality(TimedIn(granted, before)) <= MaxRestarts
      /\ \A k \in DOMAIN granted : granted[k].time <= intensity.start + MaxSeconds
      /\ \A t \in Nat : Cardinality(TimedIn(granted, Width(t))) <= 2 * MaxRestarts
  BY <1>2 DEF Window
<1>6. Cardinality(TimedIn(granted, open)) \in Nat
  BY <1>1, TimedMonotone
<1>7. /\ intensity'.start <= now' /\ intensity'.start # -1
      /\ sched'.at \in {"found", "read"} => intensity'.start <= sched'.now
  BY <1>1, <1>2, <1>3, <1>4
<1>8. CASE UNCHANGED granted
  <2>1. Cardinality(TimedIn(granted, open)) <= intensity'.count
    BY <1>1, <1>3, <1>5, <1>6
  <2> QED
    BY <1>3, <1>5, <1>7, <1>8, <2>1 DEF Window
<1>9. CASE Within(charged, at) /\ Grant(charged, at)
  <2>1. intensity.count + 1 <= MaxRestarts
    BY <1>3, <1>9 DEF Within, BumpStep
  <2>2. \A period : /\ Cardinality(TimedIn(granted', period)) <= Cardinality(TimedIn(granted, period)) + 1
                    /\ at \notin period => TimedIn(granted', period) = TimedIn(granted, period)
    BY <1>1, <1>9, GrantAdds
  <2>3. granted' \in Seq(Grants)
    BY <1>1, <1>9, GrantType
  <2>4. \A k \in DOMAIN granted' : granted'[k].time \in Nat
    <3>1. \A k \in DOMAIN granted' : granted'[k] \in Grants
      BY <2>3
    <3> QED
      BY <3>1 DEF Grants
  <2>5. \A k \in DOMAIN granted' : granted'[k].time <= intensity.start + MaxSeconds
    <3>1. [time |-> at, charged |-> charged] \in Grants
      BY DEF Grants
    <3>2. \A k \in DOMAIN granted' : \/ k \in DOMAIN granted /\ granted'[k] = granted[k]
                                     \/ granted'[k] = [time |-> at, charged |-> charged]
      BY <1>1, <1>9, <3>1, SeqAdd DEF Grant
    <3> QED
      BY <1>1, <1>2, <1>5, <3>2
  <2>6. Cardinality(TimedIn(granted', open)) \in Nat
    BY <2>3, TimedMonotone
  <2>7. /\ Cardinality(TimedIn(granted', open)) <= intensity'.count
        /\ Cardinality(TimedIn(granted', open)) <= MaxRestarts
    <3>1. Cardinality(TimedIn(granted', open)) <= Cardinality(TimedIn(granted, open)) + 1
      BY <2>2
    <3> HIDE DEF open
    <3> QED
      BY <1>1, <1>3, <1>5, <1>6, <2>1, <2>6, <3>1
  <2>8. TimedIn(granted', before) = TimedIn(granted, before)
    BY <1>1, <2>2
  <2>9. ASSUME NEW t \in Nat
        PROVE  Cardinality(TimedIn(granted', Width(t))) <= 2 * MaxRestarts
    <3>1. CASE at \notin Width(t)
      BY <1>5, <2>2, <3>1
    <3>2. CASE at \in Width(t)
      <4>1. \A k \in DOMAIN granted' : granted'[k].time \in Width(t) =>
               granted'[k].time \in open \cup before
        <5>1. ASSUME NEW x \in Nat, x \in Width(t), x <= intensity.start + MaxSeconds
              PROVE  x \in open \cup before
          BY <1>1, <1>2, <3>2, <5>1 DEF Width
        <5> HIDE DEF open, before
        <5> QED
          BY <2>4, <2>5, <5>1
      <4> HIDE DEF open, before
      <4>2. Cardinality(TimedIn(granted', Width(t))) <= Cardinality(TimedIn(granted', open \cup before))
        BY <2>3, <4>1, TimedMonotone
      <4>3. TimedIn(granted', open \cup before) = TimedIn(granted', open) \cup TimedIn(granted', before)
        BY DEF TimedIn
      <4>4. /\ IsFiniteSet(TimedIn(granted', open)) /\ Cardinality(TimedIn(granted', open)) \in Nat
            /\ IsFiniteSet(TimedIn(granted', before)) /\ Cardinality(TimedIn(granted', before)) \in Nat
        BY <2>3, TimedMonotone
      <4>5. Cardinality(TimedIn(granted', open \cup before))
              <= Cardinality(TimedIn(granted', open)) + Cardinality(TimedIn(granted', before))
        BY <4>3, <4>4, UnionBound
      <4>6. /\ Cardinality(TimedIn(granted', Width(t))) \in Nat
            /\ Cardinality(TimedIn(granted', open \cup before)) \in Nat
        BY <2>3, TimedMonotone
      <4>7. Cardinality(TimedIn(granted', before)) <= MaxRestarts
        BY <1>5, <2>8
      <4> QED
        BY <2>7, <4>2, <4>4, <4>5, <4>6, <4>7
    <3> QED
      BY <3>1, <3>2
  <2>10. Cardinality(TimedIn(granted', before)) <= MaxRestarts
    BY <1>5, <2>8
  <2> QED
    BY <1>3, <1>7, <2>5, <2>7, <2>9, <2>10 DEF Window
<1> QED
  BY <1>8, <1>9 DEF BumpStep

\* A bump opens a window, or counts in the one that is open.
LEMMA WindowStep == TypeInv /\ Window /\ [Next]_vars => Window'
<1> SUFFICES ASSUME TypeInv, Window, [Next]_vars PROVE Window'
  OBVIOUS
<1>1. Types /\ intensity.start \in Int /\ now \in Nat
  BY DEF TypeInv, Types, Counters
<1>2. CASE UNCHANGED <<granted, intensity>>
  <2>1. /\ now' >= now
        /\ sched'.at \in {"found", "read"} =>
              \/ sched'.now = now
              \/ sched.at \in {"found", "read"} /\ sched'.now = sched.now
    BY <1>1, ClockSteps
  <2>2. now' \in Nat
    BY <1>1, TypeStep DEF TypeInv, Types
  <2>3. /\ intensity'.start <= now'
        /\ sched'.at \in {"found", "read"} => intensity'.start <= sched'.now
    BY <1>1, <1>2, <2>1, <2>2 DEF Window
  <2> QED
    BY <1>2, <2>3 DEF Window
<1>3. ASSUME NEW charged \in BOOLEAN, NEW at \in 0..MaxTime, BumpStep(charged, at)
      PROVE  Window'
  <2>1. intensity.start <= at
    BY <1>3 DEF Window, BumpStep
  <2> QED
    BY <1>3, <2>1, WindowOpens, WindowFills
<1> QED
  BY <1>2, <1>3, BumpSteps

\* However restarts after failures and recoveries after crashes mix, and wherever serve
\* is killed between a count and what it allows: no more than max_restarts_total charged
\* re-runs in an agent's life, and in any max_seconds at most twice max_restarts
\* (sqlite_impl.py 2591-2651).
THEOREM BudgetIsKept == Spec => []RestartBudget
<1>1. TypeInv /\ Counted /\ Window => RestartBudget
  <2> SUFFICES ASSUME TypeInv, Counted, Window PROVE RestartBudget
    OBVIOUS
  <2>1. MaxTotal # 0 => Cardinality({k \in DOMAIN granted : granted[k].charged}) <= MaxTotal
    BY DEF Counted, Charged
  <2>2. \A t \in 0..now : t \in Nat
    BY DEF TypeInv, Types
  <2>3. \A t \in 0..now : Cardinality(GrantedIn(t..(t + MaxSeconds))) <= 2 * MaxRestarts
    BY <2>2 DEF Window, GrantedIn, TimedIn, Width
  <2> QED
    BY <2>1, <2>3 DEF RestartBudget
<1> QED
  BY <1>1, TypeInit, TypeStep, CountedInit, CountedStep, WindowInit, WindowStep, PTL DEF Spec

\* Restarting is bounded, in total, in time and at once.
THEOREM RestartsBounded == Spec => []RestartsAreBounded
<1>1. RestartBudget /\ OneRestartAtATime => RestartsAreBounded
  BY DEF RestartsAreBounded
<1> QED
  BY <1>1, BudgetIsKept, RestartsDoNotPileUp, PTL

=============================================================================
