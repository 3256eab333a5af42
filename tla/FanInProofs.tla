----------------------------- MODULE FanInProofs ----------------------------
(***************************************************************************)
(* Proofs of what FanInProps states, for every set of legs, every quorum,  *)
(* every number of restarts and every combination of faults; among them    *)
(* that a group implements FanInBarrier. The last parts prove of the       *)
(* dashboard's pages (LiveView) that they are told what changes, whatever  *)
(* they show and however many they are, and that a live card that is fed   *)
(* in slices is what the whole transcript makes (Transcript).              *)
(***************************************************************************)
EXTENDS FanInProps, Pages, SequenceTheorems, FiniteSetTheorems, WellFoundedInduction, TLAPS

USE FanInAssumption

GroupState == {"none", "open", "cancelled", "poisoned"} \cup Verdict
TaskState  == {"none"} \cup Working \cup Over
SchedAt    == {"idle", "reconcile", "mailed", "poison", "notice"}
SchedRow   == [at: SchedAt, todo: SUBSET Leg, late: BOOLEAN, verdict: Verdict]
CancelRow  == [at: {"idle", "flipped", "flagging"}, todo: SUBSET Leg]

\* TypeOK in parts, one for each process or table
GroupTypes == group \in GroupState /\ overdue \in BOOLEAN
TaskTypes  == task \in [Run -> TaskState] /\ flagged \subseteq Run
BoxTypes   == outbox \in [Run -> {"none", "pending", "dispatched"}] /\ disp \in Run \cup {NoRow}
MailTypes  == inbox \subseteq Mail /\ latest \in [Leg -> {-1, Sentinel} \cup Try]
WakeTypes  == wake \in {"none"} \cup Verdict /\ notice \in BOOLEAN
ToolTypes  == asking \in Leg \cup {NoLeg} /\ canceller \in CancelRow
SchedTypes == sched \in SchedRow /\ failures \in 0..QuarantineAfter
OtherTypes == coordinator \in {"live", "archived"} /\ faults \subseteq FaultKinds

Types ==
    /\ GroupTypes /\ TaskTypes /\ BoxTypes /\ MailTypes
    /\ WakeTypes /\ ToolTypes /\ SchedTypes /\ OtherTypes

\* A leg is asked for only while it is free, and no leg has a later try
\* before its first.
Roster ==
    /\ asking # NoLeg => asking \notin Members /\ group # "none"
    /\ \A l \in Leg, t \in Try : task[<<l, t>>] # "none" => l \in Members /\ group # "none"

\* The mail comes before the mark, and a leg's newest mail is one of its mails.
Delivered ==
    /\ disp # NoRow => disp \in inbox
    /\ \A r \in Run : outbox[r] = "dispatched" => r \in inbox
    /\ \A m \in inbox : latest[m[1]] # -1

\* Results come from tasks, and a task found without one can no longer send it.
Unsent ==
    /\ disp # NoRow => outbox[disp] # "none"
    /\ \A r \in Run : /\ task[r] = "unsent" => outbox[r] # "pending"
                      /\ outbox[r] # "none" => task[r] # "none"

Met == Cardinality(Counted) >= Quorum

\* Between the ready mail and the flip, what the scheduler is about to write.
Verdicts ==
    /\ sched.at # "idle" => group # "none"
    /\ sched.late => overdue
    /\ overdue \/ wake # "none" => group # "none"
    /\ sched.at = "mailed" =>
          /\ wake # "none"
          /\ sched.verdict = "quorum_met" => Met
          /\ sched.verdict = "expired" => overdue
    /\ group \in Verdict => wake # "none"

\* While nothing interrupts resolution, there is one verdict.
Clean == faults \cap {"serve", "poison"} = {}

OneVerdict ==
    /\ sched.at \in {"poison", "notice"} => "poison" \in faults
    /\ Clean =>
          /\ sched.at = "idle" /\ group \in {"none", "open"} => wake = "none"
          /\ sched.at = "reconcile" => wake = "none"
          /\ sched.at = "mailed" => wake = sched.verdict
          /\ group \in Verdict => wake = group /\ sched.at = "idle"

-----------------------------------------------------------------------------
(* Types *)

\* The scheduler between two phases.
LEMMA SchedRests == Asleep \in SchedRow /\ Asleep.at = "idle" /\ Asleep.late = FALSE
  BY DEF Asleep, SchedRow, SchedAt, Verdict

\* The scheduler goes on within a phase.
LEMMA SchedMoves ==
  ASSUME NEW row \in SchedRow, NEW at \in SchedAt, NEW next, next = [row EXCEPT !.at = at]
  PROVE  /\ next \in SchedRow /\ next.at = at /\ next.late = row.late
         /\ next.verdict = row.verdict
  BY DEF SchedRow

\* The scheduler is done with a leg.
LEMMA SchedDrops ==
  ASSUME NEW row \in SchedRow, NEW l, NEW next, next = [row EXCEPT !.todo = @ \ {l}]
  PROVE  /\ next \in SchedRow /\ next.at = row.at /\ next.late = row.late
         /\ next.verdict = row.verdict
  BY DEF SchedRow

\* The scheduler has written the verdict.
LEMMA SchedTells ==
  ASSUME NEW row \in SchedRow, NEW verdict \in Verdict, NEW next,
         next = [at |-> "mailed", todo |-> {}, late |-> row.late, verdict |-> verdict]
  PROVE  /\ next \in SchedRow /\ next.at = "mailed" /\ next.late = row.late
         /\ next.verdict = verdict
  BY DEF SchedRow, SchedAt

\* The steps of a cancellation.
LEMMA CancelMoves ==
  ASSUME NEW row \in CancelRow
  PROVE  /\ [row EXCEPT !.at = "flipped"] \in CancelRow
         /\ \A l : [row EXCEPT !.todo = @ \ {l}] \in CancelRow
         /\ [at |-> "idle", todo |-> {}] \in CancelRow
         /\ [at |-> "flagging", todo |-> Members] \in CancelRow
  BY DEF CancelRow, Members

\* What Insert does to the mailbox.
LEMMA Inserts ==
  ASSUME MailTypes, NEW m \in Mail, Insert(m)
  PROVE  /\ MailTypes'
         /\ inbox' = inbox \cup {m}
         /\ \A l \in Leg : latest[l] # -1 => latest'[l] # -1
         /\ \A l \in Leg : l # m[1] => latest'[l] = latest[l]
         /\ m \notin inbox => latest'[m[1]] # -1
         /\ m \in inbox => UNCHANGED latest
  BY DEF MailTypes, Mail, Insert, mailVars, Sentinel, Try

\* The types hold when the system is new.
LEMMA TypeInit == Init => Types
<1> SUFFICES ASSUME Init PROVE Types
  OBVIOUS
<1> USE DEF Init
<1>1. GroupTypes /\ BoxTypes /\ WakeTypes /\ OtherTypes
  BY DEF GroupTypes, GroupState, BoxTypes, WakeTypes, OtherTypes
<1>2. TaskTypes /\ MailTypes
  BY DEF TaskTypes, TaskState, MailTypes
<1>3. ToolTypes
  BY DEF ToolTypes, CancelRow
<1>4. SchedTypes
  BY SchedRests DEF SchedTypes
<1> QED
  BY <1>1, <1>2, <1>3, <1>4 DEF Types

\* The steps of a task are of its row of the table alone.
LEMMA TaskMoves ==
  ASSUME TaskTypes, NEW r \in Run, NEW from, NEW to \in TaskState, Moves(r, from, to)
  PROVE  /\ task' \in [Run -> TaskState] /\ task[r] = from /\ task'[r] = to
         /\ \A q \in Run : q # r => task'[q] = task[q]
  BY DEF TaskTypes, Moves

\* A task that exists has a state that is not "none".
LEMMA Restarted ==
  ASSUME TaskTypes, NEW l \in Leg, Restart(l)
  PROVE  /\ task' \in [Run -> TaskState]
         /\ \E t \in Try : /\ task[<<l, t>>] = "failed" /\ t + 1 \in Try
                           /\ task[<<l, t + 1>>] = "none"
                           /\ task'[<<l, t + 1>>] = "pending"
                           /\ \A q \in Run : q # <<l, t + 1>> => task'[q] = task[q]
<1>1. PICK t \in Try : /\ LastTry(l, t) /\ task[<<l, t>>] = "failed" /\ t < MaxTry
                       /\ task' = [task EXCEPT ![<<l, t + 1>>] = "pending"]
  BY DEF Restart
<1>2. t + 1 \in Try /\ t + 1 > t
  BY <1>1 DEF Try
<1>3. <<l, t + 1>> \in Run /\ task[<<l, t + 1>>] = "none"
  BY <1>1, <1>2 DEF Run, LastTry
<1>4. "pending" \in TaskState
  BY DEF TaskState, Working
<1> QED
  BY <1>1, <1>2, <1>3, <1>4 DEF TaskTypes

\* A task is changed by its leg, its creation, its restart and the crash of its worker.
LEMMA LegMoves ==
  ASSUME TaskTypes, NEW r \in Run, LegStep(r)
  PROVE  \/ UNCHANGED task
         \/ \E from, to \in TaskState : from \in Working /\ to # "none" /\ Moves(r, from, to)
  BY DEF LegStep, Claim, Submit, Stop, LegChecks, taskVars, TaskState, Working, Over

\* Every step keeps the types.
LEMMA TypeStep == Types /\ [Next]_vars => Types'
<1> SUFFICES ASSUME Types, [Next]_vars PROVE Types'
  OBVIOUS
<1> USE DEF Types, GroupTypes, TaskTypes, BoxTypes, WakeTypes, ToolTypes, SchedTypes, OtherTypes,
    groupVars, taskVars, mailVars, procVars
<1>1. CASE UNCHANGED vars
  BY <1>1 DEF vars, MailTypes
<1>2. CASE Open \/ CancelFlip
  BY <1>2, CancelMoves DEF Open, CancelFlip, GroupState, MailTypes
<1>3. CASE CreateLeg
  BY <1>3 DEF CreateLeg, TaskState, Working, Run, Try, FanInAssumption, MailTypes
<1>4. CASE CancelReads
  BY <1>4, CancelMoves DEF CancelReads, MailTypes
<1>5. ASSUME NEW l \in Leg, AskDispatch(l) \/ CancelFlags(l) PROVE Types'
  <2>1. CASE AskDispatch(l)
    BY <2>1 DEF AskDispatch, MailTypes
  <2>2. CASE CancelFlags(l)
    <3>1. <<l, 1>> \in Run
      BY DEF Run, Try, FanInAssumption
    <3>2. flagged' \subseteq Run
      BY <2>2, <3>1 DEF CancelFlags
    <3>3. canceller' \in CancelRow
      BY <2>2, CancelMoves DEF CancelFlags
    <3> QED
      BY <2>2, <3>2, <3>3 DEF CancelFlags, MailTypes
  <2> QED
    BY <1>5, <2>1, <2>2
<1>6. ASSUME NEW r \in Run, LegStep(r) PROVE Types'
  <2>1. task' \in [Run -> TaskState]
    BY <1>6, LegMoves, TaskMoves
  <2>2. outbox' \in [Run -> {"none", "pending", "dispatched"}]
    BY <1>6 DEF LegStep, Claim, Submit, Stop, LegChecks
  <2> QED
    BY <1>6, <2>1, <2>2 DEF LegStep, Claim, Submit, Stop, LegChecks, MailTypes
<1>7. ASSUME NEW l \in Leg, Restart(l) PROVE Types'
  BY <1>7, Restarted DEF Restart, MailTypes
<1>8. CASE Dispatcher
  <2>1. MailTypes'
    BY <1>8, Inserts DEF Dispatcher, MailTypes, Run, Mail
  <2> QED
    BY <1>8, <2>1 DEF Dispatcher
<1>9. CASE BeginPhase
  <2>1. sched' \in SchedRow /\ sched'.at = "reconcile"
    BY <1>9 DEF BeginPhase, SchedRow, SchedAt, Verdict, Members
  <2> QED
    BY <1>9, <2>1 DEF BeginPhase, MailTypes
<1>10. CASE Tell
  <2> DEFINE verdict == IF Cardinality(Counted) >= Quorum THEN "quorum_met" ELSE "expired"
  <2>1. verdict \in Verdict
    BY DEF Verdict
  <2> HIDE DEF verdict
  <2>2. /\ wake' \in {wake, verdict}
        /\ \/ /\ sched' = [at |-> "mailed", todo |-> {}, late |-> sched.late, verdict |-> verdict]
              /\ UNCHANGED failures
           \/ sched' = Asleep /\ failures' = 0
        /\ sched.at = "reconcile"
    BY <1>10 DEF Tell, verdict
  <2>3. sched' \in SchedRow
    BY <2>1, <2>2, SchedRests, SchedTells
  <2>4. failures' \in 0..QuarantineAfter
    BY <2>2 DEF FanInAssumption
  <2> QED
    BY <1>10, <2>1, <2>2, <2>3, <2>4 DEF Tell, MailTypes
<1>11. CASE Flip
  <2>1. sched.verdict \in Verdict
    BY DEF SchedRow
  <2>2. group' \in GroupState
    BY <1>11, <2>1 DEF Flip, GroupState
  <2>3. sched' = Asleep /\ failures' = 0 /\ 0 \in 0..QuarantineAfter
    BY <1>11 DEF Flip, FanInAssumption
  <2> QED
    BY <1>11, <2>2, <2>3, SchedRests DEF Flip, MailTypes
<1>19. CASE PoisonFlip
  <2>1. sched' \in SchedRow
    BY <1>19, SchedRests, SchedMoves DEF PoisonFlip, SchedAt
  <2>2. group' \in GroupState
    BY <1>19 DEF PoisonFlip, GroupState
  <2>3. failures' = 0 /\ 0 \in 0..QuarantineAfter
    BY <1>19 DEF PoisonFlip, FanInAssumption
  <2> QED
    BY <1>19, <2>1, <2>2, <2>3 DEF PoisonFlip, MailTypes
<1>20. CASE PoisonNotice
  <2>1. sched' = Asleep /\ notice' \in BOOLEAN
    BY <1>20 DEF PoisonNotice
  <2> QED
    BY <1>20, <2>1, SchedRests DEF PoisonNotice, MailTypes
<1>18. CASE PoisonFlipRaises
  <2>1. sched' = Asleep /\ UNCHANGED failures /\ faults' \subseteq FaultKinds
    BY <1>18 DEF PoisonFlipRaises
  <2> QED
    BY <1>18, <2>1, SchedRests DEF PoisonFlipRaises, MailTypes
<1>12. CASE Raise
  BY <1>12, SchedRests, SchedMoves DEF Raise, SchedAt, MailTypes, FanInAssumption
<1>13. ASSUME NEW l \in Leg, Reconcile(l) PROVE Types'
  <2>1. MailTypes'
    BY <1>13, Inserts DEF Reconcile, MailTypes, Mail, Sentinel
  <2>2. sched' \in SchedRow /\ sched'.at = sched.at
    BY <1>13, SchedDrops DEF Reconcile
  <2> QED
    BY <1>13, <2>1, <2>2 DEF Reconcile
<1>14. CASE Overdue \/ ArchiveCoordinator
  BY <1>14 DEF Overdue, ArchiveCoordinator, Fault, MailTypes
<1>15. ASSUME NEW r \in Run, WorkerCrash(r) \/ OperatorCancel(r) PROVE Types'
  BY <1>15 DEF WorkerCrash, OperatorCancel, Fault, TaskState, Working, MailTypes
<1>16. CASE ServeCrash
  BY <1>16, SchedRests DEF ServeCrash, Fault, MailTypes, FanInAssumption
<1>17. CASE CancellerCrash
  BY <1>17, CancelMoves DEF CancellerCrash, Fault, MailTypes
<1> QED
  BY <1>1, <1>2, <1>3, <1>4, <1>5, <1>6, <1>7, <1>8, <1>9, <1>10, <1>11, <1>12, <1>13, <1>14,
     <1>15, <1>16, <1>17, <1>18, <1>19, <1>20 DEF Next, Tools, Phase

\* Every table keeps its type (schema.sql: fan_in_groups, fan_in_members, tasks, outbox,
\* mailbox), and so do the hands of the processes between two commits.
THEOREM TypesHold == Spec => []TypeOK
<1>1. Types => TypeOK
  BY DEF Types, GroupTypes, TaskTypes, BoxTypes, MailTypes, WakeTypes, ToolTypes, SchedTypes,
     OtherTypes, GroupState, TaskState, SchedRow, SchedAt, CancelRow, TypeOK
<1> QED
  BY <1>1, TypeInit, TypeStep, PTL DEF Spec

-----------------------------------------------------------------------------
(* The roster *)

\* The steps that change a task.
LEMMA TaskActions ==
  ASSUME [Next]_vars
  PROVE  \/ UNCHANGED task
         \/ CreateLeg
         \/ \E r \in Run : LegStep(r) \/ WorkerCrash(r)
         \/ \E l \in Leg : Restart(l)
  BY DEF Next, vars, taskVars, Tools, Phase, Open, AskDispatch, CancelFlip, CancelReads, CancelFlags,
     Dispatcher, BeginPhase, Tell, Flip, Raise, PoisonFlip, PoisonFlipRaises, PoisonNotice, Reconcile, Overdue,
     ServeCrash, CancellerCrash, ArchiveCoordinator, OperatorCancel

\* A task goes on from where it is, or is created for a free leg, or starts a leg over.
LEMMA TaskSteps ==
  ASSUME Types, Roster, [Next]_vars, NEW r \in Run
  PROVE  \/ task'[r] = task[r]
         \/ task[r] \in Working /\ task'[r] # "none"
         \/ /\ task[r] = "none" /\ task'[r] = "pending"
            /\ \/ CreateLeg /\ r = <<asking, 1>>
               \/ r[2] # 1 /\ r[1] \in Members /\ \E l \in Leg : Restart(l)
<1> DEFINE Goal == \/ task'[r] = task[r]
                   \/ task[r] \in Working /\ task'[r] # "none"
                   \/ /\ task[r] = "none" /\ task'[r] = "pending"
                      /\ \/ CreateLeg /\ r = <<asking, 1>>
                         \/ r[2] # 1 /\ r[1] \in Members /\ \E l \in Leg : Restart(l)
<1>0. TaskTypes /\ task \in [Run -> TaskState]
  BY DEF Types, TaskTypes
<1>1. CASE CreateLeg
  <2>1. asking \in Leg /\ <<asking, 1>> \in Run /\ task[<<asking, 1>>] = "none"
    BY <1>1 DEF CreateLeg, Types, ToolTypes, Roster, Members, Run, Try, FanInAssumption
  <2> QED
    BY <1>0, <1>1, <2>1 DEF CreateLeg
<1>2. ASSUME NEW q \in Run, LegStep(q) PROVE Goal
  BY <1>0, <1>2, LegMoves, TaskMoves
<1>3. ASSUME NEW l \in Leg, Restart(l) PROVE Goal
  <2>1. PICK t \in Try : /\ t + 1 \in Try /\ task[<<l, t + 1>>] = "none"
                         /\ task'[<<l, t + 1>>] = "pending"
                         /\ \A q \in Run : q # <<l, t + 1>> => task'[q] = task[q]
    BY <1>0, <1>3, Restarted
  <2>2. l \in Members /\ t + 1 # 1
    BY <1>3 DEF Restart, Try
  <2> QED
    BY <1>3, <2>1, <2>2
<1>4. ASSUME NEW q \in Run, WorkerCrash(q) PROVE Goal
  BY <1>4, <1>0 DEF WorkerCrash, Working
<1>5. CASE UNCHANGED task
  BY <1>5
<1> QED
  BY <1>1, <1>2, <1>3, <1>4, <1>5, TaskActions

\* The group has no legs yet.
LEMMA RosterInit == Init => Roster
  BY DEF Init, Roster, Members, Run, Try, FanInAssumption

\* A group that was opened stays so.
LEMMA GroupStays ==
  ASSUME Types, group # "none", [Next]_vars
  PROVE  group' # "none"
<1> USE DEF groupVars
<1>1. CASE Flip
  <2>1. sched.verdict \in Verdict
    BY DEF Types, SchedTypes, SchedRow
  <2> QED
    BY <1>1, <2>1 DEF Flip, Verdict
<1>2. CASE UNCHANGED group \/ Open \/ CancelFlip \/ PoisonFlip
  BY <1>2 DEF Open, CancelFlip, PoisonFlip
<1> QED
  BY <1>1, <1>2 DEF Next, vars, Tools, Phase, LegStep, Claim, Submit, Stop, LegChecks, Restart,
     AskDispatch, CreateLeg, CancelReads, CancelFlags, Dispatcher, BeginPhase, Tell, Raise,
     PoisonFlipRaises, PoisonNotice, Reconcile, Overdue, WorkerCrash, ServeCrash, CancellerCrash,
     ArchiveCoordinator, OperatorCancel

\* What a step does to the leg that is being created.
LEMMA AskingSteps ==
  ASSUME [Next]_vars
  PROVE  \/ UNCHANGED asking /\ ~CreateLeg
         \/ CreateLeg /\ asking' = NoLeg
         \/ \E l \in Leg : AskDispatch(l)
  BY DEF Next, vars, Tools, Phase, LegStep, Claim, Submit, Stop, LegChecks, Restart, Open, CancelFlip,
     CreateLeg, CancelReads, CancelFlags, Dispatcher, BeginPhase, Tell, Raise, Flip, PoisonFlip,
     PoisonFlipRaises, PoisonNotice, Reconcile, Overdue, WorkerCrash, ServeCrash, CancellerCrash,
     ArchiveCoordinator, OperatorCancel, procVars

\* No leg leaves the group, and only its legs have tasks.
LEMMA RosterStep == Types /\ Roster /\ [Next]_vars => Roster' /\ Members \subseteq Members'
<1> SUFFICES ASSUME Types, Roster, [Next]_vars PROVE Roster' /\ Members \subseteq Members'
  OBVIOUS
<1>1. 1 \in Try /\ \A l \in Leg, t \in Try : <<l, t>> \in Run
  BY DEF Run, Try, FanInAssumption
<1>2. \A r \in Run : \/ task'[r] = task[r]
                     \/ task[r] \in Working /\ task'[r] # "none"
                     \/ /\ task[r] = "none" /\ task'[r] = "pending"
                        /\ \/ CreateLeg /\ r = <<asking, 1>>
                           \/ r[2] # 1 /\ r[1] \in Members /\ \E l \in Leg : Restart(l)
  BY TaskSteps
<1>8. \A l \in Leg : /\ l \in Members <=> task[<<l, 1>>] # "none"
                     /\ l \in Members' <=> task'[<<l, 1>>] # "none"
  BY DEF Members
<1>9. ASSUME NEW l \in Leg
      PROVE  \/ task'[<<l, 1>>] = task[<<l, 1>>]
             \/ task[<<l, 1>>] # "none" /\ task'[<<l, 1>>] # "none"
             \/ task[<<l, 1>>] = "none" /\ CreateLeg /\ l = asking
  <2> PICK r \in Run : r = <<l, 1>>
    BY <1>1
  <2>1. r[1] = l /\ r[2] = 1
    OBVIOUS
  <2> QED
    BY <1>2, <2>1 DEF Working
<1>3. Members \subseteq Members'
  BY <1>8, <1>9 DEF Members
<1>4. \A l \in Leg : l \in Members' => l \in Members \/ (CreateLeg /\ l = asking)
  BY <1>8, <1>9
<1>5. CreateLeg => asking \in Leg /\ group # "none"
  BY DEF CreateLeg, Types, ToolTypes, Roster
<1>6. \A l \in Leg, t \in Try : task'[<<l, t>>] # "none" => l \in Members' /\ group' # "none"
  <2> SUFFICES ASSUME NEW l \in Leg, NEW t \in Try, task'[<<l, t>>] # "none"
               PROVE  l \in Members' /\ group' # "none"
    OBVIOUS
  <2>1. l \in Members \/ (CreateLeg /\ l = asking /\ t = 1)
    BY <1>1, <1>2 DEF Roster, Working
  <2>2. l \in Members'
    BY <2>1, <1>3 DEF Members
  <2>3. group # "none"
    BY <1>1, <1>5, <2>1 DEF Roster, Members
  <2> QED
    BY <2>2, <2>3, GroupStays
<1>7. asking' # NoLeg => asking' \notin Members' /\ group' # "none"
  <2> SUFFICES ASSUME asking' # NoLeg PROVE asking' \notin Members' /\ group' # "none"
    OBVIOUS
  <2>1. CASE UNCHANGED asking /\ ~CreateLeg
    <3>1. asking \in Leg /\ asking \notin Members /\ group # "none"
      BY <2>1 DEF Types, ToolTypes, Roster
    <3> QED
      BY <2>1, <3>1, <1>4, GroupStays
  <2>2. ASSUME NEW l \in Leg, AskDispatch(l) PROVE asking' \notin Members' /\ group' # "none"
    BY <2>2, GroupStays DEF AskDispatch, Members, taskVars
  <2> QED
    BY <2>1, <2>2, AskingSteps
<1> QED
  BY <1>3, <1>6, <1>7 DEF Roster

-----------------------------------------------------------------------------
(* Results and sentinels *)

\* The mailbox grows by a result of the outbox or by a sentinel for a task that failed.
LEMMA MailSteps ==
  ASSUME [Next]_vars
  PROVE  \/ UNCHANGED mailVars
         \/ \E r \in Run : /\ disp = NoRow /\ outbox[r] = "pending" /\ Insert(r)
                           /\ disp' = r /\ UNCHANGED <<outbox, task>>
         \/ \E l \in Leg : /\ task[<<l, 1>>] \in {"failed", "cancelled"} /\ Insert(<<l, Sentinel>>)
                           /\ UNCHANGED <<outbox, task, disp>>
  BY DEF Next, vars, Tools, Phase, LegStep, Claim, Submit, Stop, LegChecks, Restart, Open, CancelFlip,
     AskDispatch, CreateLeg, CancelReads, CancelFlags, Dispatcher, BeginPhase, Tell, Raise, Flip,
     PoisonFlip, PoisonFlipRaises, PoisonNotice, Reconcile, Overdue, WorkerCrash, ServeCrash, CancellerCrash,
     ArchiveCoordinator, OperatorCancel, taskVars

\* A row of the outbox is marked by the dispatcher that holds it.
LEMMA BoxSteps ==
  ASSUME Types, [Next]_vars
  PROVE  \/ UNCHANGED <<outbox, disp>>
         \/ UNCHANGED outbox /\ disp' = NoRow
         \/ \E r \in Run : Submit(r) /\ outbox' = [outbox EXCEPT ![r] = "pending"] /\ UNCHANGED disp
         \/ \E r \in Run : /\ disp = NoRow /\ outbox[r] = "pending" /\ Insert(r)
                           /\ disp' = r /\ UNCHANGED outbox
         \/ /\ disp # NoRow /\ disp' = NoRow
            /\ outbox' = [outbox EXCEPT ![disp] = "dispatched"]
  BY DEF Next, vars, Tools, Phase, LegStep, Claim, Submit, Stop, LegChecks, Restart, Open, CancelFlip,
     AskDispatch, CreateLeg, CancelReads, CancelFlags, Dispatcher, BeginPhase, Tell, Raise, Flip,
     PoisonFlip, PoisonFlipRaises, PoisonNotice, Reconcile, Overdue, WorkerCrash, ServeCrash, CancellerCrash,
     ArchiveCoordinator, OperatorCancel, procVars

DeliveredInv == Delivered /\ SentinelIsTrue

\* No row has been sent yet.
LEMMA DeliveredInit == Init => DeliveredInv
  BY DEF Init, DeliveredInv, Delivered, SentinelIsTrue, Run

\* What the dispatcher sends is what the row says.
LEMMA DeliveredStep ==
  Types /\ Roster /\ DeliveredInv /\ [Next]_vars => DeliveredInv'
<1> SUFFICES ASSUME Types, Roster, DeliveredInv, [Next]_vars PROVE DeliveredInv'
  OBVIOUS
<1>1. MailTypes /\ BoxTypes /\ \A l \in Leg : <<l, 1>> \in Run /\ <<l, Sentinel>> \in Mail
  BY DEF Types, Run, Mail, Try, FanInAssumption
<1>2. Run \subseteq Mail /\ NoRow \notin Run /\ \A l \in Leg : <<l, Sentinel>> \notin Run
  BY DEF Run, Mail, Try, Sentinel, FanInAssumption
<1>3. \/ UNCHANGED mailVars
      \/ \E m \in Mail : Insert(m) /\ \/ m \in Run /\ disp' = m
                                      \/ UNCHANGED disp
  BY <1>1, <1>2, MailSteps
<1>4. inbox \subseteq inbox'
  BY <1>1, <1>3, Inserts DEF mailVars
<1>5. disp' # NoRow => disp' \in inbox'
  <2>1. CASE UNCHANGED disp
    BY <2>1, <1>4 DEF DeliveredInv, Delivered
  <2>2. ASSUME NEW r \in Run, Insert(r), disp' = r PROVE disp' \in inbox'
    BY <2>2, <1>1, <1>2, Inserts
  <2> QED
    BY <2>1, <2>2, BoxSteps
<1>6. \A r \in Run : outbox'[r] = "dispatched" => r \in inbox'
  BY <1>1, <1>4, BoxSteps DEF DeliveredInv, Delivered, BoxTypes
<1>7. \A m \in inbox' : latest'[m[1]] # -1
  <2>1. inbox \subseteq Mail /\ \A m \in Mail : m[1] \in Leg
    BY <1>1 DEF MailTypes, Mail
  <2>2. CASE UNCHANGED mailVars
    BY <2>2 DEF mailVars, DeliveredInv, Delivered
  <2>3. ASSUME NEW m \in Mail, Insert(m) PROVE \A n \in inbox' : latest'[n[1]] # -1
    BY <2>1, <2>3, <1>1, Inserts DEF DeliveredInv, Delivered
  <2> QED
    BY <2>2, <2>3, <1>3
<1>8. SentinelIsTrue'
  <2> SUFFICES ASSUME NEW l \in Leg, <<l, Sentinel>> \in inbox'
               PROVE  task'[<<l, 1>>] \in {"failed", "cancelled"}
    BY DEF SentinelIsTrue
  <2>1. CASE <<l, Sentinel>> \in inbox
    <3>1. task[<<l, 1>>] \in {"failed", "cancelled"}
      BY <2>1 DEF DeliveredInv, SentinelIsTrue
    <3> QED
      BY <3>1, <1>1, TaskSteps DEF Working
  <2>2. CASE <<l, Sentinel>> \notin inbox
    <3>1. \A m \in Mail : Insert(m) => inbox' = inbox \cup {m}
      BY <1>1, Inserts
    <3>2. PICK k \in Leg : /\ task[<<k, 1>>] \in {"failed", "cancelled"} /\ Insert(<<k, Sentinel>>)
                           /\ UNCHANGED task
      BY <1>2, <2>2, <3>1, MailSteps DEF mailVars
    <3>3. <<k, Sentinel>> \in Mail
      BY DEF Mail
    <3>4. inbox' = inbox \cup {<<k, Sentinel>>}
      BY ONLY <3>1, <3>2, <3>3
    <3>5. <<l, Sentinel>> = <<k, Sentinel>>
      BY ONLY <2>2, <3>4, <<l, Sentinel>> \in inbox'
    <3>6. l = k
      BY ONLY <3>5
    <3> QED
      BY ONLY <3>2, <3>6
  <2> QED
    BY <2>1, <2>2
<1> QED
  BY <1>5, <1>6, <1>7, <1>8 DEF DeliveredInv, Delivered

\* The two reads of _fan_in_leg_submitted_result: how a task comes to be taken for one
\* that sent nothing, and how it is downgraded.
LEMMA CheckSteps ==
  ASSUME Types, [Next]_vars, NEW r \in Run
  PROVE  /\ task'[r] = "unsent" =>
               task[r] = "unsent" \/ (outbox[r] # "pending" /\ UNCHANGED outbox)
         /\ task[r] = "unsent" /\ task'[r] = "failed" => latest[r[1]] = -1
<1> DEFINE Goal == /\ task'[r] = "unsent" =>
                         task[r] = "unsent" \/ (outbox[r] # "pending" /\ UNCHANGED outbox)
                   /\ task[r] = "unsent" /\ task'[r] = "failed" => latest[r[1]] = -1
<1>0. TaskTypes /\ task \in [Run -> TaskState]
  BY DEF Types, TaskTypes
<1>1. CASE CreateLeg
  BY <1>0, <1>1 DEF CreateLeg
<1>2. ASSUME NEW q \in Run, LegStep(q) PROVE Goal
  <2>1. CASE LegChecks(q)
    BY <1>0, <2>1 DEF LegChecks, Moves
  <2>2. CASE Claim(q) \/ Stop(q)
    BY <1>0, <2>2 DEF Claim, Stop, Moves
  <2>3. CASE Submit(q)
    BY <2>3 DEF Submit, taskVars
  <2> QED
    BY <1>2, <2>1, <2>2, <2>3 DEF LegStep
<1>3. ASSUME NEW l \in Leg, Restart(l) PROVE Goal
  BY <1>0, <1>3, Restarted
<1>4. ASSUME NEW q \in Run, WorkerCrash(q) PROVE Goal
  BY <1>0, <1>4 DEF WorkerCrash
<1>5. CASE UNCHANGED task
  BY <1>5
<1> QED
  BY <1>1, <1>2, <1>3, <1>4, <1>5, TaskActions

\* No result waits in the outbox while its task is being found to have sent none.
LEMMA UnsentInit == Init => Unsent
  BY DEF Init, Unsent, Run

\* What is sent comes from a task, and a task found without a result sends none.
LEMMA UnsentStep == Types /\ Roster /\ Unsent /\ [Next]_vars => Unsent'
<1> SUFFICES ASSUME Types, Roster, Unsent, [Next]_vars PROVE Unsent'
  OBVIOUS
<1>0. /\ outbox \in [Run -> {"none", "pending", "dispatched"}]
      /\ disp # NoRow => disp \in Run
  BY DEF Types, BoxTypes
<1>3. disp' # NoRow => outbox'[disp'] # "none"
  <2>1. ASSUME NEW r \in Run, outbox[r] = "pending", disp' = r, UNCHANGED outbox
        PROVE  disp' # NoRow => outbox'[disp'] # "none"
    BY <2>1
  <2> QED
    BY <1>0, <2>1, BoxSteps DEF Unsent
<1>1. ASSUME NEW r \in Run, task'[r] = "unsent" PROVE outbox'[r] # "pending"
  <2>1. CASE outbox[r] # "pending" /\ UNCHANGED outbox
    BY <2>1
  <2>2. CASE task[r] = "unsent"
    <3>1. outbox[r] # "pending" /\ ~Submit(r)
      BY <2>2 DEF Unsent, Submit
    <3> QED
      BY <1>0, <3>1, BoxSteps
  <2> QED
    BY <1>1, <2>1, <2>2, CheckSteps
<1>2. ASSUME NEW r \in Run, outbox'[r] # "none" PROVE task'[r] # "none"
  <2>1. CASE Submit(r)
    BY <2>1 DEF Submit, taskVars
  <2>2. CASE outbox[r] # "none"
    BY <2>2, TaskSteps DEF Unsent
  <2>3. outbox[r] # "none" \/ Submit(r)
    BY <1>0, <1>2, BoxSteps DEF Unsent
  <2> QED
    BY <2>1, <2>2, <2>3
<1> QED
  BY <1>1, <1>2, <1>3 DEF Unsent

\* A leg that sent its result is never downgraded, however its result travels and whatever
\* crashes: the two reads of _fan_in_leg_submitted_result are in the right order
\* (agent_loop.py).
THEOREM NeverDowngraded == Spec => SentIsNotDowngraded
<1> DEFINE Kept == \A r \in Run : task[r] = "unsent" /\ task'[r] = "failed" => outbox[r] = "none"
<1>1. Types /\ Unsent /\ DeliveredInv /\ [Next]_vars => Kept
  <2> SUFFICES ASSUME Types, Unsent, DeliveredInv, [Next]_vars,
                      NEW r \in Run, task[r] = "unsent", task'[r] = "failed"
               PROVE  outbox[r] = "none"
    OBVIOUS
  <2>1. latest[r[1]] = -1
    BY CheckSteps
  <2>2. outbox[r] # "dispatched"
    BY <2>1 DEF DeliveredInv, Delivered
  <2> QED
    BY <2>2 DEF Unsent, Types, BoxTypes
<1>2. Types /\ Unsent /\ DeliveredInv /\ [Next]_vars => [Kept]_vars
  BY <1>1
<1> HIDE DEF Kept
<1>3. Spec => [][Kept]_vars
  BY <1>2, TypeInit, TypeStep, RosterInit, RosterStep, DeliveredInit, DeliveredStep, UnsentInit,
     UnsentStep, PTL DEF Spec
<1> QED
  BY <1>3 DEF Kept, SentIsNotDowngraded

-----------------------------------------------------------------------------
(* Verdicts *)

\* No verdict is written yet.
LEMMA VerdictsInit == Init => Verdicts
  BY DEF Init, Verdicts, Asleep, Verdict

\* The legs with a mail are of the roster and grow; a quorum that is met stays met.
LEMMA CountedGrows ==
  ASSUME Types, [Next]_vars
  PROVE  /\ Counted \subseteq Counted' /\ IsFiniteSet(Counted) /\ IsFiniteSet(Counted')
         /\ Met => Met'
<1>1. MailTypes /\ Run \subseteq Mail /\ \A l \in Leg : <<l, Sentinel>> \in Mail
  BY DEF Types, Run, Mail
<1>2. \A l \in Leg : latest[l] # -1 => latest'[l] # -1
  BY <1>1, MailSteps, Inserts DEF mailVars
<1>3. Counted \subseteq Counted' /\ Counted \subseteq Leg /\ Counted' \subseteq Leg
  BY <1>2 DEF Counted
<1>4. IsFiniteSet(Leg)
  BY DEF FanInAssumption
<1>5. IsFiniteSet(Counted) /\ IsFiniteSet(Counted')
  BY <1>3, <1>4, FS_Subset
<1>6. /\ Cardinality(Counted) \in Nat /\ Cardinality(Counted') \in Nat
      /\ Cardinality(Counted) <= Cardinality(Counted')
  BY <1>3, <1>5, FS_Subset, FS_CardinalityType
<1>7. Quorum \in Int
  BY DEF FanInAssumption
<1> QED
  BY <1>3, <1>5, <1>6, <1>7 DEF Met

\* What the scheduler is about to write is borne out by the legs.
LEMMA VerdictsStep == Types /\ Verdicts /\ [Next]_vars => Verdicts'
<1> SUFFICES ASSUME Types, Verdicts, [Next]_vars PROVE Verdicts'
  OBVIOUS
<1>0. /\ sched \in SchedRow /\ sched.verdict \in Verdict
      /\ Met => Met'
  BY CountedGrows DEF Types, SchedTypes, SchedRow
<1> USE DEF Verdicts, groupVars
<1>1. CASE UNCHANGED <<group, overdue, wake, sched>>
  BY <1>0, <1>1
<1>2. CASE Open \/ CancelFlip
  BY <1>2, <1>0 DEF Open, CancelFlip, procVars, Verdict
<1>3. CASE Overdue
  BY <1>3, <1>0 DEF Overdue, procVars
<1>4. CASE BeginPhase
  BY <1>4, <1>0 DEF BeginPhase
<1>5. ASSUME NEW l \in Leg, Reconcile(l) PROVE Verdicts'
  <2>1. sched'.at = sched.at /\ sched'.late = sched.late /\ sched'.verdict = sched.verdict
    BY <1>0, <1>5, SchedDrops DEF Reconcile
  <2> QED
    BY <1>0, <1>5, <2>1 DEF Reconcile
<1>6. CASE Tell
  BY <1>0, <1>6, SchedRests DEF Tell, Met, Verdict
<1>7. CASE Flip
  BY <1>0, <1>7, SchedRests DEF Flip, Verdict
<1>8. CASE PoisonFlip \/ Raise
  BY <1>0, <1>8, SchedRests, SchedMoves DEF PoisonFlip, Raise, SchedAt, Verdict
<1>11. CASE PoisonNotice
  BY <1>0, <1>11, SchedRests DEF PoisonNotice
<1>10. CASE PoisonFlipRaises
  BY <1>0, <1>10, SchedRests DEF PoisonFlipRaises
<1>9. CASE ServeCrash
  BY <1>0, <1>9, SchedRests DEF ServeCrash
<1> QED
  BY <1>1, <1>2, <1>3, <1>4, <1>5, <1>6, <1>7, <1>8, <1>9, <1>10, <1>11 DEF Next, vars, procVars, Tools, Phase,
     LegStep, Claim, Submit, Stop, LegChecks, Restart, AskDispatch, CreateLeg, CancelReads,
     CancelFlags, Dispatcher, WorkerCrash, CancellerCrash, ArchiveCoordinator, OperatorCancel

\* There is no verdict yet.
LEMMA OneVerdictInit == Init => OneVerdict
  BY DEF Init, OneVerdict, Asleep, Verdict

\* What went wrong is not forgotten.
LEMMA FaultsGrow ==
  ASSUME [Next]_vars
  PROVE  faults \subseteq faults'
  BY DEF Next, vars, Tools, Phase, LegStep, Claim, Submit, Stop, LegChecks, Restart, Open, CancelFlip,
     AskDispatch, CreateLeg, CancelReads, CancelFlags, Dispatcher, BeginPhase, Tell, Raise, Flip,
     PoisonFlip, PoisonFlipRaises, PoisonNotice, Reconcile, Overdue, WorkerCrash, ServeCrash, CancellerCrash,
     ArchiveCoordinator, OperatorCancel, Fault

\* Only an interruption makes a second verdict.
LEMMA OneVerdictStep == Types /\ Verdicts /\ OneVerdict /\ [Next]_vars => OneVerdict'
<1> SUFFICES ASSUME Types, Verdicts, OneVerdict, [Next]_vars PROVE OneVerdict'
  OBVIOUS
<1>0. sched \in SchedRow /\ sched.verdict \in Verdict /\ faults \subseteq faults'
  BY FaultsGrow DEF Types, SchedTypes, SchedRow
<1> USE DEF OneVerdict, Clean, groupVars
<1>1. CASE UNCHANGED <<group, wake, notice, sched>>
  BY <1>0, <1>1
<1>2. CASE Open \/ CancelFlip
  BY <1>2, <1>0 DEF Open, CancelFlip, procVars, Verdict
<1>4. CASE BeginPhase
  BY <1>4, <1>0 DEF BeginPhase
<1>5. ASSUME NEW l \in Leg, Reconcile(l) PROVE OneVerdict'
  <2>1. sched'.at = sched.at /\ sched'.late = sched.late /\ sched'.verdict = sched.verdict
    BY <1>0, <1>5, SchedDrops DEF Reconcile
  <2> QED
    BY <1>0, <1>5, <2>1 DEF Reconcile
<1>6. CASE Tell
  BY <1>0, <1>6, SchedRests DEF Tell, Verdict
<1>7. CASE Flip
  <2>1. /\ sched.at = "mailed" /\ sched'.at = "idle"
        /\ UNCHANGED <<wake, notice, faults>>
        /\ group = "open" => group' = sched.verdict
        /\ group # "open" => group' = group
    BY <1>7, SchedRests DEF Flip
  <2>2. group # "none"
    BY <2>1 DEF Verdicts
  <2>3. ASSUME Clean PROVE group' \notin {"none", "open"} /\ (group' \in Verdict => wake' = group')
    BY <1>0, <2>1, <2>2, <2>3 DEF Verdict
  <2>4. group' = "poisoned" => group = "poisoned"
    BY <1>0, <2>1 DEF Verdict
  <2> QED
    BY <2>1, <2>3, <2>4
<1>8. CASE PoisonFlip \/ Raise
  BY <1>0, <1>8, SchedRests, SchedMoves DEF PoisonFlip, Raise, SchedAt, Verdict
<1>11. CASE PoisonNotice
  BY <1>0, <1>11, SchedRests DEF PoisonNotice
<1>10. CASE PoisonFlipRaises
  BY <1>0, <1>10, SchedRests DEF PoisonFlipRaises
<1>9. CASE ServeCrash
  BY <1>0, <1>9, SchedRests DEF ServeCrash, Fault
<1> QED
  BY <1>1, <1>2, <1>4, <1>5, <1>6, <1>7, <1>8, <1>9, <1>10, <1>11 DEF Next, vars, procVars, Tools, Phase,
     LegStep, Claim, Submit, Stop, LegChecks, Restart, AskDispatch, CreateLeg, CancelReads, Overdue,
     CancelFlags, Dispatcher, WorkerCrash, CancellerCrash, ArchiveCoordinator, OperatorCancel

\* What the coordinator is told is there when the group is closed by its verdict, and true,
\* for every roster and quorum, wherever the processes die (scheduler.py,
\* _resolve_fan_in_barriers; outbox dispatcher). A group closed in quarantine is left out:
\* its mail may be lost.
THEOREM CoordinatorKnows == Spec => []CoordinatorIsTold
<1>1. Verdicts /\ OneVerdict /\ DeliveredInv => CoordinatorIsTold
  BY DEF Verdicts, OneVerdict, Clean, DeliveredInv, Delivered, CoordinatorIsTold,
     NoSilentResolution, WakeTellsVerdict, NoResultLost
<1> QED
  BY <1>1, TypeInit, TypeStep, RosterInit, RosterStep, DeliveredInit, DeliveredStep,
     VerdictsInit, VerdictsStep, OneVerdictInit, OneVerdictStep, PTL DEF Spec

-----------------------------------------------------------------------------
(* The barrier *)

\* The new group is a new barrier.
LEMMA BarrierInit == Init => Barrier!Init
  BY DEF Init, Barrier!Init, Counted

\* A quorum is the same thing to both.
LEMMA BarrierCounts == Barrier!Enough <=> Met
  BY DEF Barrier!Enough, Barrier!Cardinality, Cardinality, Met

\* Every step of the group is a step of the barrier, or none.
LEMMA BarrierStep ==
  ASSUME Types, Roster, Unsent, Verdicts, DeliveredInv, [Next]_vars
  PROVE  [Barrier!Next]_(Barrier!vars)
<1> USE DEF groupVars, Barrier!Next, Barrier!vars
<1>0. /\ sched.at # "idle" => group # "none"
      /\ sched.late => overdue
      /\ sched \in SchedRow
  BY DEF Verdicts, Types, SchedTypes
<1>1. CASE UNCHANGED <<group, latest, overdue, wake>>
  BY <1>1 DEF Counted
<1>2. CASE Open
  BY <1>2 DEF Open, mailVars, Barrier!Open, Counted
<1>3. CASE Overdue
  BY <1>3 DEF Overdue, mailVars, Barrier!TimeOut, Counted
<1>4. CASE CancelFlip \/ PoisonFlip
  BY <1>4 DEF CancelFlip, PoisonFlip, mailVars, Barrier!Resolve, Counted
<1>5. CASE Flip
  <2>1. /\ sched.at = "mailed" /\ sched.verdict \in {"quorum_met", "expired"}
        /\ group' = IF group = "open" THEN sched.verdict ELSE group
        /\ UNCHANGED <<overdue, wake, latest>>
    BY <1>0, <1>5 DEF Flip, mailVars, SchedRow, Verdict
  <2>2. UNCHANGED Counted
    BY <2>1 DEF Counted
  <2>3. /\ wake # "none"
        /\ sched.verdict = "quorum_met" => Met
        /\ sched.verdict = "expired" => overdue
    BY <2>1 DEF Verdicts
  <2>4. CASE group = "open"
    BY <2>1, <2>2, <2>3, <2>4, BarrierCounts DEF Barrier!Resolve
  <2> QED
    BY <2>1, <2>2, <2>4
<1>6. CASE Tell
  <2>1. /\ sched.at = "reconcile"
        /\ UNCHANGED <<group, overdue, latest>>
        /\ UNCHANGED wake \/ (wake = "none" /\ wake' # "none" /\ (Met \/ sched.late))
    BY <1>6 DEF Tell, mailVars, Met
  <2>2. UNCHANGED Counted
    BY <2>1 DEF Counted
  <2>3. CASE wake = "none" /\ wake' # "none" /\ (Met \/ sched.late)
    BY <1>0, <2>1, <2>2, <2>3, BarrierCounts DEF Barrier!Tell
  <2> QED
    BY <2>1, <2>2, <2>3
<1>7. ASSUME NEW m \in Mail, Insert(m), group # "none", UNCHANGED <<group, overdue, wake>>
      PROVE  [Barrier!Next]_(Barrier!vars)
  <2>1. MailTypes /\ m[1] \in Leg
    BY DEF Types, Mail
  <2>2. Counted' = Counted \/ Counted' = Counted \cup {m[1]}
    <3>1. /\ \A l \in Leg : latest[l] # -1 => latest'[l] # -1
          /\ \A l \in Leg : l # m[1] => latest'[l] = latest[l]
      BY <1>7, <2>1, Inserts
    <3> QED
      BY ONLY <2>1, <3>1 DEF Counted
  <2>3. CASE Counted' = Counted
    BY <1>7, <2>3
  <2>4. CASE Counted' = Counted \cup {m[1]} /\ m[1] \notin Counted
    BY <1>7, <2>1, <2>4 DEF Barrier!Count
  <2> QED
    BY <2>2, <2>3, <2>4
<1>8. CASE Dispatcher
  <2>1. ASSUME NEW r \in Run, outbox[r] = "pending" PROVE r \in Mail /\ group # "none"
    <3>1. r[1] \in Leg /\ r[2] \in Try /\ r = <<r[1], r[2]>>
      BY DEF Run
    <3> QED
      BY <2>1, <3>1 DEF Unsent, Roster, Mail
  <2> QED
    BY <1>1, <1>7, <1>8, <2>1 DEF Dispatcher, mailVars
<1>9. ASSUME NEW l \in Leg, Reconcile(l) PROVE [Barrier!Next]_(Barrier!vars)
  <2>1. <<l, Sentinel>> \in Mail /\ group # "none"
    BY <1>0, <1>9 DEF Reconcile, Mail
  <2> QED
    BY <1>1, <1>7, <1>9, <2>1 DEF Reconcile, mailVars
<1> QED
  BY <1>1, <1>2, <1>3, <1>4, <1>5, <1>6, <1>8, <1>9 DEF Next, vars, mailVars, Tools, Phase, LegStep,
     Claim, Submit, Stop, LegChecks, Restart, AskDispatch, CreateLeg, CancelReads, CancelFlags,
     BeginPhase, Raise, PoisonFlipRaises, PoisonNotice, WorkerCrash, ServeCrash, CancellerCrash, ArchiveCoordinator,
     OperatorCancel

\* A group implements FanInBarrier, for every roster, quorum and combination of faults: it
\* is resolved once, as met only when a quorum of distinct legs was counted, and never
\* before the mail that wakes the coordinator (scheduler.py, _resolve_one_fan_in_group).
THEOREM GroupIsBarrier == Spec => IsBarrier
<1> DEFINE Good == Types /\ Roster /\ Unsent /\ Verdicts /\ DeliveredInv
<1>1. Init => Good
  BY TypeInit, RosterInit, DeliveredInit, UnsentInit, VerdictsInit
<1>2. Good /\ [Next]_vars => Good'
  BY TypeStep, RosterStep, DeliveredStep, UnsentStep, VerdictsStep
<1>3. Good /\ [Next]_vars => [Barrier!Next]_(Barrier!vars)
  BY BarrierStep
<1> HIDE DEF Good
<1> QED
  BY <1>1, <1>2, <1>3, BarrierInit, PTL DEF Spec, IsBarrier, Barrier!Spec

-----------------------------------------------------------------------------
(***************************************************************************)
(* The pages of the dashboard                                              *)
(***************************************************************************)
HIDE FanInAssumption

Names  == Dash!Fragments \cup Wakeup
Counts == [mail : Nat, task : Nat, agent : Nat, active : Nat, started : Nat, ended : Nat]

\* The wakeups that run are those that started and did not end.
Coherent(m) == m.started = m.active + m.ended

\* Marks that were read later; the number of running wakeups alone may go back.
UpTo(m, n) == /\ m.mail <= n.mail /\ m.task <= n.task /\ m.agent <= n.agent
              /\ m.started <= n.started /\ m.ended <= n.ended

PageTypes ==
    /\ wakeups \in [Wakeup -> {"none", "active", "ended"}] /\ db \in [Dash!Tables -> Nat]
    /\ cursor \in Counts /\ Coherent(cursor)
    /\ tick \in [at : {"idle", "snapped", "polled"}, marks : Counts,
                 events : SUBSET Names, seen : SUBSET Wakeup]
    /\ Coherent(tick.marks)
    /\ tombs \subseteq Wakeup /\ DOMAIN live \subseteq Wakeup
    /\ tick.at = "polled" => tick.seen \subseteq DOMAIN live
    /\ stage \in [Page -> {"closed", "rendered", "connecting", "open"}]
    /\ queue \in [Page -> Seq(SUBSET Names)]
    /\ hand \in [Page -> SUBSET Names] /\ untold \in [Page -> SUBSET Names]
    /\ DOMAIN shown = Page /\ DOMAIN cards = Page

\* What a page can show: the fragments that it asked for, and cards if one of them is
\* the activity; a page that was closed shows nothing, and has no events before its
\* stream is open.
Fills(p) ==
    /\ DOMAIN shown[p] \subseteq Wants[p]
    /\ DOMAIN cards[p] \subseteq Wakeup
    /\ DOMAIN cards[p] # {} => "activity" \in Wants[p]
    /\ stage[p] = "closed" => DOMAIN shown[p] = {} /\ DOMAIN cards[p] = {}
    /\ stage[p] # "open" => queue[p] = <<>> /\ hand[p] = {}

\* The next tick compares with marks that were there.
Behind == UpTo(Dash!Base, Dash!Marks)

\* What is on its way to a page, or was lost on it.
Reach(p) == Dash!Told(p) \cup untold[p]

\* What a page shows and will not be told of was read since the last tick began.
Seen(p) ==
    \A f \in DOMAIN shown[p] \ {"health"} :
        \/ f \in Reach(p)
        \/ \E m \in Counts : /\ Coherent(m) /\ UpTo(Dash!Base, m) /\ UpTo(m, Dash!Marks)
                             /\ Dash!View(f, shown[p][f]) = Dash!View(f, m)

Card(p) ==
    \A w \in DOMAIN cards[p] \cap DOMAIN live :
        cards[p][w] = Dash!Snapshot(live[w].card) \/ live[w].card = Dash!Empty \/ w \in Reach(p)

PInv == PageTypes /\ Behind /\ \A p \in Page : Fills(p) /\ Seen(p) /\ Card(p)

-----------------------------------------------------------------------------

LEMMA PageAssumptions ==
  /\ IsFiniteSet(Wakeup) /\ Wakeup \cap Dash!Fragments = {}
  /\ Wants \in [Page -> SUBSET Dash!Fragments] /\ QueueMax \in Nat \ {0}
<1>1. Dash!IsFiniteSet(Wakeup) <=> IsFiniteSet(Wakeup)
  BY DEF Dash!IsFiniteSet, IsFiniteSet
<1> QED
  BY <1>1, PagesAssumption DEF Dash!LiveViewAssumption

LEMMA FragmentsAre ==
  Dash!Fragments = {"stats", "activity", "agent_status", "health"}
  BY DEF Dash!Fragments, Dash!Watches

LEMMA SameAt ==
  ASSUME NEW S, NEW m, NEW n
  PROVE  [k \in S |-> m[k]] = [k \in S |-> n[k]] <=> \A k \in S : m[k] = n[k]
<1>1. ASSUME [k \in S |-> m[k]] = [k \in S |-> n[k]], NEW k \in S PROVE m[k] = n[k]
  <2>1. [j \in S |-> m[j]][k] = [j \in S |-> n[j]][k]
    BY <1>1
  <2> QED
    BY <2>1
<1> QED
  BY <1>1

LEMMA Views ==
  ASSUME NEW m \in Counts, NEW n \in Counts
  PROVE  /\ Dash!View("stats", m) = Dash!View("stats", n) <=>
               /\ m.mail = n.mail /\ m.task = n.task
               /\ m.started = n.started /\ m.ended = n.ended /\ m.active = n.active
         /\ Dash!View("activity", m) = Dash!View("activity", n) <=>
               /\ m.mail = n.mail /\ m.task = n.task
               /\ m.started = n.started /\ m.ended = n.ended /\ m.agent = n.agent
         /\ Dash!View("agent_status", m) = Dash!View("agent_status", n) <=>
               m.started = n.started /\ m.ended = n.ended /\ m.active = n.active
<1>1. /\ Dash!Watches["stats"] = {"mail", "task", "started", "ended", "active"}
      /\ Dash!Watches["activity"] = {"mail", "task", "started", "ended", "agent"}
      /\ Dash!Watches["agent_status"] = {"started", "ended", "active"}
  BY DEF Dash!Watches
<1>2. \A f : Dash!View(f, m) = Dash!View(f, n) <=> \A k \in Dash!Watches[f] : m[k] = n[k]
  BY SameAt DEF Dash!View
<1> QED
  BY <1>1, <1>2

\* A fragment shows what the marks are, of what they cover.
LEMMA ContentIs ==
  ASSUME NEW f \in Dash!Fragments
  PROVE  Dash!View(f, Dash!Content(f)) = Dash!View(f, Dash!Marks)
<1>1. ASSUME NEW k \in Dash!Watches[f] PROVE Dash!Content(f)[k] = Dash!Marks[k]
  <2>1. k \notin Dash!Besides(f)
    <3>1. CASE f = "activity"
      BY <1>1, <3>1 DEF Dash!Besides, Dash!Watches
    <3>2. CASE f # "activity"
      BY <3>2 DEF Dash!Besides
    <3> QED
      BY <3>1, <3>2
  <2> QED
    BY <1>1, <2>1 DEF Dash!Content
<1>2. [k \in Dash!Watches[f] |-> Dash!Content(f)[k]] = [k \in Dash!Watches[f] |-> Dash!Marks[k]]
  BY <1>1
<1> QED
  BY <1>2 DEF Dash!View

\* If a fragment looks the same at two times, it looked so at any time in between: what
\* goes back is determined by what does not.
LEMMA Between ==
  ASSUME NEW f \in Dash!Fragments \ {"health"}, NEW a \in Counts, NEW b \in Counts, NEW c \in Counts,
         Coherent(a), Coherent(b), Coherent(c), UpTo(a, b), UpTo(b, c),
         Dash!View(f, a) = Dash!View(f, c)
  PROVE  Dash!View(f, b) = Dash!View(f, c)
<1>0. f \in {"stats", "activity", "agent_status"}
  BY FragmentsAre
<1>1. CASE f = "stats"
  <2>1. /\ a.mail = c.mail /\ a.task = c.task /\ a.started = c.started
        /\ a.ended = c.ended /\ a.active = c.active
    BY <1>1, Views
  <2>2. /\ b.mail = c.mail /\ b.task = c.task /\ b.started = c.started
        /\ b.ended = c.ended /\ b.active = c.active
    BY <2>1 DEF Counts, UpTo, Coherent
  <2> QED
    BY <1>1, <2>2, Views
<1>2. CASE f = "activity"
  <2>1. /\ a.mail = c.mail /\ a.task = c.task /\ a.started = c.started
        /\ a.ended = c.ended /\ a.agent = c.agent
    BY <1>2, Views
  <2>2. /\ b.mail = c.mail /\ b.task = c.task /\ b.started = c.started
        /\ b.ended = c.ended /\ b.agent = c.agent
    BY <2>1 DEF Counts, UpTo
  <2> QED
    BY <1>2, <2>2, Views
<1>3. CASE f = "agent_status"
  <2>1. a.started = c.started /\ a.ended = c.ended /\ a.active = c.active
    BY <1>3, Views
  <2>2. b.started = c.started /\ b.ended = c.ended /\ b.active = c.active
    BY <2>1 DEF Counts, UpTo, Coherent
  <2> QED
    BY <1>3, <2>2, Views
<1> QED
  BY <1>0, <1>1, <1>2, <1>3

LEMMA Ordering ==
  ASSUME NEW a \in Counts, NEW b \in Counts, NEW c \in Counts, UpTo(a, b), UpTo(b, c)
  PROVE  UpTo(a, c) /\ UpTo(a, a)
  BY DEF Counts, UpTo

\* The marks of the database, as a function of its tables and wakeups.
Begun(ws)   == {w \in Wakeup : ws[w] # "none"}
Running(ws) == {w \in Wakeup : ws[w] = "active"}
Finished(ws)    == {w \in Wakeup : ws[w] = "ended"}

LEMMA MarksCounted ==
  ASSUME NEW ws \in [Wakeup -> {"none", "active", "ended"}]
  PROVE  /\ Cardinality(Begun(ws)) \in Nat /\ Cardinality(Running(ws)) \in Nat
         /\ Cardinality(Finished(ws)) \in Nat
         /\ Cardinality(Begun(ws)) = Cardinality(Running(ws)) + Cardinality(Finished(ws))
         /\ IsFiniteSet(Begun(ws)) /\ IsFiniteSet(Finished(ws))
<1>1. IsFiniteSet(Begun(ws)) /\ IsFiniteSet(Running(ws)) /\ IsFiniteSet(Finished(ws))
  <2>1. Begun(ws) \subseteq Wakeup /\ Running(ws) \subseteq Wakeup /\ Finished(ws) \subseteq Wakeup
    BY DEF Begun, Running, Finished
  <2> QED
    BY <2>1, PageAssumptions, FS_Subset
<1>2. Begun(ws) = Running(ws) \cup Finished(ws) /\ Running(ws) \cap Finished(ws) = {}
  BY DEF Begun, Running, Finished
<1>3. /\ Cardinality(Begun(ws)) \in Nat /\ Cardinality(Running(ws)) \in Nat
      /\ Cardinality(Finished(ws)) \in Nat
  BY <1>1, FS_CardinalityType
<1>4. Cardinality(Begun(ws)) = Cardinality(Running(ws)) + Cardinality(Finished(ws)) - Cardinality(Running(ws) \cap Finished(ws))
  BY <1>1, <1>2, FS_Union
<1>5. Cardinality(Running(ws) \cap Finished(ws)) = 0
  BY <1>2, FS_EmptySet
<1> QED
  BY <1>1, <1>3, <1>4, <1>5

LEMMA CountIs == \A S : Dash!Cardinality(S) = Cardinality(S)
  BY DEF Dash!Cardinality, Cardinality

MarksOf(d, ws) ==
    [mail |-> d.mail, task |-> d.task, agent |-> d.agent, active |-> Cardinality(Running(ws)),
     started |-> Cardinality(Begun(ws)), ended |-> Cardinality(Finished(ws))]

LEMMA MarksAre == Dash!Marks = MarksOf(db, wakeups) /\ Dash!Marks' = MarksOf(db', wakeups')
  BY CountIs DEF Dash!Marks, Dash!Active, MarksOf, Running, Begun, Finished

LEMMA MarksCount ==
  ASSUME NEW d \in [Dash!Tables -> Nat], NEW ws \in [Wakeup -> {"none", "active", "ended"}]
  PROVE  LET m == MarksOf(d, ws) IN m \in Counts /\ Coherent(m) /\ UpTo(m, m)
<1>1. d.mail \in Nat /\ d.task \in Nat /\ d.agent \in Nat
  BY DEF Dash!Tables
<1> QED
  BY <1>1, MarksCounted DEF MarksOf, Counts, Coherent, UpTo

LEMMA MarksGrow ==
  ASSUME NEW d \in [Dash!Tables -> Nat], NEW e \in [Dash!Tables -> Nat],
         NEW ws \in [Wakeup -> {"none", "active", "ended"}],
         NEW vs \in [Wakeup -> {"none", "active", "ended"}],
         \A t \in Dash!Tables : d[t] <= e[t],
         Begun(ws) \subseteq Begun(vs), Finished(ws) \subseteq Finished(vs)
  PROVE  UpTo(MarksOf(d, ws), MarksOf(e, vs))
<1>1. Cardinality(Begun(ws)) <= Cardinality(Begun(vs)) /\ Cardinality(Finished(ws)) <= Cardinality(Finished(vs))
  BY MarksCounted, FS_Subset
<1>2. d.mail <= e.mail /\ d.task <= e.task /\ d.agent <= e.agent
  BY DEF Dash!Tables
<1> QED
  BY <1>1, <1>2 DEF MarksOf, UpTo

LEMMA MarksTyped ==
  ASSUME PageTypes
  PROVE  /\ Dash!Marks \in Counts /\ Coherent(Dash!Marks) /\ UpTo(Dash!Marks, Dash!Marks)
         /\ Dash!Base \in Counts /\ Coherent(Dash!Base)
<1>1. db \in [Dash!Tables -> Nat] /\ wakeups \in [Wakeup -> {"none", "active", "ended"}]
  BY DEF PageTypes
<1>2. Dash!Base \in Counts /\ Coherent(Dash!Base)
  BY DEF PageTypes, Dash!Base
<1> QED
  BY <1>1, <1>2, MarksCount, MarksAre

InQueue(q) == UNION Dash!ToSet(q)
Pending(t) == IF t.at = "idle" THEN {} ELSE t.events

LEMMA ReachIs ==
  ASSUME NEW p
  PROVE  /\ Reach(p) = hand[p] \cup InQueue(queue[p]) \cup Pending(tick) \cup untold[p]
         /\ Reach(p)' = hand'[p] \cup InQueue(queue'[p]) \cup Pending(tick') \cup untold'[p]
<1>1. Dash!ToSet(queue[p])' = Dash!ToSet(queue'[p])
  BY DEF Dash!ToSet
<1>2. (UNION Dash!ToSet(queue[p]))' = UNION Dash!ToSet(queue'[p])
  BY <1>1
<1>3. Dash!Told(p) = hand[p] \cup (UNION Dash!ToSet(queue[p])) \cup Pending(tick)
  BY DEF Dash!Told, Pending
<1>4. Dash!Told(p)' = hand'[p] \cup (UNION Dash!ToSet(queue'[p])) \cup Pending(tick')
  BY <1>2 DEF Dash!Told, Pending
<1>5. Reach(p)' = Dash!Told(p)' \cup untold'[p]
  BY DEF Reach
<1>6. Reach(p) = Dash!Told(p) \cup untold[p]
  BY DEF Reach
<1>7. InQueue(queue[p]) = UNION Dash!ToSet(queue[p])
  BY DEF InQueue
<1>8. InQueue(queue'[p]) = UNION Dash!ToSet(queue'[p])
  BY DEF InQueue
<1>9. Reach(p) = hand[p] \cup InQueue(queue[p]) \cup Pending(tick) \cup untold[p]
  BY <1>3, <1>6, <1>7
<1>10. Reach(p)' = hand'[p] \cup InQueue(queue'[p]) \cup Pending(tick') \cup untold'[p]
  BY <1>4, <1>5, <1>8
<1> QED
  BY <1>9, <1>10

\* What a step leaves to a page that it does not touch.
LEMMA Stays ==
  ASSUME PageTypes, PageTypes', NEW p \in Page, Seen(p), Card(p),
         shown'[p] = shown[p], cards'[p] = cards[p], live' = live,
         Dash!Base' = Dash!Base, UpTo(Dash!Marks, Dash!Marks'), Reach(p) \subseteq Reach(p)'
  PROVE  Seen(p)' /\ Card(p)'
<1>1. Dash!Marks \in Counts /\ Dash!Marks' \in Counts
  <2>1. /\ db \in [Dash!Tables -> Nat] /\ wakeups \in [Wakeup -> {"none", "active", "ended"}]
        /\ db' \in [Dash!Tables -> Nat] /\ wakeups' \in [Wakeup -> {"none", "active", "ended"}]
    BY DEF PageTypes
  <2> QED
    BY <2>1, MarksCount, MarksAre
<1>2. ASSUME NEW f \in DOMAIN shown[p] \ {"health"}
      PROVE  \/ f \in Reach(p)'
             \/ \E m \in Counts : /\ Coherent(m) /\ UpTo(Dash!Base', m) /\ UpTo(m, Dash!Marks')
                                  /\ Dash!View(f, shown[p][f]) = Dash!View(f, m)
  <2>1. CASE f \in Reach(p)
    BY <2>1
  <2>2. CASE f \notin Reach(p)
    <3>1. PICK m \in Counts : /\ Coherent(m) /\ UpTo(Dash!Base, m) /\ UpTo(m, Dash!Marks)
                              /\ Dash!View(f, shown[p][f]) = Dash!View(f, m)
      BY <2>2 DEF Seen
    <3>2. UpTo(m, Dash!Marks')
      BY <1>1, <3>1, Ordering
    <3> QED
      BY <3>1, <3>2
  <2> QED
    BY <2>1, <2>2
<1>3. Seen(p)'
  BY <1>2 DEF Seen, Dash!View
<1>4. Card(p)'
  BY DEF Card, Dash!Snapshot, Dash!Empty
<1> QED
  BY <1>3, <1>4

LEMMA WorldStep ==
  ASSUME PInv, UNCHANGED <<cursor, live, tombs, tick, stage, queue, hand, shown, cards, untold>>,
         db' \in [Dash!Tables -> Nat], wakeups' \in [Wakeup -> {"none", "active", "ended"}],
         \A t \in Dash!Tables : db[t] <= db'[t],
         Begun(wakeups) \subseteq Begun(wakeups'), Finished(wakeups) \subseteq Finished(wakeups')
  PROVE  PInv'
<1>1. PageTypes'
  BY DEF PInv, PageTypes
<1>2. /\ db \in [Dash!Tables -> Nat] /\ wakeups \in [Wakeup -> {"none", "active", "ended"}]
      /\ Dash!Base \in Counts /\ PageTypes
  BY DEF PInv, PageTypes, Dash!Base
<1>3. UpTo(Dash!Marks, Dash!Marks') /\ Dash!Marks \in Counts /\ Dash!Marks' \in Counts
  BY <1>2, MarksGrow, MarksAre, MarksCount
<1>4. Dash!Base' = Dash!Base
  BY DEF Dash!Base
<1>5. Behind'
  BY <1>2, <1>3, <1>4, Ordering DEF PInv, Behind
<1>6. ASSUME NEW p \in Page PROVE Fills(p)' /\ Seen(p)' /\ Card(p)'
  <2>1. Fills(p)'
    BY DEF PInv, Fills
  <2>2. Reach(p)' = Reach(p)
    BY DEF Reach, Dash!Told, Dash!ToSet
  <2>3. Seen(p) /\ Card(p)
    BY DEF PInv
  <2> QED
    BY <1>1, <1>2, <1>3, <1>4, <2>1, <2>2, <2>3, Stays
<1> QED
  BY <1>1, <1>5, <1>6 DEF PInv

LEMMA SystemStep ==
  ASSUME PInv, \/ \E t \in Dash!Tables : Dash!TableChanges(t)
               \/ \E w \in Wakeup : Dash!WakeupStarts(w) \/ Dash!WriteTranscript(w) \/ Dash!WakeupEnds(w)
  PROVE  PInv'
<1>1. db \in [Dash!Tables -> Nat] /\ wakeups \in [Wakeup -> {"none", "active", "ended"}]
  BY DEF PInv, PageTypes
<1>2. UNCHANGED <<cursor, live, tombs, tick, stage, queue, hand, shown, cards, untold>>
  BY DEF Dash!TableChanges, Dash!WakeupStarts, Dash!WriteTranscript, Dash!WakeupEnds, Dash!caster, Dash!pages
<1>3. /\ db' \in [Dash!Tables -> Nat] /\ \A t \in Dash!Tables : db[t] <= db'[t]
      /\ wakeups' \in [Wakeup -> {"none", "active", "ended"}]
      /\ Begun(wakeups) \subseteq Begun(wakeups') /\ Finished(wakeups) \subseteq Finished(wakeups')
  <2>1. CASE \E t \in Dash!Tables : Dash!TableChanges(t)
    BY <1>1, <2>1 DEF Dash!TableChanges
  <2>2. CASE \E w \in Wakeup : Dash!WakeupStarts(w)
    BY <1>1, <2>2 DEF Dash!WakeupStarts, Begun, Finished
  <2>3. CASE \E w \in Wakeup : Dash!WriteTranscript(w)
    BY <1>1, <2>3 DEF Dash!WriteTranscript
  <2>4. CASE \E w \in Wakeup : Dash!WakeupEnds(w)
    BY <1>1, <2>4 DEF Dash!WakeupEnds, Begun, Finished
  <2> QED
    BY <2>1, <2>2, <2>3, <2>4
<1> QED
  BY <1>2, <1>3, WorldStep

LEMMA SnapStep ==
  ASSUME PInv, Dash!Snap
  PROVE  PInv'
<1>1. /\ tick.at = "idle"
      /\ tick' = [at |-> "snapped", marks |-> Dash!Marks, seen |-> {},
                  events |-> {f \in Dash!Fragments : Dash!Changed(f, cursor, Dash!Marks)}]
      /\ UNCHANGED <<db, wakeups, cursor, live, tombs, stage, queue, hand, shown, cards, untold>>
  BY DEF Dash!Snap, Dash!Snapshots, Dash!world, Dash!pages
<1>2. PageTypes /\ Dash!Marks \in Counts /\ Coherent(Dash!Marks) /\ UpTo(Dash!Marks, Dash!Marks)
      /\ Dash!Base \in Counts /\ Coherent(Dash!Base)
  BY MarksTyped DEF PInv
<1>3. Dash!Marks' = Dash!Marks /\ Dash!Base' = Dash!Marks /\ Dash!Base = cursor
  BY <1>1, MarksAre DEF Dash!Base
<1>4. PageTypes'
  <2>1. tick' \in [at : {"idle", "snapped", "polled"}, marks : Counts, events : SUBSET Names, seen : SUBSET Wakeup]
    BY <1>1, <1>2 DEF Names
  <2>2. Coherent(tick'.marks) /\ tick'.at # "polled"
    BY <1>1, <1>2
  <2> QED
    BY <1>1, <2>1, <2>2 DEF PInv, PageTypes
<1>5. Behind'
  BY <1>2, <1>3 DEF Behind
<1>6. ASSUME NEW p \in Page PROVE Fills(p)' /\ Seen(p)' /\ Card(p)'
  <2>1. Fills(p)'
    BY <1>1 DEF PInv, Fills
  <2>2. Reach(p) \cup tick'.events \subseteq Reach(p)'
    BY <1>1, ReachIs DEF Pending
  <2>3. ASSUME NEW f \in DOMAIN shown[p] \ {"health"}, f \notin Reach(p)'
        PROVE  Dash!View(f, shown[p][f]) = Dash!View(f, Dash!Marks)
    <3>1. f \in Dash!Fragments \ {"health"}
      BY PageAssumptions DEF PInv, Fills
    <3>2. Dash!View(f, Dash!Base) = Dash!View(f, Dash!Marks)
      BY <1>1, <1>3, <2>2, <2>3, <3>1 DEF Dash!Changed
    <3>3. PICK m \in Counts : /\ Coherent(m) /\ UpTo(Dash!Base, m) /\ UpTo(m, Dash!Marks)
                              /\ Dash!View(f, shown[p][f]) = Dash!View(f, m)
      BY <2>2, <2>3 DEF PInv, Seen
    <3> QED
      BY <1>2, <3>1, <3>2, <3>3, Between
  <2>4. Seen(p)'
    BY <1>1, <1>2, <1>3, <2>3 DEF Seen, Dash!View
  <2>5. Card(p)'
    BY <1>1, <2>2 DEF PInv, Card, Dash!Snapshot, Dash!Empty
  <2> QED
    BY <2>1, <2>4, <2>5
<1> QED
  BY <1>4, <1>5, <1>6 DEF PInv

LEMMA PollStep ==
  ASSUME PInv, Dash!PollLive
  PROVE  PInv'
<1>0. PICK read \in SUBSET Dash!Active :
         /\ live' = [w \in Dash!Active \cup DOMAIN live |->
                        IF w \in read THEN Dash!Polled(w) ELSE IF w \in Dash!Active THEN Dash!Held(w) ELSE live[w]]
         /\ tick' = [tick EXCEPT !.at = "polled", !.seen = Dash!Active, !.events = tick.events \cup tombs \cup
                        {w \in read : Dash!Poll(Dash!Held(w).tail, file[w]).rows # <<>>}]
  BY DEF Dash!PollLive
<1> DEFINE moved == {w \in read : Dash!Poll(Dash!Held(w).tail, file[w]).rows # <<>>}
<1>1. /\ tick.at = "snapped"
      /\ live' = [w \in Dash!Active \cup DOMAIN live |->
                     IF w \in read THEN Dash!Polled(w) ELSE IF w \in Dash!Active THEN Dash!Held(w) ELSE live[w]]
      /\ tombs' = {}
      /\ tick' = [tick EXCEPT !.at = "polled", !.seen = Dash!Active, !.events = tick.events \cup tombs \cup moved]
      /\ UNCHANGED <<db, wakeups, cursor, stage, queue, hand, shown, cards, untold>>
  BY <1>0 DEF Dash!PollLive, Dash!world, Dash!pages
<1>2. PageTypes /\ UpTo(Dash!Marks, Dash!Marks)
  BY MarksTyped DEF PInv
<1>3. /\ tick' \in [at : {"idle", "snapped", "polled"}, marks : Counts, events : SUBSET Names, seen : SUBSET Wakeup]
      /\ tick'.at = "polled" /\ tick'.marks = tick.marks /\ tick'.seen = Dash!Active
      /\ tick'.events = tick.events \cup tombs \cup moved
  <2>1. moved \subseteq Wakeup /\ Dash!Active \subseteq Wakeup
    BY DEF Dash!Active
  <2> HIDE DEF moved
  <2> QED
    BY <1>1, <1>2, <2>1 DEF PageTypes, Names
<1>4. Dash!Marks' = Dash!Marks /\ Dash!Base' = Dash!Base
  BY <1>1, <1>3, MarksAre DEF Dash!Base
<1>5. DOMAIN live' = Dash!Active \cup DOMAIN live /\ Dash!Active \subseteq Wakeup
  BY <1>1 DEF Dash!Active
<1>6. PageTypes'
  BY <1>1, <1>2, <1>3, <1>5 DEF PageTypes
<1>7. Behind'
  BY <1>4 DEF PInv, Behind
<1>8. ASSUME NEW w \in DOMAIN live'
      PROVE  (w \in DOMAIN live /\ live'[w].card = live[w].card) \/ live'[w].card = Dash!Empty \/ w \in moved
  <2>1. CASE w \notin Dash!Active
    BY <1>1, <1>5, <2>1
  <2>3. CASE w \in Dash!Active \ read
    <3>1. live'[w] = Dash!Held(w)
      BY <1>1, <2>3
    <3> QED
      BY <3>1 DEF Dash!Held
  <2>2. CASE w \in read
    <3>1. live'[w] = Dash!Polled(w)
      BY <1>0, <1>1, <2>2
    <3>2. CASE Dash!Poll(Dash!Held(w).tail, file[w]).rows = <<>>
      <4>1. live'[w].card = Dash!Held(w).card
        BY <3>1, <3>2 DEF Dash!Polled
      <4> QED
        BY <4>1 DEF Dash!Held
    <3> QED
      BY <2>2, <3>2
  <2> QED
    BY <2>1, <2>2, <2>3
<1>9. ASSUME NEW p \in Page PROVE Fills(p)' /\ Seen(p)' /\ Card(p)'
  <2>1. Fills(p)'
    BY <1>1 DEF PInv, Fills
  <2>2. Reach(p) \cup tick'.events \subseteq Reach(p)'
    BY <1>1, <1>3, ReachIs DEF Pending
  <2>3. Seen(p)'
    BY <1>1, <1>4, <2>2 DEF PInv, Seen, Dash!View
  <2>4. Card(p)'
    <3> SUFFICES ASSUME NEW w \in DOMAIN cards[p] \cap DOMAIN live'
                 PROVE  cards[p][w] = Dash!Snapshot(live'[w].card) \/ live'[w].card = Dash!Empty \/ w \in Reach(p)'
      BY <1>1 DEF Card, Dash!Snapshot, Dash!Empty
    <3>1. CASE w \in DOMAIN live /\ live'[w].card = live[w].card
      BY <2>2, <3>1 DEF PInv, Card
    <3>2. CASE w \in moved
      BY <1>3, <2>2, <3>2
    <3> QED
      BY <1>8, <3>1, <3>2
  <2> QED
    BY <2>1, <2>3, <2>4
<1> QED
  BY <1>6, <1>7, <1>9 DEF PInv

LEMMA PollFailsStep ==
  ASSUME PInv, Dash!PollFails
  PROVE  PInv'
<1>1. /\ tick.at = "snapped" /\ tombs' = {}
      /\ tick' = [tick EXCEPT !.at = "polled", !.seen = DOMAIN live, !.events = tick.events \cup tombs]
      /\ UNCHANGED <<db, wakeups, cursor, live, stage, queue, hand, shown, cards, untold>>
  BY DEF Dash!PollFails, Dash!world, Dash!pages
<1>2. PageTypes /\ UpTo(Dash!Marks, Dash!Marks)
  BY MarksTyped DEF PInv
<1>3. /\ tick' \in [at : {"idle", "snapped", "polled"}, marks : Counts, events : SUBSET Names, seen : SUBSET Wakeup]
      /\ tick'.at = "polled" /\ tick'.marks = tick.marks /\ tick'.seen = DOMAIN live
      /\ tick'.events = tick.events \cup tombs
  BY <1>1, <1>2 DEF PageTypes, Names
<1>4. Dash!Marks' = Dash!Marks /\ Dash!Base' = Dash!Base
  BY <1>1, <1>3, MarksAre DEF Dash!Base
<1>5. PageTypes'
  BY <1>1, <1>2, <1>3 DEF PageTypes
<1>6. Behind'
  BY <1>4 DEF PInv, Behind
<1>7. ASSUME NEW p \in Page PROVE Fills(p)' /\ Seen(p)' /\ Card(p)'
  <2>1. Fills(p)'
    BY <1>1 DEF PInv, Fills
  <2>2. Reach(p) \subseteq Reach(p)'
    BY <1>1, <1>3, ReachIs DEF Pending
  <2>3. Seen(p) /\ Card(p)
    BY DEF PInv
  <2> QED
    BY <1>1, <1>2, <1>4, <1>5, <2>1, <2>2, <2>3, Stays
<1> QED
  BY <1>5, <1>6, <1>7 DEF PInv

LEMMA Queues ==
  ASSUME NEW T, NEW q \in Seq(T), NEW e \in T
  PROVE  /\ InQueue(Append(q, e)) = InQueue(q) \cup e
         /\ q # <<>> => Tail(q) \in Seq(T) /\ Head(q) \in T /\ InQueue(q) = Head(q) \cup InQueue(Tail(q))
         /\ InQueue(<<>>) = {}
<1>1. /\ DOMAIN Append(q, e) = 1..Len(q) + 1 /\ DOMAIN q = 1..Len(q) /\ Len(q) \in Nat
      /\ \A i \in 1..Len(q) : Append(q, e)[i] = q[i]
      /\ Append(q, e)[Len(q) + 1] = e
  OBVIOUS
<1>2. Dash!ToSet(Append(q, e)) = Dash!ToSet(q) \cup {e}
  <2>1. ASSUME NEW x \in Dash!ToSet(Append(q, e)) PROVE x \in Dash!ToSet(q) \cup {e}
    BY <1>1 DEF Dash!ToSet
  <2>2. ASSUME NEW x \in Dash!ToSet(q) \cup {e} PROVE x \in Dash!ToSet(Append(q, e))
    <3>1. PICK i \in 1..Len(q) + 1 : Append(q, e)[i] = x
      BY <1>1 DEF Dash!ToSet
    <3> QED
      BY <1>1, <3>1 DEF Dash!ToSet
  <2> QED
    BY <2>1, <2>2
<1>3. ASSUME q # <<>>
      PROVE  Tail(q) \in Seq(T) /\ Head(q) \in T /\ Dash!ToSet(q) = {Head(q)} \cup Dash!ToSet(Tail(q))
  <2>1. /\ Tail(q) \in Seq(T) /\ Head(q) \in T /\ Head(q) = q[1] /\ Len(q) >= 1
        /\ DOMAIN Tail(q) = 1..Len(q) - 1 /\ \A i \in 1..Len(q) - 1 : Tail(q)[i] = q[i + 1]
    BY <1>3
  <2>2. ASSUME NEW x \in Dash!ToSet(q) PROVE x \in {Head(q)} \cup Dash!ToSet(Tail(q))
    <3>1. PICK i \in 1..Len(q) : q[i] = x
      BY <1>1 DEF Dash!ToSet
    <3>2. i = 1 \/ (i - 1 \in 1..Len(q) - 1 /\ Tail(q)[i - 1] = x)
      BY <1>1, <2>1, <3>1
    <3> QED
      BY <2>1, <3>1, <3>2 DEF Dash!ToSet
  <2>3. ASSUME NEW x \in Dash!ToSet(Tail(q)) PROVE x \in Dash!ToSet(q)
    <3>1. PICK i \in 1..Len(q) - 1 : q[i + 1] = x
      BY <2>1 DEF Dash!ToSet
    <3>2. i + 1 \in DOMAIN q
      BY <1>1, <3>1
    <3> QED
      BY <3>1, <3>2 DEF Dash!ToSet
  <2>4. Head(q) \in Dash!ToSet(q)
    BY <1>1, <2>1 DEF Dash!ToSet
  <2> QED
    BY <2>1, <2>2, <2>3, <2>4
<1>4. Dash!ToSet(<<>>) = {}
  BY DEF Dash!ToSet
<1> QED
  BY <1>2, <1>3, <1>4 DEF InQueue

LEMMA PublishStep ==
  ASSUME PInv, Dash!Publish
  PROVE  PInv'
<1>1. /\ tick.at = "polled" /\ tick' = Dash!Idle /\ cursor' = tick.marks
      /\ tombs' = DOMAIN live \ tick.seen /\ live' = Dash!Restrict(live, tick.seen)
      /\ UNCHANGED <<db, wakeups, stage, hand, shown, cards>>
  BY DEF Dash!Publish, Dash!world
<1>2. /\ PageTypes /\ Dash!Marks \in Counts /\ Coherent(Dash!Marks) /\ UpTo(Dash!Marks, Dash!Marks)
  BY MarksTyped DEF PInv
<1>3. /\ tick' \in [at : {"idle", "snapped", "polled"}, marks : Counts, events : SUBSET Names, seen : SUBSET Wakeup]
      /\ tick'.at = "idle" /\ tick'.marks = Dash!Marks
  BY <1>1, <1>2 DEF Dash!Idle
<1>4. Dash!Marks' = Dash!Marks /\ Dash!Base' = Dash!Base
  BY <1>1, <1>3, MarksAre DEF Dash!Base
<1>5. /\ live' = [w \in tick.seen |-> live[w]] /\ tick.seen \subseteq DOMAIN live
  BY <1>1, <1>2 DEF Dash!Restrict, PageTypes
<1>6. /\ queue \in [Page -> Seq(SUBSET Names)] /\ untold \in [Page -> SUBSET Names]
      /\ tick.events \in SUBSET Names /\ tick.marks \in Counts /\ Coherent(tick.marks)
      /\ QueueMax \in Nat \ {0}
  BY <1>2, PageAssumptions DEF PageTypes
\* What the queue of a page becomes, and what of it is lost.
<1>7. ASSUME NEW p \in Page
      PROVE  /\ queue[p] \in Seq(SUBSET Names) /\ Dash!Queued(p) \in Seq(SUBSET Names)
             /\ Dash!Dropped(p) \subseteq Names
             /\ InQueue(queue[p]) \subseteq InQueue(Dash!Queued(p)) \cup Dash!Dropped(p)
  <2>1. queue[p] \in Seq(SUBSET Names)
    BY <1>6
  <2>2. Len(queue[p]) = QueueMax => queue[p] # <<>>
    BY <1>6
  <2>3. /\ queue[p] # <<>> => /\ Tail(queue[p]) \in Seq(SUBSET Names) /\ Head(queue[p]) \in SUBSET Names
                              /\ InQueue(queue[p]) = Head(queue[p]) \cup InQueue(Tail(queue[p]))
    BY <1>6, <2>1, Queues
  <2> QED
    BY <2>1, <2>2, <2>3 DEF Dash!Queued, Dash!Dropped
<1>8. ASSUME tick.events # {}
      PROVE  /\ queue' = [p \in Page |-> IF p \in Dash!Subscribers THEN Append(Dash!Queued(p), tick.events) ELSE queue[p]]
             /\ untold' = [p \in Page |-> untold[p] \cup
                             CASE p \in Dash!Subscribers -> Dash!Dropped(p)
                               [] stage[p] = "closed"    -> {}
                               [] OTHER                  -> tick.events]
  BY <1>8 DEF Dash!Publish
<1>9. tick.events = {} => UNCHANGED <<queue, untold>>
  BY DEF Dash!Publish
<1>10. queue' \in [Page -> Seq(SUBSET Names)] /\ untold' \in [Page -> SUBSET Names]
  <2>1. CASE tick.events = {}
    BY <1>6, <1>9, <2>1
  <2>2. CASE tick.events # {}
    <3>1. ASSUME NEW p \in Page PROVE Append(Dash!Queued(p), tick.events) \in Seq(SUBSET Names)
      <4>1. Dash!Queued(p) \in Seq(SUBSET Names) /\ tick.events \in SUBSET Names
        BY <1>6, <1>7
      <4> QED
        BY <4>1, AppendProperties
    <3>2. \A p \in Page : queue[p] \in Seq(SUBSET Names) /\ untold[p] \in SUBSET Names
      BY <1>6
    <3>3. queue' \in [Page -> Seq(SUBSET Names)]
      <4>1. \A p \in Page : (IF p \in Dash!Subscribers THEN Append(Dash!Queued(p), tick.events) ELSE queue[p]) \in Seq(SUBSET Names)
        BY <3>1, <3>2
      <4> QED
        BY <1>8, <2>2, <4>1
    <3>4. untold' \in [Page -> SUBSET Names]
      <4>1. ASSUME NEW p \in Page
            PROVE  untold[p] \cup (CASE p \in Dash!Subscribers -> Dash!Dropped(p)
                                     [] stage[p] = "closed"    -> {}
                                     [] OTHER                  -> tick.events) \in SUBSET Names
        <5>1. Dash!Dropped(p) \subseteq Names /\ tick.events \subseteq Names /\ untold[p] \subseteq Names
          BY <1>6, <1>7, <3>2
        <5>2. CASE p \in Dash!Subscribers
          BY <5>1, <5>2 DEF Dash!Subscribers
        <5>3. CASE p \notin Dash!Subscribers /\ stage[p] = "closed"
          BY <5>1, <5>3
        <5>4. CASE p \notin Dash!Subscribers /\ stage[p] # "closed"
          BY <5>1, <5>4
        <5> QED
          BY <5>2, <5>3, <5>4
      <4> QED
        BY <1>8, <2>2, <4>1
    <3> QED
      BY <3>3, <3>4
  <2> QED
    BY <2>1, <2>2
<1>11. PageTypes'
  <2>1. tombs' \subseteq Wakeup /\ DOMAIN live' \subseteq Wakeup
    BY <1>1, <1>2, <1>5 DEF PageTypes
  <2>2. Coherent(tick'.marks) /\ tick'.at # "polled"
    BY <1>2, <1>3
  <2> QED
    BY <1>1, <1>2, <1>3, <1>6, <1>10, <2>1, <2>2 DEF PageTypes
<1>12. Behind'
  BY <1>4 DEF PInv, Behind
<1>13. ASSUME NEW p \in Page, stage[p] # "closed" PROVE Reach(p) \subseteq Reach(p)'
  <2>1. /\ Reach(p) = hand[p] \cup InQueue(queue[p]) \cup tick.events \cup untold[p]
        /\ Reach(p)' = hand[p] \cup InQueue(queue'[p]) \cup untold'[p]
    BY <1>1, <1>3, ReachIs DEF Pending
  <2>2. CASE tick.events = {}
    BY <1>9, <2>1, <2>2
  <2>3. CASE tick.events # {} /\ p \in Dash!Subscribers
    <3>1. /\ queue'[p] = Append(Dash!Queued(p), tick.events)
          /\ untold'[p] = untold[p] \cup Dash!Dropped(p)
      <4>1. queue' = [r \in Page |-> IF r \in Dash!Subscribers THEN Append(Dash!Queued(r), tick.events) ELSE queue[r]]
        BY <1>8, <2>3
      <4>2. queue'[p] = Append(Dash!Queued(p), tick.events)
        BY <2>3, <4>1
      <4>3. untold' = [r \in Page |-> untold[r] \cup
                          CASE r \in Dash!Subscribers -> Dash!Dropped(r)
                            [] stage[r] = "closed"    -> {}
                            [] OTHER                  -> tick.events]
        BY <1>8, <2>3
      <4>4. untold'[p] = untold[p] \cup
                CASE p \in Dash!Subscribers -> Dash!Dropped(p)
                  [] stage[p] = "closed"    -> {}
                  [] OTHER                  -> tick.events
        BY <4>3
      <4>5. untold'[p] = untold[p] \cup Dash!Dropped(p)
        BY <1>13, <2>3, <4>4
      <4> QED
        BY <4>2, <4>5
    <3>2. InQueue(queue'[p]) = InQueue(Dash!Queued(p)) \cup tick.events
      <4>1. Dash!Queued(p) \in Seq(SUBSET Names) /\ tick.events \in SUBSET Names
        BY <1>6, <1>7
      <4>2. InQueue(Append(Dash!Queued(p), tick.events)) = InQueue(Dash!Queued(p)) \cup tick.events
        BY <4>1, Queues
      <4> QED
        BY <3>1, <4>2
    <3> QED
      BY <1>7, <2>1, <3>1, <3>2
  <2>4. CASE tick.events # {} /\ p \notin Dash!Subscribers
    <3>1. queue'[p] = queue[p] /\ untold'[p] = untold[p] \cup tick.events
      BY <1>8, <1>13, <2>4
    <3> QED
      BY <2>1, <3>1
  <2> QED
    BY <2>2, <2>3, <2>4
<1>14. ASSUME NEW p \in Page PROVE Fills(p)' /\ Seen(p)' /\ Card(p)'
  <2>1. Fills(p) /\ Seen(p) /\ Card(p)
    BY DEF PInv
  <2>2. Fills(p)'
    <3>1. stage[p] # "open" => queue'[p] = queue[p]
      BY <1>8, <1>9 DEF Dash!Subscribers
    <3> QED
      BY <1>1, <2>1, <3>1 DEF Fills
  <2>3. CASE stage[p] = "closed"
    <3>1. DOMAIN shown[p] = {} /\ DOMAIN cards[p] = {} /\ shown' = shown /\ cards' = cards
      BY <1>1, <2>1, <2>3 DEF Fills
    <3>2. Seen(p)'
      BY <3>1 DEF Seen
    <3>3. Card(p)'
      BY <3>1 DEF Card
    <3> QED
      BY <2>2, <3>2, <3>3
  <2>4. CASE stage[p] # "closed"
    <3>1. Reach(p) \subseteq Reach(p)'
      BY <1>13, <2>4
    <3>2. Seen(p)'
      BY <1>1, <1>4, <2>1, <3>1 DEF Seen, Dash!View
    <3>3. Card(p)'
      BY <1>1, <1>5, <2>1, <3>1 DEF Card, Dash!Snapshot, Dash!Empty
    <3> QED
      BY <2>2, <3>2, <3>3
  <2> QED
    BY <2>3, <2>4
<1> QED
  BY <1>11, <1>12, <1>14 DEF PInv

\* A step of one page.
LEMMA OnePage ==
  ASSUME PInv, PageTypes', NEW p \in Page,
         UNCHANGED <<db, wakeups, cursor, live, tombs, tick>>,
         \A r \in Page \ {p} : /\ stage'[r] = stage[r] /\ queue'[r] = queue[r] /\ hand'[r] = hand[r]
                               /\ shown'[r] = shown[r] /\ cards'[r] = cards[r] /\ untold'[r] = untold[r],
         Fills(p)', Seen(p)', Card(p)'
  PROVE  PInv'
<1>1. PageTypes /\ UpTo(Dash!Marks, Dash!Marks)
  BY MarksTyped DEF PInv
<1>2. Dash!Marks' = Dash!Marks /\ Dash!Base' = Dash!Base
  BY MarksAre DEF Dash!Base
<1>3. Behind'
  BY <1>2 DEF PInv, Behind
<1>4. ASSUME NEW r \in Page PROVE Fills(r)' /\ Seen(r)' /\ Card(r)'
  <2>1. CASE r = p
    BY <2>1
  <2>2. CASE r # p
    <3>1. Fills(r) /\ Seen(r) /\ Card(r)
      BY DEF PInv
    <3>2. Fills(r)'
      BY <2>2, <3>1 DEF Fills
    <3>3. Reach(r) \subseteq Reach(r)'
      BY <2>2, ReachIs
    <3>4. UpTo(Dash!Marks, Dash!Marks')
      BY <1>1, <1>2
    <3>5. shown'[r] = shown[r] /\ cards'[r] = cards[r] /\ live' = live
      BY <2>2
    <3> QED
      BY <1>1, <1>2, <3>1, <3>2, <3>3, <3>4, <3>5, Stays
  <2> QED
    BY <2>1, <2>2
<1> QED
  BY <1>3, <1>4 DEF PInv

\* A page renders what it asked for: its events in hand may go if they are rendered.
LEMMA ShowsStep ==
  ASSUME PInv, NEW p \in Page, NEW fs, fs \subseteq Wants[p], Dash!Shows(p, fs),
         UNCHANGED <<db, wakeups, cursor, live, tombs, tick, queue>>,
         stage' \in [Page -> {"closed", "rendered", "connecting", "open"}],
         stage'[p] # "closed", stage'[p] = "open" <=> stage[p] = "open",
         hand' \in [Page -> SUBSET Names],
         \A r \in Page \ {p} : stage'[r] = stage[r] /\ hand'[r] = hand[r],
         hand'[p] \subseteq hand[p],
         (hand[p] \ hand'[p]) \cap (Wants[p] \cup Wakeup) \subseteq fs
  PROVE  PInv'
<1> DEFINE gone == fs \cup IF "activity" \in fs THEN Dash!Active ELSE {}
<1>1. /\ PageTypes /\ Dash!Marks \in Counts /\ Coherent(Dash!Marks) /\ UpTo(Dash!Marks, Dash!Marks)
      /\ Behind /\ Fills(p) /\ Seen(p) /\ Card(p)
  BY MarksTyped DEF PInv
<1>2. Dash!Marks' = Dash!Marks /\ Dash!Base' = Dash!Base
  BY MarksAre DEF Dash!Base
<1>3. fs \subseteq Dash!Fragments /\ fs \cap Wakeup = {} /\ Dash!Active \subseteq Wakeup
  BY PageAssumptions DEF Dash!Active
<1>4. /\ DOMAIN shown = Page /\ DOMAIN cards = Page /\ untold \in [Page -> SUBSET Names]
  BY <1>1 DEF PageTypes
<1>5. /\ shown' = [shown EXCEPT ![p] = [f \in fs \cup DOMAIN shown[p] |->
                                          IF f \in fs THEN Dash!Content(f) ELSE shown[p][f]]]
      /\ untold' = [untold EXCEPT ![p] = untold[p] \ gone]
      /\ "activity" \in fs => cards' = [cards EXCEPT ![p] = Dash!LiveCards]
      /\ "activity" \notin fs => cards' = cards
  BY DEF Dash!Shows
<1>6. /\ DOMAIN shown'[p] = fs \cup DOMAIN shown[p]
      /\ \A f \in fs : shown'[p][f] = Dash!Content(f)
      /\ \A f \in DOMAIN shown[p] \ fs : shown'[p][f] = shown[p][f]
      /\ untold'[p] = untold[p] \ gone
      /\ "activity" \in fs => cards'[p] = Dash!LiveCards
      /\ "activity" \notin fs => cards'[p] = cards[p]
      /\ DOMAIN shown' = Page /\ DOMAIN cards' = Page /\ untold' \in [Page -> SUBSET Names]
  BY <1>4, <1>5
<1>7. \A r \in Page \ {p} : shown'[r] = shown[r] /\ cards'[r] = cards[r] /\ untold'[r] = untold[r]
  BY <1>4, <1>5
<1>8. PageTypes'
  BY <1>1, <1>6 DEF PageTypes
<1>9. DOMAIN Dash!LiveCards = Dash!Active
  BY DEF Dash!LiveCards
<1>10. Fills(p)'
  BY <1>1, <1>3, <1>6, <1>9 DEF Fills
<1>11. (Reach(p) \ gone) \cap (Wants[p] \cup Wakeup) \subseteq Reach(p)'
  <2>1. /\ Reach(p) = hand[p] \cup InQueue(queue[p]) \cup Pending(tick) \cup untold[p]
        /\ Reach(p)' = hand'[p] \cup InQueue(queue'[p]) \cup Pending(tick') \cup untold'[p]
    BY ReachIs
  <2> QED
    BY <1>6, <2>1
<1>12. Seen(p)'
  <2> SUFFICES ASSUME NEW f \in DOMAIN shown'[p] \ {"health"}, f \notin Reach(p)'
               PROVE  \E m \in Counts : /\ Coherent(m) /\ UpTo(Dash!Base, m) /\ UpTo(m, Dash!Marks)
                                        /\ Dash!View(f, shown'[p][f]) = Dash!View(f, m)
    BY <1>2 DEF Seen, Dash!View
  <2>1. CASE f \in fs
    <3>1. Dash!View(f, shown'[p][f]) = Dash!View(f, Dash!Marks)
      BY <1>3, <1>6, <2>1, ContentIs
    <3> QED
      BY <1>1, <3>1 DEF Behind
  <2>2. CASE f \notin fs
    <3>1. f \in DOMAIN shown[p] \ {"health"} /\ f \in Wants[p] /\ f \notin gone
      BY <1>1, <1>3, <1>6, <2>2, PageAssumptions DEF Fills
    <3>2. f \notin Reach(p)
      BY <1>11, <3>1
    <3> QED
      BY <1>1, <1>6, <2>2, <3>1, <3>2 DEF Seen
  <2> QED
    BY <2>1, <2>2
<1>13. Card(p)'
  <2> SUFFICES ASSUME NEW w \in DOMAIN cards'[p] \cap DOMAIN live
               PROVE  cards'[p][w] = Dash!Snapshot(live[w].card) \/ live[w].card = Dash!Empty \/ w \in Reach(p)'
    BY DEF Card, Dash!Snapshot, Dash!Empty
  <2>1. CASE "activity" \in fs
    BY <1>6, <1>9, <2>1 DEF Dash!LiveCards
  <2>2. CASE "activity" \notin fs
    <3>1. w \in DOMAIN cards[p] /\ cards'[p][w] = cards[p][w] /\ w \in Wakeup /\ w \notin gone
      BY <1>1, <1>3, <1>6, <2>2 DEF Fills
    <3> QED
      BY <1>1, <1>11, <3>1 DEF Card
  <2> QED
    BY <2>1, <2>2
<1> QED
  BY <1>7, <1>8, <1>10, <1>12, <1>13, OnePage

LEMMA OpenStep ==
  ASSUME PInv, NEW p \in Page, Dash!OpenPage(p) \/ Dash!Connect(p)
  PROVE  PInv'
<1>1. /\ UNCHANGED <<db, wakeups, cursor, live, tombs, tick, queue, hand>>
      /\ stage[p] \in {"closed", "rendered"}
      /\ \E s \in {"rendered", "connecting"} : stage' = [stage EXCEPT ![p] = s]
  BY DEF Dash!OpenPage, Dash!Connect, Dash!world, Dash!caster
<1>2. /\ stage \in [Page -> {"closed", "rendered", "connecting", "open"}]
      /\ hand \in [Page -> SUBSET Names]
  BY DEF PInv, PageTypes
<1>3. /\ stage' \in [Page -> {"closed", "rendered", "connecting", "open"}]
      /\ stage'[p] \in {"rendered", "connecting"}
      /\ \A r \in Page \ {p} : stage'[r] = stage[r]
  BY <1>1, <1>2
<1>4. \E fs : fs \subseteq Wants[p] /\ Dash!Shows(p, fs)
  BY DEF Dash!OpenPage, Dash!Connect
<1>5. PICK fs : fs \subseteq Wants[p] /\ Dash!Shows(p, fs)
  BY <1>4
<1>6. hand' = hand
  BY <1>1
<1> QED
  BY <1>1, <1>2, <1>3, <1>5, <1>6, ShowsStep

LEMMA SubscribeStep ==
  ASSUME PInv, NEW p \in Page, Dash!Subscribe(p)
  PROVE  PInv'
<1>1. /\ UNCHANGED <<db, wakeups, cursor, live, tombs, tick, queue, hand, shown, cards, untold>>
      /\ stage' = [stage EXCEPT ![p] = "open"] /\ stage[p] = "connecting"
  BY DEF Dash!Subscribe, Dash!world, Dash!caster
<1>2. PageTypes /\ Fills(p) /\ Seen(p) /\ Card(p) /\ UpTo(Dash!Marks, Dash!Marks)
  BY MarksTyped DEF PInv
<1>3. /\ stage' \in [Page -> {"closed", "rendered", "connecting", "open"}]
      /\ stage'[p] = "open" /\ \A r \in Page \ {p} : stage'[r] = stage[r]
  BY <1>1, <1>2 DEF PageTypes
<1>4. PageTypes'
  BY <1>1, <1>2, <1>3 DEF PageTypes
<1>5. Fills(p)'
  BY <1>1, <1>2, <1>3 DEF Fills
<1>6. Dash!Marks' = Dash!Marks /\ Dash!Base' = Dash!Base
  BY <1>1, MarksAre DEF Dash!Base
<1>7. Reach(p) \subseteq Reach(p)'
  BY <1>1, ReachIs
<1>8. Seen(p)' /\ Card(p)'
  BY <1>1, <1>2, <1>4, <1>6, <1>7, Stays
<1> QED
  BY <1>1, <1>3, <1>4, <1>5, <1>8, OnePage

LEMMA TakeStep ==
  ASSUME PInv, NEW p \in Page, Dash!Take(p)
  PROVE  PInv'
<1>1. /\ UNCHANGED <<db, wakeups, cursor, live, tombs, tick, stage, shown, cards, untold>>
      /\ queue[p] # <<>> /\ hand[p] = {}
      /\ hand' = [hand EXCEPT ![p] = InQueue(queue[p])] /\ queue' = [queue EXCEPT ![p] = <<>>]
  BY DEF Dash!Take, Dash!world, Dash!caster, InQueue
<1>2. PageTypes /\ Fills(p) /\ Seen(p) /\ Card(p) /\ UpTo(Dash!Marks, Dash!Marks)
  BY MarksTyped DEF PInv
<1>3. queue \in [Page -> Seq(SUBSET Names)] /\ hand \in [Page -> SUBSET Names]
  BY <1>2 DEF PageTypes
<1>4. InQueue(queue[p]) \in SUBSET Names
  <2>1. queue[p] \in Seq(SUBSET Names)
    BY <1>3
  <2>2. \A i \in DOMAIN queue[p] : queue[p][i] \in SUBSET Names
    BY <2>1
  <2> QED
    BY <2>2 DEF InQueue, Dash!ToSet
<1>5. <<>> \in Seq(SUBSET Names)
  OBVIOUS
<1>6. /\ queue' \in [Page -> Seq(SUBSET Names)] /\ hand' \in [Page -> SUBSET Names]
      /\ queue'[p] = <<>> /\ hand'[p] = InQueue(queue[p])
      /\ \A r \in Page \ {p} : queue'[r] = queue[r] /\ hand'[r] = hand[r]
  BY <1>1, <1>3, <1>4, <1>5
<1>7. PageTypes'
  BY <1>1, <1>2, <1>6 DEF PageTypes
<1>8. Fills(p)'
  BY <1>1, <1>2 DEF Fills
<1>9. Dash!Marks' = Dash!Marks /\ Dash!Base' = Dash!Base
  BY <1>1, MarksAre DEF Dash!Base
<1>10. Reach(p) \subseteq Reach(p)'
  <2>1. /\ Reach(p) = hand[p] \cup InQueue(queue[p]) \cup Pending(tick) \cup untold[p]
        /\ Reach(p)' = hand'[p] \cup InQueue(queue'[p]) \cup Pending(tick') \cup untold'[p]
    BY ReachIs
  <2> QED
    BY <1>1, <1>6, <2>1
<1>11. Seen(p)' /\ Card(p)'
  BY <1>1, <1>2, <1>7, <1>9, <1>10, Stays
<1> QED
  BY <1>1, <1>6, <1>7, <1>8, <1>11, OnePage

LEMMA FragmentStep ==
  ASSUME PInv, NEW p \in Page, NEW f \in Dash!Fragments, Dash!RenderFragment(p, f)
  PROVE  PInv'
<1>1. /\ UNCHANGED <<db, wakeups, cursor, live, tombs, tick, queue, stage>>
      /\ f \in hand[p] /\ hand' = [hand EXCEPT ![p] = hand[p] \ {f}]
      /\ Dash!Shows(p, Wants[p] \cap {f})
  BY DEF Dash!RenderFragment, Dash!Spend, Dash!world, Dash!caster
<1>2. PageTypes /\ Fills(p)
  BY DEF PInv
<1>3. /\ stage \in [Page -> {"closed", "rendered", "connecting", "open"}]
      /\ hand \in [Page -> SUBSET Names]
  BY <1>2 DEF PageTypes
<1>4. stage[p] = "open"
  BY <1>1, <1>2 DEF Fills
<1>5. /\ hand' \in [Page -> SUBSET Names] /\ hand'[p] = hand[p] \ {f}
      /\ \A r \in Page \ {p} : hand'[r] = hand[r]
  BY <1>1, <1>3
<1>6. f \notin Wakeup
  BY PageAssumptions
<1>7. /\ (hand[p] \ hand'[p]) \cap (Wants[p] \cup Wakeup) \subseteq Wants[p] \cap {f}
      /\ hand'[p] \subseteq hand[p] /\ Wants[p] \cap {f} \subseteq Wants[p]
  BY <1>5, <1>6
<1>8. /\ stage' = stage /\ stage' \in [Page -> {"closed", "rendered", "connecting", "open"}]
      /\ stage'[p] # "closed" /\ (stage'[p] = "open" <=> stage[p] = "open")
  BY <1>1, <1>3, <1>4
<1>9. PICK fs : fs = Wants[p] \cap {f}
  OBVIOUS
<1>10. /\ fs \subseteq Wants[p] /\ Dash!Shows(p, fs)
       /\ hand'[p] \subseteq hand[p] /\ (hand[p] \ hand'[p]) \cap (Wants[p] \cup Wakeup) \subseteq fs
  BY <1>1, <1>7, <1>9
<1>11. \A r \in Page \ {p} : stage'[r] = stage[r] /\ hand'[r] = hand[r]
  BY <1>5, <1>8
<1> QED
  BY <1>1, <1>5, <1>8, <1>10, <1>11, ShowsStep

LEMMA CardStep ==
  ASSUME PInv, NEW p \in Page, NEW w \in Wakeup, Dash!RenderCard(p, w)
  PROVE  PInv'
<1>1. /\ UNCHANGED <<db, wakeups, cursor, live, tombs, tick, queue, stage, shown>>
      /\ w \in hand[p] /\ hand' = [hand EXCEPT ![p] = hand[p] \ {w}]
      /\ untold' = [untold EXCEPT ![p] = untold[p] \ {w}]
  BY DEF Dash!RenderCard, Dash!Spend, Dash!world, Dash!caster
<1>2. PageTypes /\ Fills(p) /\ Seen(p) /\ Card(p)
  BY DEF PInv
<1>3. /\ untold \in [Page -> SUBSET Names] /\ hand \in [Page -> SUBSET Names] /\ DOMAIN cards = Page
  BY <1>2 DEF PageTypes
\* The card, if there is one, shows what its folder holds now.
<1>4. /\ DOMAIN cards' = Page /\ DOMAIN cards'[p] = DOMAIN cards[p]
      /\ \A r \in Page \ {p} : cards'[r] = cards[r]
      /\ \A v \in DOMAIN cards[p] \ {w} : cards'[p][v] = cards[p][v]
      /\ w \in DOMAIN cards[p] /\ w \in DOMAIN live => cards'[p][w] = Dash!Snapshot(live[w].card)
  <2> DEFINE content == IF w \in DOMAIN live THEN Dash!Snapshot(live[w].card) ELSE <<>>
  <2>1. CASE "activity" \notin Wants[p]
    <3>1. cards' = cards /\ DOMAIN cards[p] = {}
      BY <1>2, <2>1 DEF Dash!RenderCard, Fills
    <3> QED
      BY <1>3, <3>1
  <2>2. CASE "activity" \in Wants[p] /\ w \in DOMAIN cards[p]
    <3>1. cards' = [cards EXCEPT ![p] = [cards[p] EXCEPT ![w] = content]]
      BY <2>2 DEF Dash!RenderCard, Dash!Fires
    <3> QED
      BY <1>3, <2>2, <3>1
  <2>3. CASE "activity" \in Wants[p] /\ w \notin DOMAIN cards[p]
    <3>1. cards' = cards
      BY <2>3 DEF Dash!RenderCard, Dash!Fires
    <3> QED
      BY <1>3, <2>3, <3>1
  <2> QED
    BY <2>1, <2>2, <2>3
<1>5. /\ hand' \in [Page -> SUBSET Names] /\ hand'[p] = hand[p] \ {w}
      /\ untold' \in [Page -> SUBSET Names] /\ untold'[p] = untold[p] \ {w}
      /\ \A r \in Page \ {p} : hand'[r] = hand[r] /\ untold'[r] = untold[r]
  BY <1>1, <1>3
<1>6. PageTypes'
  BY <1>1, <1>2, <1>4, <1>5 DEF PageTypes
<1>7. Fills(p)'
  BY <1>1, <1>2, <1>4, <1>5 DEF Fills
<1>8. Reach(p) \ {w} \subseteq Reach(p)'
  <2>1. /\ Reach(p) = hand[p] \cup InQueue(queue[p]) \cup Pending(tick) \cup untold[p]
        /\ Reach(p)' = hand'[p] \cup InQueue(queue'[p]) \cup Pending(tick') \cup untold'[p]
    BY ReachIs
  <2> QED
    BY <1>1, <1>5, <2>1
<1>9. Dash!Marks' = Dash!Marks /\ Dash!Base' = Dash!Base
  BY <1>1, MarksAre DEF Dash!Base
<1>10. Seen(p)'
  <2> SUFFICES ASSUME NEW f \in DOMAIN shown[p] \ {"health"}, f \notin Reach(p)'
               PROVE  \E m \in Counts : /\ Coherent(m) /\ UpTo(Dash!Base, m) /\ UpTo(m, Dash!Marks)
                                        /\ Dash!View(f, shown[p][f]) = Dash!View(f, m)
    BY <1>1, <1>9 DEF Seen, Dash!View
  <2>1. f # w
    BY <1>2, PageAssumptions DEF Fills
  <2>2. f \notin Reach(p)
    BY <1>8, <2>1
  <2> QED
    BY <1>2, <2>2 DEF Seen
<1>11. Card(p)'
  <2> SUFFICES ASSUME NEW v \in DOMAIN cards'[p] \cap DOMAIN live
               PROVE  cards'[p][v] = Dash!Snapshot(live[v].card) \/ live[v].card = Dash!Empty \/ v \in Reach(p)'
    BY <1>1 DEF Card, Dash!Snapshot, Dash!Empty
  <2>1. CASE v = w
    BY <1>4, <2>1
  <2>2. CASE v # w
    BY <1>2, <1>4, <1>8, <2>2 DEF Card
  <2> QED
    BY <2>1, <2>2
<1> QED
  BY <1>1, <1>4, <1>5, <1>6, <1>7, <1>10, <1>11, OnePage

LEMMA RenderFailsStep ==
  ASSUME PInv, NEW p \in Page, NEW e \in Dash!Fragments \cup Wakeup, Dash!RenderFails(p, e)
  PROVE  PInv'
<1>1. /\ UNCHANGED <<db, wakeups, cursor, live, tombs, tick, queue, stage, shown, cards>>
      /\ e \in hand[p] /\ hand' = [hand EXCEPT ![p] = hand[p] \ {e}]
      /\ untold' = [untold EXCEPT ![p] = untold[p] \cup {e}]
  BY DEF Dash!RenderFails, Dash!Spend, Dash!world, Dash!caster
<1>2. PageTypes /\ Fills(p) /\ Seen(p) /\ Card(p) /\ UpTo(Dash!Marks, Dash!Marks)
  BY MarksTyped DEF PInv
<1>3. /\ untold \in [Page -> SUBSET Names] /\ hand \in [Page -> SUBSET Names] /\ e \in Names
  BY <1>2 DEF PageTypes, Names
<1>4. /\ hand' \in [Page -> SUBSET Names] /\ hand'[p] = hand[p] \ {e}
      /\ untold' \in [Page -> SUBSET Names] /\ untold'[p] = untold[p] \cup {e}
      /\ \A r \in Page \ {p} : hand'[r] = hand[r] /\ untold'[r] = untold[r]
  BY <1>1, <1>3
<1>5. PageTypes'
  BY <1>1, <1>2, <1>4 DEF PageTypes
<1>6. Fills(p)'
  BY <1>1, <1>2, <1>4 DEF Fills
<1>7. Reach(p) \subseteq Reach(p)'
  <2>1. /\ Reach(p) = hand[p] \cup InQueue(queue[p]) \cup Pending(tick) \cup untold[p]
        /\ Reach(p)' = hand'[p] \cup InQueue(queue'[p]) \cup Pending(tick') \cup untold'[p]
    BY ReachIs
  <2> QED
    BY <1>1, <1>4, <2>1
<1>8. Dash!Marks' = Dash!Marks /\ Dash!Base' = Dash!Base
  BY <1>1, MarksAre DEF Dash!Base
<1>9. Seen(p)' /\ Card(p)'
  BY <1>1, <1>2, <1>5, <1>7, <1>8, Stays
<1> QED
  BY <1>1, <1>4, <1>5, <1>6, <1>9, OnePage

LEMMA CloseStep ==
  ASSUME PInv, NEW p \in Page, Dash!ClosePage(p)
  PROVE  PInv'
<1>1. /\ UNCHANGED <<db, wakeups, cursor, live, tombs, tick>>
      /\ stage' = [stage EXCEPT ![p] = "closed"] /\ queue' = [queue EXCEPT ![p] = <<>>]
      /\ hand' = [hand EXCEPT ![p] = {}] /\ cards' = [cards EXCEPT ![p] = Dash!Nothing]
      /\ untold' = [untold EXCEPT ![p] = {}] /\ shown' = [shown EXCEPT ![p] = Dash!Nothing]
  BY DEF Dash!ClosePage, Dash!world, Dash!caster
<1>2. PageTypes
  BY DEF PInv
<1>3. /\ stage \in [Page -> {"closed", "rendered", "connecting", "open"}]
      /\ queue \in [Page -> Seq(SUBSET Names)] /\ hand \in [Page -> SUBSET Names]
      /\ untold \in [Page -> SUBSET Names] /\ DOMAIN shown = Page /\ DOMAIN cards = Page
      /\ <<>> \in Seq(SUBSET Names)
  BY <1>2 DEF PageTypes
<1>4. /\ stage' \in [Page -> {"closed", "rendered", "connecting", "open"}]
      /\ queue' \in [Page -> Seq(SUBSET Names)] /\ hand' \in [Page -> SUBSET Names]
      /\ untold' \in [Page -> SUBSET Names] /\ DOMAIN shown' = Page /\ DOMAIN cards' = Page
  BY <1>1, <1>3
<1>5. /\ queue'[p] = <<>> /\ hand'[p] = {} /\ shown'[p] = Dash!Nothing /\ cards'[p] = Dash!Nothing
      /\ \A r \in Page \ {p} : /\ stage'[r] = stage[r] /\ queue'[r] = queue[r] /\ hand'[r] = hand[r]
                               /\ shown'[r] = shown[r] /\ cards'[r] = cards[r] /\ untold'[r] = untold[r]
  BY <1>1, <1>3
<1>6. PageTypes'
  BY <1>1, <1>2, <1>4 DEF PageTypes
<1>7. DOMAIN shown'[p] = {} /\ DOMAIN cards'[p] = {}
  BY <1>5 DEF Dash!Nothing
<1>8. Fills(p)'
  BY <1>5, <1>7 DEF Fills
<1>9. Seen(p)'
  BY <1>7 DEF Seen
<1>10. Card(p)'
  BY <1>7 DEF Card
<1> QED
  BY <1>1, <1>5, <1>6, <1>8, <1>9, <1>10, OnePage

LEMMA PStart ==
  Dash!Init => PInv
<1> SUFFICES ASSUME Dash!Init PROVE PInv
  OBVIOUS
<1>1. /\ db = [t \in Dash!Tables |-> 0] /\ wakeups = [w \in Wakeup |-> "none"]
      /\ cursor = Dash!Marks /\ live = Dash!Nothing /\ tombs = {} /\ tick = Dash!Idle
      /\ stage = [p \in Page |-> "closed"] /\ queue = [p \in Page |-> <<>>]
      /\ hand = [p \in Page |-> {}] /\ shown = [p \in Page |-> Dash!Nothing]
      /\ cards = [p \in Page |-> Dash!Nothing] /\ untold = [p \in Page |-> {}]
  BY DEF Dash!Init
<1>2. db \in [Dash!Tables -> Nat] /\ wakeups \in [Wakeup -> {"none", "active", "ended"}]
  BY <1>1
<1>3. Dash!Marks \in Counts /\ Coherent(Dash!Marks) /\ UpTo(Dash!Marks, Dash!Marks)
  BY <1>2, MarksCount, MarksAre
<1>4. /\ tick \in [at : {"idle", "snapped", "polled"}, marks : Counts, events : SUBSET Names, seen : SUBSET Wakeup]
      /\ tick.at = "idle" /\ tick.marks = Dash!Marks
  BY <1>1, <1>3 DEF Dash!Idle
<1>5. DOMAIN Dash!Nothing = {}
  BY DEF Dash!Nothing
<1>6. /\ stage \in [Page -> {"closed", "rendered", "connecting", "open"}]
      /\ queue \in [Page -> Seq(SUBSET Names)]
      /\ hand \in [Page -> SUBSET Names] /\ untold \in [Page -> SUBSET Names]
      /\ DOMAIN shown = Page /\ DOMAIN cards = Page
  BY <1>1
<1>7. PageTypes
  <2>1. cursor \in Counts /\ Coherent(cursor)
    BY <1>1, <1>3
  <2>2. tombs \subseteq Wakeup /\ DOMAIN live \subseteq Wakeup
    BY <1>1, <1>5
  <2> QED
    BY <1>2, <1>3, <1>4, <1>6, <2>1, <2>2 DEF PageTypes
<1>8. Behind
  BY <1>1, <1>3, <1>4 DEF Behind, Dash!Base
<1>9. ASSUME NEW p \in Page PROVE Fills(p) /\ Seen(p) /\ Card(p)
  <2>1. DOMAIN shown[p] = {} /\ DOMAIN cards[p] = {} /\ queue[p] = <<>> /\ hand[p] = {}
    BY <1>1, <1>5
  <2>2. Fills(p)
    BY <2>1 DEF Fills
  <2>3. Seen(p)
    BY <2>1 DEF Seen
  <2>4. Card(p)
    BY <2>1 DEF Card
  <2> QED
    BY <2>2, <2>3, <2>4
<1> QED
  BY <1>7, <1>8, <1>9 DEF PInv

LEMMA PStep ==
  PInv /\ [Dash!Next]_Dash!vars => PInv'
<1> SUFFICES ASSUME PInv, [Dash!Next]_Dash!vars PROVE PInv'
  OBVIOUS
<1>1. CASE \/ \E t \in Dash!Tables : Dash!TableChanges(t)
           \/ \E w \in Wakeup : Dash!WakeupStarts(w) \/ Dash!WriteTranscript(w) \/ Dash!WakeupEnds(w)
  BY <1>1, SystemStep
<1>2. CASE Dash!Snap
  BY <1>2, SnapStep
<1>3. CASE Dash!PollLive
  BY <1>3, PollStep
<1>4. CASE Dash!Publish
  BY <1>4, PublishStep
<1>5. CASE \E p \in Page : Dash!OpenPage(p) \/ Dash!Connect(p)
  BY <1>5, OpenStep
<1>6. CASE \E p \in Page : Dash!Subscribe(p)
  BY <1>6, SubscribeStep
<1>7. CASE \E p \in Page : Dash!Take(p)
  BY <1>7, TakeStep
<1>8. CASE \E p \in Page : \E f \in Dash!Fragments : Dash!RenderFragment(p, f)
  BY <1>8, FragmentStep
<1>9. CASE \E p \in Page : \E w \in Wakeup : Dash!RenderCard(p, w)
  BY <1>9, CardStep
<1>10. CASE \E p \in Page : Dash!ClosePage(p)
  BY <1>10, CloseStep
<1>12. CASE Dash!PollFails
  BY <1>12, PollFailsStep
<1>13. CASE \E p \in Page : \E e \in Dash!Fragments \cup Wakeup : Dash!RenderFails(p, e)
  BY <1>13, RenderFailsStep
<1>11. CASE UNCHANGED Dash!vars
  <2>1. /\ UNCHANGED <<cursor, live, tombs, tick, stage, queue, hand, shown, cards, untold>>
        /\ db' = db /\ wakeups' = wakeups
    BY <1>11 DEF Dash!vars, Dash!world, Dash!caster, Dash!pages
  <2>2. db \in [Dash!Tables -> Nat] /\ wakeups \in [Wakeup -> {"none", "active", "ended"}]
    BY DEF PInv, PageTypes
  <2>3. /\ db' \in [Dash!Tables -> Nat] /\ wakeups' \in [Wakeup -> {"none", "active", "ended"}]
        /\ \A t \in Dash!Tables : db[t] <= db'[t]
        /\ Begun(wakeups) \subseteq Begun(wakeups') /\ Finished(wakeups) \subseteq Finished(wakeups')
    BY <2>1, <2>2
  <2> QED
    BY <2>1, <2>3, WorldStep
<1> QED
  BY <1>1, <1>2, <1>3, <1>4, <1>5, <1>6, <1>7, <1>8, <1>9, <1>10, <1>11, <1>12, <1>13
     DEF Dash!Next, Dash!Stream

LEMMA PSays ==
  PInv => PagesAreCurrent
<1> SUFFICES ASSUME PInv PROVE PagesAreCurrent
  OBVIOUS
<1>1. /\ PageTypes /\ Dash!Marks \in Counts /\ Coherent(Dash!Marks) /\ Dash!Base \in Counts /\ Coherent(Dash!Base)
  BY MarksTyped DEF PInv
<1>2. ASSUME NEW p \in Page, NEW f \in DOMAIN shown[p] \ {"health"},
             f \notin Reach(p), ~Dash!Changed(f, Dash!Base, Dash!Marks)
      PROVE  Dash!View(f, shown[p][f]) = Dash!View(f, Dash!Marks)
  <2>1. f \in Dash!Fragments \ {"health"}
    BY PageAssumptions DEF PInv, Fills
  <2>2. PICK m \in Counts : /\ Coherent(m) /\ UpTo(Dash!Base, m) /\ UpTo(m, Dash!Marks)
                            /\ Dash!View(f, shown[p][f]) = Dash!View(f, m)
    BY <1>2 DEF PInv, Seen
  <2>3. Dash!View(f, Dash!Base) = Dash!View(f, Dash!Marks)
    BY <1>2 DEF Dash!Changed
  <2> QED
    BY <1>1, <2>1, <2>2, <2>3, Between
<1>3. Dash!FreshOrTold
  BY <1>2 DEF Dash!FreshOrTold, Dash!Changed, Reach
<1>4. Dash!CardIsCurrent
  BY DEF PInv, Card, Dash!CardIsCurrent, Reach
<1> QED
  BY <1>3, <1>4 DEF PagesAreCurrent, Dash!PagesAreCurrent

\* What a page shows is what the database holds, or the page is being told, the next tick
\* will tell it, or what told it was lost where the code loses it (before the page
\* subscribed, in a full queue, in a rendering that raised); and so is the card of a wakeup
\* that streams: for any pages and whatever they ask for, any wakeups, any size of a queue
\* and any transcript (dashboard_broadcaster.py, sse_route.py). Mail between agents, which
\* no mark of the broadcaster covers, is left out.
THEOREM PagesStayCurrent == PagesSpec => []PagesAreCurrent
<1>1. Dash!Spec => []PInv
  BY PStart, PStep, PTL DEF Dash!Spec
<1> QED
  BY <1>1, PSays, PTL DEF PagesSpec

-----------------------------------------------------------------------------
(* Transcripts. Complete and Fold recurse over a sequence: what they come   *)
(* to is shown by the least place where it would be otherwise.              *)

\* A set of naturals that is not empty has a least element.
LEMMA Least ==
  ASSUME NEW T, T \subseteq Nat, T # {}
  PROVE  \E m \in T : \A n \in T : m <= n
<1>1. PICK m \in T : \A n \in T : ~(<<n, m>> \in OpToRel(<, Nat))
  BY NatLessThanWellFounded, WFMin
<1>2. \A n \in T : ~(n < m)
  BY <1>1 DEF OpToRel
<1>3. \A n \in T : m <= n
  BY <1>2
<1> QED
  BY <1>3

-----------------------------------------------------------------------------
(* Transcripts: the lines that are complete in a run of bytes *)

NL == Dash!Newline
Ends(s, i) == i > 1 /\ s[i] = NL /\ s[i - 1] # NL

\* Complete is a recursion over the bytes.
IsUpto(u, s, n) ==
    u = [i \in 0..n |-> IF i = 0 THEN <<>>
                        ELSE IF Ends(s, i) THEN Append(u[i - 1], s[i - 1]) ELSE u[i - 1]]

\* What it comes to, byte by byte.
Grows(u, s, n) ==
    /\ u[0] = <<>>
    /\ \A i \in 1..n : u[i] = IF Ends(s, i) THEN Append(u[i - 1], s[i - 1]) ELSE u[i - 1]

LEMMA UptoAt ==
  ASSUME NEW s, NEW n \in Nat, NEW u, IsUpto(u, s, n)
  PROVE  Grows(u, s, n)
<1>1. \A i \in 0..n : u[i] = IF i = 0 THEN <<>>
                             ELSE IF Ends(s, i) THEN Append(u[i - 1], s[i - 1]) ELSE u[i - 1]
  BY DEF IsUpto
<1>2. 0 \in 0..n /\ \A i \in 1..n : i \in 0..n /\ i # 0
  OBVIOUS
<1> QED
  BY <1>1, <1>2 DEF Grows

\* There is such a recursion.
LEMMA UptoIs ==
  ASSUME NEW s, NEW n \in Nat
  PROVE  \E u : IsUpto(u, s, n)
<1> DEFINE T == {m \in Nat : ~\E u : IsUpto(u, s, m)}
<1> SUFFICES ASSUME n \in T PROVE FALSE
  OBVIOUS
<1>1. PICK m \in T : \A k \in T : m <= k
  BY Least
<1>2. CASE m = 0
  <2> DEFINE f == [i \in 0..0 |-> <<>>]
  <2>1. IsUpto(f, s, 0)
    BY DEF IsUpto
  <2> QED
    BY <1>2, <2>1
<1>3. CASE m # 0
  <2>1. m \in Nat /\ m - 1 \in Nat /\ m - 1 \notin T
    BY <1>1, <1>3
  <2>2. PICK g : IsUpto(g, s, m - 1)
    BY <2>1
  <2> DEFINE f == [i \in 0..m |-> IF i = 0 THEN <<>>
                                  ELSE IF Ends(s, i) THEN Append(g[i - 1], s[i - 1]) ELSE g[i - 1]]
  <2>3. /\ g[0] = <<>>
        /\ \A i \in 1..m - 1 : g[i] = IF Ends(s, i) THEN Append(g[i - 1], s[i - 1]) ELSE g[i - 1]
    <3>1. Grows(g, s, m - 1)
      BY ONLY <2>1, <2>2, UptoAt
    <3> QED
      BY ONLY <3>1 DEF Grows
  <2>4. \A i \in 0..m - 1 : f[i] = g[i]
    <3> SUFFICES ASSUME NEW i \in 0..m - 1 PROVE f[i] = g[i]
      OBVIOUS
    <3>1. i \in 0..m /\ (i = 0 \/ i \in 1..m - 1)
      BY <2>1
    <3> QED
      BY <2>3, <3>1
  <2>5. \A i \in 0..m : f[i] = IF i = 0 THEN <<>>
                               ELSE IF Ends(s, i) THEN Append(f[i - 1], s[i - 1]) ELSE f[i - 1]
    <3> SUFFICES ASSUME NEW i \in 0..m, i # 0 PROVE f[i - 1] = g[i - 1]
      OBVIOUS
    <3>1. i - 1 \in 0..m - 1
      BY <2>1
    <3> QED
      BY <2>4, <3>1
  <2>6. IsUpto(f, s, m)
    BY <2>5 DEF IsUpto
  <2> QED
    BY <2>6
<1> QED
  BY <1>2, <1>3

\* Complete is what such a recursion comes to.
LEMMA CompleteIs ==
  ASSUME NEW s, Len(s) \in Nat
  PROVE  \E u : IsUpto(u, s, Len(s)) /\ Dash!Complete(s) = u[Len(s)]
<1> DEFINE u == CHOOSE u : IsUpto(u, s, Len(s))
<1>1. IsUpto(u, s, Len(s))
  BY UptoIs
<1>2. Dash!Complete(s) = u[Len(s)]
  BY DEF Dash!Complete, IsUpto, Ends, NL
<1> QED
  BY <1>1, <1>2

\* Two files with the same first bytes.
Agree(s, t, k) == \A i \in 1..k : s[i] = t[i]

\* What is complete at a place depends on the bytes up to there.
LEMMA UptoSame ==
  ASSUME NEW s, NEW t, NEW n \in Nat, NEW m \in Nat, NEW u, NEW v, IsUpto(u, s, n), IsUpto(v, t, m),
         NEW k \in Nat, k <= n, k <= m, Agree(s, t, k)
  PROVE  u[k] = v[k]
<1> DEFINE T == {j \in Nat : j <= k /\ u[j] # v[j]}
<1> SUFFICES ASSUME T # {} PROVE FALSE
  OBVIOUS
<1>1. PICK j \in T : \A l \in T : j <= l
  <2>1. T \subseteq Nat
    OBVIOUS
  <2> QED
    BY ONLY <2>1, T # {}, Least
<1>2. j \in Nat /\ j <= k /\ u[j] # v[j]
  OBVIOUS
<1>3. j # 0
  <2>1. Grows(u, s, n) /\ Grows(v, t, m)
    BY UptoAt
  <2>2. u[0] = <<>> /\ v[0] = <<>>
    BY ONLY <2>1 DEF Grows
  <2> QED
    BY ONLY <1>2, <2>2
<1>4. j - 1 \in Nat /\ j - 1 <= k /\ j \in 1..n /\ j \in 1..m /\ j \in 1..k /\ ~(j <= j - 1)
  BY <1>2, <1>3
<1>5. u[j - 1] = v[j - 1]
  BY <1>1, <1>4
<1>6. Ends(s, j) <=> Ends(t, j)
  <2>1. j > 1 => j - 1 \in 1..k
    BY <1>4
  <2> QED
    BY <1>4, <2>1 DEF Ends, Agree
<1>7. s[j] = t[j] /\ (Ends(s, j) => s[j - 1] = t[j - 1])
  <2>1. j > 1 => j - 1 \in 1..k
    BY <1>4
  <2> QED
    BY <1>4, <2>1 DEF Ends, Agree
<1>8. /\ u[j] = IF Ends(s, j) THEN Append(u[j - 1], s[j - 1]) ELSE u[j - 1]
      /\ v[j] = IF Ends(t, j) THEN Append(v[j - 1], t[j - 1]) ELSE v[j - 1]
  <2>1. Grows(u, s, n) /\ Grows(v, t, m)
    BY UptoAt
  <2> QED
    BY ONLY <1>4, <2>1 DEF Grows
<1> QED
  BY <1>2, <1>5, <1>6, <1>7, <1>8

\* The lines are of bytes of the file.
LEMMA UptoTyped ==
  ASSUME NEW S, NEW s \in Seq(S), NEW u, IsUpto(u, s, Len(s))
  PROVE  \A k \in 0..Len(s) : u[k] \in Seq(S)
<1> DEFINE T == {j \in 0..Len(s) : u[j] \notin Seq(S)}
<1> SUFFICES ASSUME T # {} PROVE FALSE
  OBVIOUS
<1>0. Len(s) \in Nat
  OBVIOUS
<1>1. PICK j \in T : \A l \in T : j <= l
  <2>1. T \subseteq Nat
    OBVIOUS
  <2> QED
    BY ONLY <2>1, T # {}, Least
<1>2. j \in 0..Len(s) /\ u[j] \notin Seq(S)
  OBVIOUS
<1>3. j # 0
  <2>1. u[0] = <<>> /\ <<>> \in Seq(S)
    <3>1. Grows(u, s, Len(s))
      BY <1>0, UptoAt
    <3> QED
      BY ONLY <3>1 DEF Grows
  <2> QED
    BY <1>2, <2>1
<1>4. j \in 1..Len(s) /\ j - 1 \in 0..Len(s) /\ ~(j <= j - 1)
  BY <1>0, <1>2, <1>3
<1>5. u[j - 1] \in Seq(S)
  BY <1>1, <1>4
<1>6. Ends(s, j) => s[j - 1] \in S
  <2>1. Ends(s, j) => j - 1 \in 1..Len(s)
    BY <1>4 DEF Ends
  <2> QED
    BY <2>1
<1>7. u[j] = IF Ends(s, j) THEN Append(u[j - 1], s[j - 1]) ELSE u[j - 1]
  <2>1. Grows(u, s, Len(s))
    BY <1>0, UptoAt
  <2> QED
    BY ONLY <1>4, <2>1 DEF Grows
<1> QED
  BY <1>2, <1>5, <1>6, <1>7

\* Lines of two pieces of a file, unless the second begins with the newline of the first.
Joins(a, b) == a = <<>> \/ b = <<>> \/ b[1] # NL \/ a[Len(a)] = NL

\* Complete lines are bytes of the file.
LEMMA CompleteTyped ==
  ASSUME NEW S, NEW s \in Seq(S)
  PROVE  Dash!Complete(s) \in Seq(S)
<1>1. Len(s) \in Nat /\ Len(s) \in 0..Len(s)
  OBVIOUS
<1>2. PICK u : IsUpto(u, s, Len(s)) /\ Dash!Complete(s) = u[Len(s)]
  BY <1>1, CompleteIs
<1> QED
  BY <1>1, <1>2, UptoTyped

\* Where the elements of a concatenation are.
LEMMA ConcatAt ==
  ASSUME NEW S, NEW a \in Seq(S), NEW b \in Seq(S)
  PROVE  /\ a \o b \in Seq(S) /\ Len(a \o b) = Len(a) + Len(b) /\ Len(a) \in Nat /\ Len(b) \in Nat
         /\ \A i \in 1..Len(a) : (a \o b)[i] = a[i]
         /\ \A j \in 1..Len(b) : (a \o b)[Len(a) + j] = b[j]
  OBVIOUS

\* An element more at the end of the second of two sequences.
Glued(a, b, x) == Append(a \o b, x) = a \o Append(b, x)

LEMMA ConcatAppend ==
  ASSUME NEW S, NEW a \in Seq(S), NEW b \in Seq(S), NEW x \in S
  PROVE  Glued(a, b, x)
  BY DEF Glued

\* Read in two pieces, a file has the same lines.
LEMMA CompleteJoins ==
  ASSUME NEW S, NEW a \in Seq(S), NEW b \in Seq(S), Joins(a, b)
  PROVE  Dash!Complete(a \o b) = Dash!Complete(a) \o Dash!Complete(b)
<1> DEFINE c == a \o b
           n == Len(a)
<1>1. /\ c \in Seq(S) /\ Len(c) = n + Len(b) /\ n \in Nat /\ Len(b) \in Nat
      /\ \A i \in 1..n : c[i] = a[i]
      /\ \A j \in 1..Len(b) : c[n + j] = b[j]
  BY ConcatAt
<1> HIDE DEF c
<1>0. n = Len(a)
  OBVIOUS
<1> HIDE DEF n
<1>2. PICK f : IsUpto(f, c, Len(c)) /\ Dash!Complete(c) = f[Len(c)]
  BY <1>1, CompleteIs
<1>3. PICK g : IsUpto(g, a, n) /\ Dash!Complete(a) = g[n]
  BY ONLY <1>0, <1>1, CompleteIs
<1>4. PICK h : IsUpto(h, b, Len(b)) /\ Dash!Complete(b) = h[Len(b)]
  BY <1>1, CompleteIs
<1>5. f[n] = g[n]
  <2>1. n <= Len(c) /\ Len(c) \in Nat /\ n <= n
    BY ONLY <1>1
  <2>2. Agree(c, a, n)
    BY ONLY <1>1 DEF Agree
  <2> QED
    BY ONLY <1>1, <1>2, <1>3, <2>1, <2>2, UptoSame
<1>6. g[n] \in Seq(S) /\ \A k \in 0..Len(b) : h[k] \in Seq(S)
  <2>1. g[n] \in Seq(S)
    <3>1. n \in 0..n
      BY ONLY <1>1
    <3> QED
      BY ONLY <1>0, <1>3, <3>1, a \in Seq(S), UptoTyped
  <2>2. \A k \in 0..Len(b) : h[k] \in Seq(S)
    BY ONLY <1>4, b \in Seq(S), UptoTyped
  <2> QED
    BY <2>1, <2>2
<1>7. /\ h[0] = <<>>
      /\ \A j \in 1..Len(b) : h[j] = IF Ends(b, j) THEN Append(h[j - 1], b[j - 1]) ELSE h[j - 1]
  BY <1>1, <1>4, UptoAt DEF Grows
<1>8. \A i \in 1..Len(c) : f[i] = IF Ends(c, i) THEN Append(f[i - 1], c[i - 1]) ELSE f[i - 1]
  BY <1>1, <1>2, UptoAt DEF Grows
<1>9. n > 0 => a # <<>> /\ c[n] = a[n] /\ n = Len(a)
  BY <1>0, <1>1
<1> DEFINE Off(j) == f[n + j] # g[n] \o h[j]
           T == {j \in 0..Len(b) : Off(j)}
<1>10. T = {}
  <2> SUFFICES ASSUME T # {} PROVE FALSE
    OBVIOUS
  <2>1. PICK j \in T : \A l \in T : j <= l
    <3>1. T \subseteq Nat
      <4> HIDE DEF Off
      <4> QED
        BY ONLY <1>1
    <3> QED
      BY ONLY <3>1, T # {}, Least
  <2>2. j \in 0..Len(b) /\ f[n + j] # g[n] \o h[j]
    OBVIOUS
  <2>3. j # 0
    <3>1. n + 0 = n /\ g[n] \o <<>> = g[n]
      BY <1>1, <1>6
    <3> QED
      BY <1>5, <1>7, <2>2, <3>1
  <2>4. j \in 1..Len(b) /\ j - 1 \in 0..Len(b) /\ ~(j <= j - 1) /\ j \in Nat
    BY ONLY <1>1, <2>2, <2>3
  <2>5. f[n + (j - 1)] = g[n] \o h[j - 1]
    <3>1. j - 1 \notin T
      <4> HIDE DEF T
      <4> QED
        BY ONLY <2>1, <2>4
    <3> QED
      BY ONLY <2>4, <3>1
  <2>6. n + j \in 1..Len(c) /\ (n + j) - 1 = n + (j - 1) /\ c[n + j] = b[j]
    <3>1. n + j \in 1..Len(c) /\ (n + j) - 1 = n + (j - 1)
      BY ONLY <1>1, <2>4
    <3> QED
      BY ONLY <1>1, <2>4, <3>1
  <2>7. CASE j > 1
    <3>1. j - 1 \in 1..Len(b) /\ n + j > 1
      BY ONLY <1>1, <2>4, <2>7
    <3>2. c[(n + j) - 1] = b[j - 1]
      BY <1>1, <2>6, <3>1
    <3>3. Ends(c, n + j) <=> Ends(b, j)
      BY ONLY <2>6, <2>7, <3>1, <3>2 DEF Ends
    <3>4. CASE Ends(b, j)
      <4>1. f[n + j] = Append(g[n] \o h[j - 1], b[j - 1])
        BY ONLY <1>8, <2>5, <2>6, <3>2, <3>3, <3>4
      <4>2. h[j] = Append(h[j - 1], b[j - 1])
        BY ONLY <1>7, <2>4, <3>4
      <4>3. b[j - 1] \in S /\ g[n] \in Seq(S) /\ h[j - 1] \in Seq(S)
        BY <1>6, <2>4, <3>1
      <4>4. Append(g[n] \o h[j - 1], b[j - 1]) = g[n] \o Append(h[j - 1], b[j - 1])
        <5>1. Glued(g[n], h[j - 1], b[j - 1])
          BY ONLY <4>3, ConcatAppend
        <5> QED
          BY ONLY <5>1 DEF Glued
      <4> QED
        BY ONLY <2>2, <4>1, <4>2, <4>4
    <3>5. CASE ~Ends(b, j)
      <4>1. f[n + j] = g[n] \o h[j - 1]
        BY ONLY <1>8, <2>5, <2>6, <3>3, <3>5
      <4>2. h[j] = h[j - 1]
        BY ONLY <1>7, <2>4, <3>5
      <4> QED
        BY ONLY <2>2, <4>1, <4>2
    <3> QED
      BY <3>4, <3>5
  <2>8. CASE ~(j > 1)
    <3>1. j = 1 /\ (n + j) - 1 = n /\ (n + j > 1 => n > 0)
      BY ONLY <1>1, <2>4, <2>8
    <3>2. ~Ends(b, j)
      BY ONLY <2>8 DEF Ends
    <3>3. ~Ends(c, n + j)
      <4> SUFFICES ASSUME Ends(c, n + j) PROVE FALSE
        OBVIOUS
      <4>1. n > 0 /\ b[1] = NL /\ c[n] # NL
        BY ONLY <2>6, <3>1, Ends(c, n + j) DEF Ends
      <4>2. b # <<>>
        BY <2>4
      <4> QED
        BY <1>9, <4>1, <4>2 DEF Joins
    <3>4. f[n + j] = g[n] \o h[j - 1]
      BY ONLY <1>8, <2>5, <2>6, <3>3
    <3>5. h[j] = h[j - 1]
      BY ONLY <1>7, <2>4, <3>2
    <3> QED
      BY ONLY <2>2, <3>4, <3>5
  <2> QED
    BY <2>7, <2>8
<1>11. Len(b) \in 0..Len(b)
  BY ONLY <1>1
<1>12. f[n + Len(b)] = g[n] \o h[Len(b)]
  BY ONLY <1>10, <1>11
<1> QED
  BY ONLY <1>1, <1>2, <1>3, <1>4, <1>12 DEF c

\* A body without its newline is not a line yet.
LEMMA CompleteShort ==
  ASSUME NEW x
  PROVE  Dash!Complete(<<>>) = <<>> /\ Dash!Complete(<<x>>) = <<>>
<1>1. Len(<<>>) = 0 /\ Len(<<x>>) = 1
  OBVIOUS
<1>2. PICK u : IsUpto(u, <<>>, 0) /\ Dash!Complete(<<>>) = u[0]
  BY <1>1, CompleteIs
<1>3. PICK v : IsUpto(v, <<x>>, 1) /\ Dash!Complete(<<x>>) = v[1]
  BY <1>1, CompleteIs
<1>4. u[0] = <<>>
  BY <1>2, UptoAt DEF Grows
<1>5. v[0] = <<>> /\ v[1] = v[0]
  <2>1. ~Ends(<<x>>, 1)
    BY DEF Ends
  <2>2. /\ v[0] = <<>>
        /\ \A i \in 1..1 : v[i] = IF Ends(<<x>>, i) THEN Append(v[i - 1], <<x>>[i - 1]) ELSE v[i - 1]
    BY ONLY <1>3, UptoAt DEF Grows
  <2>3. v[1] = IF Ends(<<x>>, 1) THEN Append(v[1 - 1], <<x>>[1 - 1]) ELSE v[1 - 1]
    BY ONLY <2>2
  <2> QED
    BY ONLY <2>1, <2>2, <2>3
<1> QED
  BY <1>2, <1>3, <1>4, <1>5

-----------------------------------------------------------------------------
(* Transcripts: what a folder makes of the rows *)

\* What a card holds: the runs and calls with their lengths, and the two open runs.
EventOf == {"said", "thinking", "tool_use"} \X Nat
Folder  == [events : Seq(EventOf), text : Nat, think : Nat]
Short(f) == f \in Folder /\ Len(f.events) <= MaxEvents

\* Fold is a recursion over the rows.
IsFold(g, f, rows, n) ==
    g = [i \in 0..n |-> IF i = 0 THEN f ELSE Dash!Ingest(g[i - 1], rows[i])]

\* What it comes to, row by row.
LEMMA FoldAt ==
  ASSUME NEW rows, NEW n \in Nat, NEW f, NEW g, IsFold(g, f, rows, n)
  PROVE  g[0] = f /\ \A i \in 1..n : g[i] = Dash!Ingest(g[i - 1], rows[i])
<1>1. \A i \in 0..n : g[i] = IF i = 0 THEN f ELSE Dash!Ingest(g[i - 1], rows[i])
  BY DEF IsFold
<1>2. 0 \in 0..n /\ \A i \in 1..n : i \in 0..n /\ i # 0
  OBVIOUS
<1> QED
  BY ONLY <1>1, <1>2

\* There is such a recursion.
LEMMA FoldIs ==
  ASSUME NEW rows, NEW f, NEW n \in Nat
  PROVE  \E g : IsFold(g, f, rows, n)
<1> DEFINE T == {m \in Nat : ~\E g : IsFold(g, f, rows, m)}
<1> SUFFICES ASSUME n \in T PROVE FALSE
  OBVIOUS
<1>1. PICK m \in T : \A k \in T : m <= k
  BY Least
<1>2. CASE m = 0
  <2> DEFINE g == [i \in 0..0 |-> f]
  <2>1. IsFold(g, f, rows, 0)
    BY DEF IsFold
  <2> QED
    BY <1>2, <2>1
<1>3. CASE m # 0
  <2>1. m \in Nat /\ m - 1 \in Nat /\ m - 1 \notin T
    BY <1>1, <1>3
  <2>2. PICK h : IsFold(h, f, rows, m - 1)
    BY <2>1
  <2> DEFINE g == [i \in 0..m |-> IF i = 0 THEN f ELSE Dash!Ingest(h[i - 1], rows[i])]
  <2>3. h[0] = f /\ \A i \in 1..m - 1 : h[i] = Dash!Ingest(h[i - 1], rows[i])
    BY ONLY <2>1, <2>2, FoldAt
  <2>4. \A i \in 0..m - 1 : g[i] = h[i]
    <3> SUFFICES ASSUME NEW i \in 0..m - 1 PROVE g[i] = h[i]
      OBVIOUS
    <3>1. i \in 0..m /\ (i = 0 \/ i \in 1..m - 1)
      BY <2>1
    <3> QED
      BY <2>3, <3>1
  <2>5. \A i \in 0..m : g[i] = IF i = 0 THEN f ELSE Dash!Ingest(g[i - 1], rows[i])
    <3> SUFFICES ASSUME NEW i \in 0..m, i # 0 PROVE g[i - 1] = h[i - 1]
      OBVIOUS
    <3>1. i - 1 \in 0..m - 1
      BY <2>1
    <3> QED
      BY <2>4, <3>1
  <2>6. IsFold(g, f, rows, m)
    BY <2>5 DEF IsFold
  <2> QED
    BY <2>6
<1> QED
  BY <1>2, <1>3

\* Fold is what such a recursion comes to.
LEMMA FoldedIs ==
  ASSUME NEW f, NEW rows, Len(rows) \in Nat
  PROVE  \E g : IsFold(g, f, rows, Len(rows)) /\ Dash!Fold(f, rows) = g[Len(rows)]
<1> DEFINE g == CHOOSE g : IsFold(g, f, rows, Len(rows))
<1>1. IsFold(g, f, rows, Len(rows))
  BY FoldIs
<1>2. Dash!Fold(f, rows) = g[Len(rows)]
  BY DEF Dash!Fold, IsFold
<1> QED
  BY <1>1, <1>2

\* Fed in two portions, a folder holds the same.
LEMMA FoldJoins ==
  ASSUME NEW S, NEW a \in Seq(S), NEW b \in Seq(S), NEW f
  PROVE  Dash!Fold(f, a \o b) = Dash!Fold(Dash!Fold(f, a), b)
<1> DEFINE c == a \o b
           n == Len(a)
           e == Dash!Fold(f, a)
<1>1. /\ Len(c) = n + Len(b) /\ Len(c) \in Nat /\ n \in Nat /\ Len(b) \in Nat
      /\ \A i \in 1..n : c[i] = a[i]
      /\ \A j \in 1..Len(b) : c[n + j] = b[j]
  BY ConcatAt
<1>0. n = Len(a)
  OBVIOUS
<1> HIDE DEF c, n
<1>2. PICK g : IsFold(g, f, c, Len(c)) /\ Dash!Fold(f, c) = g[Len(c)]
  BY ONLY <1>1, FoldedIs
<1>3. PICK h : IsFold(h, f, a, n) /\ e = h[n]
  BY ONLY <1>0, <1>1, FoldedIs
<1> HIDE DEF e
<1>4. PICK k : IsFold(k, e, b, Len(b)) /\ Dash!Fold(e, b) = k[Len(b)]
  BY ONLY <1>1, FoldedIs
<1>5. g[0] = f /\ \A i \in 1..Len(c) : g[i] = Dash!Ingest(g[i - 1], c[i])
  BY ONLY <1>1, <1>2, FoldAt
<1>6. h[0] = f /\ \A i \in 1..n : h[i] = Dash!Ingest(h[i - 1], a[i])
  BY ONLY <1>1, <1>3, FoldAt
<1>7. k[0] = e /\ \A i \in 1..Len(b) : k[i] = Dash!Ingest(k[i - 1], b[i])
  BY ONLY <1>1, <1>4, FoldAt
<1>8. \A i \in 0..n : g[i] = h[i]
  <2> DEFINE T == {i \in 0..n : g[i] # h[i]}
  <2> SUFFICES ASSUME T # {} PROVE FALSE
    OBVIOUS
  <2>1. PICK i \in T : \A l \in T : i <= l
    <3>1. T \subseteq Nat
      BY <1>1
    <3> QED
      BY ONLY <3>1, T # {}, Least
  <2>2. i \in 0..n /\ g[i] # h[i] /\ i # 0
    BY <1>5, <1>6
  <2>3. i - 1 \in 0..n /\ ~(i <= i - 1) /\ i \in 1..n /\ i \in 1..Len(c)
    BY ONLY <1>1, <2>2
  <2>4. g[i - 1] = h[i - 1]
    BY <2>1, <2>3
  <2>5. c[i] = a[i]
    BY ONLY <1>1, <2>3
  <2> QED
    BY ONLY <1>5, <1>6, <2>2, <2>3, <2>4, <2>5
<1>9. \A j \in 0..Len(b) : g[n + j] = k[j]
  <2> DEFINE T == {j \in 0..Len(b) : g[n + j] # k[j]}
  <2> SUFFICES ASSUME T # {} PROVE FALSE
    OBVIOUS
  <2>1. PICK j \in T : \A l \in T : j <= l
    <3>1. T \subseteq Nat
      BY <1>1
    <3> QED
      BY ONLY <3>1, T # {}, Least
  <2>2. j \in 0..Len(b) /\ g[n + j] # k[j]
    OBVIOUS
  <2>3. g[n + 0] = k[0]
    <3>1. n + 0 = n /\ n \in 0..n
      BY ONLY <1>1
    <3> QED
      BY ONLY <1>3, <1>7, <1>8, <3>1
  <2>4. j - 1 \in 0..Len(b) /\ ~(j <= j - 1) /\ j \in 1..Len(b)
    BY ONLY <1>1, <2>2, <2>3
  <2>5. g[n + (j - 1)] = k[j - 1]
    BY <2>1, <2>4
  <2>6. n + j \in 1..Len(c) /\ (n + j) - 1 = n + (j - 1) /\ c[n + j] = b[j]
    BY ONLY <1>1, <2>4
  <2> QED
    BY ONLY <1>5, <1>7, <2>2, <2>4, <2>5, <2>6
<1>10. Len(b) \in 0..Len(b)
  BY ONLY <1>1
<1>11. g[n + Len(b)] = k[Len(b)]
  BY ONLY <1>9, <1>10
<1>12. Dash!Fold(f, c) = Dash!Fold(e, b)
  BY ONLY <1>1, <1>2, <1>4, <1>11
<1> QED
  BY ONLY <1>12 DEF c, e

\* No rows change nothing.
LEMMA FoldNone ==
  ASSUME NEW f
  PROVE  Dash!Fold(f, <<>>) = f
<1>1. Len(<<>>) = 0
  OBVIOUS
<1>2. PICK g : IsFold(g, f, <<>>, 0) /\ Dash!Fold(f, <<>>) = g[0]
  BY <1>1, FoldedIs
<1> QED
  BY ONLY <1>2, FoldAt, 0 \in Nat

\* Two pieces of a file that lie one behind the other.
LEMMA Pieces ==
  ASSUME NEW S, NEW s \in Seq(S), NEW i \in Nat, NEW j \in Nat, NEW k \in Nat, i <= j, j <= k, k <= Len(s)
  PROVE  /\ SubSeq(s, i + 1, j) \in Seq(S) /\ SubSeq(s, j + 1, k) \in Seq(S) /\ SubSeq(s, i + 1, k) \in Seq(S)
         /\ Len(SubSeq(s, i + 1, j)) = j - i /\ Len(SubSeq(s, j + 1, k)) = k - j
         /\ \A l \in 1..j - i : SubSeq(s, i + 1, j)[l] = s[i + l]
         /\ \A l \in 1..k - j : SubSeq(s, j + 1, k)[l] = s[j + l]
         /\ SubSeq(s, i + 1, k) = SubSeq(s, i + 1, j) \o SubSeq(s, j + 1, k)
  OBVIOUS

\* A card never holds more than it may.
LEMMA LongestIs ==
  ASSUME NEW S, NEW s \in Seq(S), NEW n \in Nat
  PROVE  Dash!Longest(s, n) \in Seq(S) /\ Len(Dash!Longest(s, n)) <= n
<1> DEFINE i == IF Len(s) > n THEN Len(s) - n ELSE 0
<1>1. Len(s) \in Nat /\ i \in Nat /\ i <= Len(s) /\ Len(s) - i <= n
  OBVIOUS
<1>2. Dash!Longest(s, n) = SubSeq(s, i + 1, Len(s))
  BY <1>1 DEF Dash!Longest
<1> HIDE DEF i
<1>3. SubSeq(s, i + 1, Len(s)) \in Seq(S) /\ Len(SubSeq(s, i + 1, Len(s))) = Len(s) - i
  BY ONLY <1>1, s \in Seq(S)
<1> QED
  BY ONLY <1>1, <1>2, <1>3

\* Nor after any of the folder's steps.
LEMMA EventShort ==
  ASSUME NEW f, Short(f), NEW kind \in {"said", "thinking", "tool_use"}, NEW n \in Nat
  PROVE  Short(Dash!Event(f, kind, n))
<1>1. MaxEvents \in Nat /\ <<kind, n>> \in EventOf
  BY PagesAssumption DEF Dash!TranscriptAssumption, EventOf
<1>2. f \in Folder /\ f.events \in Seq(EventOf)
  BY DEF Short, Folder
<1>3. Append(f.events, <<kind, n>>) \in Seq(EventOf)
  BY <1>1, <1>2
<1> DEFINE e == Dash!Longest(Append(f.events, <<kind, n>>), MaxEvents)
<1>4. e \in Seq(EventOf) /\ Len(e) <= MaxEvents
  BY ONLY <1>1, <1>3, LongestIs
<1>5. Dash!Event(f, kind, n) = [f EXCEPT !.events = e]
  BY DEF Dash!Event
<1> HIDE DEF e
<1>6. [f EXCEPT !.events = e] \in Folder /\ [f EXCEPT !.events = e].events = e
  BY ONLY <1>2, <1>4 DEF Folder
<1> QED
  BY ONLY <1>4, <1>5, <1>6 DEF Short

LEMMA FlushShort ==
  ASSUME NEW f, Short(f)
  PROVE  Short(Dash!FlushText(f)) /\ Short(Dash!FlushThink(f))
<1>1. f \in Folder /\ f.text \in Nat /\ f.think \in Nat
  BY DEF Short, Folder
<1>2. Short(Dash!Event(f, "said", f.text)) /\ Short(Dash!Event(f, "thinking", f.think))
  BY ONLY <1>1, Short(f), EventShort
<1>3. ASSUME NEW g, Short(g)
      PROVE  Short([g EXCEPT !.text = 0]) /\ Short([g EXCEPT !.think = 0])
  BY <1>3 DEF Short, Folder
<1>4. Short(IF f.text > 0 THEN Dash!Event(f, "said", f.text) ELSE f)
  BY <1>2
<1>5. Short(IF f.think > 0 THEN Dash!Event(f, "thinking", f.think) ELSE f)
  BY <1>2
<1> QED
  BY ONLY <1>3, <1>4, <1>5 DEF Dash!FlushText, Dash!FlushThink

LEMMA IngestShort ==
  ASSUME NEW f, Short(f), NEW row
  PROVE  Short(Dash!Ingest(f, row))
<1>1. Short(Dash!FlushText(f)) /\ Short(Dash!FlushThink(f)) /\ Short(Dash!FlushThink(Dash!FlushText(f)))
  BY ONLY Short(f), FlushShort
<1>2. ASSUME NEW g, Short(g)
      PROVE  /\ Short([g EXCEPT !.text = Dash!Clip(g.text + 1)])
             /\ Short([g EXCEPT !.think = Dash!Clip(g.think + 1)])
  <2>1. g.text + 1 \in Nat /\ g.think + 1 \in Nat /\ MaxOpen \in Nat
    BY <1>2, PagesAssumption DEF Short, Folder, Dash!TranscriptAssumption
  <2>2. Dash!Clip(g.text + 1) \in Nat /\ Dash!Clip(g.think + 1) \in Nat
    BY <2>1 DEF Dash!Clip
  <2> QED
    BY <1>2, <2>2 DEF Short, Folder
<1>3. Short(Dash!Event(Dash!FlushThink(Dash!FlushText(f)), "tool_use", 1))
  BY ONLY <1>1, EventShort
<1>4. CASE row = "content_delta"
  BY <1>1, <1>2, <1>4 DEF Dash!Ingest
<1>5. CASE row = "thinking_delta"
  BY <1>1, <1>2, <1>5 DEF Dash!Ingest
<1>6. CASE row = "tool_use"
  BY <1>3, <1>6 DEF Dash!Ingest
<1>7. CASE row \notin {"content_delta", "thinking_delta", "tool_use"}
  BY <1>1, <1>7 DEF Dash!Ingest
<1> QED
  BY <1>4, <1>5, <1>6, <1>7

LEMMA FoldShort ==
  ASSUME NEW f, Short(f), NEW rows, Len(rows) \in Nat
  PROVE  Short(Dash!Fold(f, rows))
<1> DEFINE n == Len(rows)
<1> HIDE DEF n
<1>1. n \in Nat /\ n \in 0..n
  BY DEF n
<1>2. PICK g : IsFold(g, f, rows, n) /\ Dash!Fold(f, rows) = g[n]
  BY FoldedIs DEF n
<1>3. g[0] = f /\ \A i \in 1..n : g[i] = Dash!Ingest(g[i - 1], rows[i])
  BY ONLY <1>1, <1>2, FoldAt
<1> DEFINE T == {i \in 0..n : ~Short(g[i])}
<1> SUFFICES ASSUME T # {} PROVE FALSE
  BY <1>1, <1>2
<1>4. PICK i \in T : \A l \in T : i <= l
  <2>1. T \subseteq Nat
    BY <1>1
  <2> QED
    BY ONLY <2>1, T # {}, Least
<1>5. i \in 0..n /\ ~Short(g[i])
  OBVIOUS
<1>6. i - 1 \in 0..n /\ ~(i <= i - 1) /\ i \in 1..n
  <2>1. i # 0
    BY <1>3, <1>5
  <2> QED
    BY ONLY <1>1, <1>5, <2>1
<1>7. Short(g[i - 1])
  BY <1>4, <1>6
<1> QED
  BY ONLY <1>3, <1>5, <1>6, <1>7, IngestShort

LEMMA EmptyShort == Short(Dash!Empty)
<1>1. MaxEvents \in Nat
  BY PagesAssumption DEF Dash!TranscriptAssumption
<1>2. <<>> \in Seq(EventOf) /\ Len(<<>>) = 0
  OBVIOUS
<1> QED
  BY <1>1, <1>2 DEF Short, Folder, Dash!Empty

-----------------------------------------------------------------------------
(* Transcripts: a file read in slices *)

Bytes == Dash!Rows \cup {NL}

\* What the broadcaster keeps of a transcript: it has read up to an offset, from a
\* place where a line begins or nothing was read yet; a body whose newline is still
\* to come is kept aside, and the card holds the lines in between.
Follows(t, c, f) ==
    /\ t \in [offset : Nat, buf : Seq(Bytes), skip : BOOLEAN, from : Nat]
    /\ t.from <= t.offset /\ t.offset <= Len(f)
    /\ t.skip => t.from = t.offset
    /\ t.buf = IF t.offset > t.from /\ f[t.offset] # NL THEN <<f[t.offset]>> ELSE <<>>
    /\ c = Dash!Fold(Dash!Empty, Dash!Complete(SubSeq(f, t.from + 1, t.offset)))

\* What was not read yet follows any file.
LEMMA UnreadFollows ==
  ASSUME NEW f \in Seq(Bytes)
  PROVE  Follows(Dash!Unread, Dash!Empty, f)
<1> DEFINE t == Dash!Unread
<1>1. /\ t \in [offset : Nat, buf : Seq(Bytes), skip : BOOLEAN, from : Nat]
      /\ t.from = 0 /\ t.offset = 0 /\ t.skip = FALSE /\ t.buf = <<>>
  BY DEF Dash!Unread
<1>2. SubSeq(f, 0 + 1, 0) = <<>>
  OBVIOUS
<1>3. Dash!Fold(Dash!Empty, Dash!Complete(SubSeq(f, 0 + 1, 0))) = Dash!Empty
  BY ONLY <1>2, CompleteShort, FoldNone
<1>4. Len(f) \in Nat
  OBVIOUS
<1> HIDE DEF t
<1> QED
  BY ONLY <1>1, <1>3, <1>4 DEF Follows, t

\* It still follows when the file grows.
LEMMA FollowsGrows ==
  ASSUME NEW t, NEW c, NEW f \in Seq(Bytes), NEW e \in Seq(Bytes), Follows(t, c, f),
         Len(f) <= Len(e), Agree(e, f, Len(f))
  PROVE  Follows(t, c, e)
<1>1. /\ t.from \in Nat /\ t.offset \in Nat /\ t.from <= t.offset /\ t.offset <= Len(f)
      /\ Len(f) \in Nat /\ Len(e) \in Nat /\ t.offset <= Len(e)
  BY DEF Follows
<1>2. t.offset > t.from => e[t.offset] = f[t.offset]
  <2>1. t.offset > t.from => t.offset \in 1..Len(f)
    BY ONLY <1>1
  <2> QED
    BY <2>1 DEF Agree
<1>3. SubSeq(e, t.from + 1, t.offset) = SubSeq(f, t.from + 1, t.offset)
  <2> DEFINE i == t.from
             j == t.offset
             p == SubSeq(e, i + 1, j)
             q == SubSeq(f, i + 1, j)
  <2>1. i \in Nat /\ j \in Nat /\ i <= j /\ j <= Len(f) /\ j <= Len(e)
    BY ONLY <1>1
  <2> HIDE DEF i, j
  <2>2. /\ p \in Seq(Bytes) /\ Len(p) = j - i
        /\ \A l \in 1..j - i : p[l] = e[i + l]
    BY ONLY <2>1, e \in Seq(Bytes), Pieces
  <2>3. /\ q \in Seq(Bytes) /\ Len(q) = j - i
        /\ \A l \in 1..j - i : q[l] = f[i + l]
    BY ONLY <2>1, f \in Seq(Bytes), Pieces
  <2>4. \A l \in 1..j - i : e[i + l] = f[i + l]
    <3> SUFFICES ASSUME NEW l \in 1..j - i PROVE e[i + l] = f[i + l]
      OBVIOUS
    <3>1. i + l \in 1..Len(f)
      BY ONLY <1>1, <2>1
    <3> QED
      BY ONLY <3>1, Agree(e, f, Len(f)) DEF Agree
  <2> HIDE DEF p, q
  <2>5. p = q
    BY ONLY <2>2, <2>3, <2>4
  <2> QED
    BY ONLY <2>5 DEF p, q, i, j
<1> QED
  BY ONLY Follows(t, c, f), <1>1, <1>2, <1>3 DEF Follows

\* Where the first newline of a slice is.
LEMMA CutIs ==
  ASSUME NEW s \in Seq(Bytes), Dash!Contains(s, NL)
  PROVE  (CHOOSE i \in DOMAIN s : s[i] = NL /\ \A j \in 1..i - 1 : s[j] # NL) \in 1..Len(s)
<1> DEFINE T == {i \in 1..Len(s) : s[i] = NL}
<1>1. T # {}
  BY DEF Dash!Contains
<1>2. PICK i \in T : \A l \in T : i <= l
  <2>1. T \subseteq Nat
    OBVIOUS
  <2> QED
    BY ONLY <1>1, <2>1, Least
<1>3. i \in 1..Len(s) /\ s[i] = NL /\ Len(s) \in Nat
  OBVIOUS
<1>4. \A j \in 1..i - 1 : s[j] # NL
  <2> SUFFICES ASSUME NEW j \in 1..i - 1, s[j] = NL PROVE FALSE
    OBVIOUS
  <2>1. j \in 1..Len(s) /\ ~(i <= j)
    BY ONLY <1>3
  <2> QED
    BY ONLY <1>2, <2>1, s[j] = NL
<1>5. DOMAIN s = 1..Len(s)
  OBVIOUS
<1>6. \E k \in DOMAIN s : s[k] = NL /\ \A j \in 1..k - 1 : s[j] # NL
  BY ONLY <1>3, <1>4, <1>5
<1> QED
  BY ONLY <1>5, <1>6

\* A slice of a slice that reaches to the end.
LEMMA Slices ==
  ASSUME NEW f \in Seq(Bytes), NEW i \in Nat, NEW k \in Nat, i + k <= Len(f)
  PROVE  SubSeq(SubSeq(f, i + 1, Len(f)), k + 1, Len(f) - i) = SubSeq(f, i + k + 1, Len(f))
<1> DEFINE n == Len(f)
           a == SubSeq(f, i + 1, n)
           b == SubSeq(a, k + 1, n - i)
           c == SubSeq(f, i + k + 1, n)
<1>1. n \in Nat /\ i + k <= n /\ i <= n /\ k <= n - i /\ n - i \in Nat /\ i + k \in Nat /\ n <= n
  OBVIOUS
<1>2. n = Len(f)
  OBVIOUS
<1> HIDE DEF n
<1>3. a \in Seq(Bytes) /\ Len(a) = n - i /\ \A l \in 1..n - i : a[l] = f[i + l]
  BY ONLY <1>1, <1>2, f \in Seq(Bytes), i \in Nat, Pieces
<1> HIDE DEF a
<1>4. b \in Seq(Bytes) /\ Len(b) = (n - i) - k /\ \A l \in 1..(n - i) - k : b[l] = a[k + l]
  BY ONLY <1>1, <1>3, k \in Nat, Pieces
<1>5. c \in Seq(Bytes) /\ Len(c) = n - (i + k) /\ \A l \in 1..n - (i + k) : c[l] = f[(i + k) + l]
  <2> DEFINE d == i + k
  <2>1. d \in Nat /\ d <= n /\ n \in Nat /\ n <= Len(f)
    BY ONLY <1>1, <1>2
  <2> HIDE DEF d
  <2>2. /\ SubSeq(f, d + 1, n) \in Seq(Bytes) /\ Len(SubSeq(f, d + 1, n)) = n - d
        /\ \A l \in 1..n - d : SubSeq(f, d + 1, n)[l] = f[d + l]
    BY ONLY <2>1, f \in Seq(Bytes), Pieces
  <2> QED
    BY ONLY <2>2 DEF d
<1> HIDE DEF b, c
<1>6. \A l \in 1..n - (i + k) : b[l] = c[l]
  <2> SUFFICES ASSUME NEW l \in 1..n - (i + k) PROVE b[l] = c[l]
    OBVIOUS
  <2>1. l \in 1..(n - i) - k /\ k + l \in 1..n - i /\ i + (k + l) = (i + k) + l
    BY ONLY <1>1, i \in Nat, k \in Nat
  <2>2. b[l] = f[i + (k + l)]
    BY ONLY <1>3, <1>4, <2>1
  <2> QED
    BY ONLY <1>5, <2>1, <2>2
<1>7. Len(b) = Len(c) /\ Len(b) = n - (i + k)
  BY ONLY <1>1, <1>4, <1>5, i \in Nat, k \in Nat
<1>8. b = c
  BY ONLY <1>4, <1>5, <1>6, <1>7
<1> QED
  BY ONLY <1>8 DEF a, b, c, n

\* A sequence of one element.
LEMMA OneIs ==
  ASSUME NEW S, NEW s \in Seq(S), Len(s) = 1
  PROVE  s = <<s[1]>>
  OBVIOUS

\* The next slice follows from there: its bytes are those after the lines that are held.
Continues(t, c, f, b) ==
    /\ t.from <= b /\ b < Len(f)
    /\ t.buf \o SubSeq(f, t.offset + 1, Len(f)) = SubSeq(f, b + 1, Len(f))
    /\ Joins(SubSeq(f, t.from + 1, b), SubSeq(f, b + 1, Len(f)))
    /\ c = Dash!Fold(Dash!Empty, Dash!Complete(SubSeq(f, t.from + 1, b)))

LEMMA NextFollows ==
  ASSUME NEW f \in Seq(Bytes), NEW t, NEW c, Follows(t, c, f), t.offset < Len(f)
  PROVE  \E b \in Nat : Continues(t, c, f, b)
<1> DEFINE o == t.offset
           m == t.from
           n == Len(f)
<1>1. /\ m \in Nat /\ o \in Nat /\ n \in Nat /\ m <= o /\ o < n /\ n <= n /\ o <= n
      /\ t.buf = IF o > m /\ f[o] # NL THEN <<f[o]>> ELSE <<>>
      /\ c = Dash!Fold(Dash!Empty, Dash!Complete(SubSeq(f, m + 1, o)))
  BY DEF Follows
<1>2. n = Len(f)
  OBVIOUS
<1> HIDE DEF o, m, n
<1>3. CASE ~(o > m /\ f[o] # NL)
  <2> DEFINE u == SubSeq(f, m + 1, o)
             v == SubSeq(f, o + 1, n)
  <2>1. /\ u \in Seq(Bytes) /\ v \in Seq(Bytes) /\ Len(u) = o - m
        /\ \A l \in 1..o - m : u[l] = f[m + l]
    BY ONLY <1>1, <1>2, f \in Seq(Bytes), Pieces
  <2> HIDE DEF u, v
  <2>2. <<>> \o v = v
    BY ONLY <2>1
  <2>3. Joins(u, v)
    <3>1. CASE o > m
      <4>1. o - m \in 1..o - m /\ m + (o - m) = o
        BY ONLY <1>1, <3>1
      <4>2. u[Len(u)] = NL
        BY ONLY <1>3, <2>1, <3>1, <4>1
      <4> QED
        BY ONLY <4>2 DEF Joins
    <3>2. CASE ~(o > m)
      <4>1. Len(u) = 0
        BY ONLY <1>1, <2>1, <3>2
      <4>2. u = <<>>
        BY ONLY <2>1, <4>1
      <4> QED
        BY ONLY <4>2 DEF Joins
    <3> QED
      BY ONLY <3>1, <3>2
  <2>4. t.buf \o v = v
    BY ONLY <1>1, <1>3, <2>2
  <2> QED
    BY ONLY <1>1, <2>3, <2>4 DEF Continues, u, v, m, n, o
<1>4. CASE o > m /\ f[o] # NL
  <2> DEFINE b == o - 1
             x == f[o]
             u == SubSeq(f, m + 1, b)
             v == SubSeq(f, b + 1, n)
             w == SubSeq(f, m + 1, o)
             z == SubSeq(f, o + 1, n)
             y == SubSeq(f, b + 1, o)
  <2>1. b \in Nat /\ m <= b /\ b < n /\ b <= o /\ b + 1 = o /\ o - b = 1 /\ b <= n /\ n - b >= 1 /\ n - b \in Nat
    <3>1. o \in Nat /\ n \in Nat /\ m \in Nat /\ o > m /\ o < n
      BY ONLY <1>1, <1>4
    <3> QED
      BY ONLY <3>1
  <2>2. /\ w = u \o y /\ u \in Seq(Bytes) /\ y \in Seq(Bytes)
        /\ Len(y) = o - b /\ \A l \in 1..o - b : y[l] = f[b + l]
    <3> HIDE DEF b
    <3> QED
      BY ONLY <1>1, <1>2, <2>1, f \in Seq(Bytes), Pieces
  <2>3. v = y \o z
    <3> HIDE DEF b
    <3> QED
      BY ONLY <1>1, <1>2, <2>1, f \in Seq(Bytes), Pieces
  <2>4. v \in Seq(Bytes) /\ Len(v) = n - b /\ \A l \in 1..n - b : v[l] = f[b + l]
    <3> HIDE DEF b
    <3> QED
      BY ONLY <1>1, <1>2, <2>1, f \in Seq(Bytes), Pieces
  <2>5. y[1] = x /\ Len(y) = 1
    <3> HIDE DEF b
    <3>1. 1 \in 1..o - b
      BY ONLY <2>1
    <3> QED
      BY ONLY <2>1, <2>2, <3>1 DEF x
  <2>6. v[1] = x
    <3> HIDE DEF b, v
    <3>1. 1 \in 1..n - b
      BY ONLY <2>1
    <3> QED
      BY ONLY <2>1, <2>4, <3>1 DEF x
  <2>7. x # NL
    BY ONLY <1>4 DEF x
  <2> HIDE DEF b, x, u, v, w, z, y
  <2>8. y = <<x>>
    BY ONLY <2>2, <2>5, OneIs
  <2>9. Joins(u, v) /\ Joins(u, y)
    BY ONLY <2>5, <2>6, <2>7 DEF Joins
  <2>10. Dash!Complete(w) = Dash!Complete(u) \o Dash!Complete(y)
    BY ONLY <2>2, <2>9, CompleteJoins
  <2>11. Dash!Complete(w) = Dash!Complete(u)
    <3>1. Dash!Complete(u) \in Seq(Bytes)
      BY ONLY <2>2, CompleteTyped
    <3>2. Dash!Complete(y) = <<>>
      BY ONLY <2>8, CompleteShort
    <3> DEFINE d == Dash!Complete(u)
    <3>3. d \o <<>> = d
      <4>1. d \in Seq(Bytes)
        BY ONLY <3>1
      <4> HIDE DEF d
      <4> QED
        BY ONLY <4>1
    <3> QED
      BY ONLY <2>10, <3>2, <3>3
  <2>12. t.buf \o z = v
    BY ONLY <1>1, <1>4, <2>3, <2>8 DEF x
  <2>13. c = Dash!Fold(Dash!Empty, Dash!Complete(u))
    BY ONLY <1>1, <2>11 DEF w
  <2> QED
    BY ONLY <1>1, <2>1, <2>9, <2>12, <2>13 DEF Continues, u, v, z, m, n, o
<1> QED
  BY ONLY <1>3, <1>4

\* What is kept of the bytes that were read: a body without its newline.
Kept(s) == IF s # <<>> /\ Dash!Last(s) # NL THEN <<Dash!Last(s)>> ELSE <<>>

LEMMA KeptIs ==
  ASSUME NEW f \in Seq(Bytes), NEW b \in Nat, b <= Len(f)
  PROVE  /\ Kept(SubSeq(f, b + 1, Len(f))) = IF Len(f) > b /\ f[Len(f)] # NL THEN <<f[Len(f)]>> ELSE <<>>
         /\ Kept(SubSeq(f, b + 1, Len(f))) \in Seq(Bytes)
<1> DEFINE n == Len(f)
           s == SubSeq(f, b + 1, n)
<1>1. n \in Nat /\ n = Len(f) /\ b <= n /\ n <= n
  OBVIOUS
<1> HIDE DEF n
<1>2. s \in Seq(Bytes) /\ Len(s) = n - b /\ \A l \in 1..n - b : s[l] = f[b + l]
  BY ONLY <1>1, f \in Seq(Bytes), b \in Nat, Pieces
<1> HIDE DEF s
<1>3. CASE n > b
  <2>1. n - b \in 1..n - b /\ b + (n - b) = n
    BY ONLY <1>1, <1>3, b \in Nat
  <2>2. s[Len(s)] = f[n]
    BY ONLY <1>2, <2>1
  <2>3. s # <<>> /\ s[Len(s)] \in Bytes
    BY ONLY <1>2, <2>1
  <2>4. Dash!Last(s) = f[n] /\ f[n] \in Bytes
    BY ONLY <2>2, <2>3 DEF Dash!Last
  <2>5. Kept(s) = IF f[n] # NL THEN <<f[n]>> ELSE <<>>
    BY ONLY <2>3, <2>4 DEF Kept
  <2>6. Kept(s) \in Seq(Bytes)
    BY ONLY <2>4, <2>5
  <2> QED
    BY ONLY <1>3, <2>5, <2>6 DEF s, n
<1>4. CASE ~(n > b)
  <2>1. Len(s) = 0
    BY ONLY <1>1, <1>2, <1>4, b \in Nat
  <2>2. s = <<>>
    BY ONLY <1>2, <2>1
  <2>3. Kept(s) = <<>> /\ <<>> \in Seq(Bytes)
    BY ONLY <2>2 DEF Kept
  <2> QED
    BY ONLY <1>4, <2>3 DEF s, n
<1> QED
  BY ONLY <1>3, <1>4

\* One call of poll, and what the folder makes of it.
LEMMA PollFollows ==
  ASSUME NEW f \in Seq(Bytes), NEW t, NEW c, Follows(t, c, f)
  PROVE  Follows(Dash!Poll(t, f).tail,
                 IF Dash!Poll(t, f).rows = <<>> THEN c ELSE Dash!Fold(c, Dash!Poll(t, f).rows), f)
<1> DEFINE n     == Len(f)
           jump  == t.offset = 0 /\ n > InitialTail
           start == IF jump THEN n - InitialTail ELSE t.offset
           chunk == SubSeq(f, start + 1, n)
           skip  == jump \/ t.skip
           cut   == IF ~skip THEN 0 ELSE IF Dash!Contains(chunk, NL)
                    THEN CHOOSE i \in DOMAIN chunk : chunk[i] = NL /\ \A j \in 1..i - 1 : chunk[j] # NL
                    ELSE Len(chunk)
           data  == t.buf \o SubSeq(chunk, cut + 1, Len(chunk))
           rows  == Dash!Complete(data)
           next  == [offset |-> n, buf |-> Kept(data), skip |-> skip /\ ~Dash!Contains(chunk, NL),
                     from |-> IF skip THEN start + cut ELSE t.from]
<1>1. CASE n <= t.offset
  <2>1. Dash!Poll(t, f) = [tail |-> t, rows |-> <<>>]
    BY <1>1 DEF Dash!Poll
  <2>2. Dash!Poll(t, f).tail = t /\ Dash!Poll(t, f).rows = <<>>
    BY ONLY <2>1
  <2> QED
    BY ONLY <2>2, Follows(t, c, f)
<1>2. CASE ~(n <= t.offset)
  <2>1. Dash!Poll(t, f) = [tail |-> next, rows |-> rows]
    BY ONLY <1>2 DEF Dash!Poll, Kept, NL
  <2> SUFFICES Follows(next, Dash!Fold(c, rows), f)
    <3> HIDE DEF next, rows
    <3>1. Dash!Poll(t, f).tail = next /\ Dash!Poll(t, f).rows = rows
      BY ONLY <2>1
    <3> DEFINE got == Dash!Poll(t, f).rows
    <3>2. (IF got = <<>> THEN c ELSE Dash!Fold(c, got)) = Dash!Fold(c, got)
      BY ONLY FoldNone
    <3>3. Dash!Fold(c, got) = Dash!Fold(c, rows)
      BY ONLY <3>1
    <3>4. (IF got = <<>> THEN c ELSE Dash!Fold(c, got)) = Dash!Fold(c, rows)
      BY ONLY <3>2, <3>3
    <3> QED
      BY ONLY <3>1, <3>4, Follows(next, Dash!Fold(c, rows), f)
  <2>2. /\ t.from \in Nat /\ t.offset \in Nat /\ n \in Nat /\ t.from <= t.offset /\ t.offset < n
        /\ t.skip \in BOOLEAN /\ (t.skip => t.from = t.offset)
    BY <1>2 DEF Follows
  <2>3. InitialTail \in Nat \ {0}
    BY PagesAssumption DEF Dash!TranscriptAssumption
  <2>4. start \in Nat /\ start < n
    BY ONLY <2>2, <2>3
  <2>5. chunk \in Seq(Bytes) /\ Len(chunk) = n - start
    <3> HIDE DEF start
    <3>1. start <= n /\ n <= n
      BY ONLY <2>2, <2>4
    <3> QED
      BY ONLY <2>2, <2>4, <3>1, f \in Seq(Bytes), Pieces
  <2>9. PICK b \in Nat : Continues(t, c, f, b)
    <3>1. t.offset < Len(f)
      BY <2>2
    <3> QED
      BY ONLY <3>1, f \in Seq(Bytes), Follows(t, c, f), NextFollows
  <2>6. /\ t.from <= b /\ b < n
        /\ t.buf \o SubSeq(f, t.offset + 1, n) = SubSeq(f, b + 1, n)
        /\ Joins(SubSeq(f, t.from + 1, b), SubSeq(f, b + 1, n))
        /\ c = Dash!Fold(Dash!Empty, Dash!Complete(SubSeq(f, t.from + 1, b)))
    BY ONLY <2>9 DEF Continues
  <2>7. CASE ~skip
    <3>1. ~jump /\ ~t.skip /\ start = t.offset /\ cut = 0
      BY ONLY <2>7
    <3>2. SubSeq(chunk, cut + 1, Len(chunk)) = chunk
      <4> HIDE DEF chunk
      <4>1. cut + 1 = 1
        BY ONLY <3>1
      <4>2. SubSeq(chunk, 1, Len(chunk)) = chunk
        BY ONLY <2>5
      <4> HIDE DEF cut
      <4> QED
        BY ONLY <4>1, <4>2
    <3>3. data = SubSeq(f, b + 1, n)
      BY ONLY <2>6, <3>1, <3>2
    <3> DEFINE u == SubSeq(f, t.from + 1, b)
               v == SubSeq(f, b + 1, n)
               w == SubSeq(f, t.from + 1, n)
    <3>4. w = u \o v /\ u \in Seq(Bytes) /\ v \in Seq(Bytes)
      <4>1. b <= n /\ n <= n
        BY ONLY <2>2, <2>6
      <4> DEFINE m == t.from
      <4>2. m \in Nat /\ m <= b /\ b \in Nat /\ n \in Nat /\ b <= n /\ n <= Len(f)
        BY ONLY <2>2, <2>6, b \in Nat
      <4> HIDE DEF m, n
      <4>3. /\ SubSeq(f, m + 1, n) = SubSeq(f, m + 1, b) \o SubSeq(f, b + 1, n)
            /\ SubSeq(f, m + 1, b) \in Seq(Bytes) /\ SubSeq(f, b + 1, n) \in Seq(Bytes)
        BY ONLY <4>2, f \in Seq(Bytes), Pieces
      <4> QED
        BY ONLY <4>3 DEF m, n
    <3>5. Joins(u, v) /\ c = Dash!Fold(Dash!Empty, Dash!Complete(u))
      BY ONLY <2>6
    <3>6. Dash!Fold(c, rows) = Dash!Fold(Dash!Empty, Dash!Complete(w))
      <4>1. rows = Dash!Complete(v)
        BY ONLY <3>3
      <4> HIDE DEF u, v, w, rows
      <4>2. Dash!Complete(w) = Dash!Complete(u) \o Dash!Complete(v)
        BY ONLY <3>4, <3>5, CompleteJoins
      <4>3. Dash!Complete(u) \in Seq(Bytes) /\ Dash!Complete(v) \in Seq(Bytes)
        BY ONLY <3>4, CompleteTyped
      <4>4. Dash!Fold(Dash!Empty, Dash!Complete(u) \o Dash!Complete(v))
               = Dash!Fold(Dash!Fold(Dash!Empty, Dash!Complete(u)), Dash!Complete(v))
        BY ONLY <4>3, FoldJoins
      <4> QED
        BY ONLY <3>5, <4>1, <4>2, <4>4
    <3>7. next.from = t.from /\ next.offset = n /\ next.skip = FALSE /\ next.buf = Kept(data)
      BY ONLY <2>7
    <3>8. /\ Kept(data) = IF n > b /\ f[n] # NL THEN <<f[n]>> ELSE <<>>
          /\ Kept(data) \in Seq(Bytes)
      <4>1. b <= Len(f)
        BY ONLY <2>2, <2>6
      <4> QED
        BY ONLY <2>6, <3>3, <4>1, f \in Seq(Bytes), KeptIs
    <3>9. next \in [offset : Nat, buf : Seq(Bytes), skip : BOOLEAN, from : Nat]
      <4> DEFINE k == Kept(data)
                 s == skip /\ ~Dash!Contains(chunk, NL)
                 m == IF skip THEN start + cut ELSE t.from
      <4>1. k \in Seq(Bytes) /\ s \in BOOLEAN /\ m \in Nat
        BY ONLY <2>2, <2>7, <3>8
      <4> HIDE DEF k, s, m
      <4>2. [offset |-> n, buf |-> k, skip |-> s, from |-> m] \in
               [offset : Nat, buf : Seq(Bytes), skip : BOOLEAN, from : Nat]
        BY ONLY <2>2, <4>1
      <4> QED
        BY ONLY <4>2 DEF k, s, m
    <3> HIDE DEF next, rows, data
    <3>10. n > b /\ n > t.from /\ n <= Len(f) /\ t.from <= n
      <4>1. t.from <= b /\ b < n
        BY ONLY <2>6
      <4>2. n <= n
        BY ONLY <2>2
      <4> HIDE DEF n
      <4>3. n > b /\ n > t.from /\ t.from <= n
        BY ONLY <2>2, <4>1, b \in Nat
      <4> QED
        BY ONLY <4>2, <4>3 DEF n
    <3> QED
      BY ONLY <3>6, <3>7, <3>8, <3>9, <3>10 DEF Follows
  <2>8. CASE skip
    <3>1. t.from = t.offset
      BY ONLY <2>2, <2>8
    <3>2. t.buf = <<>> /\ c = Dash!Empty
      <4>1. t.buf = <<>>
        BY ONLY <2>2, <3>1, Follows(t, c, f) DEF Follows
      <4>2. SubSeq(f, t.from + 1, t.offset) = <<>>
        BY ONLY <2>2, <3>1, f \in Seq(Bytes)
      <4>3. c = Dash!Fold(Dash!Empty, Dash!Complete(<<>>))
        BY ONLY <4>2, Follows(t, c, f) DEF Follows
      <4>4. c = Dash!Empty
        BY ONLY <4>3, CompleteShort, FoldNone
      <4> QED
        BY ONLY <4>1, <4>4
    <3>3. cut \in 0..n - start
      <4>1. CASE Dash!Contains(chunk, NL)
        <5>1. cut = CHOOSE i \in DOMAIN chunk : chunk[i] = NL /\ \A j \in 1..i - 1 : chunk[j] # NL
          BY ONLY <2>8, <4>1
        <5>2. cut \in 1..Len(chunk)
          <6> HIDE DEF chunk, cut
          <6>1. (CHOOSE i \in DOMAIN chunk : chunk[i] = NL /\ \A j \in 1..i - 1 : chunk[j] # NL) \in 1..Len(chunk)
            BY ONLY <2>5, <4>1, CutIs
          <6> QED
            BY ONLY <5>1, <6>1
        <5> HIDE DEF cut, chunk, start
        <5> QED
          BY ONLY <2>2, <2>4, <2>5, <5>2
      <4>2. CASE ~Dash!Contains(chunk, NL)
        <5>1. cut = Len(chunk)
          BY ONLY <2>8, <4>2
        <5> HIDE DEF cut, chunk, start
        <5> QED
          BY ONLY <2>2, <2>4, <2>5, <5>1
      <4> QED
        BY ONLY <4>1, <4>2
    <3> DEFINE m == start + cut
    <3>4. m \in Nat /\ m <= n /\ (cut = n - start => m = n)
      <4> HIDE DEF cut, start
      <4> QED
        BY ONLY <2>2, <2>4, <3>3
    <3>5. data = SubSeq(f, m + 1, n)
      <4>1. SubSeq(chunk, cut + 1, Len(chunk)) = SubSeq(f, m + 1, n)
        <5> HIDE DEF cut, start
        <5>1. cut \in Nat /\ start + cut <= Len(f)
          BY ONLY <2>4, <2>2, <3>3, <3>4 DEF m
        <5>2. SubSeq(SubSeq(f, start + 1, Len(f)), cut + 1, Len(f) - start) = SubSeq(f, start + cut + 1, Len(f))
          BY ONLY <2>4, <5>1, f \in Seq(Bytes), Slices
        <5> QED
          BY ONLY <2>5, <5>2 DEF m, chunk
      <4>2. SubSeq(f, m + 1, n) \in Seq(Bytes)
        <5> HIDE DEF m
        <5>1. n <= n
          BY ONLY <2>2
        <5> QED
          BY ONLY <2>2, <3>4, <5>1, f \in Seq(Bytes), Pieces
      <4> DEFINE v == SubSeq(f, m + 1, n)
      <4>3. <<>> \o v = v
        <5>1. v \in Seq(Bytes)
          BY ONLY <4>2
        <5> HIDE DEF v
        <5> QED
          BY ONLY <5>1
      <4> QED
        BY ONLY <3>2, <4>1, <4>3
    <3>6. Dash!Fold(c, rows) = Dash!Fold(Dash!Empty, Dash!Complete(SubSeq(f, m + 1, n)))
      BY ONLY <3>2, <3>5
    <3>7. next.from = m /\ next.offset = n /\ next.buf = Kept(data) /\ next.skip = ~Dash!Contains(chunk, NL)
      BY ONLY <2>8
    <3>8. /\ Kept(data) = IF n > m /\ f[n] # NL THEN <<f[n]>> ELSE <<>>
          /\ Kept(data) \in Seq(Bytes)
      <4>1. m <= Len(f)
        BY ONLY <3>4
      <4> HIDE DEF m
      <4> QED
        BY ONLY <3>4, <3>5, <4>1, f \in Seq(Bytes), KeptIs
    <3>9. next.skip => m = n
      <4>1. next.skip => cut = Len(chunk)
        BY ONLY <2>8, <3>7
      <4> HIDE DEF cut, start, chunk, next, m
      <4> QED
        BY ONLY <2>5, <3>4, <4>1
    <3>10. next \in [offset : Nat, buf : Seq(Bytes), skip : BOOLEAN, from : Nat]
      <4> DEFINE k == Kept(data)
                 s == skip /\ ~Dash!Contains(chunk, NL)
                 g == IF skip THEN start + cut ELSE t.from
      <4>1. k \in Seq(Bytes) /\ s \in BOOLEAN /\ g \in Nat
        BY ONLY <2>8, <3>4, <3>8
      <4> HIDE DEF k, s, g
      <4>2. [offset |-> n, buf |-> k, skip |-> s, from |-> g] \in
               [offset : Nat, buf : Seq(Bytes), skip : BOOLEAN, from : Nat]
        BY ONLY <2>2, <4>1
      <4> QED
        BY ONLY <4>2 DEF k, s, g
    <3> HIDE DEF next, rows, data, m
    <3>11. n <= Len(f)
      BY ONLY <2>2
    <3> QED
      BY ONLY <3>4, <3>6, <3>7, <3>8, <3>9, <3>10, <3>11 DEF Follows
  <2> QED
    BY ONLY <2>7, <2>8
<1> QED
  BY <1>1, <1>2

-----------------------------------------------------------------------------
(* Transcripts and streams: what holds at every step *)

\* The broadcaster follows each transcript that it reads.
Tails ==
    /\ file \in [Wakeup -> Seq(Bytes)]
    /\ \A w \in DOMAIN live : Follows(live[w].tail, live[w].card, file[w])

\* A page's queue within its limit, and each of its cards with a listener.
Limits ==
    /\ DOMAIN ears = Page
    /\ \A p \in Page : Len(queue[p]) <= QueueMax /\ DOMAIN cards[p] \subseteq ears[p]

StreamInv == PInv /\ Tails /\ Limits

LEMMA StreamStart == Dash!Init => StreamInv
<1> SUFFICES ASSUME Dash!Init PROVE StreamInv
  OBVIOUS
<1>1. /\ file = [w \in Wakeup |-> <<>>] /\ live = Dash!Nothing
      /\ queue = [p \in Page |-> <<>>] /\ ears = [p \in Page |-> {}]
      /\ cards = [p \in Page |-> Dash!Nothing]
  BY DEF Dash!Init
<1>2. DOMAIN Dash!Nothing = {}
  BY DEF Dash!Nothing
<1>3. Tails
  BY <1>1, <1>2 DEF Tails
<1>4. Limits
  <2>1. QueueMax \in Nat /\ Len(<<>>) = 0
    BY PageAssumptions
  <2> QED
    BY <1>1, <1>2, <2>1 DEF Limits
<1> QED
  BY <1>3, <1>4, PStart DEF StreamInv

LEMMA TailsStay ==
  ASSUME Tails, UNCHANGED <<file, live>>
  PROVE  Tails'
  BY DEF Tails, Follows

LEMMA WriteFollows ==
  ASSUME Tails, NEW w \in Wakeup, Dash!WriteTranscript(w)
  PROVE  Tails'
<1>1. live' = live /\ file \in [Wakeup -> Seq(Bytes)]
  BY DEF Dash!WriteTranscript, Dash!caster, Tails
<1> DEFINE f == file[w]
<1>2. f \in Seq(Bytes)
  BY <1>1
<1>3. PICK e : /\ file' = [file EXCEPT ![w] = e]
               /\ e \in Seq(Bytes) /\ Len(f) <= Len(e) /\ Agree(e, f, Len(f))
  <2>1. ASSUME NEW x \in Seq(Bytes)
        PROVE  f \o x \in Seq(Bytes) /\ Len(f) <= Len(f \o x) /\ Agree(f \o x, f, Len(f))
    <3> HIDE DEF f
    <3>1. /\ f \o x \in Seq(Bytes) /\ Len(f \o x) = Len(f) + Len(x) /\ Len(f) \in Nat /\ Len(x) \in Nat
          /\ \A i \in 1..Len(f) : (f \o x)[i] = f[i]
      BY ONLY <1>2, <2>1, ConcatAt
    <3> QED
      BY ONLY <3>1 DEF Agree
  <2>2. ASSUME NEW x \in Bytes
        PROVE  Append(f, x) \in Seq(Bytes) /\ Len(f) <= Len(Append(f, x)) /\ Agree(Append(f, x), f, Len(f))
    <3> HIDE DEF f
    <3> QED
      BY ONLY <1>2, <2>2 DEF Agree
  <2>3. CASE file' = [file EXCEPT ![w] = Append(@, Dash!Newline)]
    <3>1. Dash!Newline \in Bytes
      BY DEF Bytes, NL
    <3> QED
      BY <2>2, <2>3, <3>1
  <2>4. CASE \E row \in Dash!Rows : file' = [file EXCEPT ![w] = Append(@, row)]
    <3>1. PICK row \in Dash!Rows : file' = [file EXCEPT ![w] = Append(@, row)]
      BY <2>4
    <3>2. row \in Bytes
      BY DEF Bytes
    <3> QED
      BY <2>2, <3>1, <3>2
  <2>5. CASE \E row \in Dash!Rows : file' = [file EXCEPT ![w] = @ \o <<row, Dash!Newline>>]
    <3>1. PICK row \in Dash!Rows : file' = [file EXCEPT ![w] = @ \o <<row, Dash!Newline>>]
      BY <2>5
    <3>2. <<row, Dash!Newline>> \in Seq(Bytes)
      BY DEF Bytes, NL
    <3> QED
      BY <2>1, <3>1, <3>2
  <2> QED
    BY <2>3, <2>4, <2>5 DEF Dash!WriteTranscript
<1>4. file' \in [Wakeup -> Seq(Bytes)]
  BY <1>1, <1>3
<1>5. ASSUME NEW v \in DOMAIN live'
      PROVE  Follows(live'[v].tail, live'[v].card, file'[v])
  <2>1. Follows(live[v].tail, live[v].card, file[v])
    BY <1>1 DEF Tails
  <2>2. CASE v = w
    <3> DEFINE t == live[v].tail
               c == live[v].card
    <3>1. file'[v] = e /\ file[v] = f
      BY <1>1, <1>3, <2>2
    <3>2. Follows(t, c, f)
      BY <2>1, <3>1
    <3> HIDE DEF t, c, f
    <3>3. Follows(t, c, e)
      BY ONLY <1>2, <1>3, <3>2, FollowsGrows
    <3> QED
      BY <1>1, <3>1, <3>3 DEF t, c
  <2>3. CASE v # w
    <3>1. file'[v] = file[v]
      BY <1>1, <1>3, <2>3
    <3> QED
      BY <1>1, <2>1, <3>1
  <2> QED
    BY <2>2, <2>3
<1> QED
  BY <1>4, <1>5 DEF Tails, Follows

LEMMA PollTails ==
  ASSUME Tails, Dash!PollLive
  PROVE  Tails'
<1>0. PICK read \in SUBSET Dash!Active :
         live' = [w \in Dash!Active \cup DOMAIN live |->
                    IF w \in read THEN Dash!Polled(w) ELSE IF w \in Dash!Active THEN Dash!Held(w) ELSE live[w]]
  BY DEF Dash!PollLive
<1>1. /\ file' = file /\ file \in [Wakeup -> Seq(Bytes)] /\ Dash!Active \subseteq Wakeup
      /\ DOMAIN live' = Dash!Active \cup DOMAIN live
  BY <1>0 DEF Dash!PollLive, Dash!world, Tails, Dash!Active
<1>2. ASSUME NEW w \in DOMAIN live'
      PROVE  Follows(live'[w].tail, live'[w].card, file[w])
  <2>1. CASE w \in Dash!Active
    <3> DEFINE t == Dash!Held(w).tail
               c == Dash!Held(w).card
               f == file[w]
    <3>1. f \in Seq(Bytes)
      BY <1>1, <2>1
    <3>2. Follows(t, c, f)
      <4>1. CASE w \in DOMAIN live
        BY <4>1 DEF Tails, Dash!Held
      <4>2. CASE w \notin DOMAIN live
        <5>1. t = Dash!Unread /\ c = Dash!Empty
          BY <4>2 DEF Dash!Held
        <5> HIDE DEF f, t, c
        <5> QED
          BY ONLY <3>1, <5>1, UnreadFollows
      <4> QED
        BY <4>1, <4>2
    <3>6. CASE w \notin read
      <4>1. live'[w].tail = t /\ live'[w].card = c
        BY <1>0, <2>1, <3>6
      <4> HIDE DEF t, c, f
      <4> QED
        BY ONLY <3>2, <4>1 DEF f
    <3>7. SUFFICES ASSUME w \in read PROVE Follows(live'[w].tail, live'[w].card, file[w])
      BY <3>6
    <3>3. live'[w] = Dash!Polled(w)
      BY <1>0, <2>1, <3>7
    <3>4. /\ live'[w].tail = Dash!Poll(t, f).tail
          /\ live'[w].card = IF Dash!Poll(t, f).rows = <<>> THEN c ELSE Dash!Fold(c, Dash!Poll(t, f).rows)
      BY <3>3 DEF Dash!Polled
    <3> HIDE DEF t, c, f
    <3>5. Follows(Dash!Poll(t, f).tail,
                  IF Dash!Poll(t, f).rows = <<>> THEN c ELSE Dash!Fold(c, Dash!Poll(t, f).rows), f)
      BY ONLY <3>1, <3>2, PollFollows
    <3> QED
      BY ONLY <3>4, <3>5 DEF f
  <2>2. CASE w \notin Dash!Active
    <3>1. live'[w] = live[w] /\ w \in DOMAIN live
      BY <1>0, <1>1, <2>2
    <3> QED
      BY <3>1 DEF Tails
  <2> QED
    BY <2>1, <2>2
<1>3. \A w \in DOMAIN live' : Follows(live'[w].tail, live'[w].card, file'[w])
  BY ONLY <1>1, <1>2
<1>4. file' \in [Wakeup -> Seq(Bytes)]
  BY ONLY <1>1
<1> QED
  BY ONLY <1>3, <1>4 DEF Tails, Follows

LEMMA PublishTails ==
  ASSUME Tails, PageTypes, Dash!Publish
  PROVE  Tails'
<1>1. /\ file' = file /\ live' = [w \in tick.seen |-> live[w]] /\ tick.seen \subseteq DOMAIN live
  BY DEF Dash!Publish, Dash!world, PageTypes, Dash!Restrict
<1>2. \A w \in DOMAIN live' : live'[w] = live[w] /\ w \in DOMAIN live
  BY <1>1
<1> QED
  BY <1>1, <1>2 DEF Tails, Follows

LEMMA LimitsStay ==
  ASSUME Limits, UNCHANGED <<queue, cards, ears>>
  PROVE  Limits'
  BY DEF Limits

LEMMA PublishLimits ==
  ASSUME Limits, PageTypes, Dash!Publish
  PROVE  Limits'
<1>1. UNCHANGED <<cards, ears>> /\ queue \in [Page -> Seq(SUBSET Names)] /\ tick.events \in SUBSET Names
  BY DEF Dash!Publish, PageTypes
<1>2. QueueMax \in Nat \ {0}
  BY PageAssumptions
<1>3. ASSUME NEW p \in Page PROVE Len(queue'[p]) <= QueueMax
  <2> DEFINE q == queue[p]
             e == tick.events
  <2>1. Len(q) <= QueueMax /\ q \in Seq(SUBSET Names) /\ e \in SUBSET Names
    BY <1>1 DEF Limits
  <2>2. CASE queue' = queue
    BY <2>1, <2>2
  <2>3. CASE queue' = [x \in Page |-> IF x \in Dash!Subscribers THEN Append(Dash!Queued(x), e) ELSE queue[x]]
    <3>1. queue'[p] = q \/ queue'[p] = Append(Dash!Queued(p), e)
      BY <2>3
    <3>2. Len(Append(Dash!Queued(p), e)) <= QueueMax
      <4>1. CASE Len(q) = QueueMax
        <5>1. Dash!Queued(p) = Tail(q)
          BY <4>1 DEF Dash!Queued
        <5> HIDE DEF q, e
        <5>2. Len(Append(Tail(q), e)) = Len(q)
          BY ONLY <1>2, <2>1, <4>1
        <5> QED
          BY ONLY <2>1, <5>1, <5>2
      <4>2. CASE Len(q) # QueueMax
        <5>1. Dash!Queued(p) = q
          BY <4>2 DEF Dash!Queued
        <5> HIDE DEF q, e
        <5>2. Len(Append(q, e)) = Len(q) + 1 /\ Len(q) \in Nat
          BY ONLY <2>1
        <5> QED
          BY ONLY <1>2, <2>1, <4>2, <5>1, <5>2
      <4> QED
        BY <4>1, <4>2
    <3> QED
      BY <2>1, <3>1, <3>2
  <2> QED
    BY <2>2, <2>3 DEF Dash!Publish
<1> QED
  BY <1>1, <1>3 DEF Limits

\* What a rendering does to the cards of a page: a new set of them, each with a listener.
LEMMA ShowsLimits ==
  ASSUME Limits, NEW p \in Page, DOMAIN cards = Page, NEW fs, Dash!Shows(p, fs), queue' = queue
  PROVE  Limits'
<1>1. CASE "activity" \in fs
  <2>1. cards' = [cards EXCEPT ![p] = Dash!LiveCards] /\ ears' = [ears EXCEPT ![p] = @ \cup Dash!Active]
    BY <1>1 DEF Dash!Shows
  <2>2. DOMAIN Dash!LiveCards = Dash!Active
    BY DEF Dash!LiveCards
  <2>3. DOMAIN cards'[p] = Dash!Active /\ ears'[p] = ears[p] \cup Dash!Active /\ DOMAIN ears' = Page
    BY <2>1, <2>2 DEF Limits
  <2>4. \A x \in Page \ {p} : cards'[x] = cards[x] /\ ears'[x] = ears[x]
    BY <2>1 DEF Limits
  <2> QED
    BY <2>3, <2>4 DEF Limits
<1>2. CASE "activity" \notin fs
  BY <1>2, LimitsStay DEF Dash!Shows
<1> QED
  BY <1>1, <1>2

LEMMA CardLimits ==
  ASSUME Limits, DOMAIN cards = Page, NEW p \in Page, NEW w \in Wakeup, Dash!RenderCard(p, w)
  PROVE  Limits'
<1>1. queue' = queue
  BY DEF Dash!RenderCard
<1>2. CASE UNCHANGED <<cards, ears>>
  BY <1>1, <1>2, LimitsStay
<1>3. ASSUME NEW x, cards' = [cards EXCEPT ![p][w] = x], ears' = ears
      PROVE  Limits'
  <2>1. DOMAIN cards'[p] = DOMAIN cards[p] /\ \A y \in Page \ {p} : cards'[y] = cards[y]
    BY <1>3
  <2> QED
    BY <1>1, <1>3, <2>1 DEF Limits
<1>4. CASE w \notin DOMAIN cards[p] /\ ears' = [ears EXCEPT ![p] = @ \ {w}] /\ cards' = cards
  <2>1. ears'[p] = ears[p] \ {w} /\ DOMAIN ears' = Page /\ \A y \in Page \ {p} : ears'[y] = ears[y]
    BY <1>4 DEF Limits
  <2>2. DOMAIN cards[p] \subseteq ears'[p]
    BY <1>4, <2>1 DEF Limits
  <2> QED
    BY <1>1, <1>4, <2>1, <2>2 DEF Limits
<1>5. \/ UNCHANGED <<cards, ears>>
      \/ \E x : cards' = [cards EXCEPT ![p][w] = x] /\ ears' = ears
      \/ w \notin DOMAIN cards[p] /\ ears' = [ears EXCEPT ![p] = @ \ {w}] /\ cards' = cards
  BY DEF Dash!RenderCard, Dash!Fires
<1> QED
  BY <1>2, <1>3, <1>4, <1>5

LEMMA CloseLimits ==
  ASSUME Limits, DOMAIN cards = Page, DOMAIN queue = Page, NEW p \in Page, Dash!ClosePage(p)
  PROVE  Limits'
<1>1. /\ queue' = [queue EXCEPT ![p] = <<>>] /\ cards' = [cards EXCEPT ![p] = Dash!Nothing]
      /\ ears' = [ears EXCEPT ![p] = {}]
  BY DEF Dash!ClosePage
<1>2. DOMAIN Dash!Nothing = {} /\ Len(<<>>) = 0 /\ QueueMax \in Nat
  BY PageAssumptions DEF Dash!Nothing
<1>3. queue'[p] = <<>> /\ cards'[p] = Dash!Nothing /\ DOMAIN ears' = Page
  BY <1>1 DEF Limits
<1>4. \A x \in Page \ {p} : queue'[x] = queue[x] /\ cards'[x] = cards[x] /\ ears'[x] = ears[x]
  BY <1>1 DEF Limits
<1>5. Len(queue'[p]) <= QueueMax /\ DOMAIN cards'[p] \subseteq ears'[p]
  BY ONLY <1>2, <1>3
<1> QED
  BY <1>3, <1>4, <1>5 DEF Limits

LEMMA TakeLimits ==
  ASSUME Limits, DOMAIN queue = Page, NEW p \in Page, Dash!Take(p)
  PROVE  Limits'
<1>1. queue' = [queue EXCEPT ![p] = <<>>] /\ UNCHANGED <<cards, ears>>
  BY DEF Dash!Take
<1>2. Len(<<>>) = 0 /\ QueueMax \in Nat
  BY PageAssumptions
<1>3. queue'[p] = <<>> /\ \A x \in Page \ {p} : queue'[x] = queue[x]
  BY <1>1
<1>4. Len(queue'[p]) <= QueueMax
  BY ONLY <1>2, <1>3
<1> QED
  BY <1>1, <1>3, <1>4 DEF Limits

LEMMA StreamStep ==
  StreamInv /\ [Dash!Next]_Dash!vars => StreamInv'
<1> SUFFICES ASSUME StreamInv, [Dash!Next]_Dash!vars PROVE StreamInv'
  OBVIOUS
<1>1. PInv /\ PInv' /\ Tails /\ Limits
  BY PStep DEF StreamInv
<1>2. PageTypes /\ DOMAIN cards = Page /\ DOMAIN queue = Page
  BY <1>1 DEF PInv, PageTypes
<1> SUFFICES Tails' /\ Limits'
  BY <1>1 DEF StreamInv
<1>3. CASE \E w \in Wakeup : Dash!WriteTranscript(w)
  <2>1. UNCHANGED <<queue, cards, ears>>
    BY <1>3 DEF Dash!WriteTranscript, Dash!pages
  <2> QED
    BY <1>1, <1>3, <2>1, WriteFollows, LimitsStay
<1>4. CASE \/ \E t \in Dash!Tables : Dash!TableChanges(t)
           \/ \E w \in Wakeup : Dash!WakeupStarts(w) \/ Dash!WakeupEnds(w)
           \/ Dash!Snap
           \/ Dash!PollFails
           \/ \E p \in Page : Dash!Subscribe(p) \/ \E e : Dash!RenderFails(p, e)
           \/ UNCHANGED Dash!vars
  <2>1. UNCHANGED <<file, live, queue, cards, ears>>
    BY <1>4 DEF Dash!TableChanges, Dash!WakeupStarts, Dash!WakeupEnds, Dash!Snap, Dash!Subscribe,
                Dash!PollFails, Dash!RenderFails,
                Dash!vars, Dash!world, Dash!caster, Dash!pages
  <2> QED
    BY <1>1, <2>1, TailsStay, LimitsStay
<1>5. CASE Dash!PollLive
  <2>1. UNCHANGED <<queue, cards, ears>>
    BY <1>5 DEF Dash!PollLive, Dash!pages
  <2> QED
    BY <1>1, <1>5, <2>1, PollTails, LimitsStay
<1>6. CASE Dash!Publish
  BY <1>1, <1>2, <1>6, PublishTails, PublishLimits
<1>7. CASE \E p \in Page : Dash!OpenPage(p) \/ Dash!Connect(p)
  <2>1. PICK p \in Page : Dash!OpenPage(p) \/ Dash!Connect(p)
    BY <1>7
  <2>2. UNCHANGED <<file, live, queue>> /\ \E fs : Dash!Shows(p, fs)
    BY <2>1 DEF Dash!OpenPage, Dash!Connect, Dash!world, Dash!caster
  <2> QED
    BY <1>1, <1>2, <2>2, TailsStay, ShowsLimits
<1>8. CASE \E p \in Page : \E f \in Dash!Fragments : Dash!RenderFragment(p, f)
  <2>1. PICK p \in Page, f \in Dash!Fragments : Dash!RenderFragment(p, f)
    BY <1>8
  <2>2. UNCHANGED <<file, live, queue>> /\ \E fs : Dash!Shows(p, fs)
    BY <2>1 DEF Dash!RenderFragment, Dash!world, Dash!caster
  <2> QED
    BY <1>1, <1>2, <2>2, TailsStay, ShowsLimits
<1>9. CASE \E p \in Page : \E w \in Wakeup : Dash!RenderCard(p, w)
  <2>1. UNCHANGED <<file, live>>
    BY <1>9 DEF Dash!RenderCard, Dash!world, Dash!caster
  <2> QED
    BY <1>1, <1>2, <1>9, <2>1, TailsStay, CardLimits
<1>10. CASE \E p \in Page : Dash!ClosePage(p)
  <2>1. UNCHANGED <<file, live>>
    BY <1>10 DEF Dash!ClosePage, Dash!world, Dash!caster
  <2> QED
    BY <1>1, <1>2, <1>10, <2>1, TailsStay, CloseLimits
<1>11. CASE \E p \in Page : Dash!Take(p)
  <2>1. UNCHANGED <<file, live>>
    BY <1>11 DEF Dash!Take, Dash!world, Dash!caster
  <2> QED
    BY <1>1, <1>2, <1>11, <2>1, TailsStay, TakeLimits
<1> QED
  BY <1>3, <1>4, <1>5, <1>6, <1>7, <1>8, <1>9, <1>10, <1>11 DEF Dash!Next, Dash!Stream

LEMMA StreamsHold == PagesSpec => []StreamInv
  BY StreamStart, StreamStep, PTL DEF PagesSpec, Dash!Spec

\* The live card that is fed slice by slice, each slice ending anywhere in a line, is the
\* card that one pass over the same bytes makes: for any transcript, any first slice that
\* is read from within, any limits of a card (transcript_tail.py, activity.py).
THEOREM SlicesMakeTheCard == PagesSpec => []CardIsTranscript
<1>1. StreamInv => CardIsTranscript
  BY DEF StreamInv, Tails, Follows, CardIsTranscript, Dash!CardIsTranscript
<1> QED
  BY <1>1, StreamsHold, PTL

\* The state of the broadcaster and of each stream keeps its types and limits: no queue
\* outgrows its size, no card its events, and every card on a page has its listener
\* (dashboard_broadcaster.py, sse_route.py, activity.py).
THEOREM PagesKeepTypes == PagesSpec => []PagesTypes
<1>1. StreamInv => PagesTypes
  <2> SUFFICES ASSUME StreamInv PROVE PagesTypes
    OBVIOUS
  <2>1. PageTypes /\ Tails /\ Limits /\ \A p \in Page : Fills(p)
    BY DEF StreamInv, PInv
  <2>2. ASSUME NEW w \in DOMAIN live
        PROVE  live[w].tail.offset <= Len(file[w]) /\ Len(live[w].card.events) <= MaxEvents
    <3> DEFINE t == live[w].tail
               s == SubSeq(file[w], t.from + 1, t.offset)
    <3>1. Follows(t, live[w].card, file[w]) /\ file[w] \in Seq(Bytes)
      BY <2>1 DEF Tails, PageTypes
    <3>2. /\ t.from \in Nat /\ t.offset \in Nat /\ t.from <= t.offset /\ t.offset <= Len(file[w])
          /\ live[w].card = Dash!Fold(Dash!Empty, Dash!Complete(s))
      BY <3>1 DEF Follows
    <3>3. s \in Seq(Bytes)
      BY <3>1, <3>2, Pieces
    <3> HIDE DEF s
    <3>4. Len(Dash!Complete(s)) \in Nat
      BY ONLY <3>3, CompleteTyped, LenProperties
    <3>5. Short(live[w].card)
      BY ONLY <3>2, <3>4, EmptyShort, FoldShort
    <3> QED
      BY <3>2, <3>5 DEF Short
  <2>3. /\ wakeups \in [Wakeup -> {"none", "active", "ended"}]
        /\ DOMAIN live \subseteq Wakeup /\ tombs \subseteq Wakeup
        /\ tick.at \in {"idle", "snapped", "polled"} /\ tick.seen \subseteq Wakeup
        /\ tick.events \subseteq Dash!Fragments \cup Wakeup
    BY <2>1 DEF PageTypes, Names
  <2>4. ASSUME NEW p \in Page
        PROVE  /\ stage[p] \in {"closed", "rendered", "connecting", "open"}
               /\ Len(queue[p]) <= QueueMax /\ (stage[p] # "open" => queue[p] = <<>>)
               /\ hand[p] \subseteq Dash!Fragments \cup Wakeup
               /\ DOMAIN cards[p] \subseteq Wakeup /\ DOMAIN cards[p] \subseteq ears[p]
    BY <2>1 DEF PageTypes, Names, Limits, Fills
  <2> QED
    BY ONLY <2>2, <2>3, <2>4 DEF PagesTypes, Dash!TypeOK
<1> QED
  BY <1>1, StreamsHold, PTL

=============================================================================
