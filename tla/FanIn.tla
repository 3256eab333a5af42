------------------------------- MODULE FanIn -------------------------------
(***************************************************************************)
(* One fan-in group, from fan_in_open to its resolution: the coordinator   *)
(* and whoever cancels, the legs' tasks and their restarts, the outbox     *)
(* dispatcher, and Phase 0.5 of the scheduler's tick. Groups share nothing *)
(* but the page of find_open, which is left out. The coordinator's mailbox *)
(* is reduced to the rows of this group.                                   *)
(*                                                                         *)
(* An operator M<Name> marked "slip" is <Name> with a likely mistake in    *)
(* it. Nothing uses it: it documents what the properties guard against.    *)
(***************************************************************************)
EXTENDS Integers, FiniteSets

CONSTANTS
    Leg,                \* leg keys that may be dispatched (expect_replies of them)
    Quorum,             \* fan_in_groups.quorum
    Transient,          \* legs whose ephemeral agent is restarted when it fails
    MaxTry,             \* bound on the tasks of one leg: the first and restarts
    QuarantineAfter,    \* _FANIN_QUARANTINE_AFTER
    NoLeg, NoRow,       \* nothing in hand
    FaultKinds,         \* what may go wrong
    MaxFaults           \* bound on how many kinds do ("flip" comes on top)

ASSUME FanInAssumption ==
    /\ Leg \subseteq Nat /\ IsFiniteSet(Leg)
    /\ Quorum \in 1..Cardinality(Leg)
    /\ Transient \subseteq Leg
    /\ MaxTry \in Nat \ {0}
    /\ QuarantineAfter \in Nat \ {0}
    /\ NoLeg \notin Leg
    /\ NoRow \notin Leg \X (1..MaxTry)
    /\ FaultKinds \subseteq {"worker", "serve", "canceller", "poison", "flip", "archive", "operator"}
    /\ MaxFaults \in Nat

VARIABLES
    \* fan_in_groups: its status ("poisoned" is stored as 'expired'), its deadline
    group, overdue,
    \* tasks of the legs: <<leg, 1>> is the child in fan_in_members
    task, flagged,
    \* the result row of each of these tasks
    outbox,
    \* the coordinator's mailbox: results and sentinels, the newest per leg,
    \* the 'resolved' mail with its resolved_status, the 'quarantined' mail
    inbox, latest, wake, notice,
    \* processes
    coordinator, asking, canceller, disp, sched, failures,
    faults

groupVars == <<group, overdue>>
taskVars  == <<task, flagged>>
mailVars  == <<inbox, latest>>
procVars  == <<asking, canceller, disp, sched, failures>>
vars      == <<groupVars, taskVars, outbox, mailVars, wake, notice, coordinator,
               procVars, faults>>

Try      == 1..MaxTry
Run      == Leg \X Try
Sentinel == 0
Mail     == Leg \X (Try \cup {Sentinel})
Working  == {"pending", "running", "closing", "unsent"}
Over     == {"completed", "failed", "cancelled"}
Verdict  == {"quorum_met", "expired"}

Asleep   == [at |-> "idle", todo |-> {}, late |-> FALSE, verdict |-> "expired"]

TypeOK ==
    /\ group \in {"none", "open", "cancelled", "poisoned"} \cup Verdict
    /\ overdue \in BOOLEAN
    /\ task \in [Run -> {"none"} \cup Working \cup Over]
    /\ flagged \subseteq Run
    /\ outbox \in [Run -> {"none", "pending", "dispatched"}]
    /\ inbox \subseteq Mail
    /\ latest \in [Leg -> {-1, Sentinel} \cup Try]
    /\ wake \in {"none"} \cup Verdict
    /\ notice \in BOOLEAN
    /\ coordinator \in {"live", "archived"}
    /\ asking \in Leg \cup {NoLeg}
    /\ canceller \in [at: {"idle", "flipped", "flagging"}, todo: SUBSET Leg]
    /\ disp \in Run \cup {NoRow}
    /\ sched \in [at: {"idle", "reconcile", "mailed", "poison", "notice"},
                  todo: SUBSET Leg, late: BOOLEAN, verdict: Verdict]
    /\ failures \in 0..QuarantineAfter
    /\ faults \subseteq FaultKinds

Init ==
    /\ group = "none" /\ overdue = FALSE
    /\ task = [r \in Run |-> "none"] /\ flagged = {}
    /\ outbox = [r \in Run |-> "none"]
    /\ inbox = {} /\ latest = [l \in Leg |-> -1]
    /\ wake = "none" /\ notice = FALSE
    /\ coordinator = "live" /\ asking = NoLeg
    /\ canceller = [at |-> "idle", todo |-> {}]
    /\ disp = NoRow /\ sched = Asleep /\ failures = 0
    /\ faults = {}

-----------------------------------------------------------------------------
(* Repository predicates *)

\* fan_in.members
Members == {l \in Leg : task[<<l, 1>>] # "none"}

\* mailbox.read_fan_in_results, mailbox.count_fan_in_results: legs with a mail
Counted == {l \in Leg : latest[l] # -1}

\* mailbox.insert_message of a leg's mail: UNIQUE(recipient, external_id)
Insert(m) ==
    IF m \in inbox THEN UNCHANGED mailVars
    ELSE /\ inbox' = inbox \cup {m}
         /\ latest' = [latest EXCEPT ![m[1]] = m[2]]

\* find_latest_task_for_agent
LastTry(l, t) ==
    /\ task[<<l, t>>] # "none"
    /\ \A u \in Try : u > t => task[<<l, u>>] = "none"

-----------------------------------------------------------------------------
(* Tools: fan_in_open, dispatch_task, fan_in_cancel *)

Open ==
    /\ group = "none"
    /\ group' = "open"
    /\ UNCHANGED <<overdue, taskVars, outbox, mailVars, wake, notice, coordinator,
                   procVars, faults>>

\* dispatch_task reads that the group is open and the leg is free ...
AskDispatch(l) ==
    /\ asking = NoLeg /\ group = "open" /\ l \notin Members
    /\ asking' = l
    /\ UNCHANGED <<groupVars, taskVars, outbox, mailVars, wake, notice, coordinator,
                   canceller, disp, sched, failures, faults>>

\* ... and creates the task and its roster row in one later transaction
CreateLeg ==
    /\ asking # NoLeg
    /\ task' = [task EXCEPT ![<<asking, 1>>] = "pending"]
    /\ asking' = NoLeg
    /\ UNCHANGED <<groupVars, flagged, outbox, mailVars, wake, notice, coordinator,
                   canceller, disp, sched, failures, faults>>

\* fan_in_cancel: the guarded flip, then the roster, then one flag per commit
CancelFlip ==
    /\ group = "open" /\ canceller.at = "idle"
    /\ group' = "cancelled"
    /\ canceller' = [canceller EXCEPT !.at = "flipped"]
    /\ UNCHANGED <<overdue, taskVars, outbox, mailVars, wake, notice, coordinator,
                   asking, disp, sched, failures, faults>>

CancelReads ==
    /\ canceller.at = "flipped"
    /\ canceller' = [at |-> "flagging", todo |-> Members]
    /\ UNCHANGED <<groupVars, taskVars, outbox, mailVars, wake, notice, coordinator,
                   asking, disp, sched, failures, faults>>

\* tasks.request_cancel on the rostered task
CancelFlags(l) ==
    /\ canceller.at = "flagging" /\ l \in canceller.todo
    /\ canceller' = [canceller EXCEPT !.todo = @ \ {l}]
    /\ flagged' = IF task[<<l, 1>>] \in Over THEN flagged ELSE flagged \cup {<<l, 1>>}
    /\ UNCHANGED <<groupVars, task, outbox, mailVars, wake, notice, coordinator,
                   asking, disp, sched, failures, faults>>

Tools ==
    \/ Open \/ CreateLeg \/ CancelFlip \/ CancelReads
    \/ \E l \in Leg : AskDispatch(l) \/ CancelFlags(l)

-----------------------------------------------------------------------------
(* A leg's task: mailbox_send(result_for=...), the end of its wakeup *)

Moves(r, from, to) == task[r] = from /\ task' = [task EXCEPT ![r] = to]

Claim(r) ==
    /\ Moves(r, "pending", "running")
    /\ UNCHANGED <<groupVars, flagged, outbox, mailVars, wake, notice, coordinator,
                   procVars, faults>>

\* _validate_fan_in_result lets the result into the outbox. For an archived
\* coordinator it is dropped, for a cancelled group refused: nothing changes.
Submit(r) ==
    /\ task[r] = "running" /\ outbox[r] = "none"
    /\ group # "cancelled" /\ coordinator = "live"
    /\ outbox' = [outbox EXCEPT ![r] = "pending"]
    /\ UNCHANGED <<groupVars, taskVars, mailVars, wake, notice, coordinator,
                   procVars, faults>>

\* The loop ends as completed, or as something else; a flag is seen between turns
Stop(r) ==
    /\ \/ Moves(r, "running", "closing")
       \/ Moves(r, "running", "failed")
       \/ r \in flagged /\ Moves(r, "running", "cancelled")
    /\ UNCHANGED <<groupVars, flagged, outbox, mailVars, wake, notice, coordinator,
                   procVars, faults>>

\* (slip) the two reads the other way round
MLegChecks(r) ==
    /\ \/ Moves(r, "closing", IF latest[r[1]] # -1 THEN "completed" ELSE "unsent")
       \/ Moves(r, "unsent", IF \/ outbox[r] = "pending"
                                \/ group = "cancelled" \/ coordinator = "archived"
                             THEN "completed" ELSE "failed")
    /\ UNCHANGED <<groupVars, flagged, outbox, mailVars, wake, notice, coordinator,
                   procVars, faults>>

\* _fan_in_leg_submitted_result: first the outbox, then the delivered mail of
\* the leg; a completed task that never sent a result is downgraded to failed
LegChecks(r) ==
    /\ \/ Moves(r, "closing", IF outbox[r] = "pending" THEN "completed" ELSE "unsent")
       \/ Moves(r, "unsent", IF \/ group = "cancelled" \/ coordinator = "archived"
                                \/ latest[r[1]] # -1
                             THEN "completed" ELSE "failed")
    /\ UNCHANGED <<groupVars, flagged, outbox, mailVars, wake, notice, coordinator,
                   procVars, faults>>

\* Phase 0.8 starts a leg over, without the cancel flag and off the roster
Restart(l) ==
    /\ sched.at = "idle" /\ l \in Transient \cap Members
    /\ \E t \in Try :
          /\ LastTry(l, t) /\ task[<<l, t>>] = "failed" /\ t < MaxTry
          /\ task' = [task EXCEPT ![<<l, t + 1>>] = "pending"]
    /\ UNCHANGED <<groupVars, flagged, outbox, mailVars, wake, notice, coordinator,
                   procVars, faults>>

LegStep(r) == Claim(r) \/ Submit(r) \/ Stop(r) \/ LegChecks(r)

-----------------------------------------------------------------------------
(* The outbox dispatcher *)

\* (slip) mark_dispatched before the insert
MDispatcher ==
    /\ \/ /\ disp = NoRow
          /\ \E r \in Run : /\ outbox[r] = "pending"
                            /\ outbox' = [outbox EXCEPT ![r] = "dispatched"]
                            /\ disp' = r
          /\ UNCHANGED mailVars
       \/ /\ disp # NoRow
          /\ Insert(disp)
          /\ disp' = NoRow
          /\ UNCHANGED outbox
    /\ UNCHANGED <<groupVars, taskVars, wake, notice, coordinator, asking, canceller,
                   sched, failures, faults>>

\* tick: insert the mail, then mark the row, in two commits. Rows are taken in
\* any order: failed deliveries reorder them.
Dispatcher ==
    /\ \/ /\ disp = NoRow
          /\ \E r \in Run : outbox[r] = "pending" /\ Insert(r) /\ disp' = r
          /\ UNCHANGED outbox
       \/ /\ disp # NoRow
          /\ outbox' = [outbox EXCEPT ![disp] = "dispatched"]
          /\ disp' = NoRow
          /\ UNCHANGED mailVars
    /\ UNCHANGED <<groupVars, taskVars, wake, notice, coordinator, asking, canceller,
                   sched, failures, faults>>

-----------------------------------------------------------------------------
(* Phase 0.5 *)

\* _resolve_fan_in_barriers takes the group and the time; reconciliation reads
\* the roster and the legs that have a mail
BeginPhase ==
    /\ sched.at = "idle" /\ group = "open"
    /\ sched' = [at |-> "reconcile", todo |-> Members \ Counted, late |-> overdue,
                  verdict |-> "expired"]
    /\ UNCHANGED <<groupVars, taskVars, outbox, mailVars, wake, notice, coordinator,
                   asking, canceller, disp, failures, faults>>

\* (slip) every leg without a mail counts as failed
MReconcile(l) ==
    /\ sched.at = "reconcile" /\ l \in sched.todo
    /\ sched' = [sched EXCEPT !.todo = @ \ {l}]
    /\ IF outbox[<<l, 1>>] # "pending" THEN Insert(<<l, Sentinel>>) ELSE UNCHANGED mailVars
    /\ UNCHANGED <<groupVars, taskVars, outbox, wake, notice, coordinator,
                   asking, canceller, disp, failures, faults>>

\* _reconcile_fan_in_failed_legs: a sentinel for a rostered task that failed and
\* has nothing left in the outbox. The reads of a finished task do not go stale,
\* so a leg is one step.
Reconcile(l) ==
    /\ sched.at = "reconcile" /\ l \in sched.todo
    /\ sched' = [sched EXCEPT !.todo = @ \ {l}]
    /\ IF task[<<l, 1>>] \in {"failed", "cancelled"} /\ outbox[<<l, 1>>] # "pending"
       THEN Insert(<<l, Sentinel>>) ELSE UNCHANGED mailVars
    /\ UNCHANGED <<groupVars, taskVars, outbox, wake, notice, coordinator,
                   asking, canceller, disp, failures, faults>>

\* _resolve_one_fan_in_group: not yet, or the ready mail (first write wins)
Tell ==
    LET ready == Cardinality(Counted) >= Quorum
        verdict == IF ready THEN "quorum_met" ELSE "expired" IN
    /\ sched.at = "reconcile" /\ sched.todo = {}
    /\ IF ready \/ sched.late
       THEN /\ wake' = IF wake = "none" THEN verdict ELSE wake
            /\ sched' = [at |-> "mailed", todo |-> {}, late |-> sched.late,
                          verdict |-> verdict]
            /\ UNCHANGED failures
       ELSE UNCHANGED wake /\ sched' = Asleep /\ failures' = 0
    /\ UNCHANGED <<groupVars, taskVars, outbox, mailVars, notice, coordinator,
                   asking, canceller, disp, faults>>

\* (slip) set_status without its guard
MFlip ==
    /\ sched.at = "mailed"
    /\ group' = sched.verdict
    /\ sched' = Asleep /\ failures' = 0
    /\ UNCHANGED <<overdue, taskVars, outbox, mailVars, wake, notice, coordinator,
                   asking, canceller, disp, faults>>

\* fan_in.set_status(guard='open'), only after the mail
Flip ==
    /\ sched.at = "mailed"
    /\ group' = IF group = "open" THEN sched.verdict ELSE group
    /\ sched' = Asleep /\ failures' = 0
    /\ UNCHANGED <<overdue, taskVars, outbox, mailVars, wake, notice, coordinator,
                   asking, canceller, disp, faults>>

\* (slip) the last failure is not seen as the last
MRaise ==
    /\ "poison" \in FaultKinds
    /\ "poison" \in faults \/ Cardinality(faults) < MaxFaults
    /\ faults' = faults \cup {"poison"}
    /\ sched.at \in {"reconcile", "mailed"}
    /\ failures' = failures + 1
    /\ sched' = IF failures > QuarantineAfter THEN [Asleep EXCEPT !.at = "poison"] ELSE Asleep
    /\ UNCHANGED <<groupVars, taskVars, outbox, mailVars, wake, notice, coordinator,
                   asking, canceller, disp>>

\* (slip) the counter is lost between two ticks
MRaiseForgets ==
    /\ "poison" \in FaultKinds
    /\ "poison" \in faults \/ Cardinality(faults) < MaxFaults
    /\ faults' = faults \cup {"poison"}
    /\ sched.at \in {"reconcile", "mailed"}
    /\ failures' = 1
    /\ sched' = IF failures' >= QuarantineAfter
                THEN [Asleep EXCEPT !.at = "poison"] ELSE Asleep
    /\ UNCHANGED <<groupVars, taskVars, outbox, mailVars, wake, notice, coordinator,
                   asking, canceller, disp>>

\* Resolution raises; after enough ticks in a row the group is quarantined. The
\* counter saturates: it is only compared with the limit.
Raise ==
    /\ "poison" \in FaultKinds
    /\ "poison" \in faults \/ Cardinality(faults) < MaxFaults
    /\ faults' = faults \cup {"poison"}
    /\ sched.at \in {"reconcile", "mailed"}
    /\ failures' = IF failures < QuarantineAfter THEN failures + 1 ELSE failures
    /\ sched' = IF failures + 1 >= QuarantineAfter
                THEN [Asleep EXCEPT !.at = "poison"] ELSE Asleep
    /\ UNCHANGED <<groupVars, taskVars, outbox, mailVars, wake, notice, coordinator,
                   asking, canceller, disp>>

\* _force_expire_poison_fan_in: here the flip comes first ...
PoisonFlip ==
    /\ sched.at = "poison"
    /\ failures' = 0
    /\ IF group = "open"
       THEN group' = "poisoned" /\ sched' = [sched EXCEPT !.at = "notice"]
       ELSE UNCHANGED group /\ sched' = Asleep
    /\ UNCHANGED <<overdue, taskVars, outbox, mailVars, wake, notice, coordinator,
                   asking, canceller, disp, faults>>

\* ... or raises itself, and the next failure brings it back here ...
PoisonFlipRaises ==
    /\ "flip" \in FaultKinds \ faults
    /\ faults' = faults \cup {"flip"}
    /\ sched.at = "poison"
    /\ sched' = Asleep
    /\ UNCHANGED <<groupVars, taskVars, outbox, mailVars, wake, notice, coordinator,
                   asking, canceller, disp, failures>>

\* ... and the mail second; what its insert raises is logged and dropped
PoisonNotice ==
    /\ sched.at = "notice"
    /\ notice' \in {TRUE, notice}
    /\ sched' = Asleep
    /\ UNCHANGED <<groupVars, taskVars, outbox, mailVars, wake, coordinator,
                   asking, canceller, disp, failures, faults>>

Phase ==
    \/ BeginPhase \/ Tell \/ Flip
    \/ Raise \/ PoisonFlip \/ PoisonFlipRaises \/ PoisonNotice
    \/ \E l \in Leg : Reconcile(l)

-----------------------------------------------------------------------------
(* Time and faults *)

Fault(kind) ==
    /\ kind \in FaultKinds \ faults /\ Cardinality(faults) < MaxFaults
    /\ faults' = faults \cup {kind}

\* The deadline, or the operator's ceiling on the age of a group, passes
Overdue ==
    /\ group = "open" /\ ~overdue
    /\ overdue' = TRUE
    /\ UNCHANGED <<group, taskVars, outbox, mailVars, wake, notice, coordinator,
                   procVars, faults>>

\* A worker dies and its task is run again once the lease has run out
WorkerCrash(r) ==
    /\ Fault("worker")
    /\ task[r] \in {"running", "closing", "unsent"}
    /\ task' = [task EXCEPT ![r] = "pending"]
    /\ UNCHANGED <<groupVars, flagged, outbox, mailVars, wake, notice, coordinator,
                   procVars>>

\* Scheduler and dispatcher live in one process; failure counters are in memory
ServeCrash ==
    /\ Fault("serve")
    /\ disp' = NoRow /\ sched' = Asleep /\ failures' = 0
    /\ UNCHANGED <<groupVars, taskVars, outbox, mailVars, wake, notice, coordinator,
                   asking, canceller>>

\* The wakeup that calls fan_in_cancel dies in the middle of it
CancellerCrash ==
    /\ Fault("canceller")
    /\ canceller.at # "idle"
    /\ canceller' = [at |-> "idle", todo |-> {}]
    /\ UNCHANGED <<groupVars, taskVars, outbox, mailVars, wake, notice, coordinator,
                   asking, disp, sched, failures>>

ArchiveCoordinator ==
    /\ Fault("archive")
    /\ coordinator = "live"
    /\ coordinator' = "archived"
    /\ UNCHANGED <<groupVars, taskVars, outbox, mailVars, wake, notice, procVars>>

\* lyre task cancel, or the button on the dashboard
OperatorCancel(r) ==
    /\ Fault("operator")
    /\ task[r] \in Working
    /\ flagged' = flagged \cup {r}
    /\ UNCHANGED <<groupVars, task, outbox, mailVars, wake, notice, coordinator, procVars>>

-----------------------------------------------------------------------------
Next ==
    \/ Tools \/ Dispatcher \/ Phase
    \/ \E r \in Run : LegStep(r) \/ WorkerCrash(r) \/ OperatorCancel(r)
    \/ \E l \in Leg : Restart(l)
    \/ Overdue \/ ServeCrash \/ CancellerCrash \/ ArchiveCoordinator

Spec == Init /\ [][Next]_vars

\* The loops of serve keep running and a wakeup ends within its turn budget.
\* No deadline ever has to pass, no agent has to send its result.
Fairness ==
    /\ WF_vars(Phase) /\ WF_vars(Dispatcher)
    /\ \A r \in Run : WF_vars(Claim(r) \/ Stop(r) \/ LegChecks(r))

FairSpec == Spec /\ Fairness

=============================================================================
