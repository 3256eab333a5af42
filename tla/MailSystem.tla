----------------------------- MODULE MailSystem -----------------------------
(***************************************************************************)
(* ScheduledMail and AutoWake around one mailbox: the scheduler's tick     *)
(* runs Phase -1, then Phase 0; wakeups, senders and time go on meanwhile. *)
(***************************************************************************)
EXTENDS ScheduledMail, AutoWake

CONSTANTS
    Urgency,    \* urgencies of the mail that others send
    Bound,      \* bounds: on that mail, on firings of a row, on what goes wrong
    MaxFaults   \* bound on how many kinds do

FaultKinds == {"serve", "worker", "archive", "dispatch"}

ASSUME MailSystemAssumption ==
    /\ Urgency \subseteq DOMAIN Rank
    /\ Bound \subseteq [sent: Nat, fires: Nat, kinds: SUBSET FaultKinds] /\ MaxFaults \in Nat

VARIABLES
    turn,       \* the phase that the tick is in
    faults,
    bound       \* the bounds of this behaviour, never changed

vars == <<mailboxVars, schedVars, wakeVars, turn, faults, bound>>

TypeOK ==
    /\ MailboxTypeOK /\ SchedTypeOK /\ WakeTypeOK
    /\ turn \in {"mail", "wake"}
    /\ faults \subseteq FaultKinds /\ bound \in Bound

Init ==
    /\ MailboxInit /\ SchedInit /\ WakeInit
    /\ turn = "mail" /\ faults = {} /\ bound \in Bound

-----------------------------------------------------------------------------
Others(component) == UNCHANGED <<component, turn, faults, bound>>

\* Scheduler._tick, one phase after the other. An archived agent is not in
\* list_all, so that Phase 0 passes it over.
Tick ==
    /\ \/ /\ turn = "mail" /\ Phase_1
          /\ turn' = IF deliver'.at = "idle" THEN "wake" ELSE "mail"
          /\ UNCHANGED wakeVars
       \/ /\ turn = "mail" /\ deliver.at = "idle" /\ due = <<>>
          /\ turn' = "wake"
          /\ UNCHANGED <<mailboxVars, schedVars, wakeVars>>
       \/ /\ turn = "wake" /\ Phase0
          /\ recipient = "live" \/ scan.at # "idle"
          /\ turn' = IF scan'.at = "idle" THEN "mail" ELSE "wake"
          /\ UNCHANGED schedVars
       \/ /\ turn = "wake" /\ scan.at = "idle" /\ recipient = "archived"
          /\ turn' = "mail"
          /\ UNCHANGED <<mailboxVars, schedVars, wakeVars>>
    /\ UNCHANGED <<faults, bound>>

\* The outbox dispatcher delivers a mail
Send(urgency) ==
    /\ Cardinality({i \in Id : inbox[i].kind = "sent"}) < bound.sent
    /\ Insert(Sent(urgency))
    /\ UNCHANGED read
    /\ Others(<<schedVars, wakeVars>>)

Schedule ==
    \E r \in Sched :
        /\ \/ sched[r].count < bound.fires /\ FallsDue(r)
           \/ Cancel(r)
           \/ \E how \in {"worked", "progressed"} : ThreadActs(r, how)
        /\ Others(wakeVars)

Wakeup == WakeupStarts /\ Others(schedVars)
Work   == (Inject \/ ReadMail) /\ Others(schedVars)
Watch  == Watcher /\ Others(schedVars)
Ends   == WakeupEnds /\ Others(schedVars)

Fault(kind) ==
    /\ kind \in bound.kinds \ faults /\ Cardinality(faults) < MaxFaults
    /\ faults' = faults \cup {kind} /\ UNCHANGED bound

\* What the tick has read is lost
ServeCrash ==
    /\ Fault("serve")
    /\ deliver' = Resting /\ scan' = Idle /\ turn' = "mail"
    /\ UNCHANGED <<mailboxVars, sched, due, window, recipient, told, cursor, queued,
                   wakeup, seen, wakes, shown>>

Archive ==
    /\ Fault("archive")
    /\ recipient' = "archived"
    /\ UNCHANGED <<mailboxVars, sched, due, window, told, deliver, wakeVars, turn>>

WorkerCrash   == Fault("worker") /\ WorkerDies /\ UNCHANGED <<schedVars, turn>>
OtherDispatch == Fault("dispatch") /\ OtherDispatches /\ UNCHANGED <<schedVars, turn>>

Next ==
    \/ Tick \/ Schedule \/ Wakeup \/ Work \/ Watch \/ Ends
    \/ \E urgency \in Urgency : Send(urgency)
    \/ ServeCrash \/ Archive \/ WorkerCrash \/ OtherDispatch

Spec == Init /\ [][Next]_vars

\* serve ticks and claims what is pending; a wakeup ends within its turn budget.
\* Nobody has to send or read a mail.
Fairness == WF_vars(Tick) /\ WF_vars(Wakeup) /\ WF_vars(Ends)

FairSpec == Spec /\ Fairness

=============================================================================
