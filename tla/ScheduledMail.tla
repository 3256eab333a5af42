--------------------------- MODULE ScheduledMail ---------------------------
(***************************************************************************)
(* Phase -1 of the scheduler's tick: the scheduled_mail rows addressed to  *)
(* one agent, their delivery, the loop budget and the no-progress gate,    *)
(* bounces and quarantine, and cancel_scheduled_mail. The creator of a row *)
(* is taken to exist; what it is told is kept apart from the mailbox.      *)
(*                                                                         *)
(* An operator M<Name> marked "slip" is <Name> with a likely mistake in    *)
(* it. Nothing uses it: it documents what the properties guard against.    *)
(***************************************************************************)
EXTENDS Mailbox

CONSTANTS
    Recurring,          \* rows with a recur_kind
    RowUrgency,         \* urgency of a row
    MaxOccurrences,     \* max_occurrences of a row, 0 for none
    MaxNoProgress,      \* max_no_progress of a row, 0 for none
    Poison,             \* rows whose delivery may raise
    SchedLimit,         \* find_ready(limit=20)
    MailQuarantineAfter \* _SCHEDMAIL_QUARANTINE_AFTER

ASSUME ScheduledMailAssumption ==
    /\ IsFiniteSet(Sched) /\ NoSched \notin Sched
    /\ Recurring \subseteq Sched /\ Poison \subseteq Sched
    /\ RowUrgency \in [Sched -> DOMAIN Rank]
    /\ MaxOccurrences \in [Sched -> Nat]
    /\ MaxNoProgress \in [Sched -> Nat]
    /\ \A r \in Sched : r \notin Recurring => MaxNoProgress[r] = 0
    /\ SchedLimit \in Nat \ {0} /\ MailQuarantineAfter \in Nat \ {0}

VARIABLES
    sched,      \* the rows
    due,        \* pending rows whose scheduled_for has passed, in its order
    window,     \* what happened on a row's thread since its last delivery
    recipient,  \* agents.status of the recipient
    told,       \* notices to the creators
    deliver     \* Phase -1: where it is, the rows of find_ready, its verdict

schedVars == <<sched, due, window, recipient, told, deliver>>

Status == {"pending", "completed", "cancelled", "bounced", "quarantined"}
Resting == [at |-> "idle", todo |-> <<>>, np |-> 0, stop |-> FALSE]

SchedTypeOK ==
    /\ sched \in [Sched -> [status: Status, count: Nat, np: Nat,
                            failures: 0..MailQuarantineAfter]]
    /\ due \in Seq(Sched)
    /\ window \in [Sched -> {"quiet", "worked", "progressed"}]
    /\ recipient \in {"live", "archived"}
    /\ told \subseteq Sched \X {"bounce", "quarantine"}
    /\ deliver \in [at: {"idle", "next", "mark", "bounce", "raised", "notice"},
                    todo: Seq(Sched), np: Nat, stop: BOOLEAN]

SchedInit ==
    /\ sched = [r \in Sched |-> [status |-> "pending", count |-> 0, np |-> 0, failures |-> 0]]
    /\ due = <<>>
    /\ window = [r \in Sched |-> "quiet"]
    /\ recipient = "live"
    /\ told = {}
    /\ deliver = Resting

-----------------------------------------------------------------------------
(* The verdicts on one delivery. Counters come from the row as find_ready  *)
(* returned it; only Phase -1 writes them.                                 *)

LoopFinal(r) ==
    MaxOccurrences[r] # 0 /\ sched[r].count + 1 >= MaxOccurrences[r]

\* _evaluate_no_progress: the new count, and whether it caps
NoProgress(r) ==
    IF MaxNoProgress[r] = 0 \/ sched[r].count = 0 THEN sched[r].np
    ELSE CASE window[r] = "progressed" -> 0
           [] window[r] = "worked"     -> sched[r].np + 1
           [] window[r] = "quiet"      -> sched[r].np

NoProgressFinal(r) ==
    /\ MaxNoProgress[r] # 0 /\ sched[r].count # 0 /\ window[r] = "worked"
    /\ sched[r].np + 1 >= MaxNoProgress[r]

Occurrence(r, kind, last) ==
    [kind |-> kind, row |-> r, occ |-> sched[r].count, last |-> last,
     urgency |-> IF last THEN "high" ELSE RowUrgency[r]]

Now == Head(deliver.todo)

\* The row is pending no more, or scheduled_for has moved on
After(r) ==
    LET place == {i \in DOMAIN due : due[i] = r} IN
    IF place = {} THEN due
    ELSE LET i == CHOOSE i \in place : TRUE
         IN  SubSeq(due, 1, i - 1) \o SubSeq(due, i + 1, Len(due))

\* On to the next row of find_ready, or to the end of the phase
Serving(rows) == [at |-> "next", todo |-> rows, np |-> 0, stop |-> FALSE]
Onward == deliver' = IF Len(deliver.todo) = 1 THEN Resting ELSE Serving(Tail(deliver.todo))

-----------------------------------------------------------------------------
(* Time, tools and threads *)

\* scheduled_for passes
FallsDue(r) ==
    /\ sched[r].status = "pending" /\ \A i \in DOMAIN due : due[i] # r
    /\ due' = Append(due, r)
    /\ UNCHANGED <<mailboxVars, sched, window, recipient, told, deliver>>

\* mark_cancelled, guarded by status='pending'
Cancel(r) ==
    /\ sched[r].status = "pending"
    /\ sched' = [sched EXCEPT ![r].status = "cancelled"]
    /\ due' = After(r)
    /\ UNCHANGED <<mailboxVars, window, recipient, told, deliver>>

\* Tool calls and tokens on the thread, or mail to others, tasks, checkpoints;
\* only noted where a window is open that a delivery to come will look at
ThreadActs(r, how) ==
    /\ MaxNoProgress[r] # 0 /\ sched[r].status = "pending" /\ sched[r].count # 0
    /\ window[r] # "progressed" /\ window[r] # how
    /\ window' = [window EXCEPT ![r] = how]
    /\ UNCHANGED <<mailboxVars, sched, due, recipient, told, deliver>>

-----------------------------------------------------------------------------
(* Phase -1 *)

FindReady ==
    /\ deliver.at = "idle" /\ due # <<>>
    /\ deliver' = Serving(SubSeq(due, 1, IF Len(due) < SchedLimit THEN Len(due) ELSE SchedLimit))
    /\ UNCHANGED <<mailboxVars, sched, due, window, recipient, told>>

\* (slip) without the final notice
MDeliverSilently ==
    LET r == Now
        stop == LoopFinal(r) \/ NoProgressFinal(r) IN
    /\ deliver.at = "next" /\ recipient = "live"
    /\ Insert(Occurrence(r, "sched", stop))
    /\ deliver' = [deliver EXCEPT !.at = "mark", !.np = NoProgress(r), !.stop = stop]
    /\ UNCHANGED <<read, sched, due, window, recipient, told>>

\* _deliver_one_scheduled_mail up to the insert. The reads it starts with
\* commute with whatever comes between them and the insert. A mail that was
\* delivered before a crash carries the verdict of that time; a cap found now
\* goes out as a notice of its own.
Deliver ==
    LET r == Now
        stop == LoopFinal(r) \/ NoProgressFinal(r)
        m == Occurrence(r, "sched", stop) IN
    /\ deliver.at = "next" /\ recipient = "live"
    /\ IF Delivered(m) # {} /\ NoProgressFinal(r)
       THEN Insert(Occurrence(r, "final", TRUE)) ELSE Insert(m)
    /\ deliver' = [deliver EXCEPT !.at = "mark", !.np = NoProgress(r), !.stop = stop]
    /\ UNCHANGED <<read, sched, due, window, recipient, told>>

\* The row as mark_delivered writes it
Marked(r, completed) ==
    [status   |-> IF completed THEN "completed" ELSE sched[r].status,
     count    |-> sched[r].count + 1,
     np       |-> IF MaxNoProgress[r] # 0 THEN deliver.np ELSE sched[r].np,
     failures |-> 0]

\* (slip) every delivery makes the row pending again
MMarkDelivered ==
    LET r == Now IN
    /\ deliver.at = "mark"
    /\ \E ended \in BOOLEAN :
         LET completed == deliver.stop \/ r \notin Recurring \/ ended IN
         sched' = [sched EXCEPT ![r] = [Marked(r, completed) EXCEPT !.status =
                                            IF completed THEN @ ELSE "pending"]]
    /\ due' = After(r)
    /\ window' = [window EXCEPT ![r] = "quiet"]
    /\ Onward
    /\ UNCHANGED <<mailboxVars, recipient, told>>

\* mark_delivered, in a later commit and whatever the status has become;
\* compute_next_fire ends a recurrence whose recur_until has passed
MarkDelivered ==
    LET r == Now IN
    /\ deliver.at = "mark"
    /\ \E ended \in BOOLEAN :
         sched' = [sched EXCEPT ![r] = Marked(r, deliver.stop \/ r \notin Recurring \/ ended)]
    /\ due' = After(r)
    /\ window' = [window EXCEPT ![r] = "quiet"]
    /\ Onward
    /\ UNCHANGED <<mailboxVars, recipient, told>>

\* _bounce_scheduled_mail: the notice first ...
Bounce ==
    /\ deliver.at = "next" /\ recipient = "archived"
    /\ told' = told \cup {<<Now, "bounce">>}
    /\ deliver' = [deliver EXCEPT !.at = "bounce"]
    /\ UNCHANGED <<mailboxVars, sched, due, window, recipient>>

\* ... then mark_bounced, whatever the status has become
MarkBounced ==
    /\ deliver.at = "bounce"
    /\ sched' = [sched EXCEPT ![Now].status = "bounced"]
    /\ due' = After(Now)
    /\ window' = [window EXCEPT ![Now] = "quiet"]
    /\ Onward
    /\ UNCHANGED <<mailboxVars, recipient, told>>

\* Something raises before the row is marked
DeliveryRaises ==
    /\ deliver.at \in {"next", "mark", "bounce"} /\ Now \in Poison
    /\ deliver' = [deliver EXCEPT !.at = "raised"]
    /\ UNCHANGED <<mailboxVars, sched, due, window, recipient, told>>


\* The row as record_delivery_failure writes it
Failed(r, quarantined) ==
    [status   |-> IF quarantined THEN "quarantined" ELSE sched[r].status,
     count    |-> sched[r].count,
     np       |-> sched[r].np,
     failures |-> sched[r].failures + 1]

\* record_delivery_failure, guarded by status='pending'
RecordFailure ==
    LET r == Now
        quarantined == sched[r].failures + 1 >= MailQuarantineAfter IN
    /\ deliver.at = "raised"
    /\ IF sched[r].status # "pending" THEN Onward /\ UNCHANGED <<sched, due>>
       ELSE /\ sched' = [sched EXCEPT ![r] = Failed(r, quarantined)]
            /\ IF quarantined
               THEN due' = After(r) /\ deliver' = [deliver EXCEPT !.at = "notice"]
               ELSE Onward /\ UNCHANGED due
    /\ UNCHANGED <<mailboxVars, window, recipient, told>>

QuarantineNotice ==
    /\ deliver.at = "notice"
    /\ told' = told \cup {<<Now, "quarantine">>}
    /\ Onward
    /\ UNCHANGED <<mailboxVars, sched, due, window, recipient>>

Phase_1 ==
    \/ FindReady \/ Deliver \/ MarkDelivered \/ Bounce \/ MarkBounced
    \/ DeliveryRaises \/ RecordFailure \/ QuarantineNotice

=============================================================================
