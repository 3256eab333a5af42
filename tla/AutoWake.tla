------------------------------ MODULE AutoWake ------------------------------
(***************************************************************************)
(* What mail does to the agent it is for: Phase 0 of the scheduler's tick, *)
(* which wakes an idle agent, and the MailWatcher, which interrupts one    *)
(* that is at work. The tasks of the agent are a count and a bit: how they *)
(* are claimed and recovered is TaskLease.                                 *)
(*                                                                         *)
(* An operator M<Name> marked "slip" is <Name> with a likely mistake in    *)
(* it. Nothing uses it: it documents what the properties guard against.    *)
(***************************************************************************)
EXTENDS Mailbox

CONSTANTS
    WakePage,       \* read_unread(limit=50) in Phase 0
    WatchPage,      \* read_messages(limit=100) in MailWatcher
    MaxTasks        \* bound on the tasks that wait for the agent: one of Phase 0,
                    \* and one more at least

ASSUME AutoWakeAssumption ==
    WakePage \in Nat \ {0} /\ WatchPage \in Nat \ {0} /\ MaxTasks \in Nat \ {0, 1}

VARIABLES
    cursor,     \* last_auto_triggered_msg_id
    queued,     \* tasks of the agent that are pending
    scan,       \* Phase 0: where it is, its busy_agent_ids, the mail it chose
    wakeup,     \* the running wakeup and its MailWatcher
    \* history: the last mail there was when a wakeup began; the mails that
    \* made Phase 0 create a task; those this wakeup was interrupted for
    seen, wakes, shown

wakeVars == <<cursor, queued, scan, wakeup, seen, wakes, shown>>

Asleep == [on |-> FALSE, baseline |-> 0, pending |-> {}, poll |-> {}]
Idle   == [at |-> "idle", busy |-> FALSE, top |-> 0]

WakeTypeOK ==
    /\ cursor \in 0..Len(inbox)
    /\ queued \in 0..MaxTasks
    /\ scan \in [at: {"idle", "agent", "cursor"}, busy: BOOLEAN, top: 0..Len(inbox)]
    /\ wakeup \in [on: BOOLEAN, baseline: 0..Len(inbox), pending: SUBSET Id, poll: SUBSET Id]
    /\ seen \in 0..Len(inbox)
    /\ wakes \subseteq Id /\ shown \subseteq Id

WakeInit ==
    /\ cursor = 0 /\ queued = 0 /\ scan = Idle /\ wakeup = Asleep
    /\ seen = 0 /\ wakes = {} /\ shown = {}

-----------------------------------------------------------------------------
(* Phase 0 *)

\* (slip) a task that nobody has claimed yet does not count
MScanBegins ==
    /\ scan.at = "idle"
    /\ scan' = [Idle EXCEPT !.at = "agent", !.busy = wakeup.on]
    /\ UNCHANGED <<mailboxVars, cursor, queued, wakeup, seen, wakes, shown>>

\* active_owner_agent_ids, once for the whole scan
ScanBegins ==
    /\ scan.at = "idle"
    /\ scan' = [at |-> "agent", busy |-> queued > 0 \/ wakeup.on, top |-> 0]
    /\ UNCHANGED <<mailboxVars, cursor, queued, wakeup, seen, wakes, shown>>

\* (slip) without the cursor
MNew == Page(Unread("normal"), WakePage)

\* The page is cut before the cursor is applied
New == {i \in Page(Unread("normal"), WakePage) : i > cursor}

\* (slip) the cursor moves although the agent is busy
MScanAgent ==
    /\ scan.at = "agent"
    /\ IF New = {}
       THEN scan' = Idle /\ UNCHANGED <<queued, wakes>>
       ELSE \E top \in New :
              /\ \A i \in New \ {top} : Before(top, i)
              /\ queued' = IF scan.busy THEN queued ELSE queued + 1
              /\ wakes' = wakes \cup {top}
              /\ scan' = [scan EXCEPT !.at = "cursor", !.top = top]
    /\ UNCHANGED <<mailboxVars, cursor, wakeup, seen, shown>>

\* _auto_dispatch_one_agent: a task for the most urgent, then oldest new mail
ScanAgent ==
    /\ scan.at = "agent"
    /\ IF New = {} \/ scan.busy
       THEN scan' = Idle /\ UNCHANGED <<queued, wakes>>
       ELSE \E top \in New :
              /\ \A i \in New \ {top} : Before(top, i)
              /\ queued' = queued + 1
              /\ wakes' = wakes \cup {top}
              /\ scan' = [at |-> "cursor", busy |-> FALSE, top |-> top]
    /\ UNCHANGED <<mailboxVars, cursor, wakeup, seen, shown>>

\* set_last_auto_triggered_id, monotonic, in a commit of its own
ScanCursor ==
    /\ scan.at = "cursor"
    /\ cursor' = IF scan.top > cursor THEN scan.top ELSE cursor
    /\ scan' = Idle
    /\ UNCHANGED <<mailboxVars, queued, wakeup, seen, wakes, shown>>

Phase0 == ScanBegins \/ ScanAgent \/ ScanCursor

-----------------------------------------------------------------------------
(* The wakeup, MailWatcher and the mailbox tools *)

\* A task of the agent is claimed; get_max_msg_id is the watcher's baseline
WakeupStarts ==
    /\ queued > 0 /\ ~wakeup.on
    /\ queued' = queued - 1
    /\ wakeup' = [on |-> TRUE, baseline |-> Len(inbox), pending |-> {}, poll |-> {}]
    /\ seen' = Len(inbox) /\ shown' = {}
    /\ UNCHANGED <<mailboxVars, cursor, scan, wakes>>

\* _loop reads a page of whatever urgency ...
PollReads ==
    LET later == {i \in Id : i > wakeup.baseline} IN
    /\ wakeup.on /\ wakeup.poll = {} /\ later # {}
    /\ wakeup' = [wakeup EXCEPT !.poll =
                      {i \in later : i <= wakeup.baseline + WatchPage}]
    /\ UNCHANGED <<mailboxVars, cursor, queued, scan, seen, wakes, shown>>

\* (slip) filtered by the baseline that the read used
MPollSettles ==
    LET urgent == {i \in wakeup.poll : Rank[inbox[i].urgency] >= Rank["high"]} IN
    /\ wakeup.on /\ wakeup.poll # {}
    /\ wakeup' = [wakeup EXCEPT !.poll = {},
                      !.pending = IF urgent = {} THEN @ ELSE urgent]
    /\ UNCHANGED <<mailboxVars, cursor, queued, scan, seen, wakes, shown>>

\* ... and filters it by a baseline that may have moved meanwhile
PollSettles ==
    LET urgent == {i \in wakeup.poll : /\ i > wakeup.baseline
                                       /\ Rank[inbox[i].urgency] >= Rank["high"]} IN
    /\ wakeup.on /\ wakeup.poll # {}
    /\ wakeup' = [wakeup EXCEPT !.poll = {},
                      !.pending = IF urgent = {} THEN @ ELSE urgent]
    /\ UNCHANGED <<mailboxVars, cursor, queued, scan, seen, wakes, shown>>

\* _inject_blocker_notice, acknowledge: between turns, and before the last ends
Inject ==
    /\ wakeup.on
    /\ \E top \in wakeup.pending :
         /\ \A i \in wakeup.pending : i <= top
         /\ wakeup' = [on |-> TRUE, pending |-> {}, poll |-> wakeup.poll,
                       baseline |-> IF top > wakeup.baseline THEN top ELSE wakeup.baseline]
    /\ shown' = shown \cup wakeup.pending
    /\ UNCHANGED <<mailboxVars, cursor, queued, scan, seen, wakes>>

\* mailbox_read of all that is unread, mark_read of one mail
ReadMail ==
    /\ wakeup.on
    /\ \/ Unread("low") # {} /\ read' = Id
       \/ \E i \in Unread("low") : read' = read \cup {i}
    /\ UNCHANGED <<inbox, wakeVars>>

\* The last turn ends, or the wakeup fails; the watcher goes with it
WakeupEnds ==
    /\ wakeup.on
    /\ wakeup' = Asleep
    /\ UNCHANGED <<mailboxVars, cursor, queued, scan, seen, wakes, shown>>

\* The worker dies; recovery runs the task again
WorkerDies ==
    /\ wakeup.on
    /\ wakeup' = Asleep /\ queued' = queued + 1
    /\ UNCHANGED <<mailboxVars, cursor, scan, seen, wakes, shown>>

\* dispatch_task by another agent
OtherDispatches ==
    /\ queued < MaxTasks
    /\ queued' = queued + 1
    /\ UNCHANGED <<mailboxVars, cursor, scan, wakeup, seen, wakes, shown>>

Watcher == PollReads \/ PollSettles

=============================================================================
