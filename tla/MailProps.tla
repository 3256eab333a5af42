----------------------------- MODULE MailProps -----------------------------
(***************************************************************************)
(* Properties of MailSystem.                                               *)
(***************************************************************************)
EXTENDS MailSystem

InHand == {deliver.todo[i] : i \in DOMAIN deliver.todo}

Mails(r, kind) == {i \in Id : inbox[i].row = r /\ inbox[i].kind = kind}

\* Every occurrence of a scheduled mail arrives, in order and once, whatever
\* crashes or raises between the insert and mark_delivered, and a loop never
\* outlives max_occurrences (scheduler.py 1503-1567).
EveryOccurrenceArrives ==
    \A r \in Sched :
        LET occ == {inbox[i].occ : i \in Mails(r, "sched")} IN
        /\ Cardinality(Mails(r, "sched")) = Cardinality(occ)
        /\ 0..(sched[r].count - 1) \subseteq occ
        /\ occ \subseteq 0..sched[r].count
        /\ MaxOccurrences[r] # 0 => Cardinality(occ) <= MaxOccurrences[r]

\* A loop that the scheduler stops, for its budget or for want of progress, was
\* told so: one of its mails is a last one, even when the verdict changed after
\* a crash (scheduler.py 1466-1553).
FinalIsAnnounced ==
    \A r \in Sched :
        /\ sched[r].status = "completed"
        /\ \/ MaxOccurrences[r] # 0 /\ sched[r].count = MaxOccurrences[r]
           \/ MaxNoProgress[r] # 0 /\ sched[r].np >= MaxNoProgress[r]
        => \E i \in Id : inbox[i].row = r /\ inbox[i].last

\* A scheduled mail does what its row says, to the last occurrence.
OccurrencesHold == EveryOccurrenceArrives /\ FinalIsAnnounced

\* A row that is cancelled or otherwise over stays over, and but for the delivery
\* that is under way no mail comes from it any more (sqlite_impl.py 1945-2074).
CancelSticks ==
    [][\A r \in Sched :
        sched[r].status # "pending" =>
            /\ sched'[r].status # "pending"
            /\ r \in InHand \/ (\A i \in DOMAIN inbox' \ Id : inbox'[i].row # r)]_vars

\* Phase 0 never moves its cursor past a mail of urgency normal or above that
\* no wakeup had the chance to read: it was read, a wakeup began after it came,
\* or one is queued (scheduler.py 623-694).
CursorSkipsNothing ==
    \A i \in Id :
        i <= cursor /\ Rank[inbox[i].urgency] >= Rank["normal"] =>
            i \in read \/ i <= seen \/ queued > 0

\* An agent that ignores its mail is not woken for the same mail again, unless
\* serve died before it wrote the cursor (scheduler.py 632-694).
NoWakeLoop ==
    [][scan.at = "agent" /\ scan'.at = "cursor" =>
        scan'.top \notin wakes \/ "serve" \in faults]_vars

\* What is over does not begin again: a row that was cancelled, a mail that woke.
NothingBeginsAnew == CancelSticks /\ NoWakeLoop

\* No wakeup is interrupted twice for one mail, though the poll and the turns of
\* the loop run past each other (mail_watcher.py 83-125).
NothingShownTwice ==
    wakeup.pending \cap shown = {}

\* Acknowledging what was shown never passes over mail of urgency high or above
\* that came during the wakeup and was not (mail_watcher.py 83-130).
InterruptSkipsNothing ==
    wakeup.on => \A i \in Id :
        seen < i /\ i <= wakeup.baseline /\ Rank[inbox[i].urgency] >= Rank["high"]
            => i \in shown

\* Three cursors run over one mailbox, of Phase 0, of the wakeup and of the poll
\* within it: none passes over mail, or goes back.
MailIsSeen == CursorSkipsNothing /\ NothingShownTwice /\ InterruptSkipsNothing

\* A row that is due is delivered, bounced or given up, also behind a row whose
\* delivery always raises and with a full page of find_ready.
DueIsSettled ==
    \A r \in Sched :
        (\E i \in DOMAIN due : due[i] = r) ~> (\A i \in DOMAIN due : due[i] # r)

Uncovered == {i \in Unread("normal") : i > seen}

\* Every mail of urgency normal or above gets a wakeup that begins after it came,
\* however the agent's earlier wakeups end. (Mail stops coming at the bound.)
MailGetsWakeup ==
    Uncovered # {} ~> (Uncovered = {} \/ recipient = "archived")


=============================================================================
