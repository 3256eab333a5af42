------------------------------ MODULE MailProofs ------------------------------
(***************************************************************************)
(* Proofs of what MailProps states of scheduled mail, of the wakeups that  *)
(* mail brings about and of the interrupts within them, for all rows, any  *)
(* number of mails and every bound. The two halves of the system share the *)
(* mailbox alone: to each, the steps of the other make the mailbox longer, *)
(* or a mail read, and no more.                                            *)
(***************************************************************************)
EXTENDS MailProps, SequenceTheorems, FiniteSetTheorems, FunctionTheorems, TLAPS

(* Sequences and finite sets *)

\* A row is added at the end.
LEMMA SeqAdd ==
  ASSUME NEW S, NEW s \in Seq(S), NEW e \in S
  PROVE  /\ Append(s, e) \in Seq(S)
         /\ DOMAIN Append(s, e) = DOMAIN s \cup {Len(s) + 1}
         /\ Len(Append(s, e)) = Len(s) + 1
         /\ Len(s) + 1 \notin DOMAIN s
         /\ Append(s, e)[Len(s) + 1] = e
         /\ \A j \in DOMAIN s : Append(s, e)[j] = s[j]
  OBVIOUS

\* The rows that satisfy a condition are finitely many.
LEMMA RowsFinite ==
  ASSUME NEW S, NEW s \in Seq(S), NEW T \in SUBSET DOMAIN s
  PROVE  IsFiniteSet(T) /\ Cardinality(T) \in Nat
<1>1. DOMAIN s = 1..Len(s) /\ Len(s) \in Nat
  OBVIOUS
<1>2. IsFiniteSet(1..Len(s))
  BY <1>1, FS_Interval
<1> QED
  BY <1>1, <1>2, FS_Subset, FS_CardinalityType

\* Where an index behind i falls in what is behind i.
LEMMA Behind ==
  \A n, i, k \in Int : (k \in 1..n - 1 /\ ~(k < i)) =>
     k - (i - 1) \in 1..n - i /\ i + (k - (i - 1)) = k + 1 /\ ~(k <= i - 1)
OBVIOUS

\* A row is taken out.
Without(s, i) == SubSeq(s, 1, i - 1) \o SubSeq(s, i + 1, Len(s))

\* What is left keeps its order.
LEMMA SeqDrop ==
  ASSUME NEW S, NEW s \in Seq(S), NEW i \in DOMAIN s
  PROVE  /\ Without(s, i) \in Seq(S) /\ DOMAIN Without(s, i) = 1..Len(s) - 1
         /\ \A j \in DOMAIN Without(s, i) : Without(s, i)[j] = s[IF j < i THEN j ELSE j + 1]
<1> DEFINE a == SubSeq(s, 1, i - 1)
           b == SubSeq(s, i + 1, Len(s))
           t == Without(s, i)
<1>1. Len(s) \in Nat /\ i \in 1..Len(s) /\ \A j \in 1..Len(s) : s[j] \in S
  OBVIOUS
<1>2. a \in Seq(S) /\ Len(a) = i - 1 /\ \A j \in 1..i - 1 : a[j] = s[j]
  <2>1. 1 \in Int /\ i - 1 \in Int /\ \A j \in 1..i - 1 : s[j] \in S
    BY <1>1
  <2>2. /\ a \in Seq(S) /\ Len(a) = IF 1 <= i - 1 THEN i - 1 - 1 + 1 ELSE 0
        /\ \A j \in 1..i - 1 - 1 + 1 : a[j] = s[1 + j - 1]
    BY <2>1, SubSeqProperties
  <2> HIDE DEF a
  <2> QED
    BY <1>1, <2>2
<1>3. b \in Seq(S) /\ Len(b) = Len(s) - i /\ \A j \in 1..Len(s) - i : b[j] = s[i + j]
  <2>1. i + 1 \in Int /\ Len(s) \in Int /\ \A j \in i + 1..Len(s) : s[j] \in S
    BY <1>1
  <2>2. /\ b \in Seq(S) /\ Len(b) = IF i + 1 <= Len(s) THEN Len(s) - (i + 1) + 1 ELSE 0
        /\ \A j \in 1..Len(s) - (i + 1) + 1 : b[j] = s[i + 1 + j - 1]
    BY <2>1, SubSeqProperties
  <2> HIDE DEF b
  <2>3. Len(s) - (i + 1) + 1 = Len(s) - i /\ Len(b) = Len(s) - i
    BY <1>1, <2>2
  <2>4. ASSUME NEW j \in 1..Len(s) - i PROVE b[j] = s[i + j]
    <3>1. i + 1 + j - 1 = i + j
      BY <1>1
    <3>2. b[j] = s[i + 1 + j - 1]
      BY <2>2, <2>3
    <3> QED
      BY <3>1, <3>2
  <2> QED
    BY <2>2, <2>3, <2>4
<1> HIDE DEF a, b, t
<1>4. t = a \o b
  BY DEF a, b, t, Without
<1>5. t \in Seq(S) /\ Len(t) = Len(s) - 1
  <2>1. a \o b \in Seq(S) /\ Len(a \o b) = Len(a) + Len(b)
    BY <1>2, <1>3, ConcatProperties
  <2>2. Len(a) = i - 1 /\ Len(b) = Len(s) - i /\ i \in Int /\ Len(s) \in Int
    BY <1>1, <1>2, <1>3
  <2>3. Len(a) + Len(b) = Len(s) - 1
    BY <2>2
  <2> QED
    BY <1>4, <2>1, <2>3
<1>6. DOMAIN t = 1..Len(s) - 1
  BY <1>5
<1>7. ASSUME NEW j \in DOMAIN t PROVE t[j] = s[IF j < i THEN j ELSE j + 1]
  <2>1. Len(a) = i - 1 /\ Len(b) = Len(s) - i /\ i \in Int /\ Len(s) \in Int
    BY <1>1, <1>2, <1>3
  <2>2. j \in 1..Len(s) - 1
    BY <1>6
  <2>3. Len(a) + Len(b) = Len(s) - 1
    BY <2>1
  <2>4. j \in 1..Len(a) + Len(b) /\ j \in Int
    BY <2>2, <2>3
  <2>5. \A k \in 1..Len(a) + Len(b) : (a \o b)[k] = IF k <= Len(a) THEN a[k] ELSE b[k - Len(a)]
    BY <1>2, <1>3, ConcatProperties
  <2>6. t[j] = IF j <= Len(a) THEN a[j] ELSE b[j - Len(a)]
    BY <1>4, <2>4, <2>5
  <2>7. CASE j < i
    <3>1. j <= Len(a) /\ j \in 1..i - 1
      BY <1>1, <1>2, <2>4, <2>7
    <3>2. t[j] = s[j]
      BY <1>2, <2>6, <3>1
    <3> QED
      BY <2>7, <3>2
  <2>8. CASE ~(j < i)
    <3>1. j - (i - 1) \in 1..Len(s) - i /\ i + (j - (i - 1)) = j + 1 /\ ~(j <= i - 1)
      BY <2>1, <2>2, <2>4, <2>8, Behind
    <3>2. t[j] = b[j - (i - 1)]
      BY <2>1, <2>6, <3>1
    <3>3. b[j - (i - 1)] = s[i + (j - (i - 1))]
      BY <1>3, <3>1
    <3> QED
      BY <2>8, <3>1, <3>2, <3>3
  <2> QED
    BY <2>7, <2>8
<1> QED
  BY <1>5, <1>6, <1>7 DEF t

-----------------------------------------------------------------------------

\* A row that is pending still has failures to spare.
Rows == \A r \in Sched : sched[r].status = "pending" => sched[r].failures < MailQuarantineAfter

\* The tasks that mail made, or one dispatch of another agent, and the running wakeup.
Working == IF wakeup.on THEN 1 ELSE 0
Extra   == IF "dispatch" \in faults THEN 1 ELSE 0

\* A scan adds a task only to an agent that had none when it began.
Tasks ==
    /\ queued + Working <= 1 + Extra
    /\ scan.at = "agent" /\ ~scan.busy => queued + Working <= Extra

\* Behind the cursor, and what the scan is about to put behind it, a wakeup has begun
\* since, or is queued.
Covered ==
    /\ queued > 0 \/ cursor <= seen
    /\ scan.at = "cursor" => queued > 0 \/ scan.top <= seen

\* What woke the agent is behind the cursor, or about to be, unless serve was killed.
Woken ==
    "serve" \notin faults =>
        \A i \in wakes : i <= cursor \/ (scan.at = "cursor" /\ i <= scan.top)

High(i) == Rank[inbox[i].urgency] >= Rank["high"]

\* The baseline divides what was shown from what is pending; a poll, and what is pending,
\* have no gap above it.
Watched ==
    /\ ~wakeup.on => wakeup.pending = {} /\ wakeup.poll = {}
    /\ wakeup.on => \A i \in shown : i <= wakeup.baseline
    /\ \A i \in wakeup.pending : wakeup.baseline < i
    /\ \A i \in wakeup.pending, j \in Id : wakeup.baseline < j /\ j <= i /\ High(j) => j \in wakeup.pending
    /\ \A i \in wakeup.poll, j \in Id : wakeup.baseline < j /\ j <= i => j \in wakeup.poll

\* A loop with a budget has an occurrence left.
Open(r) == MaxOccurrences[r] # 0 => sched[r].count < MaxOccurrences[r]
Once(rows) == \A i, j \in DOMAIN rows : rows[i] = rows[j] => i = j
AllOpen(rows) == \A i \in DOMAIN rows : Open(rows[i])

\* A row is due once and in the page once, and only while it may be delivered.
Listed ==
    /\ Once(due) /\ Once(deliver.todo) /\ AllOpen(due) /\ AllOpen(deliver.todo)
    /\ \A r \in Sched : sched[r].status = "pending" => Open(r)
    /\ deliver.at # "idle" => deliver.todo # <<>>
    /\ deliver.at = "mark" /\ LoopFinal(Now) => deliver.stop

IsOccurrence(i, r, n) == inbox[i].kind = "sched" /\ inbox[i].row = r /\ inbox[i].occ = n

\* The occurrences that arrived are those before the count, and the one under way.
Arrived ==
    /\ \A r \in Sched : \A n \in 0..(sched[r].count - 1) : \E i \in Id : IsOccurrence(i, r, n)
    /\ \A i \in Id, r \in Sched : inbox[i].kind = "sched" /\ inbox[i].row = r =>
          /\ inbox[i].occ \in 0..sched[r].count
          /\ MaxOccurrences[r] # 0 => inbox[i].occ < MaxOccurrences[r]
    /\ \A i, j \in Id :
          (/\ inbox[i].kind = "sched" /\ inbox[j].kind = "sched"
           /\ inbox[i].row = inbox[j].row /\ inbox[i].occ = inbox[j].occ) => i = j
    /\ deliver.at = "mark" => \E i \in Id : IsOccurrence(i, Now, sched[Now].count)

Announced(r) == \E i \in Id : inbox[i].row = r /\ inbox[i].last

\* What ends a loop is in a mail of it before the loop is ended.
Warned ==
    /\ \A i \in Id : inbox[i].kind = "final" => inbox[i].last
    /\ \A i \in Id, r \in Sched :
          (/\ inbox[i].kind = "sched" /\ inbox[i].row = r
           /\ MaxOccurrences[r] # 0 /\ inbox[i].occ + 1 >= MaxOccurrences[r]) => inbox[i].last
    /\ \A r \in Sched : MaxNoProgress[r] # 0 /\ sched[r].np >= MaxNoProgress[r] => Announced(r)
    /\ deliver.at = "mark" /\ MaxNoProgress[Now] # 0 /\ deliver.np >= MaxNoProgress[Now] => Announced(Now)

IInv ==
    /\ TypeOK /\ Rows /\ Tasks /\ Covered /\ Woken /\ Watched /\ InterruptSkipsNothing
    /\ Listed /\ Arrived /\ Warned

-----------------------------------------------------------------------------
(* The steps, for each half of the system. *)

\* Mails stay, in their order.
Longer == /\ Len(inbox) <= Len(inbox')
          /\ \A i \in Id : i \in DOMAIN inbox' /\ inbox'[i] = inbox[i]

\* What a step is to the wakeups.
WakeMoves ==
    \/ UNCHANGED wakeVars /\ Longer /\ faults \subseteq faults'
    \/ inbox' = inbox /\ faults' = faults /\ (Phase0 \/ WakeupStarts \/ Inject \/ Watcher \/ WakeupEnds)
    \/ inbox' = inbox /\ faults' = faults \cup {"worker"} /\ WorkerDies
    \/ inbox' = inbox /\ faults' = faults \cup {"dispatch"} /\ "dispatch" \notin faults /\ OtherDispatches
    \/ /\ inbox' = inbox /\ faults' = faults \cup {"serve"} /\ scan' = Idle
       /\ UNCHANGED <<cursor, queued, wakeup, seen, wakes, shown>>

\* What a step is to scheduled mail.
SchedMoves ==
    \/ UNCHANGED <<sched, due, deliver>> /\ (inbox' = inbox \/ \E urgency \in Urgency : Insert(Sent(urgency)))
    \/ UNCHANGED <<inbox, sched, due>> /\ deliver' = Resting
    \/ Phase_1
    \/ \E r \in Sched : FallsDue(r) \/ Cancel(r)

\* A mail is put at the end, or is there.
LEMMA Inserts ==
  ASSUME inbox \in Seq(Mail), NEW m \in Mail, Insert(m)
  PROVE  /\ inbox' \in Seq(Mail) /\ Longer
         /\ \A i \in DOMAIN inbox' \ Id : inbox'[i] = m /\ Delivered(m) = {}
         /\ Delivered(m) = {} => \E i \in DOMAIN inbox' : inbox'[i] = m
         /\ \A i, j \in DOMAIN inbox' \ Id : i = j
<1>1. CASE Delivered(m) # {}
  BY <1>1 DEF Insert, Longer, Id
<1>2. CASE Delivered(m) = {}
  <2>1. inbox' = Append(inbox, m)
    BY <1>2 DEF Insert
  <2>2. /\ inbox' \in Seq(Mail) /\ DOMAIN inbox' = DOMAIN inbox \cup {Len(inbox) + 1}
        /\ Len(inbox') = Len(inbox) + 1 /\ inbox'[Len(inbox) + 1] = m
        /\ \A j \in DOMAIN inbox : inbox'[j] = inbox[j]
    BY <2>1, SeqAdd
  <2>3. Len(inbox) \in Nat
    OBVIOUS
  <2> HIDE DEF Id
  <2> QED
    BY <1>2, <2>2, <2>3 DEF Longer, Id
<1> QED
  BY <1>1, <1>2

\* The mails that the system makes are mails.
LEMMA MailsTyped ==
  /\ \A urgency \in Urgency : Sent(urgency) \in Mail
  /\ SchedTypeOK => \A r \in Sched, kind \in {"sched", "final"}, last \in BOOLEAN : Occurrence(r, kind, last) \in Mail
<1>1. \A urgency \in Urgency : Sent(urgency) \in Mail
  BY MailSystemAssumption DEF Sent, Mail, Kind
<1>2. ASSUME SchedTypeOK, NEW r \in Sched, NEW kind \in {"sched", "final"}, NEW last \in BOOLEAN
      PROVE  Occurrence(r, kind, last) \in Mail
  <2>1. RowUrgency[r] \in DOMAIN Rank /\ "high" \in DOMAIN Rank
    BY ScheduledMailAssumption DEF Rank
  <2>2. sched[r].count \in Nat
    BY <1>2 DEF SchedTypeOK
  <2> QED
    BY <2>1, <2>2 DEF Occurrence, Mail, Kind
<1> QED
  BY <1>1, <1>2

\* The row that is served, and the ones behind it.
LEMMA Serves ==
  ASSUME SchedTypeOK, Listed, deliver.at # "idle"
  PROVE  /\ Now \in Sched /\ 1 \in DOMAIN deliver.todo /\ Now = deliver.todo[1]
         /\ Tail(deliver.todo) \in Seq(Sched)
         /\ DOMAIN Tail(deliver.todo) = 1..(Len(deliver.todo) - 1)
         /\ \A i \in DOMAIN Tail(deliver.todo) : i + 1 \in DOMAIN deliver.todo /\ Tail(deliver.todo)[i] = deliver.todo[i + 1]
         /\ Len(deliver.todo) # 1 => Tail(deliver.todo) # <<>>
<1>1. deliver.todo \in Seq(Sched) /\ deliver.todo # <<>>
  BY DEF SchedTypeOK, Listed
<1>2. 1 \in DOMAIN deliver.todo /\ Now = deliver.todo[1] /\ Len(deliver.todo) \in Nat
  BY <1>1 DEF Now
<1>3. /\ Tail(deliver.todo) \in Seq(Sched) /\ Len(Tail(deliver.todo)) = Len(deliver.todo) - 1
      /\ \A i \in 1..Len(Tail(deliver.todo)) : Tail(deliver.todo)[i] = deliver.todo[i + 1]
  BY <1>1, HeadTailProperties
<1>4. DOMAIN Tail(deliver.todo) = 1..Len(Tail(deliver.todo)) /\ DOMAIN deliver.todo = 1..Len(deliver.todo)
  BY <1>1, <1>3
<1>5. Len(deliver.todo) # 1 => Tail(deliver.todo) # <<>>
  <2>1. Len(Tail(deliver.todo)) = 0 <=> Tail(deliver.todo) = <<>>
    BY <1>3, EmptySeq
  <2> QED
    BY <1>2, <1>3, <2>1
<1>6. Now \in Sched
  BY <1>1, <1>2
<1> QED
  BY <1>2, <1>3, <1>4, <1>5, <1>6

\* A step of scheduled mail leaves the mails there are.
LEMMA SchedGrows ==
  ASSUME TypeOK, Listed, SchedMoves
  PROVE  inbox' \in Seq(Mail) /\ Longer
<1>1. inbox \in Seq(Mail) /\ SchedTypeOK
  BY DEF TypeOK, MailboxTypeOK
<1>2. CASE inbox' = inbox
  BY <1>1, <1>2 DEF Longer, Id
<1>3. CASE \E urgency \in Urgency : Insert(Sent(urgency))
  BY <1>1, <1>3, MailsTyped, Inserts
<1>4. CASE Deliver
  <2>1. Now \in Sched
    BY <1>1, <1>4, Serves DEF Deliver
  <2>2. \E kind \in {"sched", "final"}, last \in BOOLEAN : Insert(Occurrence(Now, kind, last))
    BY <1>4 DEF Deliver, LoopFinal, NoProgressFinal
  <2> QED
    BY <1>1, <2>1, <2>2, MailsTyped, Inserts
<1> QED
  BY <1>2, <1>3, <1>4 DEF SchedMoves, Phase_1, FindReady, MarkDelivered, Bounce, MarkBounced, DeliveryRaises,
     RecordFailure, QuarantineNotice, FallsDue, Cancel, mailboxVars

\* Every step is one of these.
LEMMA StepMoves ==
  ASSUME TypeOK, Listed, [Next]_vars
  PROVE  WakeMoves /\ SchedMoves
<1> USE DEF mailboxVars, schedVars, wakeVars, Others
<1>1. inbox' = inbox => Longer
  BY DEF Longer, Id, TypeOK, MailboxTypeOK
<1>2. SchedMoves => Longer
  BY SchedGrows
<1>3. CASE UNCHANGED vars
  BY <1>1, <1>3 DEF vars, WakeMoves, SchedMoves
<1>4. CASE Tick
  <2>1. CASE Phase_1 /\ UNCHANGED wakeVars
    BY <1>2, <1>4, <2>1 DEF Tick, WakeMoves, SchedMoves
  <2>2. CASE Phase0 /\ UNCHANGED schedVars
    BY <1>4, <2>2 DEF Tick, Phase0, ScanBegins, ScanAgent, ScanCursor, WakeMoves, SchedMoves
  <2>3. CASE UNCHANGED <<mailboxVars, schedVars, wakeVars>>
    BY <1>1, <1>4, <2>3 DEF Tick, WakeMoves, SchedMoves
  <2> QED
    BY <1>4, <2>1, <2>2, <2>3 DEF Tick
<1>5. CASE Schedule
  BY <1>1, <1>5 DEF Schedule, ThreadActs, FallsDue, Cancel, WakeMoves, SchedMoves
<1>6. CASE Wakeup \/ Watch \/ Ends \/ Work
  BY <1>1, <1>6 DEF Wakeup, Watch, Ends, Work, WakeupStarts, Watcher, PollReads, PollSettles, WakeupEnds, Inject,
     ReadMail, WakeMoves, SchedMoves
<1>7. CASE \E urgency \in Urgency : Send(urgency)
  BY <1>2, <1>7 DEF Send, WakeMoves, SchedMoves
<1>8. CASE ServeCrash
  BY <1>8 DEF ServeCrash, Fault, WakeMoves, SchedMoves
<1>9. CASE Archive
  BY <1>1, <1>9 DEF Archive, Fault, WakeMoves, SchedMoves
<1>10. CASE WorkerCrash
  BY <1>10 DEF WorkerCrash, Fault, WorkerDies, WakeMoves, SchedMoves
<1>11. CASE OtherDispatch
  BY <1>11 DEF OtherDispatch, Fault, OtherDispatches, WakeMoves, SchedMoves
<1> QED
  BY <1>3, <1>4, <1>5, <1>6, <1>7, <1>8, <1>9, <1>10, <1>11 DEF Next

-----------------------------------------------------------------------------
(* The wakeups. *)

ScanRow(n)   == [at: {"idle", "agent", "cursor"}, busy: BOOLEAN, top: 0..n]
WakeupRow(n) == [on: BOOLEAN, baseline: 0..n, pending: SUBSET (1..n), poll: SUBSET (1..n)]

\* A step keeps the types of the wakeups; that the tasks are few is Tasks.
LEMMA WakeTyped ==
  ASSUME TypeOK, WakeMoves, inbox' \in Seq(Mail)
  PROVE  /\ cursor' \in 0..Len(inbox') /\ queued' \in Nat
         /\ scan' \in ScanRow(Len(inbox')) /\ wakeup' \in WakeupRow(Len(inbox'))
         /\ seen' \in 0..Len(inbox') /\ wakes' \subseteq 1..Len(inbox') /\ shown' \subseteq 1..Len(inbox')
<1>1. Len(inbox) \in Nat /\ Id = 1..Len(inbox) /\ Len(inbox') \in Nat
  BY DEF TypeOK, MailboxTypeOK, Id
<1>2. /\ cursor \in 0..Len(inbox) /\ queued \in Nat
      /\ scan \in ScanRow(Len(inbox)) /\ wakeup \in WakeupRow(Len(inbox))
      /\ seen \in 0..Len(inbox) /\ wakes \subseteq 1..Len(inbox) /\ shown \subseteq 1..Len(inbox)
  BY <1>1 DEF TypeOK, WakeTypeOK, ScanRow, WakeupRow
<1>3. CASE UNCHANGED wakeVars /\ Longer
  BY <1>1, <1>2, <1>3 DEF wakeVars, Longer, ScanRow, WakeupRow
<1> SUFFICES ASSUME inbox' = inbox
             PROVE  /\ cursor' \in 0..Len(inbox) /\ queued' \in Nat
                    /\ scan' \in ScanRow(Len(inbox)) /\ wakeup' \in WakeupRow(Len(inbox))
                    /\ seen' \in 0..Len(inbox) /\ wakes' \subseteq 1..Len(inbox) /\ shown' \subseteq 1..Len(inbox)
  BY <1>3 DEF WakeMoves
<1>4. Idle \in ScanRow(Len(inbox)) /\ Asleep \in WakeupRow(Len(inbox))
  BY <1>1 DEF Idle, Asleep, ScanRow, WakeupRow
<1>5. CASE ScanBegins
  <2>1. scan' \in ScanRow(Len(inbox))
    BY <1>1, <1>2, <1>5 DEF ScanBegins, Idle, ScanRow, WakeupRow
  <2> QED
    BY <1>2, <1>5, <2>1 DEF ScanBegins
<1>6. CASE ScanAgent
  <2>1. New \subseteq Id
    BY DEF New, Page, Unread
  <2>2. scan' \in ScanRow(Len(inbox))
    <3>1. CASE scan' = Idle
      BY <1>4, <3>1
    <3>2. ASSUME NEW top \in New, scan' = [at |-> "cursor", busy |-> FALSE, top |-> top]
          PROVE  scan' \in ScanRow(Len(inbox))
      BY <1>1, <2>1, <3>2 DEF ScanRow
    <3> QED
      BY <1>6, <3>1, <3>2 DEF ScanAgent
  <2>3. queued' \in Nat
    <3>1. queued' = queued \/ queued' = queued + 1
      BY <1>6 DEF ScanAgent
    <3> QED
      BY <1>2, <3>1
  <2> QED
    BY <1>1, <1>2, <1>6, <2>1, <2>2, <2>3 DEF ScanAgent
<1>7. CASE ScanCursor
  BY <1>2, <1>4, <1>7 DEF ScanCursor, ScanRow
<1>8. CASE WakeupStarts
  <2>1. wakeup' \in WakeupRow(Len(inbox))
    BY <1>1, <1>8 DEF WakeupStarts, Asleep, WakeupRow
  <2> QED
    BY <1>1, <1>2, <1>8, <2>1 DEF WakeupStarts
<1>9. CASE Inject
  <2>1. ASSUME NEW top \in 1..Len(inbox),
               wakeup' = [on |-> TRUE, pending |-> {}, poll |-> wakeup.poll,
                          baseline |-> IF top > wakeup.baseline THEN top ELSE wakeup.baseline]
        PROVE  wakeup' \in WakeupRow(Len(inbox))
    BY <1>1, <1>2, <2>1 DEF WakeupRow
  <2>2. wakeup.pending \subseteq 1..Len(inbox)
    BY <1>2 DEF WakeupRow
  <2>3. wakeup' \in WakeupRow(Len(inbox)) /\ shown' \subseteq 1..Len(inbox)
    BY <1>2, <1>9, <2>1, <2>2 DEF Inject
  <2> QED
    BY <1>2, <1>9, <2>3 DEF Inject
<1>10. CASE PollReads
  <2>1. wakeup' \in WakeupRow(Len(inbox))
    BY <1>1, <1>2, <1>10 DEF PollReads, WakeupRow
  <2> QED
    BY <1>2, <1>10, <2>1 DEF PollReads
<1>11. CASE PollSettles
  <2>1. wakeup' \in WakeupRow(Len(inbox))
    BY <1>1, <1>2, <1>11 DEF PollSettles, WakeupRow
  <2> QED
    BY <1>2, <1>11, <2>1 DEF PollSettles
<1>12. CASE WakeupEnds \/ WorkerDies \/ OtherDispatches
  <2>1. queued' \in Nat
    BY <1>2, <1>12 DEF WakeupEnds, WorkerDies, OtherDispatches
  <2> QED
    BY <1>2, <1>4, <1>12, <2>1 DEF WakeupEnds, WorkerDies, OtherDispatches
<1>13. CASE scan' = Idle /\ UNCHANGED <<cursor, queued, wakeup, seen, wakes, shown>>
  BY <1>2, <1>4, <1>13
<1>14. CASE UNCHANGED wakeVars
  BY <1>2, <1>14 DEF wakeVars
<1> QED
  BY <1>5, <1>6, <1>7, <1>8, <1>9, <1>10, <1>11, <1>12, <1>13, <1>14 DEF WakeMoves, Phase0, Watcher

\* The tasks of the agent are two at most.
LEMMA TasksStep ==
  ASSUME TypeOK, Tasks, WakeMoves, inbox' \in Seq(Mail)
  PROVE  Tasks' /\ queued' \in 0..MaxTasks
<1> DEFINE w == IF wakeup.on THEN 1 ELSE 0
           x == IF "dispatch" \in faults THEN 1 ELSE 0
           v == IF wakeup'.on THEN 1 ELSE 0
           n == queued'
           y == IF "dispatch" \in faults' THEN 1 ELSE 0
<1>1. queued \in Nat /\ n \in Nat
  BY WakeTyped DEF TypeOK, WakeTypeOK
<1>2. w \in 0..1 /\ x \in 0..1 /\ v \in 0..1 /\ y \in 0..1
  OBVIOUS
<1>3. queued + w <= 1 + x /\ (scan.at = "agent" /\ ~scan.busy => queued + w <= x)
  BY DEF Tasks, Working, Extra
<1>4. Asleep.on = FALSE /\ Idle.at = "idle"
  BY DEF Asleep, Idle
<1> HIDE DEF w, x, v, y, n
<1>5. n + v <= 1 + y /\ (scan'.at = "agent" /\ ~scan'.busy => n + v <= y)
  <2>1. CASE UNCHANGED wakeVars /\ faults \subseteq faults'
    <3>1. v = w /\ x <= y
      BY <2>1 DEF wakeVars, v, w, x, y, n
    <3>2. n = queued /\ scan' = scan
      BY <2>1 DEF wakeVars, n
    <3> QED
      BY <1>1, <1>2, <1>3, <3>1, <3>2
  <2>2. CASE faults' = faults /\ ScanBegins
    <3>1. v = w /\ y = x /\ n = queued
      BY <2>2 DEF ScanBegins, v, w, x, y, n
    <3>2. ~scan'.busy => queued + w = 0
      <4>1. CASE queued > 0 \/ wakeup.on
        BY <2>2, <4>1 DEF ScanBegins
      <4>2. CASE ~(queued > 0 \/ wakeup.on)
        BY <1>1, <4>2 DEF w
      <4> QED
        BY <4>1, <4>2
    <3> QED
      BY <1>1, <1>2, <1>3, <3>1, <3>2
  <2>3. CASE faults' = faults /\ ScanAgent
    <3>1. v = w /\ y = x
      BY <2>3 DEF ScanAgent, v, w, x, y, n
    <3>2. scan'.at # "agent"
      BY <1>4, <2>3 DEF ScanAgent, TypeOK, WakeTypeOK
    <3>3. n = queued \/ (n = queued + 1 /\ scan.at = "agent" /\ ~scan.busy)
      BY <2>3 DEF ScanAgent, n
    <3> QED
      BY <1>1, <1>2, <1>3, <3>1, <3>2, <3>3
  <2>4. CASE faults' = faults /\ ScanCursor
    <3>1. v = w /\ y = x /\ n = queued /\ scan'.at # "agent"
      BY <1>4, <2>4 DEF ScanCursor, v, w, x, y, n
    <3> QED
      BY <1>1, <1>2, <1>3, <3>1
  <2>5. CASE faults' = faults /\ WakeupStarts
    <3>1. w = 0 /\ v = 1 /\ y = x /\ n = queued - 1 /\ scan' = scan
      BY <2>5 DEF WakeupStarts, v, w, x, y, n
    <3> QED
      BY <1>1, <1>2, <1>3, <3>1
  <2>6. CASE faults' = faults /\ (Inject \/ Watcher)
    <3>1. wakeup.on /\ wakeup'.on
      <4>1. CASE Inject
        BY <4>1 DEF Inject
      <4>2. CASE Watcher
        <5>1. wakeup'.on = wakeup.on /\ wakeup.on
          BY <4>2 DEF Watcher, PollReads, PollSettles, TypeOK, WakeTypeOK
        <5> QED
          BY <5>1
      <4> QED
        BY <2>6, <4>1, <4>2
    <3>2. v = w /\ y = x /\ n = queued /\ scan' = scan
      BY <2>6, <3>1 DEF Inject, Watcher, PollReads, PollSettles, v, w, x, y, n
    <3> QED
      BY <1>1, <1>2, <1>3, <3>2
  <2>7. CASE faults' = faults /\ WakeupEnds
    <3>1. w = 1 /\ v = 0 /\ y = x /\ n = queued /\ scan' = scan
      BY <1>4, <2>7 DEF WakeupEnds, v, w, x, y, n
    <3> QED
      BY <1>1, <1>2, <1>3, <3>1
  <2>8. CASE faults' = faults \cup {"worker"} /\ WorkerDies
    <3>1. w = 1 /\ v = 0 /\ y = x /\ n = queued + 1 /\ scan' = scan
      BY <1>4, <2>8 DEF WorkerDies, v, w, x, y, n
    <3> QED
      BY <1>1, <1>2, <1>3, <3>1
  <2>9. CASE faults' = faults \cup {"dispatch"} /\ "dispatch" \notin faults /\ OtherDispatches
    <3>1. v = w /\ x = 0 /\ y = 1 /\ n = queued + 1 /\ scan' = scan
      BY <2>9 DEF OtherDispatches, v, w, x, y, n
    <3> QED
      BY <1>1, <1>2, <1>3, <3>1
  <2>10. CASE /\ faults' = faults \cup {"serve"} /\ scan' = Idle
              /\ UNCHANGED <<cursor, queued, wakeup, seen, wakes, shown>>
    <3>1. v = w /\ y = x /\ n = queued /\ scan'.at # "agent"
      BY <1>4, <2>10 DEF v, w, x, y, n
    <3> QED
      BY <1>1, <1>2, <1>3, <3>1
  <2> QED
    BY <2>1, <2>2, <2>3, <2>4, <2>5, <2>6, <2>7, <2>8, <2>9, <2>10 DEF WakeMoves, Phase0
<1>6. MaxTasks \in Nat /\ MaxTasks >= 2
  BY AutoWakeAssumption
<1>7. queued' \in 0..MaxTasks
  <2>1. n <= MaxTasks
    BY <1>1, <1>2, <1>5, <1>6
  <2>2. n \in 0..MaxTasks
    BY <1>1, <1>6, <2>1
  <2> QED
    BY <2>2 DEF n
<1>8. Tasks'
  BY <1>5 DEF Tasks, Working, Extra, v, y, n
<1> QED
  BY <1>7, <1>8

\* A step moves the cursor only to where a wakeup is queued for, or began since.
LEMMA CoveredStep ==
  ASSUME TypeOK, Covered, WakeMoves, inbox' \in Seq(Mail)
  PROVE  Covered'
<1>1. queued \in Nat /\ queued' \in Nat /\ cursor \in 0..Len(inbox) /\ seen \in 0..Len(inbox) /\ scan.top \in 0..Len(inbox)
  BY WakeTyped DEF TypeOK, WakeTypeOK
<1>2. Idle.at = "idle"
  BY DEF Idle
<1>3. CASE ScanBegins
  <2>1. scan'.at # "cursor"
    BY <1>3 DEF ScanBegins, Idle
  <2> QED
    BY <1>3, <2>1 DEF ScanBegins, Covered
<1>4. CASE ScanAgent
  <2>1. CASE scan' = Idle /\ queued' = queued
    BY <1>2, <1>4, <2>1 DEF ScanAgent, Covered
  <2>2. CASE queued' = queued + 1
    <3>1. queued' > 0
      BY <1>1, <2>2
    <3> QED
      BY <3>1 DEF Covered
  <2> QED
    BY <1>4, <2>1, <2>2 DEF ScanAgent
<1>5. CASE ScanCursor
  BY <1>1, <1>2, <1>5 DEF ScanCursor, Covered
<1>6. CASE WakeupStarts
  BY <1>1, <1>6 DEF WakeupStarts, Covered
<1>7. CASE WorkerDies \/ OtherDispatches
  BY <1>1, <1>7 DEF WorkerDies, OtherDispatches, Covered
<1> QED
  BY <1>2, <1>3, <1>4, <1>5, <1>6, <1>7 DEF WakeMoves, Phase0, Inject, Watcher, PollReads, PollSettles, WakeupEnds, wakeVars, Covered

\* A step moves the cursor over every mail it woke the agent for.
LEMMA WokenStep ==
  ASSUME TypeOK, Woken, WakeMoves
  PROVE  Woken'
<1>1. cursor \in Nat /\ scan.top \in Nat /\ (\A i \in wakes : i \in Nat) /\ New \subseteq Nat
  BY DEF TypeOK, MailboxTypeOK, WakeTypeOK, Id, New, Page, Unread
<1>2. CASE ScanBegins /\ faults' = faults
  BY <1>2 DEF ScanBegins, Woken
<1>3. CASE ScanAgent /\ faults' = faults
  <2>1. CASE wakes' = wakes
    BY <1>3, <2>1 DEF ScanAgent, Woken
  <2>2. CASE wakes' # wakes
    <3>1. PICK top \in New : wakes' = wakes \cup {top} /\ scan' = [at |-> "cursor", busy |-> FALSE, top |-> top]
      BY <1>3, <2>2 DEF ScanAgent
    <3>2. scan'.at = "cursor" /\ scan'.top = top
      BY <3>1 DEF TypeOK, WakeTypeOK
    <3>3. top <= top
      BY <1>1
    <3> QED
      BY <1>3, <3>1, <3>2, <3>3 DEF ScanAgent, Woken
  <2> QED
    BY <2>1, <2>2
<1>4. CASE ScanCursor /\ faults' = faults
  BY <1>1, <1>4 DEF ScanCursor, Woken
<1> QED
  BY <1>2, <1>3, <1>4 DEF WakeMoves, Phase0, Inject, Watcher, PollReads, PollSettles, WakeupEnds, WakeupStarts,
     WorkerDies, OtherDispatches, wakeVars, Woken

\* The mails that were shown are behind the baseline and what is pending is before it.
LEMMA WatchedStep ==
  ASSUME TypeOK, Watched, InterruptSkipsNothing, WakeMoves, inbox' \in Seq(Mail)
  PROVE  Watched' /\ InterruptSkipsNothing'
<1>1. Len(inbox) \in Nat /\ Id = 1..Len(inbox)
  BY DEF TypeOK, MailboxTypeOK, Id
<1>2. /\ \A i \in shown : i \in Id
      /\ \A i \in wakeup.pending : i \in Id
      /\ \A i \in wakeup.poll : i \in Id
      /\ wakeup.baseline \in Nat /\ wakeup.baseline <= Len(inbox) /\ seen \in Nat
  BY <1>1 DEF TypeOK, WakeTypeOK
<1>3. /\ ~wakeup.on => wakeup.pending = {} /\ wakeup.poll = {}
      /\ wakeup.on => \A i \in shown : i <= wakeup.baseline
      /\ \A i \in wakeup.pending : wakeup.baseline < i
      /\ \A i \in wakeup.pending, j \in Id : wakeup.baseline < j /\ j <= i /\ High(j) => j \in wakeup.pending
      /\ \A i \in wakeup.poll, j \in Id : wakeup.baseline < j /\ j <= i => j \in wakeup.poll
  BY DEF Watched
<1>4. wakeup.on => \A i \in Id : seen < i /\ i <= wakeup.baseline /\ High(i) => i \in shown
  BY DEF InterruptSkipsNothing, High
<1>5. Asleep.on = FALSE /\ Asleep.pending = {} /\ Asleep.poll = {}
  BY DEF Asleep
<1>6. CASE UNCHANGED wakeVars /\ Longer
  <2>1. \A i \in DOMAIN inbox' : i <= Len(inbox) => i \in Id /\ inbox'[i] = inbox[i]
    <3>1. \A i \in DOMAIN inbox' : i \in Nat /\ 1 <= i
      BY DEF TypeOK, MailboxTypeOK
    <3> QED
      BY <1>1, <1>6, <3>1 DEF Longer
  <2>2. UNCHANGED <<wakeup, shown, seen>>
    BY <1>6 DEF wakeVars
  <2>3. \A j \in DOMAIN inbox', i \in Id : j <= i => j \in Id /\ inbox'[j] = inbox[j]
    BY <1>1, <2>1 DEF TypeOK, MailboxTypeOK
  <2>4. \A j \in DOMAIN inbox' : j <= wakeup.baseline => j \in Id /\ inbox'[j] = inbox[j]
    BY <1>1, <1>2, <2>1 DEF TypeOK, MailboxTypeOK
  <2> HIDE DEF Id
  <2>5. Watched'
    BY <1>2, <1>3, <2>2, <2>3 DEF Watched, Id, High
  <2>6. InterruptSkipsNothing'
    BY <1>4, <2>2, <2>4 DEF InterruptSkipsNothing, Id, High
  <2> QED
    BY <2>5, <2>6
<1> SUFFICES ASSUME inbox' = inbox PROVE Watched' /\ InterruptSkipsNothing'
  BY <1>6 DEF WakeMoves
<1>7. CASE UNCHANGED <<wakeup, shown, seen>>
  BY <1>7 DEF Watched, InterruptSkipsNothing, Id, High
<1>8. CASE wakeup' = Asleep
  BY <1>5, <1>8 DEF Watched, InterruptSkipsNothing
<1>9. CASE WakeupStarts
  <2>1. /\ wakeup'.on /\ wakeup'.pending = {} /\ wakeup'.poll = {} /\ wakeup'.baseline = Len(inbox)
        /\ seen' = Len(inbox) /\ shown' = {}
    BY <1>9 DEF WakeupStarts
  <2>2. \A i \in Id : ~(Len(inbox) < i)
    BY <1>1
  <2> QED
    BY <2>1, <2>2 DEF Watched, InterruptSkipsNothing, Id
<1>10. CASE Inject
  <2>1. PICK top \in wakeup.pending :
           /\ \A i \in wakeup.pending : i <= top
           /\ wakeup' = [on |-> TRUE, pending |-> {}, poll |-> wakeup.poll,
                         baseline |-> IF top > wakeup.baseline THEN top ELSE wakeup.baseline]
    BY <1>10 DEF Inject
  <2>2. wakeup.baseline < top /\ top \in Id
    BY <1>2, <1>3
  <2>3. /\ wakeup'.on /\ wakeup'.pending = {} /\ wakeup'.poll = wakeup.poll /\ wakeup'.baseline = top
        /\ seen' = seen /\ shown' = shown \cup wakeup.pending /\ wakeup.on
    BY <1>1, <1>2, <1>10, <2>1, <2>2 DEF Inject
  <2>4. \A i \in shown' : i <= top
    BY <1>1, <1>2, <1>3, <2>1, <2>2, <2>3
  <2>5. \A i \in wakeup.poll, j \in Id : top < j /\ j <= i => j \in wakeup.poll
    BY <1>1, <1>2, <1>3, <2>2
  <2>6. \A i \in Id : seen < i /\ i <= top /\ High(i) => i \in shown'
    <3>1. ASSUME NEW i \in Id, seen < i, i <= top, High(i) PROVE i \in shown \cup wakeup.pending
      <4>1. CASE i <= wakeup.baseline
        BY <1>4, <2>3, <3>1, <4>1
      <4>2. CASE wakeup.baseline < i
        BY <1>3, <3>1, <4>2
      <4> QED
        BY <1>1, <1>2, <4>1, <4>2
    <3> QED
      BY <2>3, <3>1
  <2> HIDE DEF Id
  <2>7. Watched'
    BY <2>3, <2>4, <2>5 DEF Watched, Id
  <2>8. InterruptSkipsNothing'
    BY <2>3, <2>6 DEF InterruptSkipsNothing, Id, High
  <2> QED
    BY <2>7, <2>8
<1>11. CASE PollReads
  <2>1. /\ wakeup'.on = wakeup.on /\ wakeup'.pending = wakeup.pending /\ wakeup'.baseline = wakeup.baseline
        /\ wakeup'.poll = {i \in {k \in Id : k > wakeup.baseline} : i <= wakeup.baseline + WatchPage}
        /\ UNCHANGED <<seen, shown>> /\ wakeup.on
    BY <1>11 DEF PollReads, TypeOK, WakeTypeOK
  <2>2. \A i \in wakeup'.poll, j \in Id : wakeup.baseline < j /\ j <= i => j \in wakeup'.poll
    <3>1. WatchPage \in Nat
      BY AutoWakeAssumption
    <3> QED
      BY <1>1, <1>2, <2>1, <3>1
  <2> HIDE DEF Id
  <2>3. Watched'
    BY <1>3, <2>1, <2>2 DEF Watched, Id, High
  <2>4. InterruptSkipsNothing'
    BY <1>4, <2>1 DEF InterruptSkipsNothing, Id, High
  <2> QED
    BY <2>3, <2>4
<1>12. CASE PollSettles
  <2>1. /\ wakeup'.on = wakeup.on /\ wakeup'.poll = {} /\ wakeup'.baseline = wakeup.baseline
        /\ UNCHANGED <<seen, shown>> /\ wakeup.on
        /\ \/ wakeup'.pending = wakeup.pending
           \/ wakeup'.pending = {i \in wakeup.poll : i > wakeup.baseline /\ Rank[inbox[i].urgency] >= Rank["high"]}
    BY <1>12 DEF PollSettles, TypeOK, WakeTypeOK
  <2>2. CASE wakeup'.pending = wakeup.pending
    BY <1>3, <1>4, <2>1, <2>2 DEF Watched, InterruptSkipsNothing, Id, High
  <2>3. CASE wakeup'.pending = {i \in wakeup.poll : i > wakeup.baseline /\ High(i)}
    <3>1. \A i \in wakeup'.pending : wakeup.baseline < i
      BY <1>1, <1>2, <2>3
    <3>2. ASSUME NEW i \in wakeup'.pending, NEW j \in Id, wakeup.baseline < j, j <= i, High(j)
          PROVE  j \in wakeup'.pending
      <4>1. j \in wakeup.poll
        BY <1>3, <2>3, <3>2
      <4>2. j > wakeup.baseline
        BY <1>1, <1>2, <3>2
      <4> HIDE DEF Id
      <4> QED
        BY <2>3, <3>2, <4>1, <4>2
    <3> HIDE DEF Id
    <3>3. Watched'
      BY <1>3, <2>1, <3>1, <3>2 DEF Watched, Id, High
    <3>4. InterruptSkipsNothing'
      BY <1>4, <2>1 DEF InterruptSkipsNothing, Id, High
    <3> QED
      BY <3>3, <3>4
  <2> QED
    BY <2>1, <2>2, <2>3 DEF High
<1> QED
  BY <1>6, <1>7, <1>8, <1>9, <1>10, <1>11, <1>12 DEF WakeMoves, Phase0, ScanBegins, ScanAgent, ScanCursor, Watcher,
     WakeupEnds, WorkerDies, OtherDispatches, wakeVars

-----------------------------------------------------------------------------
(* Scheduled mail. *)

SchedRow   == [status: Status, count: Nat, np: Nat, failures: 0..MailQuarantineAfter]
DeliverRow == [at: {"idle", "next", "mark", "bounce", "raised", "notice"},
               todo: Seq(Sched), np: Nat, stop: BOOLEAN]

\* After takes one row out of due, and no other.
LEMMA AfterIs ==
  ASSUME due \in Seq(Sched), Once(due), NEW r \in Sched
  PROVE  /\ After(r) \in Seq(Sched) /\ Once(After(r))
         /\ \A j \in DOMAIN After(r) : After(r)[j] # r /\ \E k \in DOMAIN due : After(r)[j] = due[k]
<1>1. CASE \A i \in DOMAIN due : due[i] # r
  <2>1. After(r) = due
    BY <1>1 DEF After
  <2> QED
    BY <1>1, <2>1
<1>2. CASE ~\A i \in DOMAIN due : due[i] # r
  <2> DEFINE place == {i \in DOMAIN due : due[i] = r}
             i == CHOOSE k \in place : TRUE
  <2>1. place # {} /\ i \in place
    BY <1>2
  <2>2. After(r) = SubSeq(due, 1, i - 1) \o SubSeq(due, i + 1, Len(due))
    BY <2>1 DEF After
  <2>3. i \in DOMAIN due /\ due[i] = r
    BY <2>1
  <2> HIDE DEF place, i
  <2>4. /\ After(r) \in Seq(Sched) /\ DOMAIN After(r) = 1..Len(due) - 1
        /\ \A j \in DOMAIN After(r) : After(r)[j] = due[IF j < i THEN j ELSE j + 1]
    <3>1. After(r) = Without(due, i)
      BY <2>2 DEF Without
    <3> QED
      BY <2>3, <3>1, SeqDrop
  <2>5. DOMAIN due = 1..Len(due) /\ Len(due) \in Nat
    OBVIOUS
  <2>6. \A j \in DOMAIN After(r) : /\ (IF j < i THEN j ELSE j + 1) \in DOMAIN due
                                   /\ (IF j < i THEN j ELSE j + 1) # i
    BY <2>3, <2>4, <2>5
  <2>7. \A j, k \in DOMAIN After(r) : (IF j < i THEN j ELSE j + 1) = (IF k < i THEN k ELSE k + 1) => j = k
    BY <2>3, <2>4, <2>5
  <2>8. \A j \in DOMAIN After(r) : After(r)[j] # r /\ \E k \in DOMAIN due : After(r)[j] = due[k]
    BY <2>3, <2>4, <2>6 DEF Once
  <2>9. Once(After(r))
    BY <2>4, <2>6, <2>7 DEF Once
  <2> QED
    BY <2>4, <2>8, <2>9
<1> QED
  BY <1>1, <1>2

\* What is left of the page does not have the row that was served.
LEMMA OnwardIs ==
  ASSUME SchedTypeOK, Listed, deliver.at # "idle", Onward
  PROVE  /\ deliver' \in DeliverRow /\ deliver'.at \in {"idle", "next"}
         /\ deliver'.at = "next" => deliver'.todo # <<>>
         /\ Once(deliver'.todo)
         /\ \A j \in DOMAIN deliver'.todo :
               deliver'.todo[j] # Now /\ \E k \in DOMAIN deliver.todo : deliver'.todo[j] = deliver.todo[k]
<1>1. CASE Len(deliver.todo) = 1
  <2>1. deliver' = Resting
    BY <1>1 DEF Onward
  <2>2. /\ Resting.at = "idle" /\ Resting.todo = <<>> /\ Resting \in DeliverRow
        /\ DOMAIN <<>> = {}
    BY DEF Resting, DeliverRow
  <2> QED
    BY <2>1, <2>2 DEF Once
<1>2. CASE Len(deliver.todo) # 1
  <2>1. deliver' = Serving(Tail(deliver.todo))
    BY <1>2 DEF Onward
  <2>2. /\ Tail(deliver.todo) \in Seq(Sched) /\ 1 \in DOMAIN deliver.todo /\ Now = deliver.todo[1]
        /\ DOMAIN Tail(deliver.todo) = 1..(Len(deliver.todo) - 1)
        /\ \A i \in DOMAIN Tail(deliver.todo) :
              i + 1 \in DOMAIN deliver.todo /\ Tail(deliver.todo)[i] = deliver.todo[i + 1]
        /\ Tail(deliver.todo) # <<>>
    BY <1>2, Serves
  <2>3. deliver' \in DeliverRow /\ deliver'.at = "next" /\ deliver'.todo = Tail(deliver.todo)
    BY <2>1, <2>2 DEF Serving, DeliverRow
  <2>4. \A i, j \in DOMAIN deliver.todo : deliver.todo[i] = deliver.todo[j] => i = j
    BY DEF Listed, Once
  <2>5. \A i \in DOMAIN Tail(deliver.todo) : i \in Int /\ i + 1 # 1
    BY <2>2
  <2>6. \A i \in DOMAIN Tail(deliver.todo) : Tail(deliver.todo)[i] # Now
    BY <2>2, <2>4, <2>5
  <2>7. Once(Tail(deliver.todo))
    <3>1. \A i, j \in DOMAIN Tail(deliver.todo) : i + 1 = j + 1 => i = j
      BY <2>5
    <3> QED
      BY <2>2, <2>4, <3>1 DEF Once
  <2> QED
    BY <2>2, <2>3, <2>6, <2>7
<1> QED
  BY <1>1, <1>2

\* What a step does to the rows.
LEMMA RowsMove ==
  ASSUME SchedTypeOK, Rows, Listed, SchedMoves
  PROVE  /\ sched' \in [Sched -> SchedRow] /\ Rows'
         /\ \A q \in Sched : sched'[q].status = sched[q].status \/ sched'[q].status # "pending"
         /\ \A q \in Sched : ~(MarkDelivered /\ q = Now) => sched'[q].count = sched[q].count /\ sched'[q].np = sched[q].np
         /\ MarkDelivered => /\ sched'[Now].count = sched[Now].count + 1
                             /\ sched'[Now].np = IF MaxNoProgress[Now] # 0 THEN deliver.np ELSE sched[Now].np
                             /\ deliver.stop => sched'[Now].status = "completed"
<1> USE DEF SchedRow
<1>1. sched \in [Sched -> SchedRow] /\ deliver \in DeliverRow
  BY DEF SchedTypeOK, DeliverRow
<1>2. MailQuarantineAfter \in Nat /\ MailQuarantineAfter > 0
  BY ScheduledMailAssumption
<1>3. \A q \in Sched : sched[q].status = "pending" => sched[q].failures < MailQuarantineAfter
  BY DEF Rows
<1>4. CASE sched' = sched /\ ~MarkDelivered
  BY <1>1, <1>4 DEF Rows
<1>5. ASSUME NEW r \in Sched, NEW status \in Status, status # "pending", sched' = [sched EXCEPT ![r].status = status],
             ~MarkDelivered
      PROVE  /\ sched' \in [Sched -> SchedRow] /\ Rows'
             /\ \A q \in Sched : sched'[q].status = sched[q].status \/ sched'[q].status # "pending"
             /\ \A q \in Sched : sched'[q].count = sched[q].count /\ sched'[q].np = sched[q].np
  <2>1. sched' \in [Sched -> SchedRow]
    BY <1>1, <1>5
  <2>2. /\ sched'[r].status = status /\ \A q \in Sched \ {r} : sched'[q] = sched[q]
        /\ sched'[r].count = sched[r].count /\ sched'[r].np = sched[r].np
    BY <1>1, <1>5
  <2> QED
    BY <1>3, <1>5, <2>1, <2>2 DEF Rows
<1>6. CASE MarkDelivered
  <2>1. PICK completed \in BOOLEAN : /\ sched' = [sched EXCEPT ![Now] = Marked(Now, completed)]
                                     /\ deliver.stop => completed
    BY <1>6 DEF MarkDelivered
  <2>2. Now \in Sched
    BY <1>6, Serves DEF MarkDelivered
  <2>3. /\ Marked(Now, completed) \in SchedRow
        /\ Marked(Now, completed).count = sched[Now].count + 1
        /\ Marked(Now, completed).np = (IF MaxNoProgress[Now] # 0 THEN deliver.np ELSE sched[Now].np)
        /\ Marked(Now, completed).failures = 0
        /\ completed => Marked(Now, completed).status = "completed"
        /\ ~completed => Marked(Now, completed).status = sched[Now].status
    BY <1>1, <1>2, <2>2 DEF Marked, DeliverRow, Status
  <2>4. sched'[Now] = Marked(Now, completed) /\ \A q \in Sched \ {Now} : sched'[q] = sched[q]
    BY <1>1, <2>1, <2>2
  <2>5. sched' \in [Sched -> SchedRow]
    BY <1>1, <2>1, <2>2, <2>3
  <2>6. Rows'
    BY <1>2, <1>3, <2>3, <2>4 DEF Rows
  <2> QED
    BY <1>6, <2>1, <2>3, <2>4, <2>5, <2>6
<1>7. CASE RecordFailure
  <2>1. CASE sched' = sched
    BY <1>4, <1>7, <2>1 DEF RecordFailure, MarkDelivered
  <2> DEFINE quarantined == sched[Now].failures + 1 >= MailQuarantineAfter
  <2>2. CASE sched' # sched
    <3>1. /\ sched' = [sched EXCEPT ![Now] = Failed(Now, quarantined)]
          /\ sched[Now].status = "pending"
      BY <1>7, <2>2 DEF RecordFailure
    <3>2. Now \in Sched /\ ~MarkDelivered
      BY <1>7, Serves DEF RecordFailure, MarkDelivered
    <3>3. sched[Now].failures \in Nat /\ sched[Now].failures < MailQuarantineAfter
      BY <1>1, <1>3, <3>1, <3>2
    <3>4. /\ Failed(Now, quarantined) \in SchedRow
          /\ Failed(Now, quarantined).count = sched[Now].count /\ Failed(Now, quarantined).np = sched[Now].np
          /\ Failed(Now, quarantined).failures = sched[Now].failures + 1
          /\ Failed(Now, quarantined).status = IF quarantined THEN "quarantined" ELSE "pending"
      BY <1>1, <1>2, <3>1, <3>2, <3>3 DEF Failed, Status
    <3>5. sched'[Now] = Failed(Now, quarantined) /\ \A q \in Sched \ {Now} : sched'[q] = sched[q]
      BY <1>1, <3>1, <3>2
    <3>6. sched' \in [Sched -> SchedRow]
      BY <1>1, <3>1, <3>2, <3>4
    <3>7. Rows'
      BY <1>2, <1>3, <3>3, <3>4, <3>5 DEF Rows
    <3> QED
      BY <3>1, <3>2, <3>4, <3>5, <3>6, <3>7
  <2> QED
    BY <2>1, <2>2
<1>8. CASE MarkBounced
  <2>1. Now \in Sched /\ ~MarkDelivered /\ sched' = [sched EXCEPT ![Now].status = "bounced"]
    BY <1>8, Serves DEF MarkBounced, MarkDelivered
  <2> QED
    BY <1>5, <2>1 DEF Status
<1>9. ASSUME NEW r \in Sched, Cancel(r), ~MarkDelivered
      PROVE  /\ sched' \in [Sched -> SchedRow] /\ Rows'
             /\ \A q \in Sched : sched'[q].status = sched[q].status \/ sched'[q].status # "pending"
             /\ \A q \in Sched : sched'[q].count = sched[q].count /\ sched'[q].np = sched[q].np
  BY <1>5, <1>9 DEF Cancel, Status
<1> QED
  BY <1>4, <1>6, <1>7, <1>8, <1>9 DEF SchedMoves, Phase_1, FindReady, Deliver, Bounce, DeliveryRaises,
     QuarantineNotice, FallsDue

\* What a step does to the rows that are due.
LEMMA DueMoves ==
  ASSUME SchedTypeOK, Listed, SchedMoves
  PROVE  /\ due' \in Seq(Sched) /\ Once(due')
         /\ \A j \in DOMAIN due' : \/ \E k \in DOMAIN due : due'[j] = due[k]
                                   \/ due'[j] \in Sched /\ sched[due'[j]].status = "pending" /\ ~MarkDelivered
         /\ MarkDelivered => \A j \in DOMAIN due' : due'[j] # Now
<1>1. due \in Seq(Sched) /\ Once(due)
  BY DEF SchedTypeOK, Listed
<1>2. CASE due' = due /\ ~MarkDelivered
  BY <1>1, <1>2 DEF Once
<1>3. ASSUME NEW r \in Sched, due' = After(r), MarkDelivered => r = Now
      PROVE  /\ due' \in Seq(Sched) /\ Once(due')
             /\ \A j \in DOMAIN due' : \E k \in DOMAIN due : due'[j] = due[k]
             /\ MarkDelivered => \A j \in DOMAIN due' : due'[j] # Now
  BY <1>1, <1>3, AfterIs DEF Once
<1>4. ASSUME NEW r \in Sched, FallsDue(r), ~MarkDelivered
      PROVE  /\ due' \in Seq(Sched) /\ Once(due')
             /\ \A j \in DOMAIN due' : \/ \E k \in DOMAIN due : due'[j] = due[k]
                                       \/ due'[j] = r /\ sched[r].status = "pending"
  <2>1. due' = Append(due, r) /\ \A i \in DOMAIN due : due[i] # r
    BY <1>4 DEF FallsDue
  <2>2. /\ due' \in Seq(Sched) /\ DOMAIN due' = DOMAIN due \cup {Len(due) + 1}
        /\ due'[Len(due) + 1] = r /\ \A j \in DOMAIN due : due'[j] = due[j]
    BY <1>1, <2>1, SeqAdd
  <2>3. Once(due')
    BY <1>1, <2>1, <2>2 DEF Once
  <2> QED
    BY <1>4, <2>2, <2>3 DEF FallsDue
<1>5. deliver.at # "idle" => Now \in Sched
  BY Serves
<1>6. CASE MarkDelivered
  BY <1>3, <1>5, <1>6 DEF MarkDelivered
<1>7. CASE MarkBounced \/ RecordFailure
  BY <1>2, <1>3, <1>5, <1>7 DEF MarkBounced, RecordFailure, MarkDelivered
<1>8. ASSUME NEW r \in Sched, Cancel(r), ~MarkDelivered
      PROVE  /\ due' \in Seq(Sched) /\ Once(due')
             /\ \A j \in DOMAIN due' : \E k \in DOMAIN due : due'[j] = due[k]
  BY <1>3, <1>8 DEF Cancel
<1> QED
  BY <1>2, <1>4, <1>6, <1>7, <1>8 DEF SchedMoves, Phase_1, FindReady, Deliver, Bounce, DeliveryRaises, QuarantineNotice

\* What a step does to the page of rows that is being served.
LEMMA PageMoves ==
  ASSUME SchedTypeOK, Listed, SchedMoves
  PROVE  /\ deliver' \in DeliverRow /\ Once(deliver'.todo)
         /\ deliver'.at # "idle" => deliver'.todo # <<>>
         /\ \A j \in DOMAIN deliver'.todo : \/ \E k \in DOMAIN deliver.todo : deliver'.todo[j] = deliver.todo[k]
                                            \/ (\E k \in DOMAIN due : deliver'.todo[j] = due[k]) /\ ~MarkDelivered
         /\ MarkDelivered => \A j \in DOMAIN deliver'.todo : deliver'.todo[j] # Now
         /\ deliver'.at = "mark" => \/ deliver' = deliver /\ ~MarkDelivered
                                    \/ Deliver
<1>1. /\ deliver \in DeliverRow /\ due \in Seq(Sched) /\ Once(due) /\ Once(deliver.todo)
      /\ deliver.at # "idle" => deliver.todo # <<>>
  BY DEF SchedTypeOK, Listed, DeliverRow
<1>2. CASE deliver' = deliver /\ ~MarkDelivered
  BY <1>1, <1>2
<1>3. CASE deliver' = Resting /\ ~MarkDelivered
  <2>1. /\ Resting.at = "idle" /\ Resting.todo = <<>> /\ Resting \in DeliverRow
        /\ DOMAIN <<>> = {}
    BY DEF Resting, DeliverRow
  <2> QED
    BY <1>3, <2>1 DEF Once
<1>4. CASE FindReady
  <2> DEFINE n == IF Len(due) < SchedLimit THEN Len(due) ELSE SchedLimit
             page == SubSeq(due, 1, n)
  <2>1. /\ n \in Nat /\ n <= Len(due) /\ n > 0 /\ 1 \in Int /\ n - 1 + 1 = n /\ DOMAIN due = 1..Len(due)
        /\ Len(due) \in Nat
    <3>1. Len(due) \in Nat /\ (Len(due) = 0 <=> due = <<>>)
      BY <1>1, EmptySeq
    <3> QED
      BY <1>1, <1>4, <3>1, ScheduledMailAssumption DEF FindReady
  <2> HIDE DEF n
  <2>2. \A i \in 1..n : i \in DOMAIN due /\ due[i] \in Sched
    BY <1>1, <2>1
  <2>3. page \in Seq(Sched) /\ Len(page) = n /\ \A i \in 1..n : page[i] = due[i]
    <3>1. /\ page \in Seq(Sched) /\ Len(page) = IF 1 <= n THEN n - 1 + 1 ELSE 0
          /\ \A i \in 1..n - 1 + 1 : page[i] = due[1 + i - 1]
      BY <2>1, <2>2, SubSeqProperties
    <3> HIDE DEF page
    <3>2. ASSUME NEW i \in 1..n PROVE page[i] = due[i]
      <4>1. 1 + i - 1 = i
        OBVIOUS
      <4> QED
        BY <2>1, <3>1, <4>1
    <3> QED
      BY <2>1, <3>1, <3>2
  <2> HIDE DEF page
  <2>4. deliver' = Serving(page)
    BY <1>4 DEF FindReady, page, n
  <2>5. DOMAIN page = 1..n /\ page # <<>>
    <3>1. Len(page) = 0 <=> page = <<>>
      BY <2>3, EmptySeq
    <3> QED
      BY <2>1, <2>3, <3>1
  <2>6. Once(page)
    BY <1>1, <2>2, <2>3, <2>5 DEF Once
  <2>7. deliver' \in DeliverRow /\ deliver'.at = "next" /\ deliver'.todo = page
    BY <2>3, <2>4 DEF Serving, DeliverRow
  <2>8. ~MarkDelivered
    BY <1>4 DEF FindReady, MarkDelivered
  <2> QED
    BY <2>2, <2>3, <2>5, <2>6, <2>7, <2>8
<1>5. CASE Deliver
  <2>1. Now \in Sched /\ ~MarkDelivered /\ deliver.at # "idle"
    BY <1>5, Serves DEF Deliver, MarkDelivered
  <2>2. NoProgress(Now) \in Nat
    BY <2>1 DEF NoProgress, SchedTypeOK
  <2>3. deliver' = [deliver EXCEPT !.at = "mark", !.np = NoProgress(Now), !.stop = LoopFinal(Now) \/ NoProgressFinal(Now)]
    BY <1>5 DEF Deliver
  <2>4. deliver' \in DeliverRow /\ deliver'.todo = deliver.todo
    BY <1>1, <2>2, <2>3 DEF DeliverRow, LoopFinal, NoProgressFinal
  <2> QED
    BY <1>1, <1>5, <2>1, <2>4
<1>6. ASSUME NEW at \in {"bounce", "raised", "notice"}, deliver' = [deliver EXCEPT !.at = at], deliver.at # "idle",
             ~MarkDelivered
      PROVE  /\ deliver' \in DeliverRow /\ deliver'.todo = deliver.todo
             /\ deliver'.at # "mark" /\ deliver'.todo # <<>>
  BY <1>1, <1>6 DEF DeliverRow
<1>7. CASE Bounce \/ DeliveryRaises
  <2>1. PICK at \in {"bounce", "raised", "notice"} : deliver' = [deliver EXCEPT !.at = at]
    BY <1>7 DEF Bounce, DeliveryRaises
  <2>2. deliver.at # "idle"
    BY <1>7 DEF Bounce, DeliveryRaises
  <2>3. ~MarkDelivered
    <3>1. CASE Bounce
      BY <3>1 DEF Bounce, MarkDelivered
    <3>2. CASE DeliveryRaises
      <4>1. deliver'.at = "raised"
        BY <1>1, <3>2 DEF DeliveryRaises, DeliverRow
      <4>2. Onward /\ deliver.at # "idle" => deliver'.at \in {"idle", "next"}
        BY OnwardIs
      <4> QED
        BY <2>2, <4>1, <4>2 DEF MarkDelivered
    <3> QED
      BY <1>7, <3>1, <3>2
  <2>4. /\ deliver' \in DeliverRow /\ deliver'.todo = deliver.todo
        /\ deliver'.at # "mark" /\ deliver'.todo # <<>>
    BY <1>6, <2>1, <2>2, <2>3
  <2> QED
    BY <1>1, <2>3, <2>4
<1>8. CASE RecordFailure /\ deliver' = [deliver EXCEPT !.at = "notice"]
  BY <1>1, <1>6, <1>8 DEF RecordFailure, MarkDelivered
<1>9. CASE Onward /\ deliver.at # "idle"
  BY <1>9, OnwardIs
<1> QED
  BY <1>2, <1>3, <1>4, <1>5, <1>7, <1>8, <1>9 DEF SchedMoves, Phase_1, FallsDue, Cancel, MarkDelivered, MarkBounced,
     RecordFailure, QuarantineNotice

\* What mark_delivered is about to write was decided by a delivery of the same row.
LEMMA UnderMark ==
  ASSUME SchedTypeOK, Rows, Listed, SchedMoves, deliver'.at = "mark"
  PROVE  /\ Now \in Sched /\ Now' = Now
         /\ \A q \in Sched : sched'[q].count = sched[q].count /\ sched'[q].np = sched[q].np
         /\ \/ deliver.at = "mark" /\ deliver'.np = deliver.np /\ deliver'.stop = deliver.stop
            \/ /\ Deliver
               /\ deliver'.np = NoProgress(Now) /\ deliver'.stop = (LoopFinal(Now) \/ NoProgressFinal(Now))
<1>1. CASE deliver' = deliver /\ ~MarkDelivered
  BY <1>1, Serves, RowsMove DEF Now
<1>2. CASE Deliver
  <2>1. /\ deliver'.todo = deliver.todo
        /\ deliver'.np = NoProgress(Now) /\ deliver'.stop = (LoopFinal(Now) \/ NoProgressFinal(Now))
    BY <1>2 DEF Deliver, SchedTypeOK
  <2>2. Now' = Now
    BY <2>1 DEF Now
  <2>3. sched' = sched
    BY <1>2 DEF Deliver
  <2> QED
    BY <1>2, <2>1, <2>2, <2>3, Serves DEF Deliver
<1> QED
  BY <1>1, <1>2, PageMoves

\* A step lists no row twice, and none whose budget is spent.
LEMMA ListedStep ==
  ASSUME SchedTypeOK, Rows, Listed, SchedMoves
  PROVE  Listed'
<1>1. /\ \A i \in DOMAIN due : due[i] \in Sched /\ Open(due[i])
      /\ \A i \in DOMAIN deliver.todo : deliver.todo[i] \in Sched /\ Open(deliver.todo[i])
      /\ \A r \in Sched : sched[r].status = "pending" => Open(r)
  BY DEF Listed, AllOpen, SchedTypeOK
<1>2. \A r \in Sched : Open(r) /\ ~(MarkDelivered /\ r = Now) => Open(r)'
  BY RowsMove DEF Open
<1>3. AllOpen(due)'
  <2>1. \A j \in DOMAIN due' : due'[j] \in Sched /\ Open(due'[j]) /\ ~(MarkDelivered /\ due'[j] = Now)
    BY <1>1, DueMoves
  <2> QED
    BY <1>2, <2>1 DEF AllOpen, Open
<1>4. AllOpen(deliver.todo)'
  <2>1. \A j \in DOMAIN deliver'.todo :
           deliver'.todo[j] \in Sched /\ Open(deliver'.todo[j]) /\ ~(MarkDelivered /\ deliver'.todo[j] = Now)
    BY <1>1, PageMoves
  <2> QED
    BY <1>2, <2>1 DEF AllOpen, Open
<1>5. ASSUME NEW r \in Sched, sched'[r].status = "pending" PROVE Open(r)'
  <2>1. sched[r].status = "pending"
    BY <1>5, RowsMove
  <2>2. CASE MarkDelivered /\ r = Now
    <3>1. ~LoopFinal(r)
      BY <1>5, <2>2, RowsMove DEF Listed, MarkDelivered
    <3>2. sched'[r].count = sched[r].count + 1
      BY <2>2, RowsMove
    <3>3. sched[r].count \in Nat /\ MaxOccurrences[r] \in Nat
      BY ScheduledMailAssumption DEF SchedTypeOK
    <3> QED
      BY <3>1, <3>2, <3>3 DEF LoopFinal, Open
  <2> QED
    BY <1>1, <1>2, <2>1, <2>2
<1>6. ASSUME deliver'.at = "mark", LoopFinal(Now)' PROVE deliver'.stop
  <2>1. LoopFinal(Now)
    BY <1>6, UnderMark DEF LoopFinal
  <2>2. CASE deliver.at = "mark" /\ deliver'.stop = deliver.stop
    BY <2>1, <2>2 DEF Listed
  <2> QED
    BY <1>6, <2>1, <2>2, UnderMark
<1>7. Once(due') /\ Once(deliver'.todo) /\ (deliver'.at # "idle" => deliver'.todo # <<>>)
  BY DueMoves, PageMoves
<1> QED
  BY <1>3, <1>4, <1>5, <1>6, <1>7 DEF Listed, Once

\* What a step adds to the mailbox.
LEMMA MailMoves ==
  ASSUME TypeOK, Listed, SchedMoves
  PROVE  LET m == Occurrence(Now, "sched", LoopFinal(Now) \/ NoProgressFinal(Now))
             f == Occurrence(Now, "final", TRUE)
         IN  /\ \A i \in DOMAIN inbox' \ Id :
                   \/ inbox'[i].kind = "sent" /\ inbox'[i].row = NoSched
                   \/ Deliver /\ inbox'[i] = m /\ Delivered(m) = {}
                   \/ Deliver /\ inbox'[i] = f
             /\ \A i, j \in DOMAIN inbox' \ Id : i = j
             /\ Deliver /\ Delivered(m) = {} => \E i \in DOMAIN inbox' : inbox'[i] = m
             /\ Deliver /\ Delivered(m) # {} /\ NoProgressFinal(Now) /\ Delivered(f) = {} =>
                   \E i \in DOMAIN inbox' : inbox'[i] = f
<1> DEFINE m == Occurrence(Now, "sched", LoopFinal(Now) \/ NoProgressFinal(Now))
           f == Occurrence(Now, "final", TRUE)
<1>1. inbox \in Seq(Mail) /\ SchedTypeOK
  BY DEF TypeOK, MailboxTypeOK
<1>2. CASE inbox' = inbox /\ ~Deliver
  BY <1>2 DEF Id
<1>3. CASE (\E urgency \in Urgency : Insert(Sent(urgency))) /\ deliver' = deliver
  <2>1. PICK urgency \in Urgency : Insert(Sent(urgency))
    BY <1>3
  <2>2. Sent(urgency) \in Mail /\ Sent(urgency).kind = "sent" /\ Sent(urgency).row = NoSched
    BY MailsTyped DEF Sent
  <2>3. /\ \A i \in DOMAIN inbox' \ Id : inbox'[i] = Sent(urgency)
        /\ \A i, j \in DOMAIN inbox' \ Id : i = j
    BY <1>1, <2>1, <2>2, Inserts
  <2>4. ~Deliver
    BY <1>1, <1>3 DEF Deliver, SchedTypeOK
  <2> QED
    BY <2>2, <2>3, <2>4
<1>4. CASE Deliver
  <2>1. m \in Mail /\ f \in Mail
    <3>1. Now \in Sched
      BY <1>1, <1>4, Serves DEF Deliver
    <3> QED
      BY <1>1, <3>1, MailsTyped DEF LoopFinal, NoProgressFinal
  <2>2. IF Delivered(m) # {} /\ NoProgressFinal(Now) THEN Insert(f) ELSE Insert(m)
    BY <1>4 DEF Deliver
  <2> HIDE DEF m, f
  <2>3. /\ \A i \in DOMAIN inbox' \ Id :
              \/ inbox'[i] = m /\ Delivered(m) = {}
              \/ inbox'[i] = f
        /\ \A i, j \in DOMAIN inbox' \ Id : i = j
        /\ Delivered(m) = {} => \E i \in DOMAIN inbox' : inbox'[i] = m
        /\ Delivered(m) # {} /\ NoProgressFinal(Now) /\ Delivered(f) = {} => \E i \in DOMAIN inbox' : inbox'[i] = f
    <3>1. CASE Delivered(m) # {} /\ NoProgressFinal(Now)
      <4>1. Insert(f)
        BY <2>2, <3>1
      <4>2. /\ \A i \in DOMAIN inbox' \ Id : inbox'[i] = f /\ Delivered(f) = {}
            /\ Delivered(f) = {} => \E i \in DOMAIN inbox' : inbox'[i] = f
            /\ \A i, j \in DOMAIN inbox' \ Id : i = j
        BY <1>1, <2>1, <4>1, Inserts
      <4> QED
        BY <3>1, <4>2
    <3>2. CASE ~(Delivered(m) # {} /\ NoProgressFinal(Now))
      <4>1. Insert(m)
        BY <2>2, <3>2
      <4>2. /\ \A i \in DOMAIN inbox' \ Id : inbox'[i] = m /\ Delivered(m) = {}
            /\ Delivered(m) = {} => \E i \in DOMAIN inbox' : inbox'[i] = m
            /\ \A i, j \in DOMAIN inbox' \ Id : i = j
        BY <1>1, <2>1, <4>1, Inserts
      <4> QED
        BY <3>2, <4>2
    <3> QED
      BY <3>1, <3>2
  <2> QED
    BY <1>4, <2>3 DEF m, f
<1> QED
  BY <1>2, <1>3, <1>4 DEF SchedMoves, Phase_1, FindReady, MarkDelivered, Bounce, MarkBounced, DeliveryRaises,
     RecordFailure, QuarantineNotice, FallsDue, Cancel, mailboxVars

\* A step adds the occurrence that is next, and counts only what arrived.
LEMMA ArrivedStep ==
  ASSUME TypeOK, Rows, Listed, Arrived, SchedMoves
  PROVE  Arrived'
<1> DEFINE m == Occurrence(Now, "sched", LoopFinal(Now) \/ NoProgressFinal(Now))
           f == Occurrence(Now, "final", TRUE)
<1>1. SchedTypeOK /\ Longer
  BY SchedGrows DEF TypeOK
<1>2. /\ \A i \in DOMAIN inbox' \ Id :
            \/ inbox'[i].kind = "sent"
            \/ Deliver /\ inbox'[i] = m /\ Delivered(m) = {}
            \/ inbox'[i] = f
      /\ \A i, j \in DOMAIN inbox' \ Id : i = j
      /\ Deliver /\ Delivered(m) = {} => \E i \in DOMAIN inbox' : inbox'[i] = m
  BY MailMoves
<1>3. m.kind = "sched" /\ m.row = Now /\ m.occ = sched[Now].count /\ f.kind = "final"
  BY DEF Occurrence
<1>4. \A i \in Id : i \in DOMAIN inbox' /\ inbox'[i] = inbox[i]
  BY <1>1 DEF Longer
<1> HIDE DEF m, f
<1>5. \A i \in DOMAIN inbox' \ Id : inbox'[i].kind = "sched" => Deliver /\ inbox'[i] = m /\ Delivered(m) = {}
  BY <1>2, <1>3
<1>6. \A r \in Sched : sched[r].count \in Nat
  BY <1>1 DEF SchedTypeOK
<1>7. Deliver => Now \in Sched /\ Open(Now) /\ sched' = sched
  <2>1. Deliver => Now \in Sched /\ 1 \in DOMAIN deliver.todo /\ Now = deliver.todo[1]
    BY <1>1, Serves DEF Deliver
  <2> QED
    BY <2>1 DEF Listed, AllOpen, Deliver
<1>8. ASSUME NEW r \in Sched, NEW n \in 0..(sched'[r].count - 1)
      PROVE  \E i \in DOMAIN inbox' : inbox'[i].kind = "sched" /\ inbox'[i].row = r /\ inbox'[i].occ = n
  <2>1. \E i \in Id : IsOccurrence(i, r, n)
    <3>1. CASE MarkDelivered /\ r = Now
      <4>1. sched'[r].count = sched[r].count + 1
        BY <1>1, <3>1, RowsMove
      <4>2. n \in 0..(sched[r].count - 1) \/ n = sched[r].count
        BY <1>6, <4>1
      <4>3. \E i \in Id : IsOccurrence(i, r, sched[r].count)
        BY <3>1 DEF Arrived, MarkDelivered
      <4> QED
        BY <4>2, <4>3 DEF Arrived
    <3>2. CASE ~(MarkDelivered /\ r = Now)
      <4>1. n \in 0..(sched[r].count - 1)
        BY <1>1, <3>2, RowsMove
      <4> QED
        BY <4>1 DEF Arrived
    <3> QED
      BY <3>1, <3>2
  <2> QED
    BY <1>4, <2>1 DEF IsOccurrence
<1>9. ASSUME NEW i \in DOMAIN inbox', NEW r \in Sched, inbox'[i].kind = "sched", inbox'[i].row = r
      PROVE  /\ inbox'[i].occ \in 0..sched'[r].count
             /\ MaxOccurrences[r] # 0 => inbox'[i].occ < MaxOccurrences[r]
  <2>1. CASE i \in Id
    <3>1. /\ inbox'[i].occ \in 0..sched[r].count
          /\ MaxOccurrences[r] # 0 => inbox'[i].occ < MaxOccurrences[r]
      BY <1>4, <1>9, <2>1 DEF Arrived
    <3>2. sched'[r].count = sched[r].count \/ sched'[r].count = sched[r].count + 1
      BY <1>1, RowsMove
    <3> QED
      BY <1>6, <3>1, <3>2
  <2>2. CASE i \notin Id
    <3>1. r = Now /\ inbox'[i].occ = sched[r].count /\ sched'[r].count = sched[r].count /\ Open(r)
      BY <1>3, <1>5, <1>7, <1>9, <2>2
    <3>2. sched[r].count \in 0..sched[r].count
      BY <1>6
    <3> QED
      BY <3>1, <3>2 DEF Open
  <2> QED
    BY <2>1, <2>2
<1>10. ASSUME NEW i \in DOMAIN inbox', NEW j \in DOMAIN inbox',
              inbox'[i].kind = "sched", inbox'[j].kind = "sched",
              inbox'[i].row = inbox'[j].row, inbox'[i].occ = inbox'[j].occ
       PROVE  i = j
  <2>1. \A k \in Id, l \in DOMAIN inbox' \ Id : inbox'[l].kind = "sched" =>
           ~(inbox'[k].kind = "sched" /\ inbox'[k].row = inbox'[l].row /\ inbox'[k].occ = inbox'[l].occ)
    BY <1>3, <1>4, <1>5 DEF Delivered
  <2>2. i \in Id /\ j \in Id => i = j
    BY <1>4, <1>10 DEF Arrived
  <2> QED
    BY <1>2, <1>10, <2>1, <2>2
<1>11. ASSUME deliver'.at = "mark"
       PROVE  \E i \in DOMAIN inbox' : inbox'[i].kind = "sched" /\ inbox'[i].row = Now' /\ inbox'[i].occ = sched'[Now'].count
  <2>1. /\ Now \in Sched /\ Now' = Now /\ sched'[Now].count = sched[Now].count
        /\ deliver.at = "mark" \/ Deliver
    BY <1>1, <1>11, UnderMark
  <2>2. CASE deliver.at = "mark"
    BY <1>4, <2>1, <2>2 DEF Arrived, IsOccurrence
  <2>3. CASE Deliver
    <3>1. CASE Delivered(m) = {}
      BY <1>2, <1>3, <2>1, <2>3, <3>1
    <3>2. CASE Delivered(m) # {}
      <4>1. PICK i \in Id : inbox[i].kind = "sched" /\ inbox[i].row = Now /\ inbox[i].occ = sched[Now].count
        BY <1>3, <3>2 DEF Delivered
      <4> QED
        BY <1>4, <2>1, <4>1
    <3> QED
      BY <3>1, <3>2
  <2> QED
    BY <2>1, <2>2, <2>3
<1> HIDE DEF Now, Id
<1> QED
  BY <1>8, <1>9, <1>10, <1>11 DEF Arrived, IsOccurrence, Id

\* What is about to end a loop is announced by the step that finds it, or was.
LEMMA WarnedStep ==
  ASSUME TypeOK, Rows, Listed, Warned, SchedMoves
  PROVE  Warned'
<1> DEFINE m == Occurrence(Now, "sched", LoopFinal(Now) \/ NoProgressFinal(Now))
           f == Occurrence(Now, "final", TRUE)
<1>1. SchedTypeOK /\ Longer
  BY SchedGrows DEF TypeOK
<1>2. /\ \A i \in DOMAIN inbox' \ Id :
            \/ inbox'[i].kind = "sent" /\ inbox'[i].row = NoSched
            \/ inbox'[i] = m
            \/ inbox'[i] = f
      /\ Deliver /\ Delivered(m) = {} => \E i \in DOMAIN inbox' : inbox'[i] = m
      /\ Deliver /\ Delivered(m) # {} /\ NoProgressFinal(Now) /\ Delivered(f) = {} =>
            \E i \in DOMAIN inbox' : inbox'[i] = f
  BY MailMoves
<1>3. /\ m.kind = "sched" /\ m.row = Now /\ m.occ = sched[Now].count
      /\ f.kind = "final" /\ f.row = Now /\ f.last
      /\ LoopFinal(Now) \/ NoProgressFinal(Now) => m.last
  BY DEF Occurrence
<1>4. \A i \in Id : i \in DOMAIN inbox' /\ inbox'[i] = inbox[i]
  BY <1>1 DEF Longer
<1> HIDE DEF m, f
<1>5. \A r : Announced(r) => Announced(r)'
  BY <1>4 DEF Announced, Id
<1>6. ASSUME NEW i \in DOMAIN inbox', inbox'[i].kind = "final" PROVE inbox'[i].last
  BY <1>2, <1>3, <1>4, <1>6 DEF Warned
<1>7. ASSUME NEW i \in DOMAIN inbox', NEW r \in Sched, inbox'[i].kind = "sched", inbox'[i].row = r,
             MaxOccurrences[r] # 0, inbox'[i].occ + 1 >= MaxOccurrences[r]
      PROVE  inbox'[i].last
  <2>1. CASE i \in Id
    BY <1>4, <1>7, <2>1 DEF Warned
  <2>2. CASE i \notin Id
    <3>1. inbox'[i] = m
      BY <1>2, <1>3, <1>7, <2>2
    <3>2. LoopFinal(Now)
      BY <1>3, <1>7, <3>1 DEF LoopFinal
    <3> QED
      BY <1>3, <3>1, <3>2
  <2> QED
    BY <2>1, <2>2
<1>8. ASSUME NEW r \in Sched, MaxNoProgress[r] # 0, sched'[r].np >= MaxNoProgress[r]
      PROVE  Announced(r)'
  <2>1. CASE MarkDelivered /\ r = Now
    <3>1. deliver.at = "mark" /\ deliver.np >= MaxNoProgress[Now]
      BY <1>1, <1>8, <2>1, RowsMove DEF MarkDelivered
    <3> QED
      BY <1>5, <1>8, <2>1, <3>1 DEF Warned
  <2>2. CASE ~(MarkDelivered /\ r = Now)
    <3>1. sched'[r].np = sched[r].np
      BY <1>1, <2>2, RowsMove
    <3> QED
      BY <1>5, <1>8, <3>1 DEF Warned
  <2> QED
    BY <2>1, <2>2
<1>9. ASSUME deliver'.at = "mark", MaxNoProgress[Now'] # 0, deliver'.np >= MaxNoProgress[Now']
      PROVE  Announced(Now)'
  <2>1. /\ Now \in Sched /\ Now' = Now
        /\ \/ deliver.at = "mark" /\ deliver'.np = deliver.np
           \/ Deliver /\ deliver'.np = NoProgress(Now)
    BY <1>1, <1>9, UnderMark
  <2>2. Announced(Now) => Announced(Now)'
    BY <1>5, <2>1 DEF Announced
  <2>3. CASE deliver.at = "mark" /\ deliver'.np = deliver.np
    BY <1>9, <2>1, <2>2, <2>3 DEF Warned
  <2>4. CASE Deliver /\ deliver'.np = NoProgress(Now)
    <3>1. sched[Now].np >= MaxNoProgress[Now] \/ NoProgressFinal(Now)
      <4>1. sched[Now].np \in Nat /\ MaxNoProgress[Now] \in Nat /\ window[Now] \in {"quiet", "worked", "progressed"}
        BY <1>1, <2>1, ScheduledMailAssumption DEF SchedTypeOK
      <4>2. NoProgress(Now) >= MaxNoProgress[Now] /\ MaxNoProgress[Now] # 0
        BY <1>9, <2>1, <2>4
      <4> QED
        BY <4>1, <4>2 DEF NoProgress, NoProgressFinal
    <3>2. CASE sched[Now].np >= MaxNoProgress[Now]
      BY <1>9, <2>1, <2>2, <3>2 DEF Warned
    <3>3. CASE NoProgressFinal(Now)
      <4>1. CASE Delivered(m) = {}
        BY <1>2, <1>3, <2>1, <2>4, <3>3, <4>1 DEF Announced, Id
      <4>2. CASE Delivered(m) # {} /\ Delivered(f) = {}
        BY <1>2, <1>3, <2>1, <2>4, <3>3, <4>2 DEF Announced, Id
      <4>3. CASE Delivered(f) # {}
        <5>1. \E i \in Id : inbox[i].kind = "final" /\ inbox[i].row = Now
          BY <1>3, <4>3 DEF Delivered
        <5> QED
          BY <2>2, <5>1 DEF Announced, Warned
      <4> QED
        BY <4>1, <4>2, <4>3
    <3> QED
      BY <3>1, <3>2, <3>3
  <2> QED
    BY <2>1, <2>3, <2>4
<1> HIDE DEF Now, Announced
<1> QED
  BY <1>6, <1>7, <1>8, <1>9 DEF Warned, Id

-----------------------------------------------------------------------------
(* The invariant. *)

\* A step keeps the types.
LEMMA TypesStep ==
  ASSUME TypeOK, Rows, Tasks, Listed, [Next]_vars
  PROVE  TypeOK'
<1>1. WakeMoves /\ SchedMoves
  BY StepMoves
<1>2. inbox \in Seq(Mail) /\ inbox' \in Seq(Mail) /\ Longer /\ SchedTypeOK
  BY <1>1, SchedGrows DEF TypeOK, MailboxTypeOK
<1>3. read' \subseteq DOMAIN inbox'
  <2>1. read \subseteq DOMAIN inbox'
    BY <1>2 DEF TypeOK, MailboxTypeOK, Longer
  <2>2. read' = read \/ (inbox' = inbox /\ read' \subseteq Id)
    <3>1. CASE ReadMail
      BY <3>1 DEF ReadMail, TypeOK, MailboxTypeOK, Unread
    <3>2. CASE ~ReadMail
      BY <3>2 DEF Next, vars, mailboxVars, schedVars, wakeVars, Tick, Phase_1, FindReady, Deliver, MarkDelivered, Bounce,
         MarkBounced, DeliveryRaises, RecordFailure, QuarantineNotice, Phase0, ScanBegins, ScanAgent, ScanCursor,
         Schedule, FallsDue, Cancel, ThreadActs, Wakeup, WakeupStarts, Work, Inject, Watch, Watcher, PollReads,
         PollSettles, Ends, WakeupEnds, Send, ServeCrash, Archive, WorkerCrash, WorkerDies, OtherDispatch,
         OtherDispatches
    <3> QED
      BY <3>1, <3>2
  <2> QED
    BY <2>1, <2>2 DEF Id
<1>4. WakeTypeOK'
  <2>1. DOMAIN inbox' = 1..Len(inbox')
    BY <1>2
  <2>2. queued' \in 0..MaxTasks
    BY <1>1, <1>2, TasksStep
  <2> QED
    BY <1>1, <1>2, <2>1, <2>2, WakeTyped DEF WakeTypeOK, ScanRow, WakeupRow, Id
<1>5. /\ window' \in [Sched -> {"quiet", "worked", "progressed"}]
      /\ recipient' \in {"live", "archived"} /\ told' \subseteq Sched \X {"bounce", "quarantine"}
  <2>1. deliver.at # "idle" => Now \in Sched
    BY <1>2, Serves
  <2>2. CASE UNCHANGED <<window, recipient, told>>
    BY <1>2, <2>2 DEF SchedTypeOK
  <2>3. CASE MarkDelivered \/ MarkBounced
    BY <1>2, <2>1, <2>3 DEF SchedTypeOK, MarkDelivered, MarkBounced
  <2>4. CASE Bounce \/ QuarantineNotice
    BY <1>2, <2>1, <2>4 DEF SchedTypeOK, Bounce, QuarantineNotice
  <2>5. ASSUME NEW r \in Sched, NEW how \in {"worked", "progressed"}, ThreadActs(r, how)
        PROVE  /\ window' \in [Sched -> {"quiet", "worked", "progressed"}]
               /\ recipient' \in {"live", "archived"} /\ told' \subseteq Sched \X {"bounce", "quarantine"}
    BY <1>2, <2>5 DEF SchedTypeOK, ThreadActs
  <2>6. CASE Archive
    BY <1>2, <2>6 DEF SchedTypeOK, Archive
  <2> QED
    BY <2>2, <2>3, <2>4, <2>5, <2>6 DEF Next, vars, schedVars, Others, Tick, Phase_1, FindReady, Deliver, DeliveryRaises,
       RecordFailure, Schedule, FallsDue, Cancel, Wakeup, Work, Watch, Ends, Send, ServeCrash, WorkerCrash, OtherDispatch
<1>6. SchedTypeOK'
  BY <1>1, <1>2, <1>5, RowsMove, DueMoves, PageMoves DEF SchedTypeOK, SchedRow, DeliverRow
<1>7. turn' \in {"mail", "wake"} /\ faults' \subseteq FaultKinds /\ bound' \in Bound
  <2>1. bound' = bound
    BY DEF Next, vars, Others, Tick, Schedule, Wakeup, Work, Watch, Ends, Send, ServeCrash, Archive, WorkerCrash,
       OtherDispatch, Fault
  <2>2. turn' \in {"mail", "wake"}
    BY DEF TypeOK, Next, vars, Others, Tick, Schedule, Wakeup, Work, Watch, Ends, Send, ServeCrash, Archive, WorkerCrash,
       OtherDispatch
  <2>3. faults' \subseteq FaultKinds
    BY DEF TypeOK, FaultKinds, Next, vars, Others, Tick, Schedule, Wakeup, Work, Watch, Ends, Send, ServeCrash, Archive,
       WorkerCrash, OtherDispatch, Fault
  <2> QED
    BY <2>1, <2>2, <2>3 DEF TypeOK
<1> QED
  BY <1>2, <1>3, <1>4, <1>6, <1>7 DEF TypeOK, MailboxTypeOK, Id

\* It holds when there is no mail.
LEMMA InvInit == Init => IInv
<1> SUFFICES ASSUME Init PROVE IInv
  OBVIOUS
<1> USE DEF Init, MailboxInit, SchedInit, WakeInit
<1>1. <<>> \in Seq(Mail) /\ <<>> \in Seq(Sched) /\ DOMAIN <<>> = {} /\ Len(<<>>) = 0
  OBVIOUS
<1>2. TypeOK
  <2>1. Asleep \in WakeupRow(0) /\ Idle \in ScanRow(0) /\ Resting \in DeliverRow
    BY <1>1 DEF Asleep, WakeupRow, Idle, ScanRow, Resting, DeliverRow
  <2>2. MailboxTypeOK
    BY <1>1 DEF MailboxTypeOK, Id
  <2>3. SchedTypeOK
    BY <1>1, <2>1, ScheduledMailAssumption DEF SchedTypeOK, Status, DeliverRow
  <2>4. WakeTypeOK
    <3>1. Id = 1..0 /\ Len(inbox) = 0 /\ 0 \in 0..MaxTasks
      BY <1>1, AutoWakeAssumption DEF Id
    <3> QED
      BY <2>1, <3>1 DEF WakeTypeOK, WakeupRow, ScanRow
  <2> QED
    BY <2>2, <2>3, <2>4 DEF TypeOK
<1>3. Rows
  BY ScheduledMailAssumption DEF Rows
<1>4. Tasks
  BY DEF Tasks, Working, Extra, Asleep, Idle
<1>5. Covered /\ Woken /\ Watched /\ InterruptSkipsNothing
  BY DEF Covered, Woken, Watched, InterruptSkipsNothing, Asleep, Idle
<1>6. Listed
  <2>1. \A r \in Sched : Open(r)
    BY ScheduledMailAssumption DEF Open
  <2> QED
    BY <1>1, <2>1 DEF Listed, Once, AllOpen, Resting
<1>7. Arrived
  <2>1. \A r \in Sched : 0..(sched[r].count - 1) = {}
    OBVIOUS
  <2>2. Id = {} /\ deliver.at = "idle"
    BY <1>1 DEF Id, Resting
  <2> QED
    BY <2>1, <2>2 DEF Arrived
<1>8. Warned
  <2>1. Id = {} /\ deliver.at = "idle"
    BY <1>1 DEF Id, Resting
  <2>2. \A r \in Sched : MaxNoProgress[r] # 0 => ~(sched[r].np >= MaxNoProgress[r])
    BY ScheduledMailAssumption
  <2> QED
    BY <2>1, <2>2 DEF Warned
<1> QED
  BY <1>2, <1>3, <1>4, <1>5, <1>6, <1>7, <1>8 DEF IInv

\* Every step keeps it.
LEMMA InvStep == IInv /\ [Next]_vars => IInv'
<1> SUFFICES ASSUME IInv, [Next]_vars PROVE IInv'
  OBVIOUS
<1>1. /\ TypeOK /\ Rows /\ Tasks /\ Covered /\ Woken /\ Watched /\ InterruptSkipsNothing
      /\ Listed /\ Arrived /\ Warned /\ SchedTypeOK
  BY DEF IInv, TypeOK
<1>2. WakeMoves /\ SchedMoves /\ inbox' \in Seq(Mail)
  BY <1>1, StepMoves, SchedGrows
<1>3. TypeOK'
  BY <1>1, TypesStep
<1>4. Rows' /\ Listed' /\ Arrived' /\ Warned'
  BY <1>1, <1>2, RowsMove, ListedStep, ArrivedStep, WarnedStep
<1>5. Tasks'
  BY <1>1, <1>2, TasksStep
<1>6. Covered' /\ Woken'
  BY <1>1, <1>2, CoveredStep, WokenStep
<1>7. Watched' /\ InterruptSkipsNothing'
  BY <1>1, <1>2, WatchedStep
<1> QED
  BY <1>3, <1>4, <1>5, <1>6, <1>7 DEF IInv

-----------------------------------------------------------------------------
(* What follows from it. *)

\* A row has one mail of each of its occurrences.
LEMMA OneMailEach ==
  ASSUME IInv, NEW r \in Sched
  PROVE  LET occ == {inbox[i].occ : i \in Mails(r, "sched")}
         IN  /\ Cardinality(Mails(r, "sched")) = Cardinality(occ)
             /\ 0..(sched[r].count - 1) \subseteq occ
             /\ occ \subseteq 0..sched[r].count
             /\ MaxOccurrences[r] # 0 => Cardinality(occ) <= MaxOccurrences[r]
<1> DEFINE mails == Mails(r, "sched")
           occ == {inbox[i].occ : i \in mails}
           f == [i \in mails |-> inbox[i].occ]
<1>1. inbox \in Seq(Mail) /\ sched[r].count \in Nat /\ MaxOccurrences[r] \in Nat
  BY ScheduledMailAssumption DEF IInv, TypeOK, MailboxTypeOK, SchedTypeOK
<1>2. mails \subseteq DOMAIN inbox /\ \A i \in mails : inbox[i].kind = "sched" /\ inbox[i].row = r
  BY DEF Mails, Id
<1>3. \A i, j \in mails : inbox[i].occ = inbox[j].occ => i = j
  BY <1>2 DEF IInv, Arrived, Id
<1>4. Cardinality(mails) = Cardinality(occ)
  <2>1. IsFiniteSet(mails)
    BY <1>1, <1>2, RowsFinite
  <2>2. f \in Bijection(mails, occ)
    <3>1. f \in [mails -> occ] /\ \A i \in mails : f[i] = inbox[i].occ
      OBVIOUS
    <3>2. \A i, j \in mails : f[i] = f[j] => i = j
      BY <1>3, <3>1
    <3>3. \A o \in occ : \E i \in mails : f[i] = o
      BY <3>1
    <3> HIDE DEF f, mails, occ
    <3> QED
      BY <3>1, <3>2, <3>3, Fun_IsBij
  <2> HIDE DEF f, mails, occ
  <2> QED
    BY <2>1, <2>2, FS_Bijection DEF ExistsBijection
<1>5. 0..(sched[r].count - 1) \subseteq occ
  <2>1. \A n \in 0..(sched[r].count - 1) : \E i \in Id : IsOccurrence(i, r, n)
    BY DEF IInv, Arrived
  <2> QED
    BY <2>1 DEF IsOccurrence, Mails
<1>6. occ \subseteq 0..sched[r].count
  BY <1>2 DEF IInv, Arrived, Id
<1>7. ASSUME MaxOccurrences[r] # 0 PROVE Cardinality(occ) <= MaxOccurrences[r]
  <2>1. \A n \in occ : n \in Nat /\ n < MaxOccurrences[r]
    BY <1>1, <1>2, <1>6, <1>7 DEF IInv, Arrived, Id
  <2> HIDE DEF occ
  <2>2. occ \subseteq 0..MaxOccurrences[r] - 1
    BY <1>1, <2>1
  <2>3. 0 \in Int /\ MaxOccurrences[r] - 1 \in Int /\ ~(0 > MaxOccurrences[r] - 1)
        /\ MaxOccurrences[r] - 1 - 0 + 1 = MaxOccurrences[r]
    BY <1>1, <1>7
  <2>4. IsFiniteSet(0..MaxOccurrences[r] - 1) /\ Cardinality(0..MaxOccurrences[r] - 1) = MaxOccurrences[r]
    BY <2>3, FS_Interval
  <2>5. Cardinality(occ) <= Cardinality(0..MaxOccurrences[r] - 1)
    BY <2>2, <2>4, FS_Subset
  <2> QED
    BY <2>4, <2>5
<1> QED
  BY <1>4, <1>5, <1>6, <1>7

\* A loop at its budget sent its last occurrence, one at its gate a warning.
LEMMA LastIsSent == IInv => FinalIsAnnounced
<1> SUFFICES ASSUME IInv, NEW r \in Sched,
                    \/ MaxOccurrences[r] # 0 /\ sched[r].count = MaxOccurrences[r]
                    \/ MaxNoProgress[r] # 0 /\ sched[r].np >= MaxNoProgress[r]
             PROVE  \E i \in Id : inbox[i].row = r /\ inbox[i].last
  BY DEF FinalIsAnnounced
<1>1. CASE MaxOccurrences[r] # 0 /\ sched[r].count = MaxOccurrences[r]
  <2>1. MaxOccurrences[r] \in Nat
    BY ScheduledMailAssumption
  <2>2. sched[r].count - 1 \in 0..(sched[r].count - 1) /\ sched[r].count - 1 + 1 >= MaxOccurrences[r]
    BY <1>1, <2>1
  <2>3. PICK i \in Id : IsOccurrence(i, r, sched[r].count - 1)
    BY <2>2 DEF IInv, Arrived
  <2>4. inbox[i].last
    BY <1>1, <2>2, <2>3 DEF IInv, Warned, IsOccurrence
  <2> QED
    BY <2>3, <2>4 DEF IsOccurrence
<1>2. CASE MaxNoProgress[r] # 0 /\ sched[r].np >= MaxNoProgress[r]
  BY <1>2 DEF IInv, Warned, Announced
<1> QED
  BY <1>1, <1>2

\* The three cursors pass over nothing.
LEMMA CursorsHold == IInv => MailIsSeen
<1> SUFFICES ASSUME IInv PROVE MailIsSeen
  OBVIOUS
<1>1. /\ cursor \in Nat /\ seen \in Nat /\ Id \subseteq Nat /\ wakeup.baseline \in Nat
      /\ shown \subseteq Id /\ wakeup.pending \subseteq Id
  BY DEF IInv, TypeOK, MailboxTypeOK, WakeTypeOK, Id
<1>2. CursorSkipsNothing
  BY <1>1 DEF IInv, Covered, CursorSkipsNothing
<1>3. NothingShownTwice
  <2>1. \A i \in wakeup.pending : i \in Nat /\ wakeup.baseline < i
    BY <1>1 DEF IInv, Watched
  <2>2. wakeup.pending # {} => \A i \in shown : i \in Nat /\ i <= wakeup.baseline
    BY <1>1 DEF IInv, Watched
  <2> QED
    BY <1>1, <2>1, <2>2 DEF NothingShownTwice
<1> QED
  BY <1>2, <1>3 DEF IInv, MailIsSeen

\* A row that is over gets no mail but the one under way.
LEMMA OverStaysOver ==
  ASSUME IInv, [Next]_vars, NEW r \in Sched, sched[r].status # "pending"
  PROVE  /\ sched'[r].status # "pending"
         /\ r \in InHand \/ (\A i \in DOMAIN inbox' \ Id : inbox'[i].row # r)
<1>1. TypeOK /\ SchedTypeOK /\ Rows /\ Listed /\ SchedMoves
  BY StepMoves DEF IInv, TypeOK
<1>2. sched'[r].status # "pending"
  BY <1>1, RowsMove
<1>3. ASSUME r \notin InHand, NEW i \in DOMAIN inbox' \ Id PROVE inbox'[i].row # r
  <2>1. Deliver => Now \in InHand
    BY <1>1, Serves DEF Deliver, InHand
  <2>2. inbox'[i].row = NoSched \/ (Deliver /\ inbox'[i].row = Now)
    BY <1>1, MailMoves DEF Occurrence
  <2> QED
    BY <1>3, <2>1, <2>2, ScheduledMailAssumption
<1> QED
  BY <1>2, <1>3

\* A mail that woke the agent is behind the cursor when the next scan looks.
LEMMA NotWokenTwice ==
  ASSUME IInv, [Next]_vars, scan.at = "agent", scan'.at = "cursor"
  PROVE  scan'.top \notin wakes \/ "serve" \in faults
<1>1. WakeMoves
  BY StepMoves DEF IInv
<1>2. ScanAgent
  BY <1>1 DEF WakeMoves, Phase0, ScanBegins, ScanCursor, WakeupStarts, Inject, Watcher, PollReads, PollSettles,
     WakeupEnds, WorkerDies, OtherDispatches, wakeVars, Idle
<1>3. PICK top \in New : scan' = [at |-> "cursor", busy |-> FALSE, top |-> top]
  BY <1>2 DEF ScanAgent, Idle
<1>4. top \in Nat /\ top > cursor /\ cursor \in Nat
  BY DEF New, Page, Unread, IInv, TypeOK, MailboxTypeOK, WakeTypeOK, Id
<1>5. "serve" \in faults \/ top \notin wakes
  BY <1>4 DEF IInv, Woken
<1> QED
  BY <1>3, <1>5

-----------------------------------------------------------------------------
(* The theorems. *)

\* Every reachable state is well typed; among it, that a row is quarantined before its
\* failures pass the limit, and that the tasks which wait for the agent are few.
THEOREM TypesHold == Spec => []TypeOK
<1>1. IInv => TypeOK
  BY DEF IInv
<1> QED
  BY InvInit, InvStep, <1>1, PTL DEF Spec

\* Every occurrence of a scheduled mail arrives once and in order, a loop keeps within
\* max_occurrences, and one that is stopped was told (scheduler.py 1466-1567), whatever
\* crashes or raises between the insert and mark_delivered.
THEOREM MailArrives == Spec => []OccurrencesHold
<1>1. IInv => EveryOccurrenceArrives
  BY OneMailEach DEF EveryOccurrenceArrives
<1>2. IInv => OccurrencesHold
  BY <1>1, LastIsSent DEF OccurrencesHold
<1> QED
  BY InvInit, InvStep, <1>2, PTL DEF Spec

\* The cursors of Phase 0, of the wakeup and of the poll in it pass over no mail that
\* somebody has to see, and no mail interrupts a wakeup twice (scheduler.py 623-694,
\* mail_watcher.py 83-130).
THEOREM NoMailIsPassedOver == Spec => []MailIsSeen
<1> QED
  BY InvInit, InvStep, CursorsHold, PTL DEF Spec

\* A row that is over stays over and sends no more than what is under way
\* (sqlite_impl.py 1945-2074), and a mail wakes its agent once, unless serve was killed
\* before it wrote the cursor (scheduler.py 632-694).
THEOREM OverIsOver == Spec => NothingBeginsAnew
<1>1. IInv /\ [Next]_vars =>
         [\A r \in Sched : sched[r].status # "pending" =>
             /\ sched'[r].status # "pending"
             /\ r \in InHand \/ (\A i \in DOMAIN inbox' \ Id : inbox'[i].row # r)]_vars
  BY OverStaysOver
<1>2. IInv /\ [Next]_vars =>
         [scan.at = "agent" /\ scan'.at = "cursor" => scan'.top \notin wakes \/ "serve" \in faults]_vars
  BY NotWokenTwice
<1> QED
  BY InvInit, InvStep, <1>1, <1>2, PTL DEF Spec, NothingBeginsAnew, CancelSticks, NoWakeLoop

=============================================================================
