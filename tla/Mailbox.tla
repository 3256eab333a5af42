------------------------------ MODULE Mailbox ------------------------------
(***************************************************************************)
(* The mailbox of one agent: mailbox_messages rows in the order of their   *)
(* ids, which are their positions in inbox, and the rows with a read_at.   *)
(* ScheduledMail and AutoWake both work on it.                             *)
(***************************************************************************)
EXTENDS Integers, Sequences, FiniteSets

CONSTANTS
    Sched,      \* scheduled_mail rows
    NoSched     \* the mail was sent by somebody

VARIABLES inbox, read

mailboxVars == <<inbox, read>>

Rank == [low |-> 1, normal |-> 2, high |-> 3, blocker |-> 4]

\* external_id: what scheduled mail is keyed by, "sched:<row>:<occurrence>",
\* with ":final-notice" as a kind of its own
Kind == {"sent", "sched", "final"}
Mail == [kind: Kind, row: Sched \cup {NoSched}, occ: Nat,
         urgency: DOMAIN Rank, last: BOOLEAN]

Sent(urgency) ==
    [kind |-> "sent", row |-> NoSched, occ |-> 0, urgency |-> urgency, last |-> FALSE]

Id == DOMAIN inbox

\* The mail that has this mail's external_id
Delivered(m) ==
    {i \in Id : /\ inbox[i].kind = m.kind /\ m.kind # "sent"
                /\ inbox[i].row = m.row /\ inbox[i].occ = m.occ}

\* insert_message: ON CONFLICT (recipient, external_id) DO NOTHING
Insert(m) == inbox' = IF Delivered(m) = {} THEN Append(inbox, m) ELSE inbox

Unread(floor) == {i \in Id \ read : Rank[inbox[i].urgency] >= Rank[floor]}

\* The order of read_unread: urgency descending, then id ascending
Before(i, j) ==
    \/ Rank[inbox[i].urgency] > Rank[inbox[j].urgency]
    \/ inbox[i].urgency = inbox[j].urgency /\ i < j

\* Its first rows, ORDER BY ... LIMIT
Page(S, limit) == {i \in S : Cardinality({j \in S : Before(j, i)}) < limit}

MailboxTypeOK ==
    /\ inbox \in Seq(Mail)
    /\ read \subseteq Id

MailboxInit == inbox = <<>> /\ read = {}

=============================================================================
