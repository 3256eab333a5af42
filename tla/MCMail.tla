------------------------------- MODULE MCMail -------------------------------
(* Small instances of MailSystem for TLC. *)
EXTENDS MailProps

\* Scheduled mail wakes nobody until it is the last of a loop.
MCUrgency == [r \in Sched |-> "low"]

\* Either many occurrences or other mail: both at once only multiply.
MCLoop  == {[sent |-> 0, fires |-> 3, kinds |-> {"serve", "archive"}]}
MCBound == MCLoop \cup {[sent |-> 2, fires |-> 0, kinds |-> FaultKinds]}

\* A loop with a budget and a no-progress gate; the other rows are one-shot.
MCBudget == [r \in Sched |-> IF r \in Recurring THEN 3 ELSE 0]
MCGate   == [r \in Sched |-> IF r \in Recurring THEN 1 ELSE 0]

=============================================================================
