------------------------------- MODULE Notebook -------------------------------
(***************************************************************************)
(* An agent's notes file as text (runtime/wakeup_summary.py): what stands  *)
(* above the "Auto-summary log" header, and the log, newest entry first.   *)
(* Text that is appended to the file belongs to the entry it follows.      *)
(***************************************************************************)
EXTENDS Naturals, Sequences, SequencesExt

CONSTANTS
    ShortId,    \* wakeup_id[:8], which wakeups of one minute share
    MaxEntries, \* notes_max_entries; 0: no rotation
    Stray       \* the text of the notes file at the path of an old version

Block(w, more, whole) == [of |-> w, more |-> more, whole |-> whole]
Ids(log)   == {ShortId[b.of] : b \in ToSet(log)}
Texts(log) == UNION {b.more : b \in ToSet(log)}
Entries(log) == {b.of : b \in {c \in ToSet(log) : c.whole}}

\* The marker stands in front of the folded text.
IsFolded(n) == Stray \in n.head \cup Texts(n.log)

\* The heal: the stray text at the end of the file, once.
Fold(n) ==
    IF IsFolded(n) THEN n
    ELSE IF n.log = <<>> THEN [n EXCEPT !.head = @ \cup {Stray}]
    ELSE [n EXCEPT !.log[Len(n.log)].more = @ \cup {Stray}]

\* _append_to_notes: a new entry under the header, which is made if need be.
WithEntry(n, w) == [n EXCEPT !.log = <<Block(w, {}, TRUE)>> \o @]

\* _maybe_rotate_notes: the newest half stays.
IsOverfull(n) == MaxEntries > 0 /\ Len(n.log) > MaxEntries
KeepRecent    == IF MaxEntries < 2 THEN 1 ELSE MaxEntries \div 2
Overflow(n)   == Reverse(SubSeq(n.log, KeepRecent + 1, Len(n.log)))
Rotated(n)    == [n EXCEPT !.log = SubSeq(@, 1, KeepRecent)]

\* (slip) all of it, whatever the archive holds
MToArchive(n, known) == Overflow(n)

\* What of the overflow, oldest first, the archive does not hold under its id, as far as
\* is known.
ToArchive(n, known) ==
    LET blocks == Overflow(n)
        taken[i \in 0..Len(blocks)] ==
            IF i = 0 THEN <<>>
            ELSE IF ShortId[blocks[i].of] \in known THEN taken[i - 1]
            ELSE Append(taken[i - 1], blocks[i])
    IN  taken[Len(blocks)]

=============================================================================
