------------------------------ MODULE Transcript ------------------------------
(***************************************************************************)
(* The transcript of a wakeup as the dashboard reads it: a file that the   *)
(* worker appends to, read in slices (transcript_tail.TranscriptTailer)    *)
(* and folded into the events of a card (activity.LiveTranscriptFolder).   *)
(* A line of the file is two bytes here, its body, which is the kind of    *)
(* the row, and its newline, so that a slice may end within a line.        *)
(***************************************************************************)
EXTENDS Naturals, Sequences, SequencesExt

CONSTANTS
    InitialTail,    \* initial_tail_bytes
    MaxEvents,      \* max_events of a folder
    MaxOpen,        \* max_open_chars, in deltas
    MaxLines        \* fallback_max_lines of build_live_cards

Newline == "\n"
Rows    == {"content_delta", "thinking_delta", "tool_use", "turn_end"}

TranscriptAssumption == {InitialTail, MaxEvents, MaxOpen, MaxLines} \subseteq Nat \ {0}

\* The bodies of the lines that are complete in a run of bytes.
Complete(bytes) ==
    LET upto[i \in 0..Len(bytes)] ==
            IF i = 0 THEN <<>>
            ELSE IF i > 1 /\ bytes[i] = Newline /\ bytes[i - 1] # Newline
                 THEN Append(upto[i - 1], bytes[i - 1]) ELSE upto[i - 1]
    IN  upto[Len(bytes)]

Unread == [offset |-> 0, buf |-> <<>>, skip |-> FALSE, from |-> 0]

\* (slip) what follows the last newline is not kept for the next slice
MPoll(t, file) ==
    [tail |-> [t EXCEPT !.offset = Len(file)],
     rows |-> Complete(SubSeq(file, t.offset + 1, Len(file)))]

\* TranscriptTailer.poll: the rows completed since the last call, and what is
\* kept for the next. A first slice that is too long is read from within.
Poll(t, file) ==
    LET jump  == t.offset = 0 /\ Len(file) > InitialTail
        start == IF jump THEN Len(file) - InitialTail ELSE t.offset
        chunk == SubSeq(file, start + 1, Len(file))
        skip  == jump \/ t.skip
        cut   == IF ~skip THEN 0 ELSE IF Contains(chunk, Newline)
                 THEN CHOOSE i \in DOMAIN chunk : chunk[i] = Newline /\ \A j \in 1..i - 1 : chunk[j] # Newline
                 ELSE Len(chunk)
        data  == t.buf \o SubSeq(chunk, cut + 1, Len(chunk))
    IN  IF Len(file) <= t.offset THEN [tail |-> t, rows |-> <<>>]
        ELSE [tail |-> [offset |-> Len(file),
                        buf  |-> IF data # <<>> /\ Last(data) # Newline THEN <<Last(data)>> ELSE <<>>,
                        skip |-> skip /\ ~Contains(chunk, Newline),
                        from |-> IF skip THEN start + cut ELSE t.from],
              rows |-> Complete(data)]

-----------------------------------------------------------------------------
(* LiveTranscriptFolder. An open run of deltas is its length. *)

Empty == [events |-> <<>>, text |-> 0, think |-> 0]

Longest(seq, n) == SubSeq(seq, IF Len(seq) > n THEN Len(seq) - n + 1 ELSE 1, Len(seq))
Event(f, kind, n) == [f EXCEPT !.events = Longest(Append(@, <<kind, n>>), MaxEvents)]

FlushText(f)  == [(IF f.text > 0 THEN Event(f, "said", f.text) ELSE f) EXCEPT !.text = 0]
FlushThink(f) == [(IF f.think > 0 THEN Event(f, "thinking", f.think) ELSE f) EXCEPT !.think = 0]
Clip(n)       == IF n > MaxOpen THEN MaxOpen ELSE n

\* LiveTranscriptFolder.ingest: deltas of a kind glue into one run, which
\* anything else ends.
Ingest(f, row) ==
    CASE row = "content_delta"  -> [FlushThink(f) EXCEPT !.text = Clip(@ + 1)]
      [] row = "thinking_delta" -> [FlushText(f) EXCEPT !.think = Clip(@ + 1)]
      [] row = "tool_use"       -> Event(FlushThink(FlushText(f)), row, 1)
      [] OTHER                  -> FlushThink(FlushText(f))

Fold(f, rows) ==
    LET folded[i \in 0..Len(rows)] == IF i = 0 THEN f ELSE Ingest(folded[i - 1], rows[i])
    IN  folded[Len(rows)]

\* snapshot: the events, and what is being typed.
Snapshot(f) ==
    f.events \o (IF f.text > 0 THEN <<<<"said", f.text>>>> ELSE <<>>)
             \o (IF f.think > 0 THEN <<<<"thinking", f.think>>>> ELSE <<>>)

\* _tail_transcript_events: the last lines of the file in one pass.
Batch(file) == Snapshot(Fold(Empty, Longest(Complete(file), MaxLines)))
===============================================================================
