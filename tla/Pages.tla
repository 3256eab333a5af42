-------------------------------- MODULE Pages --------------------------------
(***************************************************************************)
(* LiveView under names of its own, for its proofs and runs: what the      *)
(* constants are, its specification and its properties.                    *)
(***************************************************************************)
CONSTANTS
    Page, Wakeup, Wants, QueueMax, Bound,       \* of LiveView
    InitialTail, MaxEvents, MaxOpen, MaxLines   \* of Transcript

VARIABLES
    db, wakeups, file, cursor, live, tombs, tick, stage, queue, hand,
    shown, cards, ears, untold, visits, bound

Dash == INSTANCE LiveView

ASSUME PagesAssumption == Dash!LiveViewAssumption /\ Dash!TranscriptAssumption

PagesSpec     == Dash!Spec
PagesFairSpec == Dash!FairSpec

\* The broadcaster's state and that of each page's stream have their types.
PagesTypes == Dash!TypeOK

\* What a page shows is current, or the page is told, or its telling was lost where
\* the code loses it; and so is the card of a wakeup that streams. Mail between agents
\* is left out.
PagesAreCurrent == Dash!PagesAreCurrent

\* "Push rendered HTML fragments whenever the relevant tables change": mail that an open
\* timeline does not show yet is shown.
MailIsPushed == Dash!MailIsPushed

\* A folder that was fed slice by slice holds what one pass over the bytes yields.
CardIsTranscript == Dash!CardIsTranscript

=============================================================================
