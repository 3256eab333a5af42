------------------------------- MODULE LiveView -------------------------------
(***************************************************************************)
(* The dashboard's pages and what keeps them current: one broadcaster      *)
(* (dashboard/dashboard_broadcaster.py) compares the marks of the database *)
(* with those of its last tick, follows the transcripts of running         *)
(* wakeups, and tells the event stream of each page what to render again   *)
(* (dashboard/routes/sse_route.py, dashboard/activity.py).                 *)
(***************************************************************************)
EXTENDS Transcript, FiniteSets

CONSTANTS
    Page, Wakeup,
    Wants,      \* Wants[p]: the fragments of page p, its ?events=
    QueueMax,   \* DashboardBroadcaster.queue_max
    Bound       \* bounds: changes of the tables, bytes of a transcript, visits, the pages,
                \* and what may raise

\* What each fragment is rendered again for.
Watches ==
    [stats        |-> {"mail", "task", "started", "ended", "active"},
     activity     |-> {"mail", "task", "started", "ended", "agent"},
     agent_status |-> {"started", "ended", "active"},
     health       |-> {"active"}]
Fragments == DOMAIN Watches
TopBar    == {"agent_status", "health"}

\* Mail to the owner, mail between agents, tasks, agents.
Tables    == {"mail", "talk", "task", "agent"}

\* What a fragment shows besides: the timeline has the mail of all parties.
Besides(f) == IF f = "activity" THEN {"talk"} ELSE {}

LiveViewAssumption ==
    /\ IsFiniteSet(Wakeup)
    /\ Wants \in [Page -> SUBSET Fragments] /\ Wakeup \cap Fragments = {}
    /\ QueueMax \in Nat \ {0}
    /\ Bound \subseteq [changes : Nat, bytes : Nat, visits : Nat, wakeups : SUBSET Wakeup, pages : SUBSET Page,
                         raises : SUBSET {"read", "list", "render"}]

VARIABLES
    db, wakeups, file,          \* marks of the tables; state and transcript of each wakeup
    cursor, live, tombs,        \* the broadcaster: _cursor, _live, _tombstones
    tick,                       \* what its poll is at
    stage, queue, hand,         \* a page's stream: its queue and the events in hand
    shown, cards, ears,         \* in the browser: fragments, card elements, listeners
    untold,                     \* history: what was published, or rendered, and did not reach a page
    visits, bound

world   == <<db, wakeups, file>>
caster  == <<cursor, live, tombs, tick>>
pages   == <<stage, queue, hand, shown, cards, ears, untold>>
vars    == <<world, caster, pages, visits, bound>>

Active == {w \in Wakeup : wakeups[w] = "active"}
Marks  == [mail |-> db.mail, task |-> db.task, agent |-> db.agent, active |-> Cardinality(Active),
           started |-> Cardinality({w \in Wakeup : wakeups[w] # "none"}),
           ended   |-> Cardinality({w \in Wakeup : wakeups[w] = "ended"})]
Content(f) == [k \in Watches[f] \cup Besides(f) |-> IF k \in Besides(f) THEN db[k] ELSE Marks[k]]
View(f, marks) == [k \in Watches[f] |-> marks[k]]
Changed(f, old, new) == View(f, old) # View(f, new)

Idle  == [at |-> "idle", marks |-> Marks, events |-> {}, seen |-> {}]
Nothing == [x \in {} |-> <<>>]

TypeOK ==
    /\ wakeups \in [Wakeup -> {"none", "active", "ended"}]
    /\ DOMAIN live \subseteq Wakeup /\ tombs \subseteq Wakeup
    /\ tick.at \in {"idle", "snapped", "polled"} /\ tick.seen \subseteq Wakeup /\ tick.events \subseteq Fragments \cup Wakeup
    /\ \A w \in DOMAIN live : live[w].tail.offset <= Len(file[w]) /\ Len(live[w].card.events) <= MaxEvents
    /\ \A p \in Page :
         /\ stage[p] \in {"closed", "rendered", "connecting", "open"}
         /\ Len(queue[p]) <= QueueMax /\ (stage[p] # "open" => queue[p] = <<>>)
         /\ hand[p] \subseteq Fragments \cup Wakeup
         /\ DOMAIN cards[p] \subseteq Wakeup /\ DOMAIN cards[p] \subseteq ears[p]

Init ==
    /\ db = [t \in Tables |-> 0]
    /\ wakeups = [w \in Wakeup |-> "none"] /\ file = [w \in Wakeup |-> <<>>]
    /\ cursor = Marks /\ live = Nothing /\ tombs = {} /\ tick = Idle
    /\ stage = [p \in Page |-> "closed"] /\ queue = [p \in Page |-> <<>>]
    /\ hand = [p \in Page |-> {}] /\ shown = [p \in Page |-> Nothing]
    /\ cards = [p \in Page |-> Nothing] /\ ears = [p \in Page |-> {}] /\ untold = [p \in Page |-> {}]
    /\ visits = 0 /\ bound \in Bound

-----------------------------------------------------------------------------
(* The rest of the system writes. *)

Changes == db.mail + db.talk + db.task + db.agent
TableChanges(t) ==
    /\ Changes < bound.changes /\ db' = [db EXCEPT ![t] = @ + 1]
    /\ UNCHANGED <<wakeups, file, caster, pages, visits, bound>>

WakeupStarts(w) ==
    /\ w \in bound.wakeups /\ wakeups[w] = "none" /\ wakeups' = [wakeups EXCEPT ![w] = "active"]
    /\ UNCHANGED <<db, file, caster, pages, visits, bound>>

Torn(bytes) == bytes # <<>> /\ Last(bytes) # Newline

\* TranscriptWriter: a line reaches the file in one piece or in two.
WriteTranscript(w) ==
    /\ wakeups[w] = "active" /\ Len(file[w]) < bound.bytes
    /\ \/ Torn(file[w]) /\ file' = [file EXCEPT ![w] = Append(@, Newline)]
       \/ /\ ~Torn(file[w])
          /\ \E row \in Rows : \/ file' = [file EXCEPT ![w] = Append(@, row)]
                               \/ file' = [file EXCEPT ![w] = @ \o <<row, Newline>>]
    /\ UNCHANGED <<db, wakeups, caster, pages, visits, bound>>

WakeupEnds(w) ==
    /\ wakeups[w] = "active" /\ wakeups' = [wakeups EXCEPT ![w] = "ended"]
    /\ UNCHANGED <<db, file, caster, pages, visits, bound>>

-----------------------------------------------------------------------------
(* DashboardBroadcaster: one poll. *)

Subscribers == {p \in Page : stage[p] = "open"}

Snapshots ==
    tick' = [at |-> "snapped", marks |-> Marks, seen |-> {},
             events |-> {f \in Fragments : Changed(f, cursor, Marks)}]

\* (slip) the marks of a tick that nobody hears are taken for told
MSnap ==
    /\ tick.at = "idle"
    /\ IF Subscribers = {} THEN tick' = tick /\ cursor' = Marks ELSE Snapshots /\ UNCHANGED cursor
    /\ UNCHANGED <<world, live, tombs, pages, visits, bound>>

\* _loop, _snapshot: the tick is skipped while nobody listens.
Snap ==
    /\ tick.at = "idle" /\ Subscribers # {} /\ Snapshots
    /\ UNCHANGED <<world, cursor, live, tombs, pages, visits, bound>>

\* A folder per running wakeup, attached when a tick first finds it running.
Held(w) == IF w \in DOMAIN live THEN live[w] ELSE [tail |-> Unread, card |-> Empty]
Polled(w) ==
    LET got == Poll(Held(w).tail, file[w])
    IN  [tail |-> got.tail, card |-> IF got.rows = <<>> THEN Held(w).card ELSE Fold(Held(w).card, got.rows)]

\* _poll_live: last tick's tombstones, then the cards that advance. A transcript
\* whose reading raises is left for the next tick.
PollLive ==
    /\ tick.at = "snapped"
    /\ \E read \in IF "read" \in bound.raises THEN SUBSET Active ELSE {Active} :
          /\ live' = [w \in Active \cup DOMAIN live |->
                          IF w \in read THEN Polled(w) ELSE IF w \in Active THEN Held(w) ELSE live[w]]
          /\ tick' = [tick EXCEPT !.at = "polled", !.seen = Active, !.events = @ \cup tombs \cup
                         {w \in read : Poll(Held(w).tail, file[w]).rows # <<>>}]
    /\ tombs' = {}
    /\ UNCHANGED <<world, cursor, pages, visits, bound>>

\* wakeups.list_active raises: no transcript is read and no folder is dropped.
PollFails ==
    /\ "list" \in bound.raises /\ tick.at = "snapped"
    /\ tick' = [tick EXCEPT !.at = "polled", !.seen = DOMAIN live, !.events = @ \cup tombs]
    /\ tombs' = {}
    /\ UNCHANGED <<world, cursor, live, pages, visits, bound>>

\* (slip) a queue without a limit
MQueued(p) == queue[p]

\* _publish: a full queue drops its oldest.
Queued(p)  == IF Len(queue[p]) = QueueMax THEN Tail(queue[p]) ELSE queue[p]
Dropped(p) == IF Len(queue[p]) = QueueMax THEN Head(queue[p]) ELSE {}

\* The end of _poll_live and of _detect_changes, and _publish.
Publish ==
    /\ tick.at = "polled" /\ tick' = Idle /\ cursor' = tick.marks
    /\ tombs' = DOMAIN live \ tick.seen
    /\ live' = Restrict(live, tick.seen)
    /\ IF tick.events = {} THEN UNCHANGED <<queue, untold>>
       ELSE /\ queue' = [p \in Page |-> IF p \in Subscribers THEN Append(Queued(p), tick.events) ELSE queue[p]]
            /\ untold' = [p \in Page |-> untold[p] \cup
                             CASE p \in Subscribers    -> Dropped(p)
                               [] stage[p] = "closed"  -> {}
                               [] OTHER                -> tick.events]
    /\ UNCHANGED <<world, stage, hand, shown, cards, ears, visits, bound>>

-----------------------------------------------------------------------------
(* A page: rendered, then connected to its stream. *)

\* build_live_cards: from the folder when there is one, else from the file.
LiveCards == [w \in Active |-> IF w \in DOMAIN live THEN Snapshot(live[w].card) ELSE Batch(file[w])]
Shows(p, fs) ==
    /\ shown' = [shown EXCEPT ![p] = [f \in fs \cup DOMAIN @ |-> IF f \in fs THEN Content(f) ELSE @[f]]]
    /\ IF "activity" \in fs
       THEN /\ cards' = [cards EXCEPT ![p] = LiveCards]
            /\ ears' = [ears EXCEPT ![p] = @ \cup Active]
       ELSE UNCHANGED <<cards, ears>>
    /\ untold' = [untold EXCEPT ![p] = @ \ (fs \cup IF "activity" \in fs THEN Active ELSE {})]

\* The page's route renders its own fragments inline; the top bar stays empty.
OpenPage(p) ==
    /\ p \in bound.pages /\ stage[p] = "closed" /\ visits < bound.visits /\ visits' = visits + 1
    /\ stage' = [stage EXCEPT ![p] = "rendered"]
    /\ Shows(p, Wants[p] \ TopBar)
    /\ UNCHANGED <<world, caster, queue, hand, bound>>

\* sse_dashboard: the widgets of the top bar, from one query and in this order.
\* What raises stays a placeholder until its event fires.
Connect(p) ==
    /\ stage[p] = "rendered" /\ stage' = [stage EXCEPT ![p] = "connecting"]
    /\ \E fs \in {TopBar} \cup IF "render" \in bound.raises THEN {{"health"}, {}} ELSE {} :
          Shows(p, Wants[p] \cap fs)
    /\ UNCHANGED <<world, caster, queue, hand, visits, bound>>

Subscribe(p) ==
    /\ stage[p] = "connecting" /\ stage' = [stage EXCEPT ![p] = "open"]
    /\ UNCHANGED <<world, caster, queue, hand, shown, cards, ears, untold, visits, bound>>

\* A burst is drained into one batch.
Take(p) ==
    /\ queue[p] # <<>> /\ hand[p] = {}
    /\ hand' = [hand EXCEPT ![p] = UNION ToSet(queue[p])]
    /\ queue' = [queue EXCEPT ![p] = <<>>]
    /\ UNCHANGED <<world, caster, stage, shown, cards, ears, untold, visits, bound>>

Spend(p, e) == hand' = [hand EXCEPT ![p] = @ \ {e}]

RenderFragment(p, f) ==
    /\ f \in hand[p] \cap Fragments /\ Spend(p, f)
    /\ Shows(p, Wants[p] \cap {f})
    /\ UNCHANGED <<world, caster, stage, queue, visits, bound>>

\* A rendering that raises is logged: its event is spent and the page as it was.
RenderFails(p, e) ==
    /\ "render" \in bound.raises
    /\ e \in hand[p] \cap (DOMAIN live \cup Wants[p]) /\ Spend(p, e)
    /\ untold' = [untold EXCEPT ![p] = @ \cup {e}]
    /\ UNCHANGED <<world, caster, stage, queue, shown, cards, ears, visits, bound>>

\* htmx: an event fills its element; the listener of an element that is gone is
\* released when its event fires.
Fires(p, w, content) ==
    IF w \in DOMAIN cards[p]
    THEN cards' = [cards EXCEPT ![p][w] = content] /\ UNCHANGED ears
    ELSE ears' = [ears EXCEPT ![p] = @ \ {w}] /\ UNCHANGED cards

\* The events of a batch are a set: their order is open. A wakeup that is no
\* longer live fires an empty card.
RenderCard(p, w) ==
    /\ w \in hand[p] \cap Wakeup /\ Spend(p, w)
    /\ IF "activity" \notin Wants[p] THEN UNCHANGED <<cards, ears>>
       ELSE Fires(p, w, IF w \in DOMAIN live THEN Snapshot(live[w].card) ELSE <<>>)
    /\ untold' = [untold EXCEPT ![p] = @ \ {w}]
    /\ UNCHANGED <<world, caster, stage, queue, shown, visits, bound>>

ClosePage(p) ==
    /\ stage[p] # "closed" /\ stage' = [stage EXCEPT ![p] = "closed"]
    /\ queue' = [queue EXCEPT ![p] = <<>>] /\ hand' = [hand EXCEPT ![p] = {}]
    /\ cards' = [cards EXCEPT ![p] = Nothing] /\ ears' = [ears EXCEPT ![p] = {}]
    /\ untold' = [untold EXCEPT ![p] = {}]
    /\ shown' = [shown EXCEPT ![p] = Nothing]
    /\ UNCHANGED <<world, caster, visits, bound>>

-----------------------------------------------------------------------------
Stream(p) ==
    \/ Connect(p) \/ Subscribe(p) \/ Take(p)
    \/ \E f \in Fragments : RenderFragment(p, f)
    \/ \E w \in Wakeup : RenderCard(p, w)
    \/ \E e \in Fragments \cup Wakeup : RenderFails(p, e)

Next ==
    \/ \E t \in Tables : TableChanges(t)
    \/ \E w \in Wakeup : WakeupStarts(w) \/ WriteTranscript(w) \/ WakeupEnds(w)
    \/ Snap \/ PollLive \/ PollFails \/ Publish
    \/ \E p \in Page : OpenPage(p) \/ Stream(p) \/ ClosePage(p)

Spec == Init /\ [][Next]_vars

\* The broadcaster keeps polling and an open stream keeps rendering.
FairSpec ==
    /\ Spec /\ WF_vars(Snap) /\ WF_vars(PollLive \/ PollFails) /\ WF_vars(Publish)
    /\ \A p \in Page : WF_vars(Stream(p))

-----------------------------------------------------------------------------
(* Properties. *)

Told(p) == hand[p] \cup (UNION ToSet(queue[p])) \cup (IF tick.at = "idle" THEN {} ELSE tick.events)
Base    == IF tick.at = "idle" THEN cursor ELSE tick.marks

\* What a page shows of what the marks cover is what the database holds, unless
\* the page is being told, the next tick will tell, or the telling was lost:
\* published before the page subscribed, dropped by a full queue, or rendered in
\* vain. The count of running wakeups alone can be stale: it may go and return
\* between two ticks. Mail between agents is covered by no mark.
FreshOrTold == \A p \in Page : stage[p] # "closed" =>
    \A f \in DOMAIN shown[p] \ {"health"} : Changed(f, shown[p][f], Marks) =>
        f \in Told(p) \cup untold[p] \/ Changed(f, Base, Marks)

\* The card of a running wakeup shows what its folder holds, or its event is on
\* the way: no page is left behind by a wakeup that streams.
CardIsCurrent == \A p \in Page : \A w \in DOMAIN cards[p] \cap DOMAIN live :
    cards[p][w] = Snapshot(live[w].card) \/ live[w].card = Empty \/ w \in Told(p) \cup untold[p]

PagesAreCurrent == FreshOrTold /\ CardIsCurrent

\* "Push rendered HTML fragments whenever the relevant tables change" (sse_route.py
\* 226): mail that an open timeline does not show comes to be shown, or its
\* rendering raised.
MailIsPushed == \A p \in Page :
    stage[p] = "open" /\ "activity" \in DOMAIN shown[p] /\ shown[p]["activity"] # Content("activity")
        ~> stage[p] = "closed" \/ shown[p]["activity"] = Content("activity") \/ "activity" \in untold[p]

\* The folder fed slice by slice, each ending anywhere in a line, holds what one
\* pass over the same bytes yields: no row is lost, torn or taken twice.
CardIsTranscript == \A w \in DOMAIN live :
    LET t == live[w].tail
    IN  live[w].card = Fold(Empty, Complete(SubSeq(file[w], t.from + 1, t.offset)))

=============================================================================
