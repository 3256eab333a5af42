----------------------------- MODULE ModelTurn -----------------------------
(***************************************************************************)
(* How a turn of the agent loop gets its reply: the candidates of the      *)
(* wakeup are tried in order, a candidate whose circuit is open is passed  *)
(* over, and one that fails, before or in its stream, is followed by the   *)
(* next (agent_loop._run_one_turn_with_fallback). The wakeups of one       *)
(* process share the circuits (runtime/health_tracker.py).                 *)
(***************************************************************************)
EXTENDS ModelRegistry

CONSTANTS
    Wakeup,
    Wants,                  \* Wants[w]: the preference of w's persona
    Carries,                \* Carries[w]: kinds of attachments among w's mail
    FailWindow, FailThreshold, Cooldown,    \* _WINDOW_S, _FAIL_THRESHOLD, _COOLDOWN_S
    MaxMidstream,           \* max_midstream_retries
    MaxTurns, MaxPieces, MaxTime    \* bounds on turns, stream events, the clock

Models == {Registry[i].id : i \in DOMAIN Registry}
Never  == 0                 \* opened_at is None; the clock starts at 1

ASSUME ModelTurnAssumption ==
    /\ {FailWindow, Cooldown, MaxMidstream, MaxTurns} \subseteq Nat
    /\ {FailThreshold, MaxPieces, MaxTime} \subseteq Nat \ {0}
    /\ \A w \in Wakeup : Wants[w].tier \in Tiers /\ Carries[w] \subseteq {"image", "document"}

VARIABLES
    now,
    failures, openedAt,     \* _ModelState of each model
    pc, cands, at,          \* the wakeup's candidates and the one it tries
    midstream, got, reply,  \* midstream_attempts; what has streamed; the reply
    turns,
    \* history: the candidates that this turn passed over or that failed it. Since
    \* the last success of a model: its last failures, when they first filled a
    \* window, when a wakeup tried it in spite of that
    spent, recent, dead, probed

circuits == <<failures, openedAt>>
history  == <<spent, recent, dead, probed>>
vars     == <<now, circuits, pc, cands, at, midstream, got, reply, turns, history>>

TypeOK ==
    /\ now \in 1..MaxTime /\ turns \in 0..MaxTurns
    /\ \A m \in Models : /\ openedAt[m] \in Never..now
                         /\ \A i \in DOMAIN failures[m] : failures[m][i] \in 1..now
    /\ \A w \in Wakeup :
         /\ pc[w] \in {"idle", "ready", "trying", "streaming", "refused", "raised"}
         /\ at[w] \in 0..Len(cands[w]) + 1 /\ Len(got[w]) <= MaxPieces
         /\ midstream[w] <= MaxMidstream + 1
         /\ spent[w] \subseteq Models

Init ==
    /\ now = 1
    /\ failures = [m \in Models |-> <<>>] /\ openedAt = [m \in Models |-> Never]
    /\ pc = [w \in Wakeup |-> "idle"] /\ cands = [w \in Wakeup |-> <<>>]
    /\ at = [w \in Wakeup |-> 0] /\ midstream = [w \in Wakeup |-> 0]
    /\ got = [w \in Wakeup |-> <<>>] /\ reply = [w \in Wakeup |-> <<>>]
    /\ turns = 0 /\ spent = [w \in Wakeup |-> {}]
    /\ recent = [m \in Models |-> <<>>] /\ dead = [m \in Models |-> Never]
    /\ probed = [w \in Wakeup |-> [m \in Models |-> Never]]

-----------------------------------------------------------------------------
(* The circuits *)

State(m) ==
    IF openedAt[m] = Never THEN "closed"
    ELSE IF now - openedAt[m] >= Cooldown THEN "half_open" ELSE "open"

Available == [m \in Models |-> State(m) # "open"]

\* _prune drops the oldest as long as they are out of the window; then the append
Expired(m) == {i \in DOMAIN failures[m] : \A j \in 1..i : failures[m][j] + FailWindow < now}

Pruned(m) ==
    Append(SubSeq(failures[m], Cardinality(Expired(m)) + 1, Len(failures[m])), now)

\* (slip) a probe that fails leaves the circuit half-open
MMarkFailure(m) ==
    /\ failures' = [failures EXCEPT ![m] = Pruned(m)]
    /\ openedAt' = IF openedAt[m] = Never /\ Len(Pruned(m)) >= FailThreshold
                   THEN [openedAt EXCEPT ![m] = now] ELSE openedAt

MarkFailure(m) ==
    /\ failures' = [failures EXCEPT ![m] = Pruned(m)]
    /\ openedAt' = IF State(m) = "half_open" \/
                      (State(m) = "closed" /\ Len(Pruned(m)) >= FailThreshold)
                   THEN [openedAt EXCEPT ![m] = now] ELSE openedAt

MarkSuccess(m) ==
    /\ failures' = [failures EXCEPT ![m] = <<>>]
    /\ openedAt' = [openedAt EXCEPT ![m] = Never]

-----------------------------------------------------------------------------
(* What the properties remember of a model *)

Remember(m) ==
    LET times == Append(recent[m], now)
        last  == SubSeq(times, IF Len(times) > FailThreshold THEN 2 ELSE 1, Len(times))
    IN  /\ recent' = [recent EXCEPT ![m] = last]
        /\ dead' = IF dead[m] = Never /\ Len(last) = FailThreshold
                      /\ now - last[1] <= FailWindow
                   THEN [dead EXCEPT ![m] = now] ELSE dead

Forget(m) ==
    /\ recent' = [recent EXCEPT ![m] = <<>>]
    /\ dead' = [dead EXCEPT ![m] = Never]
    /\ probed' = [w \in Wakeup |-> [probed[w] EXCEPT ![m] = Never]]

-----------------------------------------------------------------------------
(* A wakeup *)

\* The scheduler selects the candidates once, before the loop starts
SelectCandidates(w) ==
    /\ pc[w] = "idle" /\ turns < MaxTurns
    /\ \E selected \in Selections(Wants[w], Available) :
         /\ cands' = [cands EXCEPT ![w] = selected]
         /\ pc' = [pc EXCEPT ![w] = IF selected = <<>> THEN "refused" ELSE "ready"]
    /\ UNCHANGED <<now, circuits, at, midstream, got, reply, turns, history>>

\* (slip) the midstream budget is the wakeup's, not the turn's
MStartTurn(w) ==
    /\ pc[w] = "ready" /\ turns < MaxTurns
    /\ pc' = [pc EXCEPT ![w] = "trying"] /\ turns' = turns + 1
    /\ at' = [at EXCEPT ![w] = 1]
    /\ reply' = [reply EXCEPT ![w] = <<>>] /\ spent' = [spent EXCEPT ![w] = {}]
    /\ UNCHANGED <<now, circuits, cands, midstream, got, recent, dead, probed>>

StartTurn(w) ==
    /\ pc[w] = "ready" /\ turns < MaxTurns
    /\ pc' = [pc EXCEPT ![w] = "trying"] /\ turns' = turns + 1
    /\ at' = [at EXCEPT ![w] = 1] /\ midstream' = [midstream EXCEPT ![w] = 0]
    /\ reply' = [reply EXCEPT ![w] = <<>>] /\ spent' = [spent EXCEPT ![w] = {}]
    /\ UNCHANGED <<now, circuits, cands, got, recent, dead, probed>>

Trying(w)    == pc[w] = "trying" /\ at[w] <= Len(cands[w])
Candidate(w) == Registry[cands[w][at[w]]]

\* The circuit is open, or the adapter cannot be made
Skip(w) ==
    /\ Trying(w)
    /\ LET entry == Candidate(w) IN
         /\ ~Available[entry.id] \/ ~Makeable(entry)
         /\ spent' = [spent EXCEPT ![w] = @ \cup {entry.id}]
    /\ at' = [at EXCEPT ![w] = @ + 1]
    /\ UNCHANGED <<now, circuits, pc, cands, midstream, got, reply, turns, recent, dead,
                   probed>>

\* (slip) what an earlier candidate streamed is still there
MOpen(w) ==
    /\ Trying(w)
    /\ LET entry == Candidate(w) IN
         /\ Available[entry.id] /\ Makeable(entry)
         /\ probed' = IF dead[entry.id] # Never THEN [probed EXCEPT ![w][entry.id] = now] ELSE probed
    /\ pc' = [pc EXCEPT ![w] = "streaming"]
    /\ UNCHANGED <<now, circuits, cands, at, midstream, got, reply, turns, spent, recent,
                   dead>>

Open(w) ==
    /\ Trying(w)
    /\ LET entry == Candidate(w) IN
         /\ Available[entry.id] /\ Makeable(entry)
         /\ probed' = IF dead[entry.id] # Never THEN [probed EXCEPT ![w][entry.id] = now] ELSE probed
    /\ pc' = [pc EXCEPT ![w] = "streaming"]
    /\ got' = [got EXCEPT ![w] = <<>>]
    /\ UNCHANGED <<now, circuits, cands, at, midstream, reply, turns, spent, recent, dead>>

\* A stream event
Piece(w) ==
    /\ pc[w] = "streaming" /\ Len(got[w]) < MaxPieces
    /\ Convertible(Candidate(w), Carries[w])
    /\ got' = [got EXCEPT ![w] = Append(@, at[w])]
    /\ UNCHANGED <<now, circuits, pc, cands, at, midstream, reply, turns, history>>

\* The stream ends, or a blocker's mail ends it: either is a success of the model
Done(w) ==
    /\ pc[w] = "streaming" /\ Convertible(Candidate(w), Carries[w])
    /\ MarkSuccess(Candidate(w).id)
    /\ Forget(Candidate(w).id)
    /\ reply' = [reply EXCEPT ![w] = got[w]]
    /\ pc' = [pc EXCEPT ![w] = "ready"]
    /\ UNCHANGED <<now, cands, at, midstream, got, turns, spent>>

\* The stream raises: the adapter cannot put the messages, the provider refuses,
\* the connection breaks. After the first event that costs a midstream retry
Fail(w) ==
    /\ pc[w] = "streaming"
    /\ LET entry == Candidate(w)
           late  == got[w] # <<>>
           fatal == late /\ midstream[w] = MaxMidstream
       IN  /\ MarkFailure(entry.id)
           /\ Remember(entry.id)
           /\ spent' = [spent EXCEPT ![w] = @ \cup {entry.id}]
           /\ midstream' = [midstream EXCEPT ![w] = IF late THEN @ + 1 ELSE @]
           /\ pc' = [pc EXCEPT ![w] = IF fatal THEN "raised" ELSE "trying"]
           /\ at' = [at EXCEPT ![w] = IF fatal THEN @ ELSE @ + 1]
    /\ UNCHANGED <<now, cands, got, reply, turns, probed>>

\* AllCandidatesFailedError
AllFailed(w) ==
    /\ pc[w] = "trying" /\ at[w] > Len(cands[w])
    /\ pc' = [pc EXCEPT ![w] = "raised"]
    /\ UNCHANGED <<now, circuits, cands, at, midstream, got, reply, turns, history>>

\* The task's next wakeup, after one that raised
Again(w) ==
    /\ pc[w] = "raised" /\ turns < MaxTurns
    /\ pc' = [pc EXCEPT ![w] = "idle"]
    /\ UNCHANGED <<now, circuits, cands, at, midstream, got, reply, turns, history>>

Tick ==
    /\ now < MaxTime /\ now' = now + 1
    /\ UNCHANGED <<circuits, pc, cands, at, midstream, got, reply, turns, history>>

Next ==
    \/ Tick
    \/ \E w \in Wakeup :
         \/ SelectCandidates(w) \/ StartTurn(w) \/ Skip(w) \/ Open(w) \/ Piece(w)
         \/ Done(w) \/ Fail(w) \/ AllFailed(w) \/ Again(w)

Spec == Init /\ [][Next]_vars

-----------------------------------------------------------------------------
(* Properties *)

\* The reply of a turn is the stream of the last candidate it tried: what
\* another streamed before it failed is in no reply.
ReplyIsOneStream ==
    \A w \in Wakeup : \A i \in DOMAIN reply[w] : reply[w][i] = at[w]

\* A wakeup gives up only when nothing is left: every entry that could answer
\* has failed this turn or has an open circuit, or the midstream budget is spent.
GivesUpLast ==
    \A w \in Wakeup :
        /\ pc[w] = "refused" => Usable(Wants[w], Carries[w]) = {}
        /\ pc[w] = "raised" /\ midstream[w] <= MaxMidstream
             => \A i \in Usable(Wants[w], Carries[w]) : Registry[i].id \in spent[w]

\* A conversation survives a model: not more and not less than one answer, as
\* long as one can be had.
FailoverIsSound == ReplyIsOneStream /\ GivesUpLast

\* "a still-dead model is retried at full timeout cost on every turn": once its
\* failures filled a window, a model has a cooldown, and no wakeup tries it twice
\* within another, however the streams of the wakeups overlap.
DeadModelIsSpared ==
    [][\A w \in Wakeup, m \in Models :
         dead[m] # Never /\ pc[w] = "trying" /\ pc'[w] = "streaming" /\ Candidate(w).id = m
             => now >= Cooldown + (IF probed[w][m] = Never THEN dead[m] ELSE probed[w][m])]_vars

=============================================================================
