----------------------------- MODULE AgentLoop -----------------------------
(***************************************************************************)
(* AgentLoop.run (runtime/agent_loop.py): one wakeup, from its goal to its *)
(* result. A turn sends the conversation to a model, runs the tools that   *)
(* the model calls, and feeds their results back. Meanwhile urgent mail    *)
(* arrives, the operator cancels the task, the worker's heartbeat asks the *)
(* loop to stop. How a turn gets its reply is ModelTurn.                   *)
(***************************************************************************)
EXTENDS Wire, Bags

CONSTANTS
    Replies,            \* what a model may answer: [calls, says, stop, full]
    Asker,              \* who writes to the agent, itself included
    Self,
    MaxTurns,           \* max_turns
    MaxNudges,          \* _MAX_SILENT_TURN_NUDGES
    MaxCompactions,     \* _MAX_COMPACTIONS
    RepeatThreshold,    \* loop_repeat_threshold, 0 to disable
    Events,             \* what may come: "mail", "cancel", "stop", "failure"
    MaxEvents           \* bound on the mails, cancels and stops that come

Stops == {"none", "end_turn", "tool_use", "max_tokens"}

ASSUME AgentLoopAssumption ==
    /\ Replies \subseteq [calls : Seq([tool : STRING, args : STRING]), says : BOOLEAN,
                          stop : Stops, full : BOOLEAN]
    /\ Self \in Asker
    /\ {MaxTurns, MaxNudges, MaxCompactions, RepeatThreshold, MaxEvents} \subseteq Nat
    /\ Events \subseteq {"mail", "cancel", "stop", "failure"}

VARIABLES
    pc, turn, talk,
    reply, results,     \* the turn's reply, the results of its calls so far
    stop, cancel,       \* _stop_request, the cancel flag of the task
    mail,               \* the MailWatcher's signal and the highest urgency
    called, acted,      \* all_tool_calls # [], made_user_facing_action
    nudges, compactions, repeat, askers,
    status, told,       \* the result; who got the silent-close fallback
    \* history: the calls that were run; the mails read and sent; an attempt to
    \* act was made; events that came
    ran, mailed, tried, came

loopVars == <<called, acted, nudges, compactions, repeat, askers>>
history  == <<ran, mailed, tried, came>>
vars     == <<pc, turn, talk, reply, results, stop, cancel, mail, loopVars,
              status, told, history>>

UserFacing == {"mailbox_send", "mailbox_react", "dispatch_task", "fan_in_open",
               "report_progress", "report_side_effect", "cancel_scheduled_mail",
               "archive_agent", "create_agent", "mark_read"}

NoReply  == [calls |-> <<>>, says |-> FALSE, stop |-> "none", full |-> FALSE, cut |-> FALSE]
NoRepeat == [of |-> EmptyBag, count |-> 0, nudged |-> FALSE]

TypeOK ==
    /\ pc \in {"boundary", "model", "tools", "closing", "over"}
    /\ turn \in 0..MaxTurns
    /\ \A i \in DOMAIN talk : talk[i].kind \in Kinds
    /\ DOMAIN reply = DOMAIN NoReply /\ Len(results) <= Len(reply.calls)
    /\ stop \in {"none", "cancelled", "needs_continuation"}
    /\ mail \in {"none", "high", "blocker"}
    /\ {cancel, called, acted, tried} \subseteq BOOLEAN
    /\ nudges \in 0..MaxNudges /\ compactions \in 0..MaxCompactions
    /\ askers \subseteq Asker /\ told \subseteq Asker
    /\ status \in {"running", "raised", "cancelled", "needs_continuation",
                   "silent_close", "completed"}
    /\ came \in 0..MaxEvents

Init ==
    /\ pc = "boundary" /\ turn = 0 /\ talk = <<Message("goal", <<>>)>>
    /\ reply = NoReply /\ results = <<>>
    /\ stop = "none" /\ cancel = FALSE /\ mail = "none"
    /\ called = FALSE /\ acted = FALSE /\ nudges = 0 /\ compactions = 0
    /\ repeat = NoRepeat /\ askers = {} /\ status = "running" /\ told = {}
    /\ ran = <<>> /\ mailed = <<>> /\ tried = FALSE /\ came = 0

-----------------------------------------------------------------------------
(* The end of the loop *)

Resolution(stopped, hitMax, final, silent) ==
    IF stopped # "none" THEN stopped
    ELSE IF hitMax THEN "needs_continuation"
    ELSE IF silent THEN "silent_close"
    ELSE IF final = "end_turn" THEN "completed" ELSE "needs_continuation"

\* What follows the turn loop, given what the last turn left. A silent close
\* waits for the outbox, everything else is decided at once
Leave(stopped, hitMax, final, actedNow, nudgesNow) ==
    LET silent == /\ final = "end_turn" /\ nudgesNow >= MaxNudges /\ ~actedNow
                  /\ called /\ ~hitMax /\ stopped = "none"
    IN  IF silent
        THEN pc' = "closing" /\ UNCHANGED status
        ELSE pc' = "over" /\ status' = Resolution(stopped, hitMax, final, silent)

\* _emit_silent_close_fallback; a stop that comes meanwhile still decides the result
Fallback ==
    /\ pc = "closing"
    /\ told' = askers \ {Self}
    /\ pc' = "over" /\ status' = Resolution(stop, FALSE, "end_turn", TRUE)
    /\ UNCHANGED <<turn, talk, reply, results, stop, cancel, mail, loopVars, history>>

-----------------------------------------------------------------------------
(* The turn *)

Notice(conversation) ==
    IF mail = "none" THEN conversation ELSE Append(conversation, Message("notice", <<>>))

\* for ... else: the loop ran all its turns
Exhausted ==
    /\ pc = "boundary" /\ turn = MaxTurns
    /\ Leave(stop, TRUE, reply.stop, acted, nudges)
    /\ UNCHANGED <<turn, talk, reply, results, stop, cancel, mail, loopVars, told, history>>

\* (slip) the reason is taken for the status
MRequested == IF stop = "none" /\ cancel THEN "operator cancel" ELSE stop

\* cancel_check, when nobody else has asked the loop to stop
Requested == IF stop = "none" /\ cancel THEN "cancelled" ELSE stop

StopTurn ==
    /\ pc = "boundary" /\ turn < MaxTurns /\ Requested # "none"
    /\ stop' = Requested /\ turn' = turn + 1
    /\ Leave(Requested, FALSE, reply.stop, acted, nudges)
    /\ UNCHANGED <<talk, reply, results, cancel, mail, loopVars, told, history>>

StartTurn ==
    /\ pc = "boundary" /\ turn < MaxTurns /\ Requested = "none"
    /\ pc' = "model" /\ turn' = turn + 1
    /\ talk' = Notice(talk) /\ mail' = "none"
    /\ UNCHANGED <<reply, results, stop, cancel, loopVars, status, told, history>>

\* The calls of a reply get ids that no other turn uses
Calls(r) == [i \in DOMAIN r.calls |->
                [id |-> <<turn, i>>, tool |-> r.calls[i].tool, args |-> r.calls[i].args]]

Take(r, cut) ==
    /\ reply' = [calls |-> Calls(r), says |-> r.says, stop |-> r.stop,
                 full |-> r.full, cut |-> cut]
    /\ results' = <<>>
    /\ called' = (called \/ r.calls # <<>>)

\* A reply with calls: the assistant's message first, then the tools
Reply ==
    /\ pc = "model"
    /\ \E r \in Replies :
         /\ r.calls # <<>>
         /\ Take(r, FALSE)
         /\ talk' = Say(talk, r.says, Calls(r))
    /\ pc' = "tools"
    /\ UNCHANGED <<turn, stop, cancel, mail, acted, nudges, compactions, repeat, askers,
                   status, told, history>>

\* A reply without calls ends the loop, unless mail came or nobody was answered
LastWord ==
    /\ pc = "model"
    /\ \E r \in Replies :
         /\ r.calls = <<>>
         /\ Take(r, FALSE)
         /\ \/ /\ mail # "none"
               /\ talk' = Notice(Say(talk, r.says, <<>>)) /\ mail' = "none"
               /\ pc' = "boundary" /\ UNCHANGED <<nudges, status>>
            \/ /\ mail = "none"
               /\ r.stop = "end_turn" /\ called /\ ~acted /\ nudges < MaxNudges
               /\ talk' = Append(Say(talk, r.says, <<>>), Message("nudge", <<>>))
               /\ nudges' = nudges + 1
               /\ pc' = "boundary" /\ UNCHANGED <<mail, status>>
            \/ /\ mail = "none"
               /\ ~(r.stop = "end_turn" /\ called /\ ~acted /\ nudges < MaxNudges)
               /\ Leave(stop, FALSE, r.stop, acted, nudges)
               /\ UNCHANGED <<talk, nudges, mail>>
    /\ UNCHANGED <<turn, stop, cancel, acted, compactions, repeat, askers, told, history>>

\* A mail of urgency blocker breaks the stream: what was complete by then is kept.
\* The stop reason is the last thing that a stream tells
Interrupt ==
    /\ pc = "model" /\ mail = "blocker"
    /\ \E r \in Replies : \E n \in 0..Len(r.calls) :
         \E said \in {FALSE, r.says} : \E reason \in {"none"} \cup
             (IF n = Len(r.calls) THEN {r.stop} ELSE {}) :
             LET part == [r EXCEPT !.calls = SubSeq(@, 1, n), !.says = said, !.stop = reason]
             IN  /\ Take(part, TRUE)
                 /\ talk' = Say(talk, said, Calls(part))
    /\ pc' = "tools"
    /\ UNCHANGED <<turn, stop, cancel, mail, acted, nudges, compactions, repeat, askers,
                   status, told, history>>

\* AllCandidatesFailedError, or the last mid-stream error: run() raises
Raise ==
    /\ "failure" \in Events /\ pc = "model"
    /\ status' = "raised" /\ pc' = "over"
    /\ UNCHANGED <<turn, talk, reply, results, stop, cancel, mail, loopVars, told, history>>

-----------------------------------------------------------------------------
(* The tools *)

\* Not in the allowlist, arguments that did not parse, or the call at which the
\* output budget ended; the drain after an interrupt does not look for the last
Refused(call) ==
    \/ call.tool \notin Tool
    \/ call.args = "raw"
    \/ reply.stop = "max_tokens" /\ ~reply.cut /\ call = Last(reply.calls)

\* A handler may raise a ToolError, or anything else
Outcomes(call) == IF Refused(call) THEN {FALSE} ELSE BOOLEAN

\* Whose mail the call marked as read
Senders(call, ok) ==
    IF ok /\ call.tool = "mailbox_read" THEN SUBSET Asker ELSE {{}}

\* One _dispatch_tool of the turn
DispatchTool ==
    /\ pc = "tools" /\ Len(results) < Len(reply.calls)
    /\ LET call == reply.calls[Len(results) + 1] IN
         /\ \E ok \in Outcomes(call) :
              /\ results' = Append(results, [id |-> call.id, ok |-> ok])
              /\ \E senders \in Senders(call, ok) : askers' = askers \cup senders
              /\ mailed' = IF ok /\ call.tool \in PreservedIn \cup PreservedOut
                           THEN Append(mailed, call.id) ELSE mailed
         /\ ran' = IF Refused(call) THEN ran ELSE Append(ran, call.id)
         /\ acted' = (acted \/ call.tool \in UserFacing)
         /\ tried' = (tried \/ call.tool \in UserFacing)
    /\ UNCHANGED <<pc, turn, talk, reply, stop, cancel, mail, called, nudges,
                   compactions, repeat, status, told, came>>

Dispatched == pc = "tools" /\ Len(results) = Len(reply.calls)
Answered   == IF results = <<>> THEN talk ELSE Append(talk, Message("results", results))

\* After an interrupt: no repeat guard, no nudge, no compaction
Drained ==
    /\ Dispatched /\ reply.cut
    /\ talk' = Notice(Answered) /\ mail' = "none"
    /\ pc' = "boundary"
    /\ UNCHANGED <<turn, reply, results, stop, cancel, loopVars, status, told, history>>

\* The turn's calls without their order; arguments that did not parse are all alike
Fingerprint == ToBag([i \in DOMAIN reply.calls |->
                         <<reply.calls[i].tool, reply.calls[i].args>>])

Repeated ==
    IF repeat.of = Fingerprint THEN [repeat EXCEPT !.count = @ + 1]
    ELSE [of |-> Fingerprint, count |-> 1, nudged |-> FALSE]

TooOften == RepeatThreshold > 0 /\ Repeated.count >= RepeatThreshold

\* The dead-loop guard: the same calls again after the nudge
DeadLoop ==
    /\ Dispatched /\ ~reply.cut /\ TooOften /\ Repeated.nudged
    /\ talk' = Answered
    /\ repeat' = Repeated
    /\ stop' = "needs_continuation"
    /\ Leave("needs_continuation", FALSE, reply.stop, acted, nudges)
    /\ UNCHANGED <<turn, reply, results, cancel, mail, called, acted, nudges,
                   compactions, askers, told, history>>

\* The turn's input tokens reached compact_threshold of the model's context
Overflow == reply.full

\* The model gathered context and wants to end its turn with nobody answered
Overlooked == reply.stop = "end_turn" /\ called /\ ~acted /\ nudges < MaxNudges

\* (slip) the loop that thrashes is left as if its reply had been a last word
MThrashed ==
    /\ Dispatched /\ ~reply.cut /\ ~(TooOften /\ Repeated.nudged)
    /\ Overflow /\ compactions = MaxCompactions
    /\ talk' = Answered /\ repeat' = Repeated
    /\ Leave(stop, FALSE, "end_turn", acted, nudges)
    /\ UNCHANGED <<turn, reply, results, stop, cancel, mail, called, acted, nudges,
                   compactions, askers, told, history>>

\* Compacted too often: the loop is left by way of the silent close
Thrashed ==
    /\ Dispatched /\ ~reply.cut /\ ~(TooOften /\ Repeated.nudged)
    /\ Overflow /\ compactions = MaxCompactions
    /\ talk' = Answered /\ repeat' = Repeated
    /\ acted' = FALSE /\ nudges' = MaxNudges
    /\ Leave(stop, FALSE, "end_turn", FALSE, MaxNudges)
    /\ UNCHANGED <<turn, reply, results, stop, cancel, mail, called, compactions,
                   askers, told, history>>

\* The results, the nudges and, when the context is full, compaction, which may fail
Continue ==
    /\ Dispatched /\ ~reply.cut /\ ~(TooOften /\ Repeated.nudged)
    /\ ~(Overflow /\ compactions = MaxCompactions)
    /\ LET nudge(b, conversation) ==
               IF b THEN Append(conversation, Message("nudge", <<>>)) ELSE conversation
           fed == nudge(Overlooked, nudge(TooOften, Answered))
       IN  \/ ~Overflow /\ talk' = fed /\ UNCHANGED compactions
           \/ Overflow /\ talk' = Compact(fed) /\ compactions' = compactions + 1
           \/ Overflow /\ talk' = fed /\ UNCHANGED compactions
    /\ repeat' = IF TooOften THEN [Repeated EXCEPT !.nudged = TRUE] ELSE Repeated
    /\ nudges' = IF Overlooked THEN nudges + 1 ELSE nudges
    /\ pc' = "boundary"
    /\ UNCHANGED <<turn, reply, results, stop, cancel, mail, called, acted, askers,
                   status, told, history>>

-----------------------------------------------------------------------------
(* What comes from outside *)

Comes(event) == event \in Events /\ came < MaxEvents /\ status = "running" /\ came' = came + 1

MailComes ==
    /\ Comes("mail")
    /\ \E urgency \in {"high", "blocker"} :
         mail' = IF mail = "blocker" THEN mail ELSE urgency
    /\ UNCHANGED <<pc, turn, talk, reply, results, stop, cancel, loopVars, status, told,
                   ran, mailed, tried>>

\* request_cancel on the task row
CancelAsked ==
    /\ Comes("cancel")
    /\ cancel' = TRUE
    /\ UNCHANGED <<pc, turn, talk, reply, results, stop, mail, loopVars, status, told,
                   ran, mailed, tried>>

\* request_stop by the heartbeat: the deadline passed, or the lease is lost. The
\* first request wins
StopAsked ==
    /\ Comes("stop")
    /\ stop' = IF stop = "none" THEN "needs_continuation" ELSE stop
    /\ UNCHANGED <<pc, turn, talk, reply, results, cancel, mail, loopVars, status, told,
                   ran, mailed, tried>>

Next ==
    \/ Fallback \/ Exhausted \/ StopTurn \/ StartTurn
    \/ Reply \/ LastWord \/ Interrupt \/ Raise
    \/ DispatchTool \/ Drained \/ DeadLoop \/ Thrashed \/ Continue
    \/ MailComes \/ CancelAsked \/ StopAsked

Spec == Init /\ [][Next]_vars

-----------------------------------------------------------------------------
(* Properties *)

\* What the providers demand of every request, in each adapter's form of it: the
\* calls of a message are answered right behind it, by just one result each, and
\* results stand nowhere else; through interrupts, notices, nudges and compaction.
CallsHaveResults == pc = "model" => Accepted(talk)

\* The calls whose mails the conversation still shows, in order
Shown ==
    FlattenSeq([i \in DOMAIN talk |->
        IF talk[i].kind \in {"mail", "sent"} THEN talk[i].items
        ELSE IF talk[i].kind = "assistant" THEN Ids(talk[i]) ELSE <<>>])

\* "all owner / peer mail verbatim": a mail that was read in full or sent is in
\* the conversation once, and in its order, however often it was compacted.
MailIsKept ==
    pc = "model" => Among(Shown, ToSet(mailed)) = mailed

\* What a tool did, the model is told in its next turn, whatever came between.
OutcomesReachModel ==
    pc = "model" =>
        \A id \in ToSet(ran) : id[1] = turn - 1 =>
            \E i \in DOMAIN talk :
                talk[i].kind = "results" /\ \E r \in ToSet(talk[i].items) : r.id = id

ConversationSound == CallsHaveResults /\ MailIsKept /\ OutcomesReachModel

\* A wakeup is completed only if the model had the last word, with nothing left:
\* no call, no stop asked for, no urgent mail that came before that word.
CompletedIsDone ==
    status = "completed" =>
        reply.calls = <<>> /\ reply.stop = "end_turn" /\ ~reply.cut
        /\ stop = "none" /\ mail = "none"

\* A stop decides the result, also when the loop runs out of turns, thrashes or
\* is just closing.
StopDecides == pc = "over" /\ stop # "none" => status \in {stop, "raised"}

\* Whoever's mail was read has an answer of some kind when the wakeup counts as
\* done: the agent acted, or at least tried to, or the fallback went out.
NobodyIsIgnored ==
    status \in {"completed", "silent_close"} =>
        tried \/ askers \subseteq told \cup {Self}

HonestEnd == CompletedIsDone /\ StopDecides /\ NobodyIsIgnored

=============================================================================
