--------------------------- MODULE AgentLoopProofs --------------------------
(***************************************************************************)
(* Proofs of what AgentLoop states about the conversation of a wakeup and  *)
(* about its end, for every repertoire of replies, every budget of turns,  *)
(* nudges and compactions and every order in which mail, cancels and stops *)
(* come; and of what the adapters promise of the answers that the loop     *)
(* reads (AdapterStream).                                                  *)
(***************************************************************************)
EXTENDS AgentLoop, Answers, SequenceTheorems, FiniteSetTheorems, WellFoundedInduction, TLAPS

USE AgentLoopAssumption

StopKind == {"none", "cancelled", "needs_continuation"}
EndState == {"raised", "cancelled", "needs_continuation", "silent_close", "completed"}

\* The part of TypeOK that the end of the loop depends on.
Types ==
    /\ pc \in {"boundary", "model", "tools", "closing", "over"}
    /\ stop \in StopKind
    /\ status \in {"running"} \cup EndState
    /\ nudges \in Nat

\* A result is there when the loop is over, and only then.
Ended == pc = "over" <=> status # "running"

\* What was seen of the calls: a wakeup that read mail has called a tool, and so has
\* one that runs the tools of a reply which was not cut.
CallsSeen ==
    /\ reply.calls # <<>> => called
    /\ reply.calls = <<>> => results = <<>>
    /\ ~called => askers = {}
    /\ pc = "tools" /\ ~reply.cut => called

\* The loop may forget that the agent acted, but it never imagines it.
Acted == acted => tried

IInv == Types /\ Ended /\ CallsSeen /\ Acted /\ HonestEnd

-----------------------------------------------------------------------------

\* A reply without calls makes none.
LEMMA NoCalls ==
  ASSUME NEW r, r.calls = <<>>
  PROVE  Calls(r) = <<>>
  BY DEF Calls

\* What the loop keeps of a reply.
LEMMA Taken ==
  ASSUME NEW r, NEW cut \in BOOLEAN, Take(r, cut)
  PROVE  /\ reply'.calls = Calls(r) /\ reply'.stop = r.stop /\ reply'.cut = cut
         /\ reply'.calls # <<>> => called'
         /\ results' = <<>>
         /\ called' <=> (called \/ r.calls # <<>>)
  BY NoCalls DEF Take

\* The result that Leave settles on, when it does.
LEMMA Leaves ==
  ASSUME NEW stopped \in StopKind, NEW hitMax \in BOOLEAN, NEW final, NEW did, NEW count \in Nat,
         Leave(stopped, hitMax, final, did, count)
  PROVE  \/ /\ pc' = "closing" /\ UNCHANGED status
            /\ stopped = "none" /\ called
         \/ /\ pc' = "over" /\ status' \in EndState
            /\ stopped # "none" => status' = stopped
            /\ status' # "silent_close"
            /\ status' = "completed" =>
                 /\ stopped = "none" /\ ~hitMax /\ final = "end_turn"
                 /\ count < MaxNudges \/ did \/ ~called
  BY DEF Leave, Resolution, StopKind, EndState

\* The invariant holds when the process starts.
LEMMA IInvInit == Init => IInv
  BY DEF Init, IInv, Types, StopKind, EndState, Ended, CallsSeen, Acted, NoReply, HonestEnd,
     CompletedIsDone, StopDecides, NobodyIsIgnored

\* Nothing happens after the end.
LEMMA OverIsOver == Ended /\ pc = "over" /\ Next => FALSE
<1> SUFFICES ASSUME pc = "over", status # "running", Next PROVE FALSE
  BY DEF Ended
<1>1. CASE MailComes \/ CancelAsked \/ StopAsked
  BY <1>1 DEF MailComes, CancelAsked, StopAsked, Comes
<1>2. CASE Drained \/ DeadLoop \/ Thrashed \/ Continue \/ DispatchTool
  BY <1>2 DEF Drained, DeadLoop, Thrashed, Continue, DispatchTool, Dispatched
<1> QED
  BY <1>1, <1>2 DEF Next, Fallback, Exhausted, StopTurn, StartTurn, Reply, LastWord, Interrupt, Raise

\* A step to the end, judged by what it leaves.
LEMMA IInvStep == IInv /\ [Next]_vars => IInv'
<1> SUFFICES ASSUME IInv, [Next]_vars PROVE IInv'
  OBVIOUS
<1>1. CASE UNCHANGED vars
  BY <1>1 DEF vars, loopVars, history, IInv, Types, Ended, CallsSeen, Acted, HonestEnd,
     CompletedIsDone, StopDecides, NobodyIsIgnored
<1>2. SUFFICES ASSUME Next PROVE IInv'
  BY <1>1
<1>0. /\ pc \in {"boundary", "model", "tools", "closing", "over"} /\ stop \in StopKind
      /\ nudges \in Nat /\ CallsSeen /\ Acted
      /\ pc # "over" /\ status = "running"
  BY <1>2, OverIsOver DEF IInv, Types, Ended
<1> USE DEF Types, Ended, CallsSeen, Acted, HonestEnd, CompletedIsDone, StopDecides,
    NobodyIsIgnored, loopVars, history
<1>3. CASE Fallback
  BY <1>0, <1>3 DEF Fallback, IInv, Resolution, StopKind, EndState
<1>4. CASE Exhausted
  BY <1>0, <1>4, Leaves DEF Exhausted, IInv, StopKind, EndState
<1>5. CASE StopTurn
  BY <1>0, <1>5, Leaves DEF StopTurn, IInv, Requested, StopKind, EndState
<1>6. CASE StartTurn
  BY <1>0, <1>6 DEF StartTurn, IInv, EndState
<1>7. CASE Reply
  <2>1. PICK r \in Replies : r.calls # <<>> /\ Take(r, FALSE)
    BY <1>7 DEF Reply
  <2>2. reply'.cut = FALSE /\ called' /\ results' = <<>>
    BY <2>1, Taken
  <2>3. pc' = "tools" /\ UNCHANGED <<stop, status, acted, nudges, askers, told, tried>>
    BY <1>7 DEF Reply
  <2> QED
    BY <1>0, <2>2, <2>3 DEF IInv, EndState
<1>8. CASE LastWord
  <2>1. PICK r \in Replies :
          /\ r.calls = <<>> /\ Take(r, FALSE)
          /\ \/ /\ pc' = "boundary" /\ UNCHANGED status /\ mail' = "none"
                /\ nudges' \in {nudges, nudges + 1}
             \/ /\ pc' = "boundary" /\ UNCHANGED <<mail, status>>
                /\ nudges' \in {nudges, nudges + 1}
             \/ /\ mail = "none"
                /\ ~(r.stop = "end_turn" /\ called /\ ~acted /\ nudges < MaxNudges)
                /\ Leave(stop, FALSE, r.stop, acted, nudges)
                /\ UNCHANGED <<nudges, mail>>
    BY <1>8 DEF LastWord
  <2>2. /\ reply'.calls = <<>> /\ reply'.stop = r.stop /\ reply'.cut = FALSE /\ results' = <<>>
        /\ called' <=> called
    BY <2>1, Taken, NoCalls
  <2>3. UNCHANGED <<stop, acted, askers, told, tried>>
    BY <1>8 DEF LastWord
  <2>4. CASE pc' = "boundary" /\ UNCHANGED status /\ nudges' \in {nudges, nudges + 1}
    BY <1>0, <2>2, <2>3, <2>4 DEF IInv, EndState
  <2>5. CASE /\ mail = "none"
             /\ ~(r.stop = "end_turn" /\ called /\ ~acted /\ nudges < MaxNudges)
             /\ Leave(stop, FALSE, r.stop, acted, nudges)
             /\ UNCHANGED <<nudges, mail>>
    <3>1. \/ pc' = "closing" /\ UNCHANGED status
          \/ /\ pc' = "over" /\ status' \in EndState
             /\ stop # "none" => status' = stop
             /\ status' # "silent_close"
             /\ status' = "completed" =>
                  /\ stop = "none" /\ r.stop = "end_turn"
                  /\ nudges < MaxNudges \/ acted \/ ~called
      BY <1>0, <2>5 DEF Leave, Resolution, StopKind, EndState, AgentLoopAssumption
    <3>2. status' = "completed" /\ pc' = "over" => acted \/ ~called
      BY <2>5, <3>1
    <3> QED
      BY <1>0, <2>2, <2>3, <2>5, <3>1, <3>2 DEF IInv, StopKind, EndState
  <2> QED
    BY <2>1, <2>4, <2>5
<1>9. CASE Interrupt
  <2>1. PICK part : Take(part, TRUE)
    BY <1>9 DEF Interrupt
  <2>2. /\ reply'.cut = TRUE /\ results' = <<>>
        /\ reply'.calls # <<>> => called'
        /\ called => called'
    BY <2>1, Taken
  <2>3. /\ pc = "model" /\ pc' = "tools"
        /\ UNCHANGED <<stop, mail, acted, tried, nudges, askers, status, told>>
    BY <1>9 DEF Interrupt, history
  <2> QED
    BY <1>0, <2>2, <2>3 DEF IInv, EndState
<1>10. CASE Raise
  BY <1>0, <1>10 DEF Raise, IInv, EndState
<1>11. CASE DispatchTool
  <2>1. reply.calls # <<>>
    BY <1>0, <1>11 DEF DispatchTool
  <2>2. /\ pc = "tools"
        /\ UNCHANGED <<pc, reply, stop, mail, called, nudges, status, told>>
    BY <1>11 DEF DispatchTool
  <2>3. acted' => tried'
    BY <1>0, <1>11 DEF DispatchTool
  <2> QED
    BY <1>0, <2>1, <2>2, <2>3 DEF IInv, EndState
<1>12. CASE Drained
  BY <1>0, <1>12 DEF Drained, Dispatched, IInv, EndState
<1>13. CASE DeadLoop
  BY <1>0, <1>13, Leaves DEF DeadLoop, Dispatched, IInv, StopKind, EndState
<1>14. CASE Thrashed
  <2>1. /\ pc = "tools" /\ ~reply.cut /\ ~acted' /\ nudges' = MaxNudges
        /\ Leave(stop, FALSE, "end_turn", FALSE, MaxNudges)
        /\ UNCHANGED <<reply, results, stop, mail, called, askers, told, tried>>
    BY <1>14 DEF Thrashed, Dispatched
  <2>2. MaxNudges \in Nat /\ called
    BY <1>0, <2>1 DEF AgentLoopAssumption
  <2>3. \/ pc' = "closing" /\ UNCHANGED status
        \/ /\ pc' = "over" /\ status' \in EndState
           /\ stop # "none" => status' = stop
           /\ status' \notin {"silent_close", "completed"}
    BY <1>0, <2>1, <2>2 DEF Leave, Resolution, StopKind, EndState
  <2> QED
    BY <1>0, <2>1, <2>2, <2>3 DEF IInv, StopKind, EndState
<1>15. CASE Continue
  BY <1>0, <1>15 DEF Continue, Dispatched, IInv, EndState
<1>16. CASE MailComes \/ CancelAsked \/ StopAsked
  BY <1>0, <1>16 DEF MailComes, CancelAsked, StopAsked, Comes, IInv, StopKind, EndState
<1> QED
  BY <1>2, <1>3, <1>4, <1>5, <1>6, <1>7, <1>8, <1>9, <1>10, <1>11, <1>12, <1>13, <1>14, <1>15,
     <1>16 DEF Next

\* A wakeup ends honestly, whatever the model answers and whatever comes while it works:
\* completed only if the model had the last word with nothing left, as the stop said if
\* one was asked for, and with nobody whose mail was read left without an answer
\* (agent_loop.py 940-980, _emit_silent_close_fallback).
THEOREM EndIsHonest == Spec => []HonestEnd
<1>1. IInv => HonestEnd
  BY DEF IInv
<1> QED
  BY <1>1, IInvInit, IInvStep, PTL DEF Spec

-----------------------------------------------------------------------------
(***************************************************************************)
(* The answers that the loop acts upon                                     *)
(***************************************************************************)
HIDE AgentLoopAssumption

Typed ==
    /\ protocol \in Answer!Protocols /\ reason \in Answer!Reasons(protocol) \cup {"none"}
    /\ made \in Seq(Answer!Blocks) /\ Len(made) <= MaxBlocks
    /\ DOMAIN buffers \subseteq DOMAIN made /\ \A k \in DOMAIN buffers : buffers[k] \in Nat
    /\ over \in {"no", "ended", "broken"} /\ input \in BOOLEAN
    /\ out \in Seq(Answer!Events)
    /\ finish \in IF reason = "none"
                  THEN {"none"} \cup IF protocol = "responses" THEN {"tool_use"} ELSE {}
                  ELSE IF protocol # "responses" THEN {reason}
                  ELSE IF reason \in {"completed", "untold"} THEN {"end_turn", "tool_use"}
                  ELSE {Answer!StopOf(reason)}

\* The ends of an answer that may cut a block.
Cutting == Answer!Truncations \cup Answer!Failures \cup Answer!Unsaid

\* A block is open until it is whole, or the last one and cut.
Shaped ==
    /\ \A k \in DOMAIN made : made[k].whole => ~made[k].open /\ made[k].named
    /\ \A k \in DOMAIN made : ~made[k].open /\ ~made[k].whole =>
          k = Len(made) /\ reason \in Cutting
    /\ reason # "none" => \A k \in DOMAIN made : ~made[k].open
    /\ protocol # "chat" => \A k \in DOMAIN made : made[k].named

\* The adapter has read of a block what has come of it.
Buffered ==
    /\ \A k \in DOMAIN buffers : made[k].kind # "text" /\ buffers[k] = made[k].fragments
    /\ \A k \in DOMAIN made : made[k].kind # "text" /\ (made[k].open \/ protocol = "chat")
          => k \in DOMAIN buffers
    /\ protocol = "anthropic" => \A k \in DOMAIN buffers : made[k].open

\* A call that was handed out is closed, and whole in the protocol that says so.
OfClosed ==
    /\ Answer!CallsAreWhole
    /\ \A i \in Answer!Emitted :
          /\ ~made[out[i].of].open
          /\ protocol = "chat" => over = "ended"
          /\ protocol = "responses" => made[out[i].of].whole
          /\ ~made[out[i].of].whole => \A j \in Answer!Emitted : j <= i
    /\ protocol # "chat" =>
          \A k \in DOMAIN made : Answer!IsCall(k) /\ made[k].whole => k \in Answer!Handed

NotTold == over # "ended" => \A i \in DOMAIN out : out[i].type # "turn"

AInv == Typed /\ Shaped /\ Buffered /\ OfClosed /\ NotTold /\ Answer!CutIsLast /\ Answer!EndIsTold

-----------------------------------------------------------------------------

LEMMA Joined ==
  ASSUME NEW E, NEW s \in Seq(E), NEW ev \in Seq(E), NEW t, t = s \o ev
  PROVE  /\ t \in Seq(E) /\ Len(t) = Len(s) + Len(ev) /\ DOMAIN t = 1..Len(s) + Len(ev)
         /\ \A i \in 1..Len(s) : t[i] = s[i]
         /\ \A i \in 1..Len(ev) : t[Len(s) + i] = ev[i]
         /\ \A i \in 1..Len(t) : i \notin 1..Len(s) => i - Len(s) \in 1..Len(ev) /\ t[i] = ev[i - Len(s)]
<1>1. /\ t \in Seq(E) /\ Len(t) = Len(s) + Len(ev)
      /\ \A i \in 1..Len(s) + Len(ev) : t[i] = IF i <= Len(s) THEN s[i] ELSE ev[i - Len(s)]
  BY ConcatProperties
<1>2. Len(s) \in Nat /\ Len(ev) \in Nat /\ DOMAIN t = 1..Len(t)
  BY <1>1
<1> QED
  BY <1>1, <1>2


\* What is told of a block once it is closed does not change.
KeepsClosed ==
    \A k \in DOMAIN made : ~made[k].open =>
        /\ k \in DOMAIN made' /\ ~made'[k].open
        /\ made'[k].kind = made[k].kind /\ made'[k].named = made[k].named
        /\ made'[k].whole = made[k].whole /\ made'[k].fragments = made[k].fragments

\* The calls that become whole, in a protocol that says so, are among K.
WholeAre(K) ==
    protocol # "chat" =>
        \A k \in DOMAIN made' : made'[k].kind = "call" /\ made'[k].named /\ made'[k].whole =>
            \/ k \in K
            \/ k \in DOMAIN made /\ made[k].kind = "call" /\ made[k].named /\ made[k].whole

\* Events among which there is no call hand nothing out.
LEMMA Quietly ==
  ASSUME Typed, OfClosed, NEW ev \in Seq(Answer!Events), out' = out \o ev,
         \A i \in 1..Len(ev) : ev[i].type # "call",
         KeepsClosed, WholeAre({}), protocol' = protocol, over = "ended" => over' = "ended"
  PROVE  OfClosed' /\ Answer!Emitted' = Answer!Emitted
<1>1. out \in Seq(Answer!Events)
  BY DEF Typed
<1>2. /\ Len(out) \in Nat /\ DOMAIN out = 1..Len(out) /\ DOMAIN out' = 1..Len(out')
      /\ \A i \in 1..Len(out) : i \in 1..Len(out') /\ out'[i] = out[i]
      /\ \A i \in 1..Len(out') : i \notin 1..Len(out) => out'[i].type # "call"
  BY <1>1, Joined
<1>3. Answer!Emitted' = Answer!Emitted /\ \A i \in Answer!Emitted : out'[i] = out[i]
  BY <1>2 DEF Answer!Emitted
<1>4. Answer!Handed' = Answer!Handed
  BY <1>3 DEF Answer!Handed
<1>5. Answer!CallsAreWhole'
  <2>1. ASSUME NEW i \in Answer!Emitted', NEW j \in Answer!Emitted', out'[i].of = out'[j].of
        PROVE  i = j
    <3>1. i \in Answer!Emitted /\ j \in Answer!Emitted /\ out[i].of = out[j].of
      BY <1>3, <2>1
    <3> QED
      BY <3>1 DEF OfClosed, Answer!CallsAreWhole
  <2>2. ASSUME NEW i \in Answer!Emitted, NEW b, b = out[i].of
        PROVE  /\ b \in DOMAIN made' /\ made'[b].kind = "call" /\ made'[b].named
               /\ out[i].parsed <=> made'[b].whole \/ made'[b].fragments = 0
    BY <2>2 DEF OfClosed, Answer!CallsAreWhole, Answer!IsCall, KeepsClosed
  <2>3. ASSUME NEW i \in Answer!Emitted'
        PROVE  /\ out'[i].of \in DOMAIN made' /\ made'[out'[i].of].kind = "call" /\ made'[out'[i].of].named
               /\ out'[i].parsed <=> made'[out'[i].of].whole \/ made'[out'[i].of].fragments = 0
    <3>1. i \in Answer!Emitted /\ out'[i] = out[i]
      BY <1>3
    <3> QED
      BY <2>2, <3>1
  <2> QED
    BY <2>1, <2>3 DEF Answer!CallsAreWhole, Answer!IsCall
<1>6. /\ \A i \in Answer!Emitted' : /\ ~made'[out'[i].of].open
                                    /\ protocol' = "chat" => over' = "ended"
                                    /\ protocol' = "responses" => made'[out'[i].of].whole
                                    /\ ~made'[out'[i].of].whole => \A j \in Answer!Emitted' : j <= i
  BY <1>3 DEF OfClosed, Answer!CallsAreWhole, KeepsClosed
<1>7. protocol' # "chat" =>
        \A k \in DOMAIN made' : made'[k].kind = "call" /\ made'[k].named /\ made'[k].whole
            => k \in Answer!Handed'
  BY <1>4 DEF OfClosed, WholeAre, Answer!IsCall
<1> QED
  BY <1>3, <1>5, <1>6, <1>7 DEF OfClosed, Answer!IsCall

\* A call is handed out as its block is closed.
LEMMA OneCall ==
  ASSUME Typed, OfClosed, protocol' = protocol, protocol # "chat",
         NEW k \in DOMAIN made, made[k].open, NEW parsed, NEW ev \in Seq(Answer!Events), out' = out \o ev,
         Len(ev) >= 1, ev[1] = Answer!Complete(k, parsed), \A i \in 2..Len(ev) : ev[i].type # "call",
         KeepsClosed, WholeAre({k}),
         k \in DOMAIN made', made'[k].kind = "call", made'[k].named, ~made'[k].open,
         parsed <=> made'[k].whole \/ made'[k].fragments = 0,
         protocol = "responses" => made'[k].whole,
         \A j \in DOMAIN made : ~made[j].open => made[j].whole
  PROVE  OfClosed'
<1> DEFINE n == Len(out) + 1
<1>1. out \in Seq(Answer!Events) /\ Len(ev) \in Nat
  BY DEF Typed
<1>2. /\ Len(out) \in Nat /\ DOMAIN out = 1..Len(out) /\ DOMAIN out' = 1..Len(out')
      /\ Len(out') = Len(out) + Len(ev)
      /\ \A i \in 1..Len(out) : i \in 1..Len(out') /\ out'[i] = out[i]
      /\ \A i \in 1..Len(ev) : out'[Len(out) + i] = ev[i]
      /\ \A i \in 1..Len(out') : i \notin 1..Len(out) => i - Len(out) \in 1..Len(ev) /\ out'[i] = ev[i - Len(out)]
  BY <1>1, Joined
<1>3. n \in 1..Len(out') /\ n \notin 1..Len(out)
      /\ out'[n].type = "call" /\ out'[n].of = k /\ out'[n].parsed = parsed
  BY <1>1, <1>2 DEF Answer!Complete
<1>4. ASSUME NEW i \in 1..Len(out'), i \notin 1..Len(out), i # n PROVE out'[i].type # "call"
  <2>1. i - Len(out) \in 2..Len(ev)
    BY <1>1, <1>2, <1>4
  <2> QED
    BY <1>2, <1>4, <2>1
<1>5. /\ Answer!Emitted' = Answer!Emitted \cup {n} /\ n \notin Answer!Emitted
      /\ \A i \in Answer!Emitted : i < n /\ out'[i] = out[i]
  BY <1>2, <1>3, <1>4 DEF Answer!Emitted
<1>6. \A i \in Answer!Emitted : /\ out[i].of # k /\ out[i].of \in DOMAIN made /\ ~made[out[i].of].open
                                /\ made[out[i].of].whole
  BY DEF OfClosed, Answer!CallsAreWhole
<1> HIDE DEF n
<1>7. Answer!Handed \cup {k} \subseteq Answer!Handed'
  <2>1. \A i \in Answer!Emitted' : out'[i].of \in Answer!Handed'
    BY DEF Answer!Handed
  <2>2. k \in Answer!Handed'
    BY <1>3, <1>5, <2>1
  <2>3. \A i \in Answer!Emitted : out[i].of \in Answer!Handed'
    BY <1>5, <2>1
  <2> QED
    BY <2>2, <2>3 DEF Answer!Handed
<1>8. Answer!CallsAreWhole'
  <2>0. \A i, j \in Answer!Emitted : out[i].of = out[j].of => i = j
    BY DEF OfClosed, Answer!CallsAreWhole
  <2>1. ASSUME NEW i \in Answer!Emitted', NEW j \in Answer!Emitted', out'[i].of = out'[j].of
        PROVE  i = j
    <3>1. CASE i \in Answer!Emitted /\ j \in Answer!Emitted
      <4>1. out[i].of = out[j].of
        BY <1>5, <2>1, <3>1
      <4> QED
        BY <2>0, <3>1, <4>1
    <3>2. CASE i = n /\ j \in Answer!Emitted
      BY <1>3, <1>5, <1>6, <2>1, <3>2
    <3>3. CASE j = n /\ i \in Answer!Emitted
      BY <1>3, <1>5, <1>6, <2>1, <3>3
    <3> QED
      BY <1>5, <3>1, <3>2, <3>3
  <2>2. ASSUME NEW i \in Answer!Emitted, NEW b, b = out[i].of
        PROVE  /\ b \in DOMAIN made' /\ made'[b].kind = "call" /\ made'[b].named
               /\ out[i].parsed <=> made'[b].whole \/ made'[b].fragments = 0
    BY <1>6, <2>2 DEF OfClosed, Answer!CallsAreWhole, Answer!IsCall, KeepsClosed
  <2>3. \A i \in Answer!Emitted' :
          /\ out'[i].of \in DOMAIN made' /\ made'[out'[i].of].kind = "call" /\ made'[out'[i].of].named
          /\ out'[i].parsed <=> made'[out'[i].of].whole \/ made'[out'[i].of].fragments = 0
    <3>1. ASSUME NEW i \in Answer!Emitted
          PROVE  /\ out'[i].of \in DOMAIN made' /\ made'[out'[i].of].kind = "call" /\ made'[out'[i].of].named
                 /\ out'[i].parsed <=> made'[out'[i].of].whole \/ made'[out'[i].of].fragments = 0
      <4>1. out'[i] = out[i]
        BY <1>5
      <4> QED
        BY <2>2, <4>1
    <3>2. /\ out'[n].of \in DOMAIN made' /\ made'[out'[n].of].kind = "call" /\ made'[out'[n].of].named
          /\ out'[n].parsed <=> made'[out'[n].of].whole \/ made'[out'[n].of].fragments = 0
      BY <1>3
    <3> QED
      BY <1>5, <3>1, <3>2
  <2> QED
    BY <2>1, <2>3 DEF Answer!CallsAreWhole, Answer!IsCall
<1>9. \A i \in Answer!Emitted' : /\ ~made'[out'[i].of].open
                                 /\ protocol' = "chat" => over' = "ended"
                                 /\ protocol' = "responses" => made'[out'[i].of].whole
                                 /\ ~made'[out'[i].of].whole => \A j \in Answer!Emitted' : j <= i
  <2>1. n \in Nat
    BY <1>2 DEF n
  <2>2. \A i \in Answer!Emitted : made'[out'[i].of].whole /\ ~made'[out'[i].of].open
    BY <1>5, <1>6 DEF KeepsClosed
  <2>3. \A j \in Answer!Emitted' : j <= n
    BY <1>2, <1>5, <2>1 DEF Answer!Emitted
  <2> QED
    BY <1>3, <1>5, <2>2, <2>3
<1>10. protocol' # "chat" =>
         \A j \in DOMAIN made' : made'[j].kind = "call" /\ made'[j].named /\ made'[j].whole
            => j \in Answer!Handed'
  BY <1>7 DEF OfClosed, WholeAre, Answer!IsCall
<1> QED
  BY <1>8, <1>9, <1>10 DEF OfClosed, Answer!IsCall


LEMMA EventsAre ==
  ASSUME NEW k \in Nat, NEW b \in BOOLEAN, NEW type \in {"start", "delta", "thinking"},
         NEW ending \in {"end_turn", "tool_use", "max_tokens", "error"}
  PROVE  /\ Answer!Event(type, k) \in Answer!Events /\ Answer!Event(type, k).type = type
         /\ Answer!Complete(k, b) \in Answer!Events /\ Answer!Complete(k, b).type = "call"
         /\ Answer!Usage(b) \in Answer!Events /\ Answer!Usage(b).type = "usage"
         /\ Answer!TurnComplete(ending) \in Answer!Events /\ Answer!TurnComplete(ending).type = "turn"
  BY DEF Answer!Event, Answer!Complete, Answer!Usage, Answer!TurnComplete, Answer!Events

LEMMA BlockEvents ==
  ASSUME NEW k \in Nat, NEW type \in {"start", "delta", "thinking"}
  PROVE  Answer!Event(type, k) \in Answer!Events /\ Answer!Event(type, k).type = type
  BY DEF Answer!Event, Answer!Events

LEMMA One ==
  ASSUME NEW E, NEW e \in E
  PROVE  /\ <<e>> \in Seq(E) /\ Len(<<e>>) = 1 /\ <<e>>[1] = e
         /\ <<>> \in Seq(E) /\ Len(<<>>) = 0
  OBVIOUS

\* As long as the end is not told, there is nothing to say about it.
LEMMA NotYet ==
  ASSUME Typed, Typed', NotTold, over # "ended", over' # "ended",
         NEW ev \in Seq(Answer!Events), out' = out \o ev, \A i \in 1..Len(ev) : ev[i].type # "turn"
  PROVE  NotTold' /\ Answer!CutIsLast' /\ Answer!EndIsTold'
<1>1. out \in Seq(Answer!Events) /\ Len(out) \in Nat /\ DOMAIN out = 1..Len(out)
  BY DEF Typed
<1>2. \A i \in DOMAIN out' : out'[i].type # "turn"
  BY <1>1, Joined DEF NotTold
<1> QED
  BY <1>2 DEF NotTold, Answer!CutIsLast, Answer!EndIsTold

Sound == Typed /\ Shaped /\ Buffered /\ OfClosed

USE DEF Answer!Live

LEMMA BeginStep ==
  ASSUME MaxBlocks \in Nat, MaxFragments \in Nat, AInv, Answer!Begin
  PROVE  AInv'
<1> DEFINE k == Len(made) + 1
<1>0. Sound /\ NotTold /\ over = "no" /\ reason = "none"
  BY DEF AInv, Sound, Answer!Begin
<1>1. /\ made \in Seq(Answer!Blocks) /\ Len(made) \in Nat /\ Len(made) <= MaxBlocks
      /\ DOMAIN made = 1..Len(made) /\ out \in Seq(Answer!Events)
  BY <1>0 DEF Sound, Typed
<1>2. PICK kind \in Answer!BlockKinds, named \in BOOLEAN :
        /\ named \/ (kind = "call" /\ protocol = "chat")
        /\ made' = Append(made, [kind |-> kind, fragments |-> 0, named |-> named,
                                 open |-> TRUE, whole |-> FALSE])
        /\ buffers' = IF kind = "text" THEN buffers
                      ELSE [j \in DOMAIN buffers \cup {k} |-> IF j = k THEN 0 ELSE buffers[j]]
        /\ out' = out \o (IF kind = "call" /\ named THEN <<Answer!Event("start", k)>> ELSE <<>>)
  BY DEF Answer!Begin, Answer!Emit
<1>3. /\ Len(made) < MaxBlocks /\ input' = (input \/ protocol = "anthropic")
      /\ protocol = "anthropic" => \A j \in DOMAIN made : ~made[j].open
      /\ UNCHANGED <<protocol, reason, over, finish>>
  BY DEF Answer!Begin
<1> DEFINE b == [kind |-> kind, fragments |-> 0, named |-> named, open |-> TRUE, whole |-> FALSE]
           ev == IF kind = "call" /\ named THEN <<Answer!Event("start", k)>> ELSE <<>>
<1>4. /\ b \in Answer!Blocks /\ b.kind = kind /\ b.fragments = 0 /\ b.named = named
      /\ b.open /\ ~b.whole
  BY DEF Answer!Blocks
<1> HIDE DEF b
<1>5. made' = Append(made, b)
  BY <1>2 DEF b
<1>6. /\ made' \in Seq(Answer!Blocks) /\ Len(made') = k /\ DOMAIN made' = 1..k
      /\ \A j \in 1..Len(made) : made'[j] = made[j]
      /\ made'[k] = b
  BY <1>1, <1>4, <1>5
<1>7. ev \in Seq(Answer!Events) /\ \A i \in 1..Len(ev) : ev[i].type \notin {"call", "turn"}
  BY <1>1, EventsAre
<1> HIDE DEF ev
<1>8. out' = out \o ev
  BY <1>2 DEF ev
<1>9. Typed'
  <2>1. out' \in Seq(Answer!Events)
    BY <1>1, <1>7, <1>8, Joined
  <2>2. DOMAIN buffers' \subseteq DOMAIN made' /\ \A j \in DOMAIN buffers' : buffers'[j] \in Nat
    BY <1>0, <1>1, <1>2, <1>6 DEF Sound, Typed
  <2> QED
    BY <1>0, <1>1, <1>3, <1>6, <2>1, <2>2 DEF Sound, Typed
<1>10. Shaped'
  <2>1. \A j \in DOMAIN made' : j # k => j \in DOMAIN made /\ made'[j] = made[j]
    BY <1>1, <1>6
  <2>2. \A j \in DOMAIN made :
          /\ made[j].whole => ~made[j].open /\ made[j].named
          /\ made[j].open \/ made[j].whole
          /\ protocol # "chat" => made[j].named
    BY <1>0 DEF Sound, Shaped, Cutting, Answer!Truncations, Answer!Failures, Answer!Unsaid
  <2>3. protocol # "chat" => made'[k].named
    BY <1>2, <1>4, <1>6
  <2>4. made'[k].open /\ ~made'[k].whole
    BY <1>4, <1>6
  <2> QED
    <3>1. \A j \in DOMAIN made' : /\ made'[j].whole => ~made'[j].open /\ made'[j].named
                                  /\ made'[j].open \/ made'[j].whole
                                  /\ protocol' # "chat" => made'[j].named
      BY <1>3, <2>1, <2>2, <2>3, <2>4
    <3> QED
      BY <1>0, <1>3, <3>1 DEF Shaped
<1>11. Buffered'
  BY <1>0, <1>1, <1>2, <1>3, <1>4, <1>6 DEF Sound, Buffered, Typed
<1>12. OfClosed'
  <2>1. KeepsClosed
    BY <1>1, <1>6 DEF KeepsClosed
  <2>2. WholeAre({})
    BY <1>1, <1>4, <1>6 DEF WholeAre
  <2> QED
    BY <1>0, <1>3, <1>7, <1>8, <2>1, <2>2, Quietly DEF Sound
<1>13. NotTold' /\ Answer!CutIsLast' /\ Answer!EndIsTold'
  BY <1>0, <1>3, <1>7, <1>8, <1>9, NotYet DEF Sound
<1> QED
  BY <1>9, <1>10, <1>11, <1>12, <1>13 DEF AInv


LEMMA NameStep ==
  ASSUME MaxBlocks \in Nat, MaxFragments \in Nat, AInv, Answer!Name
  PROVE  AInv'
<1>0. Sound /\ NotTold /\ over = "no" /\ reason = "none"
  BY DEF AInv, Sound, Answer!Name
<1>1. /\ made \in Seq(Answer!Blocks) /\ Len(made) \in Nat /\ Len(made) <= MaxBlocks
      /\ DOMAIN made = 1..Len(made) /\ out \in Seq(Answer!Events)
  BY <1>0 DEF Sound, Typed
<1>2. PICK k \in DOMAIN made :
        /\ made[k].kind = "call" /\ made[k].open /\ ~made[k].named
        /\ made' = [made EXCEPT ![k].named = TRUE]
        /\ out' = out \o <<Answer!Event("start", k)>>
  BY DEF Answer!Name, Answer!Emit
<1>3. UNCHANGED <<protocol, reason, over, buffers, finish, input>>
  BY DEF Answer!Name
<1> DEFINE ev == <<Answer!Event("start", k)>>
           b  == [made[k] EXCEPT !.named = TRUE]
<1>5. /\ b \in Answer!Blocks /\ b.named /\ b.kind = made[k].kind /\ b.fragments = made[k].fragments
      /\ b.open = made[k].open /\ b.whole = made[k].whole
  <2>1. made[k] \in Answer!Blocks
    BY <1>1
  <2> QED
    BY <2>1 DEF Answer!Blocks
<1>6. made' = [made EXCEPT ![k] = b]
  BY <1>1, <1>2
<1> HIDE DEF b
<1>4. /\ made' \in Seq(Answer!Blocks) /\ Len(made') = Len(made) /\ DOMAIN made' = DOMAIN made
      /\ \A j \in DOMAIN made : /\ j # k => made'[j] = made[j]
                                /\ made'[j].open = made[j].open /\ made'[j].whole = made[j].whole
                                /\ made'[j].kind = made[j].kind /\ made'[j].fragments = made[j].fragments
                                /\ made[j].named => made'[j].named
  BY <1>1, <1>5, <1>6
<1>7. ev \in Seq(Answer!Events) /\ \A i \in 1..Len(ev) : ev[i].type \notin {"call", "turn"}
  <2>1. Answer!Event("start", k) \in Answer!Events /\ Answer!Event("start", k).type = "start"
    BY <1>1, BlockEvents
  <2> QED
    BY <2>1, One
<1> HIDE DEF ev
<1>8. out' = out \o ev
  BY <1>2 DEF ev
<1>9. Typed'
  <2>1. out' \in Seq(Answer!Events)
    BY <1>1, <1>7, <1>8, Joined
  <2> QED
    BY <1>0, <1>3, <1>4, <2>1 DEF Sound, Typed
<1>10. Shaped'
  BY <1>0, <1>1, <1>3, <1>4 DEF Sound, Shaped
<1>11. Buffered'
  BY <1>0, <1>3, <1>4 DEF Sound, Buffered, Typed
<1>12. OfClosed'
  <2>1. KeepsClosed
    BY <1>2, <1>4 DEF KeepsClosed
  <2>2. WholeAre({})
    BY <1>0, <1>2, <1>4 DEF WholeAre, Sound, Shaped
  <2> QED
    BY <1>0, <1>3, <1>7, <1>8, <2>1, <2>2, Quietly DEF Sound
<1>13. NotTold' /\ Answer!CutIsLast' /\ Answer!EndIsTold'
  BY <1>0, <1>3, <1>7, <1>8, <1>9, NotYet DEF Sound
<1> QED
  BY <1>9, <1>10, <1>11, <1>12, <1>13 DEF AInv

LEMMA FragmentStep ==
  ASSUME MaxBlocks \in Nat, MaxFragments \in Nat, AInv, Answer!Fragment
  PROVE  AInv'
<1>0. Sound /\ NotTold /\ over = "no" /\ reason = "none"
  BY DEF AInv, Sound, Answer!Fragment
<1>1. /\ made \in Seq(Answer!Blocks) /\ Len(made) \in Nat /\ Len(made) <= MaxBlocks
      /\ DOMAIN made = 1..Len(made) /\ out \in Seq(Answer!Events)
  BY <1>0 DEF Sound, Typed
<1>2. PICK k \in DOMAIN made :
        /\ made[k].open /\ made[k].fragments < MaxFragments
        /\ made' = [made EXCEPT ![k].fragments = @ + 1]
        /\ buffers' = IF made[k].kind = "text" THEN buffers ELSE [buffers EXCEPT ![k] = @ + 1]
        /\ out' = out \o <<Answer!Event("delta", k)>>
  BY DEF Answer!Fragment, Answer!Emit
<1>3. UNCHANGED <<protocol, reason, over, finish, input>>
  BY DEF Answer!Fragment
<1> DEFINE ev == <<Answer!Event("delta", k)>>
           b  == [made[k] EXCEPT !.fragments = @ + 1]
<1>5. /\ b \in Answer!Blocks /\ b.fragments = made[k].fragments + 1 /\ made[k].fragments \in Nat
      /\ b.kind = made[k].kind /\ b.open = made[k].open /\ b.whole = made[k].whole /\ b.named = made[k].named
  <2>1. made[k] \in Answer!Blocks
    BY <1>1
  <2>2. made[k].fragments + 1 \in 0..MaxFragments
    BY <1>2, <2>1 DEF Answer!Blocks
  <2> QED
    BY <2>1, <2>2 DEF Answer!Blocks
<1>6. made' = [made EXCEPT ![k] = b]
  BY <1>1, <1>2
<1> HIDE DEF b
<1>4. /\ made' \in Seq(Answer!Blocks) /\ Len(made') = Len(made) /\ DOMAIN made' = DOMAIN made
      /\ \A j \in DOMAIN made : /\ j # k => made'[j] = made[j]
                                /\ made'[j].open = made[j].open /\ made'[j].whole = made[j].whole
                                /\ made'[j].kind = made[j].kind /\ made'[j].named = made[j].named
      /\ made'[k].fragments = made[k].fragments + 1
  BY <1>1, <1>5, <1>6
<1>14. DOMAIN buffers' = DOMAIN buffers
  BY <1>2
<1>15. ASSUME NEW j \in DOMAIN buffers
       PROVE  /\ buffers'[j] = IF j = k THEN buffers[j] + 1 ELSE buffers[j]
              /\ buffers'[j] \in Nat
  BY <1>0, <1>2 DEF Sound, Typed, Buffered
<1>7. ev \in Seq(Answer!Events) /\ \A i \in 1..Len(ev) : ev[i].type \notin {"call", "turn"}
  <2>1. Answer!Event("delta", k) \in Answer!Events /\ Answer!Event("delta", k).type = "delta"
    BY <1>1, BlockEvents
  <2> QED
    BY <2>1, One
<1> HIDE DEF ev
<1>8. out' = out \o ev
  BY <1>2 DEF ev
<1>9. Typed'
  <2>1. out' \in Seq(Answer!Events)
    BY <1>1, <1>7, <1>8, Joined
  <2>2. DOMAIN buffers \subseteq DOMAIN made /\ DOMAIN buffers' \subseteq DOMAIN made'
    BY <1>0, <1>4, <1>14 DEF Sound, Typed
  <2>3. made' \in Seq(Answer!Blocks) /\ Len(made') = Len(made)
    BY <1>4
  <2>4. \A j \in DOMAIN buffers' : buffers'[j] \in Nat
    BY <1>14, <1>15
  <2> QED
    BY <1>0, <1>3, <2>1, <2>2, <2>3, <2>4 DEF Sound, Typed
<1>10. Shaped'
  BY <1>0, <1>1, <1>3, <1>4 DEF Sound, Shaped
<1>11. Buffered'
  <2>1. DOMAIN buffers \subseteq DOMAIN made
    BY <1>0 DEF Sound, Typed
  <2>2. \A j \in DOMAIN buffers : buffers'[j] = made'[j].fragments /\ made'[j].kind # "text"
    <3> SUFFICES ASSUME NEW j \in DOMAIN buffers
                 PROVE  buffers'[j] = made'[j].fragments /\ made'[j].kind # "text"
      OBVIOUS
    <3>1. buffers[j] = made[j].fragments /\ made[j].kind # "text" /\ j \in DOMAIN made
      BY <1>0, <2>1 DEF Sound, Buffered
    <3>2. CASE j = k
      BY <1>4, <1>15, <3>1, <3>2
    <3>3. CASE j # k
      BY <1>4, <1>15, <3>1, <3>3
    <3> QED
      BY <3>2, <3>3
  <2>3. \A j \in DOMAIN made : made'[j].open = made[j].open /\ made'[j].kind = made[j].kind
    BY <1>4
  <2>4. DOMAIN buffers' = DOMAIN buffers /\ DOMAIN made' = DOMAIN made
    BY <1>4, <1>14
  <2> QED
    BY <1>0, <1>3, <2>1, <2>2, <2>3, <2>4 DEF Sound, Buffered
<1>12. OfClosed'
  <2>1. KeepsClosed
    BY <1>2, <1>4 DEF KeepsClosed
  <2>2. WholeAre({})
    BY <1>4 DEF WholeAre
  <2> QED
    BY <1>0, <1>3, <1>7, <1>8, <2>1, <2>2, Quietly DEF Sound
<1>13. NotTold' /\ Answer!CutIsLast' /\ Answer!EndIsTold'
  BY <1>0, <1>3, <1>7, <1>8, <1>9, NotYet DEF Sound
<1> QED
  BY <1>9, <1>10, <1>11, <1>12, <1>13 DEF AInv

\* What stands where a block is closed: nothing, or one event.
Closing(k, whole, ev) ==
    /\ ev \in Seq(Answer!Events) /\ Len(ev) <= 1
    /\ made[k].kind # "call" => \A i \in 1..Len(ev) : ev[i].type \notin {"call", "turn"}
    /\ made[k].kind = "call" =>
         \E parsed \in BOOLEAN : /\ ev = <<Answer!Complete(k, parsed)>>
                                 /\ parsed <=> whole \/ made[k].fragments = 0

LEMMA StopIs ==
  ASSUME MaxFragments \in Nat, Sound, NEW k \in DOMAIN made, made[k].open, NEW whole \in BOOLEAN
  PROVE  /\ protocol = "anthropic" => Closing(k, whole, Answer!AnthropicStop(k, whole))
         /\ whole => Closing(k, whole, Answer!ResponsesStop(k))
<1>0. k \in Nat /\ made[k] \in Answer!Blocks
  BY DEF Sound, Typed
<1>1. made[k].fragments \in Nat /\ made[k].kind \in Answer!BlockKinds
  BY <1>0 DEF Answer!Blocks
<1>2. made[k].kind # "text" => k \in DOMAIN buffers /\ buffers[k] = made[k].fragments
  BY DEF Sound, Buffered
<1>3. CASE made[k].kind = "call"
  <2> DEFINE p == Answer!Parses(k, buffers[k], whole)
  <2>1. p \in BOOLEAN /\ (p <=> whole \/ made[k].fragments = 0)
    BY <1>1, <1>2, <1>3 DEF Answer!Parses
  <2>2. Answer!AnthropicStop(k, whole) = <<Answer!Complete(k, p)>>
    BY <1>3 DEF Answer!AnthropicStop
  <2>3. Answer!ResponsesStop(k) = <<Answer!Complete(k, TRUE)>>
    BY <1>3 DEF Answer!ResponsesStop
  <2> HIDE DEF p
  <2>4. Answer!Complete(k, p) \in Answer!Events /\ Answer!Complete(k, TRUE) \in Answer!Events
    BY <1>0, <2>1, EventsAre
  <2>5. ASSUME NEW q \in BOOLEAN, Answer!Complete(k, q) \in Answer!Events, q <=> whole \/ made[k].fragments = 0
        PROVE  Closing(k, whole, <<Answer!Complete(k, q)>>)
    BY <1>3, <2>5, One DEF Closing
  <2> QED
    BY <2>1, <2>2, <2>3, <2>4, <2>5
<1>4. CASE made[k].kind = "text"
  BY <1>4 DEF Closing, Answer!AnthropicStop, Answer!ResponsesStop
<1>5. CASE made[k].kind = "thinking"
  <2>1. Answer!AnthropicStop(k, whole) = <<Answer!Event("thinking", k)>> /\ Answer!ResponsesStop(k) = <<>>
    BY <1>5 DEF Answer!AnthropicStop, Answer!ResponsesStop
  <2> QED
    BY <1>0, <1>5, <2>1, BlockEvents, One DEF Closing
<1> QED
  BY <1>1, <1>3, <1>4, <1>5 DEF Answer!BlockKinds


LEMMA StopStep ==
  ASSUME MaxBlocks \in Nat, MaxFragments \in Nat, AInv, Answer!Stop
  PROVE  AInv'
<1>0. Sound /\ NotTold /\ over = "no" /\ reason = "none"
  BY DEF AInv, Sound, Answer!Stop
<1>1. /\ made \in Seq(Answer!Blocks) /\ Len(made) \in Nat /\ Len(made) <= MaxBlocks
      /\ DOMAIN made = 1..Len(made) /\ out \in Seq(Answer!Events)
      /\ DOMAIN buffers \subseteq DOMAIN made
  BY <1>0 DEF Sound, Typed
<1>2. PICK k \in DOMAIN made :
        /\ made[k].open /\ made[k].named
        /\ made' = [made EXCEPT ![k].open = FALSE, ![k].whole = TRUE]
        /\ \/ /\ protocol = "anthropic"
              /\ Answer!Emit(Answer!AnthropicStop(k, TRUE)) /\ buffers' = Answer!Taken(k) /\ UNCHANGED finish
           \/ /\ protocol = "chat" /\ UNCHANGED <<out, buffers, finish>>
           \/ /\ protocol = "responses"
              /\ Answer!Emit(Answer!ResponsesStop(k))
              /\ buffers' = IF made[k].kind = "call" THEN Answer!Taken(k) ELSE buffers
              /\ finish' = IF made[k].kind = "call" THEN "tool_use" ELSE finish
  BY DEF Answer!Stop
<1>3. UNCHANGED <<protocol, reason, over, input>>
  BY DEF Answer!Stop
<1> DEFINE b == [made[k] EXCEPT !.open = FALSE, !.whole = TRUE]
<1>4. /\ b \in Answer!Blocks /\ ~b.open /\ b.whole /\ b.kind = made[k].kind /\ b.named = made[k].named
      /\ b.fragments = made[k].fragments
  <2>1. made[k] \in Answer!Blocks
    BY <1>1
  <2> QED
    BY <2>1 DEF Answer!Blocks
<1>5. made' = [made EXCEPT ![k] = b]
  BY <1>1, <1>2
<1> HIDE DEF b
<1>6. /\ made' \in Seq(Answer!Blocks) /\ Len(made') = Len(made) /\ DOMAIN made' = DOMAIN made
      /\ made'[k] = b /\ \A j \in DOMAIN made : j # k => made'[j] = made[j]
  BY <1>1, <1>4, <1>5
<1>7. PICK ev \in Seq(Answer!Events) :
        /\ out' = out \o ev
        /\ protocol = "chat" => ev = <<>>
        /\ protocol # "chat" => Closing(k, TRUE, ev)
  <2>1. CASE protocol = "chat"
    <3>1. out' = out \o <<>>
      BY <1>1, <1>2, <2>1, ConcatEmptySeq
    <3>2. <<>> \in Seq(Answer!Events)
      OBVIOUS
    <3> WITNESS <<>> \in Seq(Answer!Events)
    <3> QED
      BY <2>1, <3>1
  <2>2. CASE protocol = "anthropic"
    <3>1. Closing(k, TRUE, Answer!AnthropicStop(k, TRUE))
      BY <1>0, <1>2, <2>2, StopIs
    <3> QED
      BY <1>2, <2>2, <3>1 DEF Answer!Emit, Closing
  <2>3. CASE protocol = "responses"
    <3>1. Closing(k, TRUE, Answer!ResponsesStop(k))
      BY <1>0, <1>2, StopIs
    <3> QED
      BY <1>2, <2>3, <3>1 DEF Answer!Emit, Closing
  <2> QED
    BY <1>2, <2>1, <2>2, <2>3
<1>8. /\ DOMAIN buffers' \subseteq DOMAIN buffers
      /\ protocol = "anthropic" => k \notin DOMAIN buffers'
      /\ \A j \in DOMAIN buffers' : buffers'[j] = buffers[j]
      /\ \A j \in DOMAIN buffers : j # k \/ protocol = "chat" => j \in DOMAIN buffers'
  BY <1>2 DEF Answer!Taken, Answer!Without
<1>9. Typed'
  <2>1. out' \in Seq(Answer!Events)
    BY <1>1, <1>7, Joined
  <2>2. finish' = finish \/ (protocol = "responses" /\ finish' = "tool_use")
    BY <1>2
  <2>3. DOMAIN buffers' \subseteq DOMAIN made' /\ \A j \in DOMAIN buffers' : buffers'[j] \in Nat
    BY <1>0, <1>1, <1>6, <1>8 DEF Sound, Typed
  <2> QED
    BY <1>0, <1>3, <1>6, <2>1, <2>2, <2>3 DEF Sound, Typed
<1>10. Shaped'
  BY <1>0, <1>1, <1>2, <1>3, <1>4, <1>6 DEF Sound, Shaped
<1>11. Buffered'
  <2>1. \A j \in DOMAIN made : made'[j].kind = made[j].kind /\ made'[j].fragments = made[j].fragments
    BY <1>4, <1>6
  <2>2. \A j \in DOMAIN made : made'[j].open => made[j].open /\ j # k
    BY <1>4, <1>6
  <2>3. protocol = "anthropic" => \A j \in DOMAIN buffers' : made'[j].open
    BY <1>0, <1>1, <1>6, <1>8 DEF Sound, Buffered
  <2> QED
    BY <1>0, <1>1, <1>3, <1>6, <1>8, <2>1, <2>2, <2>3 DEF Sound, Buffered
<1>12. OfClosed'
  <2>1. KeepsClosed
    BY <1>2, <1>6 DEF KeepsClosed
  <2>2. WholeAre({k})
    BY <1>6 DEF WholeAre
  <2>3. CASE protocol = "chat" \/ made[k].kind # "call"
    <3>1. WholeAre({})
      BY <1>4, <1>6, <2>3 DEF WholeAre
    <3>2. \A i \in 1..Len(ev) : ev[i].type # "call"
      BY <1>7, <2>3 DEF Closing
    <3> QED
      BY <1>0, <1>3, <1>7, <2>1, <3>1, <3>2, Quietly DEF Sound
  <2>4. CASE protocol # "chat" /\ made[k].kind = "call"
    <3>1. PICK parsed \in BOOLEAN : ev = <<Answer!Complete(k, parsed)>>
                                    /\ (parsed <=> TRUE \/ made[k].fragments = 0)
      BY <1>7, <2>4 DEF Closing
    <3>2. Len(ev) = 1 /\ ev[1] = Answer!Complete(k, parsed) /\ \A i \in 2..Len(ev) : ev[i].type # "call"
      BY <3>1
    <3>3. \A j \in DOMAIN made : ~made[j].open => made[j].whole
      BY <1>0 DEF Sound, Shaped, Cutting, Answer!Truncations, Answer!Failures, Answer!Unsaid
    <3>4. /\ k \in DOMAIN made' /\ made'[k].kind = "call" /\ made'[k].named /\ ~made'[k].open
          /\ made'[k].whole /\ (parsed <=> made'[k].whole \/ made'[k].fragments = 0)
      BY <1>2, <1>4, <1>6, <2>4, <3>1
    <3>5. Typed /\ OfClosed /\ protocol' = protocol /\ protocol # "chat"
      BY <1>0, <1>3, <2>4 DEF Sound
    <3>6. made[k].open /\ out' = out \o ev /\ Len(ev) >= 1
      BY <1>2, <1>7, <3>2
    <3>7. protocol = "responses" => made'[k].whole
      BY <3>4
    <3> QED
      BY <2>1, <2>2, <3>2, <3>3, <3>4, <3>5, <3>6, <3>7, OneCall
  <2> QED
    BY <2>3, <2>4
<1>13. NotTold' /\ Answer!CutIsLast' /\ Answer!EndIsTold'
  <2>1. \A i \in 1..Len(ev) : ev[i].type # "turn"
    <3>1. CASE protocol = "chat" \/ made[k].kind # "call"
      BY <1>7, <3>1 DEF Closing
    <3>2. CASE protocol # "chat" /\ made[k].kind = "call"
      <4>1. PICK parsed \in BOOLEAN : ev = <<Answer!Complete(k, parsed)>>
        BY <1>7, <3>2 DEF Closing
      <4> QED
        BY <4>1 DEF Answer!Complete
    <3> QED
      BY <3>1, <3>2
  <2> QED
    BY <1>0, <1>3, <1>7, <1>9, <2>1, NotYet DEF Sound
<1> QED
  BY <1>9, <1>10, <1>11, <1>12, <1>13 DEF AInv


\* The blocks at the end of the answer: all are closed, and the one that is cut is the last.
EndsAs(raw) ==
    /\ made' \in Seq(Answer!Blocks) /\ Len(made') = Len(made) /\ DOMAIN made' = DOMAIN made
    /\ \A k \in DOMAIN made :
          /\ made'[k].kind = made[k].kind /\ made'[k].named = made[k].named
          /\ made'[k].whole = made[k].whole /\ made'[k].fragments = made[k].fragments
          /\ ~made'[k].open
          /\ made[k].whole \/ made[k].open
          /\ made[k].open => k = Len(made) /\ raw \in Cutting
    /\ raw \in Answer!Reasons(protocol) /\ reason' = raw /\ reason' # "none"
    /\ UNCHANGED <<protocol, over>>

LEMMA EndedIs ==
  ASSUME Sound, NEW raw, Answer!Ended(raw)
  PROVE  EndsAs(raw) /\ Shaped' /\ KeepsClosed /\ WholeAre({})
<1>0. reason = "none" /\ raw \in Answer!Reasons(protocol) /\ reason' = raw /\ UNCHANGED <<protocol, over>>
  BY DEF Answer!Ended
<1>1. made \in Seq(Answer!Blocks) /\ Len(made) \in Nat /\ DOMAIN made = 1..Len(made)
  BY DEF Sound, Typed
<1>2. made' = [k \in DOMAIN made |-> [made[k] EXCEPT !.open = FALSE]]
  BY DEF Answer!Ended
<1>3. ASSUME NEW k \in DOMAIN made
      PROVE  /\ made'[k] \in Answer!Blocks
             /\ made'[k].kind = made[k].kind /\ made'[k].named = made[k].named
             /\ made'[k].whole = made[k].whole /\ made'[k].fragments = made[k].fragments
             /\ ~made'[k].open
  <2>1. made[k] \in Answer!Blocks
    BY <1>1
  <2>2. made'[k] = [made[k] EXCEPT !.open = FALSE]
    BY <1>2
  <2> QED
    BY <2>1, <2>2 DEF Answer!Blocks
<1>4. DOMAIN made' = 1..Len(made) /\ made' \in [1..Len(made) -> Answer!Blocks]
  BY <1>1, <1>2, <1>3
<1>5. made' \in Seq(Answer!Blocks) /\ Len(made') = Len(made)
  BY <1>1, <1>4
<1>6. \A k \in DOMAIN made : made[k].whole \/ made[k].open
  BY <1>0 DEF Sound, Shaped, Cutting, Answer!Truncations, Answer!Failures, Answer!Unsaid
<1>7. ASSUME NEW k \in DOMAIN made, made[k].open
      PROVE  k = Len(made) /\ raw \in Cutting
  <2>1. k \in Answer!Cut
    BY <1>7 DEF Answer!Cut
  <2> QED
    BY <2>1 DEF Answer!Ended, Cutting
<1>8. reason' # "none"
  BY <1>0 DEF Answer!Reasons, Sound, Typed, Answer!Protocols
<1>9. EndsAs(raw)
  BY <1>0, <1>1, <1>3, <1>4, <1>5, <1>6, <1>7, <1>8 DEF EndsAs
<1>10. Shaped'
  <2>1. \A k \in DOMAIN made : /\ made[k].whole => made[k].named
                               /\ protocol # "chat" => made[k].named
    BY DEF Sound, Shaped
  <2> QED
    BY <1>0, <1>9, <2>1 DEF EndsAs, Shaped, Cutting, Answer!Truncations, Answer!Failures, Answer!Unsaid
<1>11. KeepsClosed
  BY <1>1, <1>3, <1>4 DEF KeepsClosed
<1>12. WholeAre({})
  BY <1>1, <1>3, <1>4 DEF WholeAre
<1> QED
  BY <1>9, <1>10, <1>11, <1>12

LEMMA StopReasons ==
  ASSUME Typed, NEW raw \in Answer!Reasons(protocol)
  PROVE  /\ Answer!StopOf(raw) \in {"end_turn", "tool_use", "max_tokens", "error"}
         /\ Answer!StopOf(raw) = "max_tokens" <=> raw \in Answer!Truncations
         /\ Answer!StopOf(raw) = "error" <=> raw \in Answer!Failures
  BY DEF Typed, Answer!Protocols, Answer!Reasons, Answer!StopOf, Answer!Truncations, Answer!Failures

\* The answers of which the end comes without an event.
LEMMA QuietEndStep ==
  ASSUME MaxBlocks \in Nat, MaxFragments \in Nat, AInv,
         NEW raw, Answer!ChatEnd(raw) \/ Answer!ResponsesEnd(raw)
  PROVE  AInv'
<1>0. Sound /\ NotTold /\ over = "no" /\ reason = "none" /\ Answer!Ended(raw)
  BY DEF AInv, Sound, Answer!ChatEnd, Answer!ResponsesEnd, Answer!Ended
<1>1. EndsAs(raw) /\ Shaped' /\ KeepsClosed /\ WholeAre({})
  BY <1>0, EndedIs
<1>2. /\ UNCHANGED <<buffers, out>> /\ input' \in BOOLEAN
      /\ \/ protocol = "chat" /\ finish' = raw
         \/ /\ protocol = "responses"
            /\ finish' = IF raw \notin {"completed", "untold"} THEN Answer!StopOf(raw)
                         ELSE IF finish = "none" THEN "end_turn" ELSE finish
  BY DEF Answer!ChatEnd, Answer!ResponsesEnd
<1>3. Typed'
  BY <1>0, <1>1, <1>2 DEF Sound, Typed, EndsAs
<1>4. Buffered'
  BY <1>0, <1>1, <1>2 DEF Sound, Buffered, EndsAs, Typed
<1> DEFINE ev == <<>>
<1>5. /\ out \in Seq(Answer!Events) /\ ev \in Seq(Answer!Events)
      /\ \A i \in 1..Len(ev) : ev[i].type # "call" /\ ev[i].type # "turn"
  BY <1>0 DEF Sound, Typed
<1>6. out' = out \o ev
  BY <1>2, <1>5, ConcatEmptySeq
<1> HIDE DEF ev
<1>7. protocol' = protocol /\ over' = over /\ Typed /\ OfClosed
  BY <1>0, <1>1 DEF Sound, EndsAs
<1>8. OfClosed'
  <2>1. over = "ended" => over' = "ended"
    BY <1>7
  <2> QED
    BY <1>1, <1>5, <1>6, <1>7, <2>1, Quietly
<1>9. NotTold' /\ Answer!CutIsLast' /\ Answer!EndIsTold'
  <2>1. over # "ended" /\ over' # "ended"
    BY <1>0, <1>7
  <2> QED
    BY <1>0, <1>3, <1>5, <1>6, <1>7, <2>1, NotYet
<1> QED
  BY <1>1, <1>3, <1>4, <1>8, <1>9 DEF AInv

\* Anthropic's last event was one of a block: nothing more is said.
LEMMA HushStep ==
  ASSUME MaxBlocks \in Nat, MaxFragments \in Nat, AInv, Answer!AnthropicHush
  PROVE  AInv'
<1> DEFINE raw == "untold"
<1>0. /\ Sound /\ NotTold /\ over = "no" /\ reason = "none" /\ Answer!Ended(raw)
      /\ protocol = "anthropic" /\ finish' = raw /\ UNCHANGED <<input, out>>
  BY DEF AInv, Sound, Answer!AnthropicHush, Answer!Ended
<1>1. EndsAs(raw) /\ Shaped' /\ KeepsClosed /\ WholeAre({})
  BY <1>0, EndedIs
<1>2. DOMAIN buffers' = {}
  <2>1. buffers' = [k \in DOMAIN buffers \ Answer!Cut |-> buffers[k]]
    BY DEF Answer!AnthropicHush
  <2>2. DOMAIN buffers \subseteq Answer!Cut
    BY <1>0 DEF Sound, Buffered, Typed, Answer!Cut
  <2> QED
    BY <2>1, <2>2
<1>3. Typed'
  BY <1>0, <1>1, <1>2 DEF Sound, Typed, EndsAs
<1>4. Buffered'
  BY <1>0, <1>1, <1>2 DEF Buffered, EndsAs
<1> DEFINE ev == <<>>
<1>5. /\ out \in Seq(Answer!Events) /\ ev \in Seq(Answer!Events)
      /\ \A i \in 1..Len(ev) : ev[i].type # "call" /\ ev[i].type # "turn"
  BY <1>0 DEF Sound, Typed
<1>6. out' = out \o ev
  BY <1>0, <1>5, ConcatEmptySeq
<1> HIDE DEF ev
<1>7. protocol' = protocol /\ over' = over /\ Typed /\ OfClosed
  BY <1>0, <1>1 DEF Sound, EndsAs
<1>8. OfClosed'
  <2>1. over = "ended" => over' = "ended"
    BY <1>7
  <2> QED
    BY <1>1, <1>5, <1>6, <1>7, <2>1, Quietly
<1>9. NotTold' /\ Answer!CutIsLast' /\ Answer!EndIsTold'
  <2>1. over # "ended" /\ over' # "ended"
    BY <1>0, <1>7
  <2> QED
    BY <1>0, <1>3, <1>5, <1>6, <1>7, <2>1, NotYet
<1> QED
  BY <1>1, <1>3, <1>4, <1>8, <1>9 DEF AInv

\* Anthropic's block stops first, and is followed by the usage.
LEMMA AnthropicEndStep ==
  ASSUME MaxBlocks \in Nat, MaxFragments \in Nat, AInv, NEW raw, Answer!AnthropicEnd(raw)
  PROVE  AInv'
<1>0. /\ Sound /\ NotTold /\ over = "no" /\ reason = "none" /\ Answer!Ended(raw)
      /\ protocol = "anthropic" /\ finish' = raw /\ UNCHANGED input
  BY DEF AInv, Sound, Answer!AnthropicEnd, Answer!Ended
<1>1. EndsAs(raw) /\ Shaped' /\ KeepsClosed /\ WholeAre({})
  BY <1>0, EndedIs
<1>2. /\ made \in Seq(Answer!Blocks) /\ Len(made) \in Nat /\ DOMAIN made = 1..Len(made)
      /\ out \in Seq(Answer!Events) /\ input \in BOOLEAN
  BY <1>0 DEF Sound, Typed
<1>3. /\ DOMAIN buffers' = {}
      /\ buffers' = [k \in DOMAIN buffers \ Answer!Cut |-> buffers[k]]
  <2>1. buffers' = [k \in DOMAIN buffers \ Answer!Cut |-> buffers[k]]
    BY DEF Answer!AnthropicEnd
  <2>2. DOMAIN buffers \subseteq Answer!Cut
    BY <1>0 DEF Sound, Buffered, Typed, Answer!Cut
  <2> QED
    BY <2>1, <2>2
<1> DEFINE k    == Len(made)
           head == IF Answer!Cut = {} THEN <<>> ELSE Answer!AnthropicStop(k, FALSE)
           tail == <<Answer!Usage(input)>>
           ev   == head \o tail
<1>4. out' = out \o ev
  BY DEF Answer!AnthropicEnd, Answer!Emit
<1>5. tail \in Seq(Answer!Events) /\ Len(tail) = 1 /\ tail[1].type = "usage"
  <2>1. Answer!Usage(input) \in Answer!Events /\ Answer!Usage(input).type = "usage"
    BY <1>2 DEF Answer!Usage, Answer!Events
  <2> QED
    BY <2>1, One
<1>6. ASSUME Answer!Cut = {} \/ made[k].kind # "call"
      PROVE  ev \in Seq(Answer!Events) /\ \A i \in 1..Len(ev) : ev[i].type \notin {"call", "turn"}
  <2>1. head \in Seq(Answer!Events) /\ \A i \in 1..Len(head) : head[i].type \notin {"call", "turn"}
    <3>1. CASE Answer!Cut = {}
      BY <3>1
    <3>2. CASE Answer!Cut # {}
      <4>1. k \in DOMAIN made /\ made[k].open
        BY <1>1, <3>2 DEF EndsAs, Answer!Cut
      <4>2. Closing(k, FALSE, Answer!AnthropicStop(k, FALSE))
        BY <1>0, <4>1, StopIs
      <4> QED
        BY <1>6, <3>2, <4>2 DEF Closing
    <3> QED
      BY <3>1, <3>2
  <2> HIDE DEF head, tail
  <2>2. ev \in Seq(Answer!Events) /\ \A i \in 1..Len(ev) : ev[i].type \notin {"call", "turn"}
    <3> DEFINE both == head \o tail
    <3>1. both = head \o tail /\ Len(head) \in Nat
      BY <2>1
    <3> HIDE DEF both
    <3>2. /\ both \in Seq(Answer!Events)
          /\ \A i \in 1..Len(head) : both[i] = head[i]
          /\ \A i \in 1..Len(both) : i \notin 1..Len(head) => i - Len(head) \in 1..Len(tail) /\ both[i] = tail[i - Len(head)]
      <4>1. head \in Seq(Answer!Events) /\ tail \in Seq(Answer!Events)
        BY <1>5, <2>1
      <4> QED
        BY <3>1, <4>1, Joined
    <3>3. \A i \in 1..Len(both) : both[i].type \notin {"call", "turn"}
      BY <1>5, <2>1, <3>1, <3>2
    <3> QED
      BY <3>2, <3>3 DEF both
  <2> QED
    BY <2>2
<1>7. ASSUME Answer!Cut # {}, made[k].kind = "call"
      PROVE  /\ k \in DOMAIN made /\ made[k].open
             /\ \E parsed \in BOOLEAN : /\ parsed <=> made[k].fragments = 0
                                        /\ ev \in Seq(Answer!Events) /\ Len(ev) = 2
                                        /\ ev[1] = Answer!Complete(k, parsed) /\ ev[2].type = "usage"
  <2>1. k \in DOMAIN made /\ made[k].open
    BY <1>1, <1>7 DEF EndsAs, Answer!Cut
  <2>2. Closing(k, FALSE, Answer!AnthropicStop(k, FALSE))
    BY <1>0, <2>1, StopIs
  <2>3. PICK parsed \in BOOLEAN : /\ Answer!AnthropicStop(k, FALSE) = <<Answer!Complete(k, parsed)>>
                                  /\ parsed <=> made[k].fragments = 0
    BY <1>7, <2>2 DEF Closing
  <2>4. head = <<Answer!Complete(k, parsed)>> /\ head \in Seq(Answer!Events)
    BY <1>7, <2>2, <2>3 DEF Closing
  <2>5. Len(head) = 1 /\ head[1] = Answer!Complete(k, parsed)
    <3> HIDE DEF head
    <3> QED
      BY <2>4
  <2> HIDE DEF head, tail
  <2>6. ev \in Seq(Answer!Events) /\ Len(ev) = 2 /\ ev[1] = head[1] /\ ev[2] = tail[1]
    <3> DEFINE both == head \o tail
    <3>1. both = head \o tail
      OBVIOUS
    <3> HIDE DEF both
    <3>2. /\ both \in Seq(Answer!Events) /\ Len(both) = Len(head) + Len(tail)
          /\ \A i \in 1..Len(head) : both[i] = head[i]
          /\ \A i \in 1..Len(tail) : both[Len(head) + i] = tail[i]
      <4>1. head \in Seq(Answer!Events) /\ tail \in Seq(Answer!Events)
        BY <1>5, <2>4
      <4> QED
        BY <3>1, <4>1, Joined
    <3>3. Len(both) = 2 /\ both[1] = head[1] /\ both[2] = tail[1]
      BY <1>5, <2>5, <3>2
    <3> QED
      BY <3>2, <3>3 DEF both
  <2> QED
    BY <1>5, <2>1, <2>3, <2>5, <2>6
<1> HIDE DEF ev
<1>8. ev \in Seq(Answer!Events) /\ \A i \in 1..Len(ev) : ev[i].type # "turn"
  <2>1. CASE Answer!Cut # {} /\ made[k].kind = "call"
    <3>1. PICK parsed \in BOOLEAN : /\ ev \in Seq(Answer!Events) /\ Len(ev) = 2
                                    /\ ev[1] = Answer!Complete(k, parsed) /\ ev[2].type = "usage"
      BY <1>7, <2>1
    <3> QED
      BY <3>1 DEF Answer!Complete
  <2> QED
    BY <1>6, <2>1
<1>9. Typed'
  <2>1. out' \in Seq(Answer!Events)
    BY <1>2, <1>4, <1>8, Joined
  <2> QED
    BY <1>0, <1>1, <1>3, <2>1 DEF Sound, Typed, EndsAs
<1>10. Buffered'
  BY <1>0, <1>1, <1>3 DEF Buffered, EndsAs
<1>11. OfClosed'
  <2>1. CASE Answer!Cut = {} \/ made[k].kind # "call"
    <3>1. \A i \in 1..Len(ev) : ev[i].type # "call"
      BY <1>6, <2>1
    <3> QED
      BY <1>0, <1>1, <1>4, <1>8, <3>1, Quietly DEF Sound, EndsAs
  <2>2. CASE Answer!Cut # {} /\ made[k].kind = "call"
    <3>1. PICK parsed \in BOOLEAN : /\ parsed <=> made[k].fragments = 0
                                    /\ Len(ev) = 2 /\ ev[1] = Answer!Complete(k, parsed)
                                    /\ ev[2].type = "usage"
      BY <1>7, <2>2
    <3>2. Len(ev) >= 1 /\ \A i \in 2..Len(ev) : ev[i].type # "call"
      BY <3>1
    <3>3. k \in DOMAIN made /\ made[k].open
      BY <1>7, <2>2
    <3>4. \A j \in DOMAIN made : ~made[j].open => made[j].whole
      BY <1>1 DEF EndsAs
    <3>5. ~made[k].whole /\ made[k].named
      BY <1>0, <3>3 DEF Sound, Shaped
    <3>6. /\ k \in DOMAIN made' /\ made'[k].kind = "call" /\ made'[k].named /\ ~made'[k].open
          /\ (parsed <=> made'[k].whole \/ made'[k].fragments = 0)
      BY <1>1, <2>2, <3>1, <3>3, <3>5 DEF EndsAs
    <3>7. WholeAre({k})
      BY <1>1 DEF WholeAre
    <3>8. Typed /\ OfClosed /\ protocol' = protocol /\ protocol # "chat" /\ protocol # "responses"
      BY <1>0, <1>1 DEF Sound, EndsAs
    <3> HIDE DEF k
    <3> QED
      BY <1>1, <1>4, <1>8, <3>1, <3>2, <3>3, <3>4, <3>6, <3>7, <3>8, OneCall
  <2> QED
    BY <2>1, <2>2
<1>12. NotTold' /\ Answer!CutIsLast' /\ Answer!EndIsTold'
  BY <1>0, <1>1, <1>4, <1>8, <1>9, NotYet DEF Sound, EndsAs
<1> QED
  BY <1>1, <1>9, <1>10, <1>11, <1>12 DEF AInv


LEMMA NoneOf ==
  ASSUME NEW E, NEW T, NEW s \in Seq(E), NEW u \in Seq(E), NEW t, t = s \o u,
         \A i \in 1..Len(s) : s[i].type \notin T, \A i \in 1..Len(u) : u[i].type \notin T
  PROVE  t \in Seq(E) /\ \A i \in 1..Len(t) : t[i].type \notin T
<1>1. /\ t \in Seq(E)
      /\ \A i \in 1..Len(s) : t[i] = s[i]
      /\ \A i \in 1..Len(t) : i \notin 1..Len(s) => i - Len(s) \in 1..Len(u) /\ t[i] = u[i - Len(s)]
  BY Joined
<1> QED
  BY <1>1

LEMMA ThoughtIs ==
  /\ Answer!Thought \in Seq(Answer!Events)
  /\ \A i \in 1..Len(Answer!Thought) : Answer!Thought[i].type \notin {"call", "turn"}
<1>1. Answer!Event("thinking", 0) \in Answer!Events /\ Answer!Event("thinking", 0).type = "thinking"
  BY BlockEvents
<1> DEFINE thought == Answer!Event("thinking", 0)
<1> HIDE DEF thought
<1>2. CASE Answer!Thought = <<>>
  BY <1>2
<1>3. CASE Answer!Thought = <<thought>>
  <2>1. thought \in Answer!Events /\ thought.type = "thinking"
    BY <1>1 DEF thought
  <2> QED
    BY <1>3, <2>1
<1> QED
  BY <1>2, <1>3 DEF Answer!Thought, thought

\* The usage, if the prompt's tokens are known.
Use == IF input THEN <<Answer!Usage(TRUE)>> ELSE <<>>

LEMMA UseIs ==
  Use \in Seq(Answer!Events) /\ \A i \in 1..Len(Use) : Use[i].type \notin {"call", "turn"}
<1> DEFINE u == Answer!Usage(TRUE)
<1>1. u \in Answer!Events /\ u.type = "usage"
  BY DEF Answer!Usage, Answer!Events
<1> HIDE DEF u
<1>2. CASE Use = <<>>
  BY <1>2
<1>3. CASE Use = <<u>>
  BY <1>1, <1>3
<1> QED
  BY <1>2, <1>3 DEF Use, u

\* The stop that is told last is right about the reason.
Tells(ending) ==
    /\ ending \in {"end_turn", "tool_use", "max_tokens", "error"}
    /\ ending = "max_tokens" <=> reason \in Answer!Truncations
    /\ ending = "error" <=> reason \in Answer!Failures

LEMMA ToldLast ==
  ASSUME Typed, Shaped, OfClosed', Answer!Closes, NEW ending, Tells(ending), NotTold,
         NEW ev \in Seq(Answer!Events), out' = out \o ev, Len(ev) \in Nat \ {0},
         \A i \in 1..Len(ev) : i # Len(ev) => ev[i].type # "turn",
         ev[Len(ev)] = Answer!TurnComplete(ending),
         \A k \in DOMAIN made : Answer!IsCall(k) /\ made[k].whole => k \in Answer!Handed'
  PROVE  NotTold' /\ Answer!CutIsLast' /\ Answer!EndIsTold'
<1>0. /\ over = "no" /\ over' = "ended" /\ reason # "none"
      /\ made' = made /\ reason' = reason
  BY DEF Answer!Closes
<1>1. out \in Seq(Answer!Events) /\ Len(out) \in Nat /\ DOMAIN out = 1..Len(out)
  BY DEF Typed
<1>2. /\ DOMAIN out' = 1..Len(out') /\ Len(out') = Len(out) + Len(ev)
      /\ \A i \in 1..Len(out) : out'[i] = out[i]
      /\ \A i \in 1..Len(ev) : out'[Len(out) + i] = ev[i]
      /\ \A i \in 1..Len(out') : i \notin 1..Len(out) => i - Len(out) \in 1..Len(ev) /\ out'[i] = ev[i - Len(out)]
  BY <1>1, Joined
<1>3. /\ out'[Len(out')].type = "turn" /\ out'[Len(out')].stop = ending /\ Len(out') \in DOMAIN out'
  BY <1>1, <1>2 DEF Answer!TurnComplete
<1>4. ASSUME NEW i \in DOMAIN out', out'[i].type = "turn" PROVE i = Len(out')
  <2>1. CASE i \in 1..Len(out)
    BY <1>0, <1>1, <1>2, <1>4, <2>1 DEF NotTold
  <2>2. CASE i \notin 1..Len(out)
    <3>1. i - Len(out) \in 1..Len(ev) /\ out'[i] = ev[i - Len(out)]
      BY <1>2, <2>2
    <3>2. i - Len(out) = Len(ev)
      BY <1>4, <3>1
    <3> QED
      BY <1>1, <1>2, <3>2
  <2> QED
    BY <2>1, <2>2
<1>5. {i \in DOMAIN out' : out'[i].type = "turn"} = {Len(out')}
  BY <1>3, <1>4
<1>6. Answer!EndIsTold'
  <2>1. {k \in DOMAIN made' : Answer!IsCall(k)' /\ made'[k].whole} \subseteq Answer!Handed'
    BY <1>0 DEF Answer!IsCall
  <2> QED
    BY <1>0, <1>3, <1>5, <2>1 DEF Answer!EndIsTold, Tells
<1>7. Answer!CutIsLast'
  <2> SUFFICES ASSUME NEW i \in Answer!Emitted', ~made'[out'[i].of].whole
               PROVE  /\ \A j \in Answer!Emitted' : j <= i
                      /\ reason' \in Answer!Unsaid \/ out'[Len(out')].stop \in {"max_tokens", "error"}
    BY DEF Answer!CutIsLast
  <2>1. out'[i].of \in DOMAIN made' /\ ~made'[out'[i].of].open /\ \A j \in Answer!Emitted' : j <= i
    BY DEF OfClosed, Answer!CallsAreWhole
  <2>2. reason \in Cutting
    BY <1>0, <2>1 DEF Shaped
  <2> QED
    BY <1>0, <1>3, <2>1, <2>2 DEF Tells, Cutting
<1>8. NotTold'
  BY <1>0 DEF NotTold
<1> QED
  BY <1>6, <1>7, <1>8

\* What the end of the stream leaves as it was.
LEMMA ClosesKeeps ==
  ASSUME Sound, Answer!Closes, out' \in Seq(Answer!Events)
  PROVE  Typed' /\ Shaped' /\ Buffered' /\ KeepsClosed /\ WholeAre({})
<1>1. /\ over' = "ended" /\ reason # "none"
      /\ UNCHANGED <<protocol, made, reason, buffers, finish, input>>
  BY DEF Answer!Closes
<1>2. Typed'
  BY <1>1 DEF Sound, Typed
<1>3. Shaped' /\ Buffered'
  BY <1>1 DEF Sound, Shaped, Buffered
<1>4. KeepsClosed /\ WholeAre({})
  BY <1>1 DEF KeepsClosed, WholeAre
<1> QED
  BY <1>2, <1>3, <1>4

LEMMA FinishTells ==
  ASSUME Typed, reason # "none"
  PROVE  /\ protocol # "responses" => Tells(Answer!StopOf(finish))
         /\ protocol = "responses" => Tells(IF finish = "none" THEN "end_turn" ELSE finish)
<1>1. reason \in Answer!Reasons(protocol)
  BY DEF Typed
<1>2. Tells(Answer!StopOf(reason))
  BY <1>1, StopReasons DEF Tells
<1>3. ASSUME protocol = "responses", reason \in {"completed", "untold"}
      PROVE  Tells(IF finish = "none" THEN "end_turn" ELSE finish)
  BY <1>3 DEF Typed, Tells, Answer!Truncations, Answer!Failures
<1>4. ASSUME protocol = "responses", reason \notin {"completed", "untold"}
      PROVE  Tells(IF finish = "none" THEN "end_turn" ELSE finish)
  <2>1. finish = Answer!StopOf(reason)
    BY <1>4 DEF Typed
  <2>2. finish # "none"
    BY <1>2, <2>1 DEF Tells
  <2> QED
    BY <1>2, <2>1, <2>2
<1>5. protocol # "responses" => finish = reason
  BY DEF Typed
<1> QED
  BY <1>2, <1>3, <1>4, <1>5

\* The protocols that hand out their calls before the end.
LEMMA PlainCloseStep ==
  ASSUME AInv, Answer!AnthropicClose \/ Answer!ResponsesClose
  PROVE  AInv'
<1>0. Sound /\ NotTold /\ over = "no" /\ reason # "none" /\ Answer!Closes
  BY DEF AInv, Sound, Answer!AnthropicClose, Answer!ResponsesClose, Answer!Closes
<1>1. PICK ending \in {"end_turn", "tool_use", "max_tokens", "error"}, pre \in Seq(Answer!Events) :
        /\ Tells(ending) /\ out' = out \o (pre \o <<Answer!TurnComplete(ending)>>)
        /\ \A i \in 1..Len(pre) : pre[i].type \notin {"call", "turn"}
        /\ protocol # "chat"
  <2>1. CASE Answer!AnthropicClose
    <3> DEFINE last == Answer!TurnComplete(Answer!StopOf(finish))
    <3>1. protocol = "anthropic" /\ out' = out \o <<last>>
      BY <2>1 DEF Answer!AnthropicClose, Answer!Emit
    <3>2. Tells(Answer!StopOf(finish))
      BY <1>0, <3>1, FinishTells DEF Sound
    <3>3. <<>> \in Seq(Answer!Events) /\ <<last>> = <<>> \o <<last>>
      OBVIOUS
    <3>4. Answer!StopOf(finish) \in {"end_turn", "tool_use", "max_tokens", "error"}
      BY <3>2 DEF Tells
    <3> WITNESS Answer!StopOf(finish) \in {"end_turn", "tool_use", "max_tokens", "error"}, <<>> \in Seq(Answer!Events)
    <3> QED
      BY <3>1, <3>2, <3>3
  <2>2. CASE Answer!ResponsesClose
    <3> DEFINE ending == IF finish = "none" THEN "end_turn" ELSE finish
               pre  == Answer!Thought \o Use
    <3>1. protocol = "responses" /\ out' = out \o (pre \o <<Answer!TurnComplete(ending)>>)
      BY <2>2 DEF Answer!ResponsesClose, Answer!Emit, Use
    <3>2. Tells(ending)
      BY <1>0, <3>1, FinishTells DEF Sound
    <3> HIDE DEF ending
    <3>4. pre \in Seq(Answer!Events) /\ \A i \in 1..Len(pre) : pre[i].type \notin {"call", "turn"}
      BY UseIs, ThoughtIs, NoneOf
    <3>5. ending \in {"end_turn", "tool_use", "max_tokens", "error"}
      BY <3>2 DEF Tells
    <3> HIDE DEF pre
    <3> QED
      BY <3>1, <3>2, <3>4, <3>5
  <2> QED
    BY <1>0, <2>1, <2>2
<1> DEFINE last == Answer!TurnComplete(ending)
           ev   == pre \o <<last>>
<1>2. last \in Answer!Events /\ last.type = "turn"
  BY <1>1 DEF Answer!TurnComplete, Answer!Events, Tells
<1>3. /\ ev \in Seq(Answer!Events) /\ Len(ev) = Len(pre) + 1 /\ Len(pre) \in Nat
      /\ ev[Len(ev)] = last /\ \A i \in 1..Len(ev) : i # Len(ev) => ev[i].type \notin {"call", "turn"}
  <2> HIDE DEF last
  <2>1. <<last>> \in Seq(Answer!Events) /\ Len(<<last>>) = 1 /\ <<last>>[1] = last
    BY <1>2, One
  <2>2. /\ ev \in Seq(Answer!Events) /\ Len(ev) = Len(pre) + Len(<<last>>)
        /\ \A i \in 1..Len(pre) : ev[i] = pre[i]
        /\ \A i \in 1..Len(<<last>>) : ev[Len(pre) + i] = <<last>>[i]
    BY <2>1, Joined
  <2> QED
    BY <1>1, <2>1, <2>2
<1>4. \A i \in 1..Len(ev) : ev[i].type # "call"
  <2> HIDE DEF last, ev
  <2> QED
    BY <1>2, <1>3
<1> HIDE DEF ev
<1>5. out' = out \o ev
  BY <1>1 DEF ev
<1>6. out' \in Seq(Answer!Events)
  BY <1>0, <1>3, <1>5, Joined DEF Sound, Typed
<1>7. Typed' /\ Shaped' /\ Buffered' /\ KeepsClosed /\ WholeAre({})
  BY <1>0, <1>6, ClosesKeeps
<1>8. OfClosed' /\ Answer!Emitted' = Answer!Emitted
  <2>1. protocol' = protocol /\ (over = "ended" => over' = "ended") /\ Typed /\ OfClosed
    BY <1>0 DEF Answer!Closes, Sound
  <2> QED
    BY <1>3, <1>4, <1>5, <1>7, <2>1, Quietly
<1>9. \A k \in DOMAIN made : Answer!IsCall(k) /\ made[k].whole => k \in Answer!Handed'
  <2>1. made' = made /\ protocol' = protocol
    BY <1>0 DEF Answer!Closes
  <2> QED
    BY <1>1, <1>8, <2>1 DEF OfClosed, Answer!IsCall
<1>10. NotTold' /\ Answer!CutIsLast' /\ Answer!EndIsTold'
  <2>1. Typed /\ Shaped /\ Len(ev) \in Nat \ {0}
    BY <1>0, <1>3 DEF Sound
  <2>2. ev[Len(ev)] = Answer!TurnComplete(ending) /\ \A i \in 1..Len(ev) : i # Len(ev) => ev[i].type # "turn"
    BY <1>3
  <2> QED
    BY <1>0, <1>1, <1>3, <1>5, <1>8, <1>9, <2>1, <2>2, ToldLast
<1> QED
  BY <1>7, <1>8, <1>10 DEF AInv


\* Chat Completions hands out its calls at the end, in the order in which they began.
LEMMA ChatCloseStep ==
  ASSUME AInv, Answer!ChatClose
  PROVE  AInv'
<1> DEFINE calls == {k \in DOMAIN buffers : made[k].kind = "call" /\ made[k].named}
           given(k) == Answer!Complete(k, Answer!Parses(k, buffers[k], made[k].whole))
           ending == Answer!StopOf(finish)
           last == Answer!TurnComplete(ending)
           pre  == Answer!Thought \o Use
<1>0. Sound /\ NotTold /\ over = "no" /\ reason # "none" /\ protocol = "chat" /\ Answer!Closes
  BY DEF AInv, Sound, Answer!ChatClose, Answer!Closes
<1>1. /\ made \in Seq(Answer!Blocks) /\ Len(made) \in Nat /\ DOMAIN made = 1..Len(made)
      /\ out \in Seq(Answer!Events) /\ Len(out) \in Nat /\ DOMAIN out = 1..Len(out)
      /\ DOMAIN buffers \subseteq DOMAIN made /\ input \in BOOLEAN /\ Typed
      /\ made' = made /\ protocol' = protocol /\ over' = "ended"
  BY <1>0 DEF Sound, Typed, Answer!Closes
<1>2. PICK flushed \in Answer!Flushes : out' = out \o (flushed \o pre \o <<last>>)
  BY DEF Answer!ChatClose, Answer!Emit, Use
<1>3. PICK o \in [1..Cardinality(calls) -> calls] :
        /\ \A k \in calls : \E i \in DOMAIN o : o[i] = k
        /\ \A i, j \in DOMAIN o : i < j => o[i] < o[j]
        /\ flushed = [i \in DOMAIN o |-> given(o[i])]
  <2> DEFINE orders == {o \in [1..Cardinality(calls) -> calls] :
                            /\ \A k \in calls : \E i \in DOMAIN o : o[i] = k
                            /\ \A i, j \in DOMAIN o : i < j => o[i] < o[j]}
  <2>1. Answer!Flushes = {[i \in DOMAIN o |-> given(o[i])] : o \in orders}
    BY DEF Answer!Flushes, Answer!Cardinality, Cardinality
  <2> HIDE DEF given, calls
  <2>2. PICK o \in orders : flushed = [i \in DOMAIN o |-> given(o[i])]
    <3> HIDE DEF orders
    <3> QED
      BY <1>2, <2>1
  <2> QED
    BY <2>2
<1> DEFINE n == Cardinality(calls)
<1>4. calls \subseteq 1..Len(made) /\ n \in Nat
  <2>1. calls \subseteq 1..Len(made)
    BY <1>1
  <2>2. IsFiniteSet(1..Len(made))
    BY <1>1, FS_Interval
  <2> HIDE DEF calls
  <2>3. IsFiniteSet(calls)
    BY <2>1, <2>2, FS_Subset
  <2> QED
    BY <2>1, <2>3, FS_CardinalityType
<1>5. \A k \in calls : /\ k \in DOMAIN made /\ k \in Nat /\ Answer!IsCall(k) /\ ~made[k].open
                       /\ given(k) \in Answer!Events /\ given(k).type = "call" /\ given(k).of = k
                       /\ given(k).parsed <=> made[k].whole \/ made[k].fragments = 0
                       /\ ~made[k].whole => k = Len(made)
  <2> SUFFICES ASSUME NEW k \in calls
               PROVE  /\ k \in DOMAIN made /\ k \in Nat /\ Answer!IsCall(k) /\ ~made[k].open
                      /\ given(k) \in Answer!Events /\ given(k).type = "call" /\ given(k).of = k
                      /\ given(k).parsed <=> made[k].whole \/ made[k].fragments = 0
                      /\ ~made[k].whole => k = Len(made)
    OBVIOUS
  <2>1. k \in DOMAIN made /\ k \in Nat /\ Answer!IsCall(k) /\ k \in DOMAIN buffers
    BY <1>1, <1>4 DEF Answer!IsCall
  <2>2. ~made[k].open /\ (~made[k].whole => k = Len(made)) /\ buffers[k] = made[k].fragments
    BY <1>0, <2>1 DEF Sound, Shaped, Buffered
  <2>3. made[k] \in Answer!Blocks
    BY <1>1, <2>1
  <2>4. made[k].whole \in BOOLEAN
    BY <2>3 DEF Answer!Blocks
  <2>5. /\ Answer!Parses(k, buffers[k], made[k].whole) \in BOOLEAN
        /\ Answer!Parses(k, buffers[k], made[k].whole) <=> made[k].whole \/ made[k].fragments = 0
    BY <2>2, <2>4 DEF Answer!Parses
  <2> QED
    BY <2>1, <2>2, <2>5 DEF Answer!Complete, Answer!Events
<1> HIDE DEF calls, given
<1>6. /\ DOMAIN o = 1..n /\ flushed \in Seq(Answer!Events) /\ Len(flushed) = n
      /\ \A i \in 1..n : o[i] \in calls /\ flushed[i] = given(o[i])
  <2>1. DOMAIN o = 1..n /\ \A i \in 1..n : o[i] \in calls
    BY <1>3
  <2>2. flushed \in [1..n -> Answer!Events] /\ \A i \in 1..n : flushed[i] = given(o[i])
    BY <1>3, <1>5, <2>1
  <2> HIDE DEF n
  <2> QED
    BY <1>4, <2>1, <2>2
<1> HIDE DEF n, ending
<1>7. /\ Tells(ending)
      /\ pre \in Seq(Answer!Events) /\ \A i \in 1..Len(pre) : pre[i].type \notin {"call", "turn"}
      /\ last \in Answer!Events /\ last.type = "turn"
  <2>1. Tells(ending)
    BY <1>0, <1>1, FinishTells DEF ending
  <2>2. pre \in Seq(Answer!Events) /\ \A i \in 1..Len(pre) : pre[i].type \notin {"call", "turn"}
    BY UseIs, ThoughtIs, NoneOf
  <2> QED
    BY <2>1, <2>2 DEF Answer!TurnComplete, Answer!Events, Tells
<1> HIDE DEF pre, last
<1> DEFINE tail == <<last>>
<1>8. tail \in Seq(Answer!Events) /\ Len(tail) = 1 /\ tail[1] = last
  BY <1>7, One
<1> HIDE DEF tail
\* What follows the calls: the thinking, the usage and the end.
<1> DEFINE rest == pre \o tail
<1>9. rest = pre \o tail /\ pre \in Seq(Answer!Events)
  BY <1>7
<1> HIDE DEF rest
<1>10. /\ rest \in Seq(Answer!Events) /\ Len(rest) \in Nat \ {0} /\ rest[Len(rest)] = last
       /\ \A i \in 1..Len(rest) : rest[i].type # "call" /\ (i # Len(rest) => rest[i].type # "turn")
  <2>1. /\ rest \in Seq(Answer!Events) /\ Len(rest) = Len(pre) + Len(tail)
        /\ \A i \in 1..Len(pre) : rest[i] = pre[i]
        /\ \A i \in 1..Len(tail) : rest[Len(pre) + i] = tail[i]
        /\ \A i \in 1..Len(rest) : i \notin 1..Len(pre) => i - Len(pre) \in 1..Len(tail) /\ rest[i] = tail[i - Len(pre)]
    <3>1. pre \in Seq(Answer!Events) /\ tail \in Seq(Answer!Events)
      BY <1>7, <1>8
    <3>2. rest = pre \o tail
      BY <1>9
    <3>3. /\ rest \in Seq(Answer!Events) /\ Len(rest) = Len(pre) + Len(tail)
          /\ \A i \in 1..Len(pre) : rest[i] = pre[i]
          /\ \A i \in 1..Len(tail) : rest[Len(pre) + i] = tail[i]
      BY ONLY <3>1, <3>2, Joined
    <3>4. \A i \in 1..Len(rest) : i \notin 1..Len(pre) => i - Len(pre) \in 1..Len(tail) /\ rest[i] = tail[i - Len(pre)]
      BY ONLY <3>1, <3>2, Joined
    <3> QED
      BY <3>3, <3>4
  <2>2. Len(pre) \in Nat
    BY <1>7
  <2>3. Len(rest) = Len(pre) + 1 /\ rest[Len(rest)] = last
    BY <1>8, <2>1, <2>2
  <2>4. ASSUME NEW i \in 1..Len(rest)
        PROVE  rest[i].type # "call" /\ (i # Len(rest) => rest[i].type # "turn")
    <3>1. CASE i \in 1..Len(pre)
      BY <1>7, <2>1, <3>1
    <3>2. CASE i \notin 1..Len(pre)
      BY <1>7, <1>8, <2>1, <2>2, <2>3, <3>2
    <3> QED
      BY <3>1, <3>2
  <2> QED
    BY <2>1, <2>2, <2>3, <2>4
<1> DEFINE ev == flushed \o rest
<1>11. ev = flushed \o rest
  OBVIOUS
<1>12. out' = out \o ev
  <2>1. flushed \o pre \o tail = ev
    BY <1>6, <1>7, <1>8, <1>9, <1>11, ConcatAssociative
  <2> QED
    BY <1>2, <2>1 DEF tail
<1> HIDE DEF ev
<1>13. /\ ev \in Seq(Answer!Events) /\ Len(ev) = n + Len(rest)
       /\ \A i \in 1..n : ev[i] = given(o[i])
       /\ \A i \in 1..Len(rest) : ev[n + i] = rest[i]
       /\ \A i \in 1..Len(ev) : i \notin 1..n => i - n \in 1..Len(rest) /\ ev[i] = rest[i - n]
  BY <1>6, <1>10, <1>11, Joined
<1>14. /\ Len(ev) \in Nat \ {0} /\ ev[Len(ev)] = last
       /\ \A i \in 1..Len(ev) : /\ ev[i].type = "call" <=> i \in 1..n
                                /\ i # Len(ev) => ev[i].type # "turn"
  <2>1. Len(ev) \in Nat \ {0} /\ ev[Len(ev)] = last
    <3>1. Len(rest) \in 1..Len(rest)
      BY <1>10
    <3> QED
      BY <1>4, <1>10, <1>13, <3>1
  <2>2. ASSUME NEW i \in 1..Len(ev)
        PROVE  (ev[i].type = "call" <=> i \in 1..n) /\ (i # Len(ev) => ev[i].type # "turn")
    <3>1. CASE i \in 1..n
      <4>1. ev[i].type = "call"
        BY <1>5, <1>6, <1>13, <3>1
      <4> QED
        BY <3>1, <4>1
    <3>2. CASE i \notin 1..n
      <4>1. i - n \in 1..Len(rest) /\ ev[i] = rest[i - n]
        BY <1>13, <3>2
      <4>2. i # Len(ev) => i - n # Len(rest)
        BY <1>4, <1>10, <1>13
      <4> QED
        BY <1>10, <3>2, <4>1, <4>2
    <3> QED
      BY <3>1, <3>2
  <2> QED
    BY <2>1, <2>2
<1>15. /\ out' \in Seq(Answer!Events) /\ DOMAIN out' = 1..Len(out) + Len(ev)
       /\ \A i \in 1..Len(out) : out'[i] = out[i]
       /\ \A i \in 1..Len(ev) : out'[Len(out) + i] = ev[i]
       /\ \A i \in 1..Len(out') : i \notin 1..Len(out) => i - Len(out) \in 1..Len(ev) /\ out'[i] = ev[i - Len(out)]
       /\ Len(out') = Len(out) + Len(ev)
  <2>1. out \in Seq(Answer!Events) /\ ev \in Seq(Answer!Events)
    BY <1>1, <1>13
  <2>2. /\ out' \in Seq(Answer!Events) /\ DOMAIN out' = 1..Len(out) + Len(ev)
        /\ \A i \in 1..Len(out) : out'[i] = out[i]
        /\ \A i \in 1..Len(ev) : out'[Len(out) + i] = ev[i]
        /\ Len(out') = Len(out) + Len(ev)
    BY <1>12, <2>1, Joined
  <2>3. \A i \in 1..Len(out') : i \notin 1..Len(out) => i - Len(out) \in 1..Len(ev) /\ out'[i] = ev[i - Len(out)]
    BY <1>12, <2>1, Joined
  <2> QED
    BY <2>2, <2>3
<1>16. Typed' /\ Shaped' /\ Buffered'
  BY <1>0, <1>15, ClosesKeeps
\* Nothing was handed out before; the i-th call is the event after all the events so far.
<1>17. Answer!Emitted = {}
  BY <1>0 DEF Sound, OfClosed
<1>18. /\ \A i \in Answer!Emitted' : i - Len(out) \in 1..n /\ out'[i] = given(o[i - Len(out)])
       /\ \A i \in 1..n : Len(out) + i \in Answer!Emitted' /\ out'[Len(out) + i] = given(o[i])
  <2>1. ASSUME NEW i \in Answer!Emitted' PROVE i - Len(out) \in 1..n /\ out'[i] = given(o[i - Len(out)])
    <3>1. i \in 1..Len(out') /\ out'[i].type = "call"
      BY <1>15 DEF Answer!Emitted
    <3>2. i \notin 1..Len(out)
      BY <1>1, <1>15, <1>17, <3>1 DEF Answer!Emitted
    <3>3. i - Len(out) \in 1..Len(ev) /\ out'[i] = ev[i - Len(out)]
      BY <1>15, <3>1, <3>2
    <3>4. i - Len(out) \in 1..n
      BY <1>14, <3>1, <3>3
    <3> QED
      BY <1>13, <3>3, <3>4
  <2>2. ASSUME NEW i \in 1..n PROVE Len(out) + i \in Answer!Emitted' /\ out'[Len(out) + i] = given(o[i])
    <3>1. i \in 1..Len(ev)
      BY <1>4, <1>10, <1>13
    <3>2. out'[Len(out) + i] = ev[i] /\ ev[i].type = "call" /\ ev[i] = given(o[i])
      BY <1>13, <1>14, <1>15, <3>1
    <3>3. Len(out) + i \in DOMAIN out'
      BY <1>1, <1>14, <1>15, <3>1
    <3> QED
      BY <3>2, <3>3 DEF Answer!Emitted
  <2> QED
    BY <2>1, <2>2
<1>19. \A i \in Answer!Emitted' : /\ out'[i].of = o[i - Len(out)] /\ o[i - Len(out)] \in calls
                                  /\ i \in Nat /\ i - Len(out) \in 1..n
  <2>1. ASSUME NEW i \in Answer!Emitted'
        PROVE  /\ out'[i].of = o[i - Len(out)] /\ o[i - Len(out)] \in calls
               /\ i \in Nat /\ i - Len(out) \in 1..n
    <3>1. i - Len(out) \in 1..n /\ out'[i] = given(o[i - Len(out)])
      BY <1>18
    <3>2. o[i - Len(out)] \in calls
      BY <1>6, <3>1
    <3>3. i \in Nat
      BY <1>15 DEF Answer!Emitted
    <3> QED
      BY <1>5, <3>1, <3>2, <3>3
  <2> QED
    BY <2>1
<1>20. ASSUME NEW i \in 1..n, NEW j \in 1..n, o[i] = o[j] PROVE i = j
  <2>1. ~(i < j) /\ ~(j < i)
    BY <1>3, <1>5, <1>6, <1>20
  <2> QED
    BY <1>4, <2>1
<1>21. Answer!CallsAreWhole'
  <2>1. ASSUME NEW i \in Answer!Emitted', NEW j \in Answer!Emitted', out'[i].of = out'[j].of
        PROVE  i = j
    <3>1. o[i - Len(out)] = o[j - Len(out)]
      BY <1>19, <2>1
    <3>2. i - Len(out) \in 1..n /\ j - Len(out) \in 1..n /\ i \in Nat /\ j \in Nat
      BY <1>19
    <3>3. i - Len(out) = j - Len(out)
      BY <1>20, <3>1, <3>2
    <3> QED
      BY <1>1, <3>2, <3>3
  <2>2. ASSUME NEW i \in Answer!Emitted'
        PROVE  /\ out'[i].of \in DOMAIN made /\ Answer!IsCall(out'[i].of)
               /\ out'[i].parsed <=> made[out'[i].of].whole \/ made[out'[i].of].fragments = 0
    <3>1. out'[i].of = o[i - Len(out)] /\ o[i - Len(out)] \in calls /\ out'[i] = given(o[i - Len(out)])
      BY <1>18, <1>19
    <3> QED
      BY <1>5, <3>1
  <2> QED
    BY <1>1, <2>1, <2>2 DEF Answer!CallsAreWhole, Answer!IsCall
<1>22. ASSUME NEW i \in Answer!Emitted', ~made[out'[i].of].whole, NEW j \in Answer!Emitted'
       PROVE  j <= i
  <2>1. /\ out'[i].of = o[i - Len(out)] /\ i \in Nat /\ i - Len(out) \in 1..n
        /\ o[j - Len(out)] \in calls /\ j \in Nat /\ j - Len(out) \in 1..n /\ o[i - Len(out)] \in calls
    BY <1>19
  <2>2. o[i - Len(out)] = Len(made) /\ o[j - Len(out)] \in 1..Len(made)
    BY <1>1, <1>5, <1>22, <2>1
  <2>3. ~(i - Len(out) < j - Len(out))
    <3> SUFFICES ASSUME i - Len(out) < j - Len(out) PROVE FALSE
      OBVIOUS
    <3>1. o[i - Len(out)] < o[j - Len(out)]
      BY <1>3, <1>6, <2>1
    <3> QED
      BY <1>1, <2>2, <3>1
  <2> QED
    BY <1>1, <2>1, <2>3
<1>23. OfClosed'
  <2>1. \A i \in Answer!Emitted' : ~made[out'[i].of].open
    BY <1>5, <1>19
  <2> QED
    BY <1>0, <1>1, <1>21, <1>22, <2>1 DEF OfClosed
<1>24. \A k \in DOMAIN made : Answer!IsCall(k) /\ made[k].whole => k \in Answer!Handed'
  <2> SUFFICES ASSUME NEW k \in DOMAIN made, Answer!IsCall(k) PROVE k \in Answer!Handed'
    OBVIOUS
  <2>1. k \in calls
    BY <1>0 DEF Sound, Buffered, Answer!IsCall, calls
  <2>2. PICK i \in 1..n : o[i] = k
    BY <1>3, <1>6, <2>1
  <2>3. Len(out) + i \in Answer!Emitted' /\ out'[Len(out) + i] = given(k) /\ given(k).of = k
    BY <1>5, <1>18, <2>1, <2>2
  <2> QED
    BY <2>3 DEF Answer!Handed
<1>25. NotTold' /\ Answer!CutIsLast' /\ Answer!EndIsTold'
  <2>1. Typed /\ Shaped /\ \A i \in 1..Len(ev) : i # Len(ev) => ev[i].type # "turn"
    BY <1>0, <1>14 DEF Sound
  <2>2. ev[Len(ev)] = Answer!TurnComplete(ending)
    BY <1>14 DEF last
  <2> QED
    BY <1>0, <1>7, <1>12, <1>13, <1>14, <1>23, <1>24, <2>1, <2>2, ToldLast
<1> QED
  BY <1>16, <1>23, <1>25 DEF AInv

\* A stream of Anthropic that ends without message_stop has no end to tell.
LEMMA FadesStep ==
  ASSUME AInv, Answer!AnthropicFades
  PROVE  AInv'
<1>1. /\ over = "no" /\ over' = "ended" /\ reason = "untold" /\ protocol = "anthropic"
      /\ UNCHANGED <<protocol, made, reason, buffers, finish, input, out>>
  BY DEF Answer!AnthropicFades, Answer!Closes
<1>2. Typed' /\ Shaped' /\ Buffered' /\ NotTold'
  BY <1>1 DEF AInv, Typed, Shaped, Buffered, NotTold
<1>3. Answer!Emitted' = Answer!Emitted /\ Answer!Handed' = Answer!Handed
  BY <1>1 DEF Answer!Emitted, Answer!Handed
<1>4. OfClosed'
  BY <1>1, <1>3 DEF AInv, OfClosed, Answer!CallsAreWhole, Answer!IsCall
<1>5. Answer!CutIsLast'
  <2> SUFFICES ASSUME NEW i \in Answer!Emitted', ~made'[out'[i].of].whole
               PROVE  \A j \in Answer!Emitted' : j <= i
    BY <1>1 DEF Answer!CutIsLast, Answer!Unsaid
  <2> QED
    BY <1>4 DEF OfClosed
<1>6. Answer!EndIsTold'
  <2>1. {i \in DOMAIN out' : out'[i].type = "turn"} = {}
    BY <1>1 DEF AInv, NotTold
  <2> QED
    BY <1>1, <2>1 DEF Answer!EndIsTold
<1> QED
  BY <1>2, <1>4, <1>5, <1>6 DEF AInv

\* A stream that broke was not told to be over.
LEMMA BreakStep ==
  ASSUME AInv, Answer!Break
  PROVE  AInv'
<1>1. over = "no" /\ over' = "broken" /\ UNCHANGED <<protocol, made, reason, buffers, finish, input, out>>
  BY DEF Answer!Break
<1>2. Typed' /\ Shaped' /\ Buffered' /\ NotTold'
  BY <1>1 DEF AInv, Typed, Shaped, Buffered, NotTold
<1>3. Answer!Emitted' = Answer!Emitted /\ Answer!Handed' = Answer!Handed
  BY <1>1 DEF Answer!Emitted, Answer!Handed
<1>4. OfClosed'
  BY <1>1, <1>3 DEF AInv, OfClosed, Answer!CallsAreWhole, Answer!IsCall
<1>5. Answer!CutIsLast' /\ Answer!EndIsTold'
  BY <1>1 DEF AInv, NotTold, Answer!CutIsLast, Answer!EndIsTold
<1> QED
  BY <1>2, <1>4, <1>5 DEF AInv

LEMMA AInit ==
  ASSUME MaxBlocks \in Nat, Answer!Init
  PROVE  AInv
<1>1. /\ protocol \in Answer!Protocols /\ made = <<>> /\ reason = "none" /\ over = "no"
      /\ buffers = [k \in {} |-> 0] /\ finish = "none" /\ input = FALSE /\ out = <<>>
  BY DEF Answer!Init
<1>2. Len(made) = 0 /\ DOMAIN made = {} /\ DOMAIN out = {} /\ DOMAIN buffers = {}
  BY <1>1
<1>3. Typed
  <2>1. made \in Seq(Answer!Blocks) /\ out \in Seq(Answer!Events) /\ Len(made) <= MaxBlocks
    BY <1>1, <1>2
  <2>2. finish \in IF reason = "none" THEN {"none"} \cup IF protocol = "responses" THEN {"tool_use"} ELSE {}
                   ELSE IF protocol # "responses" THEN {reason}
                   ELSE IF reason \in {"completed", "untold"} THEN {"end_turn", "tool_use"}
                   ELSE {Answer!StopOf(reason)}
    BY <1>1
  <2> QED
    BY <1>1, <1>2, <2>1, <2>2 DEF Typed
<1>4. Shaped /\ Buffered /\ NotTold
  BY <1>1, <1>2 DEF Shaped, Buffered, NotTold
<1>5. Answer!Emitted = {}
  BY <1>2 DEF Answer!Emitted
<1>6. OfClosed /\ Answer!CutIsLast /\ Answer!EndIsTold
  BY <1>1, <1>2, <1>5 DEF OfClosed, Answer!CallsAreWhole, Answer!CutIsLast, Answer!EndIsTold
<1> QED
  BY <1>3, <1>4, <1>6 DEF AInv

LEMMA AStep ==
  ASSUME MaxBlocks \in Nat, MaxFragments \in Nat, AInv, [Answer!Next]_Answer!vars
  PROVE  AInv'
<1>1. CASE Answer!Begin
  BY <1>1, BeginStep
<1>2. CASE Answer!Name
  BY <1>2, NameStep
<1>3. CASE Answer!Fragment
  BY <1>3, FragmentStep
<1>4. CASE Answer!Stop
  BY <1>4, StopStep
<1>5. CASE Answer!End
  <2>1. CASE Answer!AnthropicHush
    BY <2>1, HushStep
  <2>2. CASE \E raw \in Answer!Reasons(protocol) :
               Answer!AnthropicEnd(raw) \/ Answer!ChatEnd(raw) \/ Answer!ResponsesEnd(raw)
    <3>1. PICK raw \in Answer!Reasons(protocol) :
            Answer!AnthropicEnd(raw) \/ Answer!ChatEnd(raw) \/ Answer!ResponsesEnd(raw)
      BY <2>2
    <3> QED
      BY <3>1, AnthropicEndStep, QuietEndStep
  <2> QED
    BY <1>5, <2>1, <2>2 DEF Answer!End
<1>6. CASE Answer!Close
  BY <1>6, PlainCloseStep, FadesStep, ChatCloseStep DEF Answer!Close
<1>7. CASE Answer!Break
  BY <1>7, BreakStep
<1>8. CASE UNCHANGED Answer!vars
  <2>1. UNCHANGED <<protocol, made, reason, over, buffers, finish, input, out>>
    BY <1>8 DEF Answer!vars
  <2>2. Answer!Emitted' = Answer!Emitted /\ Answer!Handed' = Answer!Handed
    BY <2>1 DEF Answer!Emitted, Answer!Handed
  <2>3. Typed' /\ Shaped' /\ Buffered' /\ NotTold'
    BY <2>1 DEF AInv, Typed, Shaped, Buffered, NotTold
  <2>4. OfClosed' /\ Answer!CutIsLast' /\ Answer!EndIsTold'
    BY <2>1, <2>2 DEF AInv, OfClosed, Answer!CallsAreWhole, Answer!IsCall, Answer!CutIsLast, Answer!EndIsTold
  <2> QED
    BY <2>3, <2>4 DEF AInv
<1> QED
  BY <1>1, <1>2, <1>3, <1>4, <1>5, <1>6, <1>7, <1>8 DEF Answer!Next

LEMMA AnswerInvariant == AnswerSpec => []AInv
<1>1. MaxBlocks \in Nat /\ MaxFragments \in Nat
  BY AnswersAssumption
<1>2. Answer!Init => AInv
  BY <1>1, AInit
<1>3. AInv /\ [Answer!Next]_Answer!vars => AInv'
  BY <1>1, AStep
<1> QED
  BY <1>2, <1>3, PTL DEF AnswerSpec, Answer!Spec

\* An answer stays within its bounds, the adapter's buffers belong to its blocks, and
\* what it emits are the events of llm_adapter.py; Anthropic's buffers are popped as
\* their blocks stop (_handle_block_stop in adapter/anthropic.py).
THEOREM AnswerTypesHold == AnswerSpec => []AnswerTypes
<1>1. AInv => AnswerTypes
  BY DEF AInv, Typed, Buffered, AnswerTypes, Answer!TypeOK
<1> QED
  BY <1>1, AnswerInvariant, PTL

\* Whatever the protocol, wherever the stream is cut or breaks: a call is handed out at
\* most once, with its arguments exactly if they are whole or none came, a cut one is
\* the last of an answer that is told to be cut or of which nobody said the end, and the
\* end is told last, once and as what the provider said it was, after every whole call.
THEOREM AnswersAreSound == AnswerSpec => []AnswerIsSound
<1>1. AInv => AnswerIsSound
  BY DEF AInv, OfClosed, AnswerIsSound, Answer!AnswerIsSound
<1> QED
  BY <1>1, AnswerInvariant, PTL

-----------------------------------------------------------------------------
(* Sequences one behind the other: what FlattenSeq and Among return *)

\* A set of naturals that is not empty has a least element.
LEMMA Least ==
  ASSUME NEW T, T \subseteq Nat, T # {}
  PROVE  \E m \in T : \A n \in T : m <= n
<1>1. PICK m \in T : \A n \in T : ~(<<n, m>> \in OpToRel(<, Nat))
  BY NatLessThanWellFounded, WFMin
<1>2. \A n \in T : ~(n < m)
  BY <1>1 DEF OpToRel
<1>3. \A n \in T : m <= n
  BY <1>2
<1> QED
  BY <1>3

\* Where the elements of a concatenation are.
LEMMA ConcatAt ==
  ASSUME NEW S, NEW a \in Seq(S), NEW b \in Seq(S)
  PROVE  /\ a \o b \in Seq(S) /\ Len(a \o b) = Len(a) + Len(b) /\ Len(a) \in Nat /\ Len(b) \in Nat
         /\ \A i \in 1..Len(a) : (a \o b)[i] = a[i]
         /\ \A j \in 1..Len(b) : (a \o b)[Len(a) + j] = b[j]
  OBVIOUS

\* FlattenSeq is a recursion over the sequences.
IsFlat(f, n, ss) == f = [i \in 1..n |-> IF i = 1 THEN ss[i] ELSE f[i - 1] \o ss[i]]

\* There is such a recursion.
LEMMA FlatIs ==
  ASSUME NEW ss, NEW n \in Nat
  PROVE  \E f : IsFlat(f, n, ss)
<1> DEFINE T == {m \in Nat : ~\E f : IsFlat(f, m, ss)}
<1> SUFFICES ASSUME n \in T PROVE FALSE
  OBVIOUS
<1>1. PICK m \in T : \A k \in T : m <= k
  BY Least
<1>2. CASE m = 0
  <2> DEFINE f == [i \in 1..0 |-> <<>>]
  <2>1. IsFlat(f, 0, ss)
    BY DEF IsFlat
  <2> QED
    BY <1>2, <2>1
<1>3. CASE m # 0
  <2>1. m \in Nat /\ m - 1 \in Nat /\ m - 1 \notin T
    BY <1>1, <1>3
  <2>2. PICK g : IsFlat(g, m - 1, ss)
    BY <2>1
  <2> DEFINE f == [i \in 1..m |-> IF i = 1 THEN ss[i] ELSE g[i - 1] \o ss[i]]
  <2>a. \A i \in 1..m - 1 : g[i] = IF i = 1 THEN ss[i] ELSE g[i - 1] \o ss[i]
    BY <2>2 DEF IsFlat
  <2>3. \A i \in 1..m - 1 : f[i] = g[i]
    BY <2>1, <2>a
  <2>4. \A i \in 1..m : f[i] = IF i = 1 THEN ss[i] ELSE f[i - 1] \o ss[i]
    <3> SUFFICES ASSUME NEW i \in 1..m, i # 1 PROVE f[i - 1] = g[i - 1]
      OBVIOUS
    <3>1. i - 1 \in 1..m - 1
      BY <2>1
    <3> QED
      BY <2>3, <3>1
  <2>5. IsFlat(f, m, ss)
    BY <2>4 DEF IsFlat
  <2> QED
    BY <2>5
<1> QED
  BY <1>2, <1>3

\* Where the sequences of ss lie in flat: the i-th behind o[i - 1].
Laid(o, ss, flat) ==
    /\ o \in [0..Len(ss) -> Nat] /\ o[0] = 0 /\ Len(flat) = o[Len(ss)]
    /\ \A i \in 1..Len(ss) : o[i] = o[i - 1] + Len(ss[i])
    /\ \A i \in 1..Len(ss) : \A j \in 1..Len(ss[i]) : flat[o[i - 1] + j] = ss[i][j]

\* Flattened, sequences lie one behind the other.
LEMMA Flat ==
  ASSUME NEW S, NEW ss \in Seq(Seq(S))
  PROVE  FlattenSeq(ss) \in Seq(S) /\ \E o : Laid(o, ss, FlattenSeq(ss))
<1>0. Len(ss) \in Nat /\ \A i \in 1..Len(ss) : ss[i] \in Seq(S) /\ Len(ss[i]) \in Nat
  OBVIOUS
<1>1. CASE Len(ss) = 0
  <2>1. FlattenSeq(ss) = ss /\ ss = <<>>
    BY <1>1 DEF FlattenSeq
  <2> DEFINE o == [i \in 0..0 |-> 0]
  <2>2. Laid(o, ss, FlattenSeq(ss))
    BY <2>1, <1>1 DEF Laid
  <2>3. FlattenSeq(ss) \in Seq(S)
    BY <2>1
  <2> QED
    BY <2>2, <2>3
<1>2. CASE Len(ss) # 0
  <2> DEFINE f == CHOOSE g : IsFlat(g, Len(ss), ss)
  <2>1. IsFlat(f, Len(ss), ss)
    BY <1>0, FlatIs
  <2>2. FlattenSeq(ss) = f[Len(ss)]
    BY <1>2 DEF FlattenSeq, IsFlat
  <2>3. \A i \in 1..Len(ss) : f[i] = IF i = 1 THEN ss[i] ELSE f[i - 1] \o ss[i]
    BY <2>1 DEF IsFlat
  <2> HIDE DEF f
  <2> DEFINE o == [i \in 0..Len(ss) |-> IF i = 0 THEN 0 ELSE Len(f[i])]
  <2> DEFINE Good(i) == /\ f[i] \in Seq(S) /\ o[i] = o[i - 1] + Len(ss[i]) /\ o[i - 1] \in Nat
                        /\ \A k \in 1..i : /\ o[k - 1] \in Nat /\ o[k - 1] + Len(ss[k]) <= Len(f[i])
                                           /\ \A j \in 1..Len(ss[k]) : f[i][o[k - 1] + j] = ss[k][j]
  <2> DEFINE T == {i \in 1..Len(ss) : ~Good(i)}
  <2> HIDE DEF Good
  <2>4. T = {}
    <3> SUFFICES ASSUME T # {} PROVE FALSE
      OBVIOUS
    <3>0. T # {} /\ T \subseteq Nat
      BY <1>0
    <3>1. PICK m \in T : \A k \in T : m <= k
      BY ONLY <3>0, Least
    <3>a. m \in 1..Len(ss) /\ ~Good(m)
      OBVIOUS
    <3>2. CASE m = 1
      <4>1. f[1] = ss[1] /\ o[0] = 0 /\ o[1] = Len(ss[1]) /\ ss[1] \in Seq(S)
        BY <2>3, <1>0, <1>2
      <4>2. Good(1)
        BY <4>1 DEF Good
      <4> QED
        BY <4>2, <3>2
    <3>3. CASE m # 1
      <4>a. m \in 1..Len(ss)
        OBVIOUS
      <4>b. m \in 2..Len(ss) /\ m - 1 \in 1..Len(ss) /\ m - 1 < m
        BY <4>a, <3>3, <1>0
      <4>c. m - 1 \notin T
        <5>1. ~(m <= m - 1)
          BY <4>b
        <5> QED
          BY ONLY <5>1, <3>1
      <4>0. Good(m - 1)
        BY <4>b, <4>c
      <4>1. m \in 2..Len(ss) /\ m - 1 \in 1..Len(ss)
        BY <4>b
      <4>d. f[m - 1] \in Seq(S)
        BY <4>0 DEF Good
      <4>f. f[m] = f[m - 1] \o ss[m]
        BY ONLY <4>a, <3>3, <2>3
      <4>2. f[m] = f[m - 1] \o ss[m] /\ ss[m] \in Seq(S) /\ f[m - 1] \in Seq(S)
        BY <4>a, <4>d, <4>f, <1>0
      <4>3. /\ f[m] \in Seq(S) /\ Len(f[m]) = Len(f[m - 1]) + Len(ss[m])
            /\ Len(f[m - 1]) \in Nat /\ Len(ss[m]) \in Nat
            /\ \A i \in 1..Len(f[m - 1]) : f[m][i] = f[m - 1][i]
            /\ \A j \in 1..Len(ss[m]) : f[m][Len(f[m - 1]) + j] = ss[m][j]
        <5> DEFINE a == f[m - 1]
                   b == ss[m]
        <5>1. a \in Seq(S) /\ b \in Seq(S) /\ f[m] = a \o b
          BY ONLY <4>2
        <5> HIDE DEF a, b
        <5>2. /\ f[m] \in Seq(S) /\ Len(f[m]) = Len(a) + Len(b) /\ Len(a) \in Nat /\ Len(b) \in Nat
              /\ \A i \in 1..Len(a) : f[m][i] = a[i]
              /\ \A j \in 1..Len(b) : f[m][Len(a) + j] = b[j]
          BY ONLY <5>1, ConcatAt
        <5> QED
          BY ONLY <5>2 DEF a, b
      <4>4. o[m] = Len(f[m]) /\ o[m - 1] = Len(f[m - 1])
        BY <4>1
      <4>5. ASSUME NEW k \in 1..m
            PROVE  /\ o[k - 1] \in Nat /\ o[k - 1] + Len(ss[k]) <= Len(f[m])
                   /\ \A j \in 1..Len(ss[k]) : f[m][o[k - 1] + j] = ss[k][j]
        <5>1. CASE k = m
          <6>1. /\ o[k - 1] = Len(f[m - 1]) /\ ss[k] = ss[m]
            BY <5>1, <4>4
          <6> HIDE DEF o
          <6> QED
            BY <6>1, <4>3
        <5>2. CASE k # m
          <6>1. k \in 1..m - 1 /\ k \in 1..Len(ss)
            BY <5>2, <4>1
          <6>2. /\ o[k - 1] \in Nat /\ o[k - 1] + Len(ss[k]) <= Len(f[m - 1])
                /\ \A j \in 1..Len(ss[k]) : f[m - 1][o[k - 1] + j] = ss[k][j]
            BY <6>1, <4>0 DEF Good
          <6>b. o[k - 1] \in Nat /\ o[k - 1] + Len(ss[k]) <= Len(f[m - 1])
            BY <6>2
          <6>3. Len(ss[k]) \in Nat
            BY <6>1, <1>0
          <6> HIDE DEF o
          <6>a. Len(f[m - 1]) \in Nat /\ Len(f[m]) = Len(f[m - 1]) + Len(ss[m]) /\ Len(ss[m]) \in Nat
            BY <4>3
          <6>d. \A a, b, c \in Nat : a + b <= c => \A j \in 1..b : a + j \in 1..c
            OBVIOUS
          <6>4. \A j \in 1..Len(ss[k]) : o[k - 1] + j \in 1..Len(f[m - 1])
            BY ONLY <6>b, <6>3, <6>a, <6>d
          <6>c. \A a, b, c, d \in Nat : a + b <= c => a + b <= c + d
            OBVIOUS
          <6>5. o[k - 1] + Len(ss[k]) <= Len(f[m])
            BY ONLY <6>b, <6>3, <6>a, <6>c
          <6> QED
            BY <6>2, <6>4, <6>5, <4>3
        <5> QED
          BY <5>1, <5>2
      <4>e. o[m - 1] \in Nat /\ o[m] = o[m - 1] + Len(ss[m])
        BY <4>3, <4>4
      <4>6. Good(m)
        BY <4>3, <4>e, <4>5 DEF Good
      <4> QED
        BY <4>6
    <3> QED
      BY <3>2, <3>3
  <2>5. \A i \in 1..Len(ss) : Good(i)
    BY <2>4
  <2>6. Laid(o, ss, f[Len(ss)])
    <3>1. o \in [0..Len(ss) -> Nat]
      BY <2>5, <1>0
    <3>2. o[0] = 0 /\ Len(f[Len(ss)]) = o[Len(ss)]
      BY <1>2, <1>0
    <3>3. \A i \in 1..Len(ss) : o[i] = o[i - 1] + Len(ss[i])
      BY <2>5 DEF Good
    <3>4. Len(ss) \in 1..Len(ss) /\ Good(Len(ss))
      BY <2>5, <1>0, <1>2
    <3>5. \A i \in 1..Len(ss) : \A j \in 1..Len(ss[i]) : f[Len(ss)][o[i - 1] + j] = ss[i][j]
      BY <3>4 DEF Good
    <3> QED
      BY <3>1, <3>2, <3>3, <3>5 DEF Laid
  <2>7. f[Len(ss)] \in Seq(S)
    <3>1. Len(ss) \in 1..Len(ss)
      BY <1>0, <1>2
    <3> QED
      BY <2>5, <3>1 DEF Good
  <2> QED
    BY <2>2, <2>6, <2>7
<1> QED
  BY <1>1, <1>2

\* Where an interval ends, and what is left of it.
LEMMA Between ==
  ASSUME NEW a \in Nat, NEW n \in Nat, NEW x \in Nat, a < x, x <= a + n
  PROVE  x - a \in 1..n /\ x = a + (x - a)
  OBVIOUS

\* Behind an interval that ends in time, all its places are in range.
LEMMA Inside ==
  ASSUME NEW a \in Nat, NEW n \in Nat, NEW b \in Nat, a + n <= b, NEW j \in 1..n
  PROVE  a + j \in 1..b
  OBVIOUS

\* Places of different sequences do not meet.
LEMMA Apart ==
  ASSUME NEW a \in Nat, NEW h \in Nat, NEW l \in Nat, NEW b \in Nat, NEW j \in Nat,
         h <= l, a + l <= b, 1 <= j, a + h >= b + j
  PROVE  FALSE
  OBVIOUS

\* Of two numbers, the smaller is not above the predecessor of the other.
LEMMA Below ==
  ASSUME NEW n \in Nat, NEW x \in 1..n, NEW y \in 1..n, x < y
  PROVE  x \in 0..n /\ y - 1 \in 0..n /\ x <= y - 1
  OBVIOUS

\* What a place in a range is.
LEMMA InRange ==
  ASSUME NEW n \in Nat, NEW x \in 1..n
  PROVE  x \in Nat /\ 1 <= x /\ x <= n
  OBVIOUS

\* The offsets are numbers, and each is its sequence further on than the one before it.
LEMMA OffsetsAre ==
  ASSUME NEW S, NEW ss \in Seq(Seq(S)), NEW o, NEW flat, Laid(o, ss, flat)
  PROVE  /\ Len(ss) \in Nat /\ Len(ss) \in 0..Len(ss) /\ Len(flat) = o[Len(ss)] /\ o[0] = 0
         /\ \A x \in 0..Len(ss) : o[x] \in Nat
         /\ \A x \in 1..Len(ss) :
              o[x] = o[x - 1] + Len(ss[x]) /\ Len(ss[x]) \in Nat /\ x \in 0..Len(ss) /\ x - 1 \in 0..Len(ss)
<1>1. Len(ss) \in Nat /\ \A x \in 1..Len(ss) : ss[x] \in Seq(S)
  OBVIOUS
<1>2. \A x \in 1..Len(ss) : Len(ss[x]) \in Nat
  BY ONLY <1>1
<1>3. \A x \in 1..Len(ss) : x \in 0..Len(ss) /\ x - 1 \in 0..Len(ss)
  BY ONLY <1>1
<1>4. o \in [0..Len(ss) -> Nat] /\ o[0] = 0 /\ Len(flat) = o[Len(ss)]
  BY ONLY Laid(o, ss, flat) DEF Laid
<1>5. \A x \in 1..Len(ss) : o[x] = o[x - 1] + Len(ss[x])
  BY ONLY Laid(o, ss, flat) DEF Laid
<1>6. \A x \in 0..Len(ss) : o[x] \in Nat
  BY ONLY <1>4
<1>7. Len(ss) \in 0..Len(ss)
  BY ONLY <1>1
<1> QED
  BY ONLY <1>1, <1>2, <1>3, <1>4, <1>5, <1>6, <1>7

\* The offsets grow.
LEMMA OffsetsGrow ==
  ASSUME NEW S, NEW ss \in Seq(Seq(S)), NEW o, NEW flat, Laid(o, ss, flat),
         NEW i \in 0..Len(ss), NEW k \in 0..Len(ss), i <= k
  PROVE  o[i] <= o[k]
<1> DEFINE T == {n \in 0..Len(ss) : i <= n /\ ~(o[i] <= o[n])}
<1>0. Len(ss) \in Nat /\ \A n \in 1..Len(ss) : Len(ss[n]) \in Nat /\ o[n] = o[n - 1] + Len(ss[n])
  BY OffsetsAre
<1>1. \A n \in 0..Len(ss) : o[n] \in Nat
  BY OffsetsAre
<1> SUFFICES ASSUME T # {} PROVE FALSE
  OBVIOUS
<1>a. T # {} /\ T \subseteq Nat
  BY <1>0
<1>2. PICK m \in T : \A n \in T : m <= n
  BY ONLY <1>a, Least
<1>3. m # i /\ m \in 1..Len(ss) /\ m - 1 \in 0..Len(ss) /\ i <= m - 1 /\ m - 1 \notin T
  <2>1. m \in 0..Len(ss) /\ i <= m /\ ~(o[i] <= o[m])
    OBVIOUS
  <2>2. o[i] \in Nat
    BY ONLY <1>1, i \in 0..Len(ss)
  <2>3. m # i /\ i \in Nat /\ Len(ss) \in Nat
    BY ONLY <1>0, <2>1, <2>2, i \in 0..Len(ss)
  <2>4. m \in 1..Len(ss) /\ m - 1 \in 0..Len(ss) /\ i <= m - 1 /\ ~(m <= m - 1)
    BY ONLY <2>1, <2>3
  <2>5. m - 1 \notin T
    BY ONLY <1>2, <2>4
  <2> QED
    BY ONLY <2>3, <2>4, <2>5
<1>4. o[i] <= o[m - 1] /\ o[m] = o[m - 1] + Len(ss[m]) /\ Len(ss[m]) \in Nat
  BY <1>0, <1>3
<1>5. o[i] <= o[m]
  <2>1. o[i] \in Nat /\ o[m] \in Nat /\ o[m - 1] \in Nat
    BY <1>1, <1>3
  <2> QED
    BY ONLY <1>4, <2>1
<1> QED
  BY <1>2, <1>5

\* Place p of flat is place j of the i-th sequence.
Place(o, ss, flat, p, i, j) ==
    i \in 1..Len(ss) /\ j \in 1..Len(ss[i]) /\ p = o[i - 1] + j /\ flat[p] = ss[i][j]

\* Whatever is in the flattened sequence comes from one of the sequences.
LEMMA FlatOnto ==
  ASSUME NEW S, NEW ss \in Seq(Seq(S)), NEW o, NEW flat, Laid(o, ss, flat)
  PROVE  \A p \in 1..Len(flat) : \E i, j : Place(o, ss, flat, p, i, j)
<1> SUFFICES ASSUME NEW p \in 1..Len(flat)
             PROVE  \E i, j : Place(o, ss, flat, p, i, j)
  OBVIOUS
<1>0. /\ Len(ss) \in Nat /\ \A n \in 1..Len(ss) : Len(ss[n]) \in Nat /\ o[n] = o[n - 1] + Len(ss[n])
      /\ Len(flat) = o[Len(ss)] /\ o[0] = 0
  BY OffsetsAre
<1>1. \A n \in 0..Len(ss) : o[n] \in Nat
  BY OffsetsAre
<1> DEFINE T == {n \in 0..Len(ss) : p <= o[n]}
<1>2. PICK m \in T : \A n \in T : m <= n
  <2>1. Len(ss) \in T /\ T \subseteq Nat
    BY <1>0, <1>1
  <2> QED
    BY ONLY <2>1, Least
<1>3. m \in 1..Len(ss) /\ m - 1 \in 0..Len(ss) /\ m - 1 \notin T
  <2>1. m \in 0..Len(ss) /\ p <= o[m]
    OBVIOUS
  <2>2. m # 0 /\ Len(ss) \in Nat
    BY ONLY <1>0, <2>1, p \in 1..Len(flat)
  <2>3. m \in 1..Len(ss) /\ m - 1 \in 0..Len(ss) /\ ~(m <= m - 1)
    BY ONLY <2>1, <2>2
  <2> QED
    BY ONLY <1>2, <2>3
<1>4. o[m - 1] < p /\ p <= o[m - 1] + Len(ss[m]) /\ Len(ss[m]) \in Nat /\ o[m - 1] \in Nat
  BY <1>0, <1>1, <1>2, <1>3
<1>5. p - o[m - 1] \in 1..Len(ss[m]) /\ p = o[m - 1] + (p - o[m - 1])
  <2>1. p \in Nat
    BY ONLY p \in 1..Len(flat), <1>0, <1>1
  <2> QED
    BY ONLY <1>4, <2>1, Between
<1>6. flat[o[m - 1] + (p - o[m - 1])] = ss[m][p - o[m - 1]]
  BY <1>3, <1>5 DEF Laid
<1>7. Place(o, ss, flat, p, m, p - o[m - 1])
  BY <1>3, <1>5, <1>6 DEF Place
<1> QED
  BY <1>7

\* Where an element of a sequence comes to lie.
LEMMA FlatPlace ==
  ASSUME NEW S, NEW ss \in Seq(Seq(S)), NEW o, NEW flat, Laid(o, ss, flat),
         NEW i \in 1..Len(ss), NEW j \in 1..Len(ss[i])
  PROVE  o[i - 1] + j \in 1..Len(flat) /\ flat[o[i - 1] + j] = ss[i][j]
<1>0. /\ Len(ss) \in Nat /\ Len(ss[i]) \in Nat /\ o[i] = o[i - 1] + Len(ss[i])
      /\ Len(flat) = o[Len(ss)] /\ i \in 0..Len(ss) /\ i - 1 \in 0..Len(ss) /\ Len(ss) \in 0..Len(ss)
  BY OffsetsAre
<1>1. o[i] \in Nat /\ o[i - 1] \in Nat /\ o[Len(ss)] \in Nat
  BY <1>0, OffsetsAre
<1>2. o[i] <= o[Len(ss)]
  <2>1. i <= Len(ss)
    BY ONLY <1>0
  <2> QED
    BY ONLY <1>0, <2>1, ss \in Seq(Seq(S)), Laid(o, ss, flat), OffsetsGrow
<1>3. o[i - 1] + j \in 1..Len(flat)
  <2>1. o[i - 1] + Len(ss[i]) <= Len(flat) /\ Len(flat) \in Nat
    BY ONLY <1>0, <1>1, <1>2
  <2> QED
    BY ONLY <1>0, <1>1, <2>1, j \in 1..Len(ss[i]), Inside
<1>4. flat[o[i - 1] + j] = ss[i][j]
  BY ONLY Laid(o, ss, flat), i \in 1..Len(ss), j \in 1..Len(ss[i]) DEF Laid
<1> QED
  BY <1>3, <1>4

\* Elements of the flattened sequence are in the order of the sequences they come from.
LEMMA FlatOrder ==
  ASSUME NEW S, NEW ss \in Seq(Seq(S)), NEW o, NEW flat, Laid(o, ss, flat),
         NEW i \in 1..Len(ss), NEW j \in 1..Len(ss[i]), NEW k \in 1..Len(ss), NEW l \in 1..Len(ss[k]),
         o[i - 1] + j < o[k - 1] + l
  PROVE  i < k \/ (i = k /\ j < l)
<1>0. /\ Len(ss) \in Nat /\ Len(ss[k]) \in Nat /\ o[k] = o[k - 1] + Len(ss[k])
      /\ k \in 0..Len(ss) /\ k - 1 \in 0..Len(ss) /\ i - 1 \in 0..Len(ss)
  BY OffsetsAre
<1>1. o[i - 1] \in Nat /\ o[k - 1] \in Nat /\ o[k] \in Nat
  BY <1>0, OffsetsAre
<1>2. CASE k < i
  <2>1. o[k] <= o[i - 1]
    <3>1. k <= i - 1
      BY ONLY <1>0, <1>2, i \in 1..Len(ss)
    <3> QED
      BY ONLY <1>0, <3>1, ss \in Seq(Seq(S)), Laid(o, ss, flat), OffsetsGrow
  <2> QED
    <3>1. /\ j \in Nat /\ 1 <= j /\ l \in Nat /\ l <= Len(ss[k])
          /\ o[k - 1] + l >= o[i - 1] + j
      <4>1. Len(ss[i]) \in Nat
        BY OffsetsAre
      <4>2. j \in Nat /\ 1 <= j /\ l \in Nat /\ l <= Len(ss[k])
        BY ONLY <4>1, <1>0, j \in 1..Len(ss[i]), l \in 1..Len(ss[k]), InRange
      <4> QED
        BY ONLY <1>1, <4>2, o[i - 1] + j < o[k - 1] + l
    <3>2. Len(ss[k]) \in Nat /\ o[k - 1] + Len(ss[k]) <= o[i - 1]
      BY ONLY <1>0, <2>1
    <3> QED
      BY ONLY <1>1, <3>1, <3>2, Apart
<1>3. CASE i = k
  BY <1>1, <1>3
<1> QED
  BY <1>2, <1>3

\* Where each element of the flattened sequence comes from: g its sequence, h its place there.
Traces(g, h, ss, flat) ==
    /\ g \in [1..Len(flat) -> 1..Len(ss)]
    /\ \A p \in 1..Len(flat) : h[p] \in 1..Len(ss[g[p]]) /\ flat[p] = ss[g[p]][h[p]]
    /\ \A p, q \in 1..Len(flat) : p < q => g[p] < g[q] \/ (g[p] = g[q] /\ h[p] < h[q])
    /\ \A i \in 1..Len(ss) : \A j \in 1..Len(ss[i]) : \E p \in 1..Len(flat) : g[p] = i /\ h[p] = j

\* Every element of a flattened sequence comes from one place, and the places keep their
\* order.
LEMMA FlatTraces ==
  ASSUME NEW S, NEW ss \in Seq(Seq(S)), NEW o, NEW flat \in Seq(S), Laid(o, ss, flat)
  PROVE  \E g, h : Traces(g, h, ss, flat)
<1>1. Len(flat) \in Nat
  OBVIOUS
<1>2. Laid(o, ss, flat)
  OBVIOUS
<1>3. \A p \in 1..Len(flat) : \E i, j : Place(o, ss, flat, p, i, j)
  BY FlatOnto
<1> DEFINE g == [p \in 1..Len(flat) |-> CHOOSE i : \E j : Place(o, ss, flat, p, i, j)]
           h == [p \in 1..Len(flat) |-> CHOOSE j : Place(o, ss, flat, p, g[p], j)]
<1>a. ASSUME NEW p \in 1..Len(flat)
      PROVE  Place(o, ss, flat, p, g[p], h[p])
  <2>1. \E i : \E j : Place(o, ss, flat, p, i, j)
    BY <1>3
  <2>2. g[p] = CHOOSE i : \E j : Place(o, ss, flat, p, i, j)
    OBVIOUS
  <2>3. h[p] = CHOOSE j : Place(o, ss, flat, p, g[p], j)
    OBVIOUS
  <2> HIDE DEF g, h
  <2>4. \E j : Place(o, ss, flat, p, g[p], j)
    BY <2>1, <2>2
  <2> QED
    BY <2>3, <2>4
<1>4. ASSUME NEW p \in 1..Len(flat)
      PROVE  g[p] \in 1..Len(ss)
  BY <1>a DEF Place
<1>5. ASSUME NEW p \in 1..Len(flat)
      PROVE  h[p] \in 1..Len(ss[g[p]]) /\ p = o[g[p] - 1] + h[p] /\ flat[p] = ss[g[p]][h[p]]
  BY <1>a DEF Place
<1>6. g \in [1..Len(flat) -> 1..Len(ss)]
  BY <1>4
<1> HIDE DEF g, h
<1>7. ASSUME NEW p \in 1..Len(flat), NEW q \in 1..Len(flat), p < q
      PROVE  g[p] < g[q] \/ (g[p] = g[q] /\ h[p] < h[q])
  <2>1. g[p] \in 1..Len(ss) /\ g[q] \in 1..Len(ss)
    BY <1>4
  <2>2. o[g[p] - 1] + h[p] < o[g[q] - 1] + h[q]
    BY <1>5, <1>7
  <2>3. h[p] \in 1..Len(ss[g[p]]) /\ h[q] \in 1..Len(ss[g[q]])
    BY <1>5
  <2> QED
    BY ONLY <1>2, <2>1, <2>2, <2>3, FlatOrder, ss \in Seq(Seq(S))
<1>8. ASSUME NEW i \in 1..Len(ss), NEW j \in 1..Len(ss[i])
      PROVE  \E p \in 1..Len(flat) : g[p] = i /\ h[p] = j
  <2> DEFINE p == o[i - 1] + j
  <2>1. p \in 1..Len(flat)
    BY <1>2, FlatPlace
  <2> HIDE DEF p
  <2>2. g[p] \in 1..Len(ss) /\ h[p] \in 1..Len(ss[g[p]]) /\ o[g[p] - 1] + h[p] = o[i - 1] + j
    BY <1>4, <1>5, <2>1 DEF p
  <2>d. /\ \A x \in 0..Len(ss) : o[x] \in Nat
        /\ \A x \in 1..Len(ss) :
             o[x] = o[x - 1] + Len(ss[x]) /\ Len(ss[x]) \in Nat /\ x \in 0..Len(ss) /\ x - 1 \in 0..Len(ss)
    BY ONLY <1>2, OffsetsAre, ss \in Seq(Seq(S))
  <2>a. o[i] \in Nat /\ Len(ss[i]) \in Nat /\ o[i - 1] \in Nat
    BY ONLY <2>d, i \in 1..Len(ss)
  <2>b. o[g[p] - 1] \in Nat /\ Len(ss[g[p]]) \in Nat
    BY ONLY <2>d, <2>2
  <2>c. /\ \A x, y \in 0..Len(ss) : x <= y => o[x] <= o[y]
        /\ \A x \in 1..Len(ss) : o[x] = o[x - 1] + Len(ss[x]) /\ Len(ss[x]) \in Nat
    <3>1. \A x, y \in 0..Len(ss) : x <= y => o[x] <= o[y]
      BY ONLY <1>2, OffsetsGrow, ss \in Seq(Seq(S))
    <3> QED
      BY ONLY <3>1, <2>d
  <2>3. ~(g[p] < i)
    <3> SUFFICES ASSUME g[p] < i PROVE FALSE
      OBVIOUS
    <3>0. g[p] \in 0..Len(ss) /\ i - 1 \in 0..Len(ss) /\ g[p] <= i - 1
      BY ONLY <2>2, Len(ss) \in Nat, g[p] < i, i \in 1..Len(ss), Below
    <3>1. o[g[p]] <= o[i - 1]
      BY ONLY <2>c, <3>0
    <3>2. o[g[p]] = o[g[p] - 1] + Len(ss[g[p]])
      BY ONLY <2>c, <2>2
    <3>3. h[p] \in Nat /\ h[p] <= Len(ss[g[p]]) /\ j \in Nat /\ 1 <= j
      BY ONLY <2>2, <2>a, <2>b, j \in 1..Len(ss[i]), InRange
    <3> QED
      <4>1. o[g[p] - 1] + h[p] = o[i - 1] + j /\ o[g[p] - 1] + Len(ss[g[p]]) <= o[i - 1]
        BY ONLY <2>2, <3>1, <3>2
      <4>2. o[g[p] - 1] + h[p] >= o[i - 1] + j
        BY ONLY <4>1, <2>a, <2>b, <3>3
      <4> QED
        BY ONLY <4>1, <4>2, <2>a, <2>b, <3>3, Apart
  <2>4. ~(i < g[p])
    <3> SUFFICES ASSUME i < g[p] PROVE FALSE
      OBVIOUS
    <3>0. i \in 0..Len(ss) /\ g[p] - 1 \in 0..Len(ss) /\ i <= g[p] - 1
      BY ONLY <2>2, Len(ss) \in Nat, i < g[p], i \in 1..Len(ss), Below
    <3>1. o[i] <= o[g[p] - 1]
      BY ONLY <2>c, <3>0
    <3>2. o[i] = o[i - 1] + Len(ss[i])
      BY ONLY <2>c, i \in 1..Len(ss)
    <3>3. h[p] \in Nat /\ 1 <= h[p] /\ j \in Nat /\ j <= Len(ss[i])
      BY ONLY <2>2, <2>a, <2>b, j \in 1..Len(ss[i]), InRange
    <3> QED
      <4>1. o[i - 1] + j = o[g[p] - 1] + h[p] /\ o[i - 1] + Len(ss[i]) <= o[g[p] - 1]
        BY ONLY <2>2, <3>1, <3>2
      <4>2. o[i - 1] + j >= o[g[p] - 1] + h[p]
        BY ONLY <4>1, <2>a, <2>b, <3>3
      <4> QED
        BY ONLY <4>1, <4>2, <2>a, <2>b, <3>3, Apart
  <2>5. g[p] = i
    <3>1. g[p] \in Int /\ i \in Int
      BY <2>2
    <3> QED
      BY ONLY <3>1, <2>3, <2>4
  <2>6. h[p] = j
    <3>1. h[p] \in Int /\ j \in Int
      BY <2>2
    <3> QED
      BY ONLY <2>2, <2>5, <2>a, <3>1
  <2> QED
    BY <2>1, <2>5, <2>6
<1>9. Traces(g, h, ss, flat)
  BY <1>5, <1>6, <1>7, <1>8 DEF Traces
<1> QED
  BY <1>9

\* A flattened sequence has its elements from somewhere.
LEMMA FlatFrom ==
  ASSUME NEW S, NEW ss \in Seq(Seq(S))
  PROVE  FlattenSeq(ss) \in Seq(S) /\ \E g, h : Traces(g, h, ss, FlattenSeq(ss))
<1>1. FlattenSeq(ss) \in Seq(S)
  BY Flat
<1>2. PICK o : Laid(o, ss, FlattenSeq(ss))
  BY Flat
<1> QED
  BY <1>1, <1>2, FlatTraces

\* What Among picks: where it is in seq, in the same order, and nothing of set is left flat.
Picks(g, flat, seq, set) ==
    /\ g \in [1..Len(flat) -> 1..Len(seq)]
    /\ \A p \in 1..Len(flat) : flat[p] = seq[g[p]] /\ flat[p] \in set
    /\ \A p, q \in 1..Len(flat) : p < q => g[p] < g[q]
    /\ \A i \in 1..Len(seq) : seq[i] \in set => \E p \in 1..Len(flat) : g[p] = i

\* What Among picks are the elements of the set, in their order, and all of them.
LEMMA AmongIs ==
  ASSUME NEW S, NEW seq \in Seq(S), NEW set
  PROVE  Among(seq, set) \in Seq(S) /\ \E g : Picks(g, Among(seq, set), seq, set)
<1> DEFINE ss == [i \in DOMAIN seq |-> IF seq[i] \in set THEN <<seq[i]>> ELSE <<>>]
           flat == FlattenSeq(ss)
<1>1. Among(seq, set) = flat
  BY DEF Among
<1>2. /\ ss \in Seq(Seq(S)) /\ Len(ss) = Len(seq) /\ Len(seq) \in Nat
      /\ \A i \in 1..Len(seq) : ss[i] = IF seq[i] \in set THEN <<seq[i]>> ELSE <<>>
  <2>1. DOMAIN seq = 1..Len(seq) /\ Len(seq) \in Nat
    OBVIOUS
  <2>2. \A i \in 1..Len(seq) : (IF seq[i] \in set THEN <<seq[i]>> ELSE <<>>) \in Seq(S)
    OBVIOUS
  <2>3. ss \in [1..Len(seq) -> Seq(S)]
    BY <2>1, <2>2
  <2> QED
    BY <2>1, <2>3, IsASeq
<1> HIDE DEF ss
<1>3. flat \in Seq(S)
  BY <1>2, FlatFrom
<1>4. PICK g, h : Traces(g, h, ss, flat)
  BY <1>2, FlatFrom
<1> HIDE DEF flat
<1>5. ASSUME NEW p \in 1..Len(flat)
      PROVE  g[p] \in 1..Len(seq) /\ seq[g[p]] \in set /\ h[p] = 1 /\ flat[p] = seq[g[p]]
  <2>1. g[p] \in 1..Len(seq) /\ h[p] \in 1..Len(ss[g[p]]) /\ flat[p] = ss[g[p]][h[p]]
    BY <1>2, <1>4 DEF Traces
  <2>2. seq[g[p]] \in set
    <3> SUFFICES ASSUME seq[g[p]] \notin set PROVE FALSE
      OBVIOUS
    <3>1. ss[g[p]] = <<>>
      BY <1>2, <2>1
    <3> QED
      BY <2>1, <3>1
  <2>3. ss[g[p]] = <<seq[g[p]]>>
    BY <1>2, <2>1, <2>2
  <2> QED
    BY <2>1, <2>2, <2>3
<1>6. ASSUME NEW p \in 1..Len(flat), NEW q \in 1..Len(flat), p < q
      PROVE  g[p] < g[q]
  <2>1. g[p] < g[q] \/ (g[p] = g[q] /\ h[p] < h[q])
    BY <1>4, <1>6 DEF Traces
  <2>2. h[p] = 1 /\ h[q] = 1
    BY <1>5
  <2> QED
    BY <2>1, <2>2
<1>7. ASSUME NEW i \in 1..Len(seq), seq[i] \in set
      PROVE  \E p \in 1..Len(flat) : g[p] = i
  <2>1. ss[i] = <<seq[i]>>
    BY <1>2, <1>7
  <2>2. i \in 1..Len(ss) /\ 1 \in 1..Len(ss[i])
    BY <2>1, <1>2
  <2> QED
    BY <1>4, <2>2 DEF Traces
<1>8. g \in [1..Len(flat) -> 1..Len(seq)]
  BY <1>2, <1>4 DEF Traces
<1>9. Picks(g, flat, seq, set)
  BY <1>5, <1>6, <1>7, <1>8 DEF Picks
<1> QED
  BY <1>1, <1>3, <1>9

-----------------------------------------------------------------------------
(* The calls of a wakeup, in the order in which they were made *)

\* The ids of calls, and their order: of an earlier turn, or earlier in the turn.
Id == Nat \X Nat
Before(a, b)  == a[1] < b[1] \/ (a[1] = b[1] /\ a[2] < b[2])
Increasing(s) == \A p, q \in 1..Len(s) : p < q => Before(s[p], s[q])

\* Calls of different ids are told apart by their order.
LEMMA BeforeOrder ==
  ASSUME NEW a \in Id, NEW b \in Id, NEW c \in Id
  PROVE  /\ Before(a, b) /\ Before(b, c) => Before(a, c)
         /\ ~Before(a, a) /\ ~(Before(a, b) /\ Before(b, a))
         /\ a = b \/ Before(a, b) \/ Before(b, a)
  BY DEF Id, Before

\* Of two increasing sequences with the same elements, the first place at which they may differ.
LEMMA NextIsThere ==
  ASSUME NEW s \in Seq(Id), NEW t \in Seq(Id), Increasing(s), Increasing(t),
         ToSet(s) \subseteq ToSet(t),
         NEW m \in 1..Len(s), \A n \in 1..m - 1 : n <= Len(t) /\ s[n] = t[n]
  PROVE  m <= Len(t) /\ (s[m] = t[m] \/ Before(t[m], s[m]))
<1>0. /\ Len(s) \in Nat /\ Len(t) \in Nat /\ s[m] \in Id /\ m \in Nat
      /\ \A n \in 1..Len(s) : s[n] \in Id
  OBVIOUS
<1>1. s[m] \in ToSet(s)
  <2>1. m \in DOMAIN s
    OBVIOUS
  <2> QED
    BY ONLY <2>1 DEF ToSet
<1>2. PICK k \in 1..Len(t) : t[k] = s[m]
  <2>1. s[m] \in ToSet(t) /\ DOMAIN t = 1..Len(t)
    BY <1>1
  <2> QED
    BY ONLY <2>1 DEF ToSet
<1>3. ~(k < m)
  <2> SUFFICES ASSUME k < m PROVE FALSE
    OBVIOUS
  <2>1. k \in 1..m - 1 /\ k \in 1..Len(s)
    BY <1>0
  <2>2. s[k] = s[m]
    BY <1>2, <2>1
  <2>3. Before(s[k], s[m])
    BY <2>1 DEF Increasing
  <2> QED
    BY <1>0, <2>2, <2>3, BeforeOrder
<1>4. m <= Len(t) /\ m \in 1..Len(t) /\ m <= k
  BY <1>0, <1>3
<1>5. k = m \/ Before(t[m], t[k])
  BY <1>0, <1>4 DEF Increasing
<1> QED
  BY <1>2, <1>4, <1>5

\* Two increasing sequences with the same elements are the same sequence.
LEMMA SameSequence ==
  ASSUME NEW s \in Seq(Id), NEW t \in Seq(Id), Increasing(s), Increasing(t), ToSet(s) = ToSet(t)
  PROVE  s = t
<1> DEFINE Same(n) == n <= Len(s) /\ n <= Len(t) /\ s[n] = t[n]
           T == {n \in Nat : 1 <= n /\ (n <= Len(s) \/ n <= Len(t)) /\ ~Same(n)}
<1>0. Len(s) \in Nat /\ Len(t) \in Nat
  OBVIOUS
<1>1. CASE T = {}
  <2>1. \A n \in Nat : 1 <= n /\ (n <= Len(s) \/ n <= Len(t)) => Same(n)
    BY <1>1
  <2>2. Len(s) <= Len(t)
    <3>1. CASE Len(s) = 0
      BY <1>0, <3>1
    <3>2. CASE Len(s) # 0
      <4>1. Same(Len(s))
        BY <1>0, <2>1, <3>2
      <4> QED
        BY <4>1
    <3> QED
      BY <3>1, <3>2
  <2>3. Len(t) <= Len(s)
    <3>1. CASE Len(t) = 0
      BY <1>0, <3>1
    <3>2. CASE Len(t) # 0
      <4>1. Same(Len(t))
        BY <1>0, <2>1, <3>2
      <4> QED
        BY <4>1
    <3> QED
      BY <3>1, <3>2
  <2>4. Len(s) = Len(t) /\ \A n \in 1..Len(s) : s[n] = t[n]
    BY <1>0, <2>1, <2>2, <2>3
  <2> QED
    BY <2>4, SeqEqual
<1>2. CASE T # {}
  <2>1. PICK m \in T : \A n \in T : m <= n
    <3>1. T # {} /\ T \subseteq Nat
      BY <1>2
    <3> QED
      BY ONLY <3>1, Least
  <2>2. m \in Nat /\ 1 <= m /\ (m <= Len(s) \/ m <= Len(t)) /\ ~Same(m)
    OBVIOUS
  <2>3. \A n \in 1..m - 1 : Same(n)
    <3> SUFFICES ASSUME NEW n \in 1..m - 1 PROVE Same(n)
      OBVIOUS
    <3>1. n \in Nat /\ 1 <= n /\ n < m /\ (n <= Len(s) \/ n <= Len(t))
      BY <1>0, <2>2
    <3>2. n \notin T
      <4>1. ~(m <= n)
        BY <2>2, <3>1
      <4> QED
        BY ONLY <4>1, <2>1
    <3> QED
      BY <3>1, <3>2
  <2> HIDE DEF T
  <2>4. /\ \A n \in 1..m - 1 : n <= Len(t) /\ s[n] = t[n]
        /\ \A n \in 1..m - 1 : n <= Len(s) /\ t[n] = s[n]
    BY <2>3
  <2>5. m <= Len(s) => m <= Len(t) /\ (s[m] = t[m] \/ Before(t[m], s[m]))
    BY <1>0, <2>2, <2>4, NextIsThere
  <2>6. m <= Len(t) => m <= Len(s) /\ (t[m] = s[m] \/ Before(s[m], t[m]))
    BY <1>0, <2>2, <2>4, NextIsThere
  <2>7. m <= Len(s) /\ m <= Len(t) /\ Before(t[m], s[m]) /\ Before(s[m], t[m])
    BY <2>2, <2>5, <2>6
  <2>8. s[m] \in Id /\ t[m] \in Id
    BY <1>0, <2>2, <2>7
  <2> QED
    BY <2>7, <2>8, BeforeOrder
<1> QED
  BY <1>1, <1>2

\* What Among picks of an increasing sequence.
LEMMA AmongIncreases ==
  ASSUME NEW s \in Seq(Id), Increasing(s), NEW set
  PROVE  /\ Among(s, set) \in Seq(Id) /\ Increasing(Among(s, set))
         /\ ToSet(Among(s, set)) = ToSet(s) \cap set
<1> DEFINE r == Among(s, set)
<1>1. r \in Seq(Id)
  BY AmongIs
<1>2. PICK g : Picks(g, r, s, set)
  BY AmongIs
<1> HIDE DEF r
<1>3. Increasing(r)
  <2> SUFFICES ASSUME NEW p \in 1..Len(r), NEW q \in 1..Len(r), p < q PROVE Before(r[p], r[q])
    BY DEF Increasing
  <2>1. /\ g[p] \in 1..Len(s) /\ g[q] \in 1..Len(s) /\ g[p] < g[q]
        /\ r[p] = s[g[p]] /\ r[q] = s[g[q]]
    BY <1>2 DEF Picks
  <2> QED
    BY <2>1 DEF Increasing
<1>4. ToSet(r) \subseteq ToSet(s) \cap set
  <2> SUFFICES ASSUME NEW p \in 1..Len(r) PROVE r[p] \in ToSet(s) \cap set
    BY <1>1 DEF ToSet
  <2>1. g[p] \in 1..Len(s) /\ r[p] = s[g[p]] /\ r[p] \in set
    BY <1>2 DEF Picks
  <2> QED
    BY <2>1 DEF ToSet
<1>5. ToSet(s) \cap set \subseteq ToSet(r)
  <2> SUFFICES ASSUME NEW i \in 1..Len(s), s[i] \in set PROVE s[i] \in ToSet(r)
    BY DEF ToSet
  <2>1. PICK p \in 1..Len(r) : g[p] = i
    BY <1>2 DEF Picks
  <2>2. r[p] = s[i]
    BY <1>2, <2>1 DEF Picks
  <2> QED
    BY <1>1, <2>2 DEF ToSet
<1> QED
  BY <1>1, <1>3, <1>4, <1>5 DEF r

-----------------------------------------------------------------------------
(* The messages of a conversation *)

ACall   == [id : Id, tool : STRING, args : STRING]
AResult == [id : Id, ok : BOOLEAN]
Ones    == {s \in Seq(Id) : Len(s) = 1}
Msg ==
    [kind : {"assistant"}, items : Seq(ACall)]
      \cup [kind : {"results"}, items : Seq(AResult)]
      \cup [kind : {"mail", "sent"}, items : Ones]
      \cup [kind : {"goal", "notice", "nudge", "summary"}, items : {<<>>}]

\* The ids of the calls that a message is about.
Piece(m) == IF m.kind \in {"mail", "sent"} THEN m.items
            ELSE IF m.kind = "assistant" THEN Ids(m) ELSE <<>>
IdsIn(t) == UNION {ToSet(Piece(t[i])) : i \in DOMAIN t}

\* The calls of the conversation are in order, each once.
InOrder(t) ==
    /\ \A i \in 1..Len(t) : Increasing(Piece(t[i]))
    /\ \A i, k \in 1..Len(t) : i < k =>
         \A a \in ToSet(Piece(t[i])), b \in ToSet(Piece(t[k])) : Before(a, b)

\* What the items of a message are, by its kind.
LEMMA MsgIs ==
  ASSUME NEW m \in Msg
  PROVE  /\ m.kind \in Kinds
         /\ m.kind = "assistant" => m.items \in Seq(ACall)
         /\ m.kind = "results" => m.items \in Seq(AResult)
         /\ m.kind \in {"mail", "sent"} => m.items \in Seq(Id) /\ Len(m.items) = 1
         /\ m.kind \notin {"assistant", "results", "mail", "sent"} => m.items = <<>>
  BY DEF Msg, Kinds, Artifacts, Ones

\* The ids of calls, and of results, one for each.
LEMMA IdsAre ==
  ASSUME NEW m \in Msg, m.kind \in {"assistant", "results"}
  PROVE  /\ Ids(m) \in Seq(Id) /\ Len(Ids(m)) = Len(m.items) /\ Len(m.items) \in Nat
         /\ \A j \in 1..Len(m.items) : Ids(m)[j] = m.items[j].id /\ m.items[j].id \in Id
<1>1. m.items \in Seq(ACall) \/ m.items \in Seq(AResult)
  BY MsgIs
<1>2. Len(m.items) \in Nat /\ DOMAIN m.items = 1..Len(m.items) /\ \A j \in 1..Len(m.items) : m.items[j].id \in Id
  <2>1. CASE m.items \in Seq(ACall)
    <3>1. \A j \in 1..Len(m.items) : m.items[j] \in ACall
      BY <2>1
    <3> QED
      BY <2>1, <3>1 DEF ACall
  <2>2. CASE m.items \in Seq(AResult)
    <3>1. \A j \in 1..Len(m.items) : m.items[j] \in AResult
      BY <2>2
    <3> QED
      BY <2>2, <3>1 DEF AResult
  <2> QED
    BY <1>1, <2>1, <2>2
<1>3. Ids(m) = [j \in 1..Len(m.items) |-> m.items[j].id]
  BY <1>2 DEF Ids
<1>4. Ids(m) \in [1..Len(m.items) -> Id]
  BY <1>2, <1>3
<1> QED
  BY <1>2, <1>3, <1>4, IsASeq

\* The ids that a message shows are a sequence of ids.
LEMMA PieceIs ==
  ASSUME NEW m \in Msg
  PROVE  Piece(m) \in Seq(Id)
<1>1. CASE m.kind = "assistant"
  BY <1>1, IdsAre DEF Piece
<1>2. CASE m.kind # "assistant"
  BY <1>2, MsgIs DEF Piece
<1> QED
  BY <1>1, <1>2

ShownOf(t) == FlattenSeq([i \in DOMAIN t |-> Piece(t[i])])

\* The ids that a conversation shows, in one sequence.
LEMMA ShownIs ==
  ASSUME NEW t \in Seq(Msg), InOrder(t)
  PROVE  ShownOf(t) \in Seq(Id) /\ Increasing(ShownOf(t)) /\ ToSet(ShownOf(t)) = IdsIn(t)
<1> DEFINE ss == [i \in DOMAIN t |-> Piece(t[i])]
           r  == FlattenSeq(ss)
<1>1. /\ ss \in Seq(Seq(Id)) /\ Len(ss) = Len(t) /\ Len(t) \in Nat
      /\ \A i \in 1..Len(t) : ss[i] = Piece(t[i]) /\ Piece(t[i]) \in Seq(Id)
  <2>1. DOMAIN t = 1..Len(t) /\ Len(t) \in Nat
    OBVIOUS
  <2>2. \A i \in 1..Len(t) : Piece(t[i]) \in Seq(Id)
    BY PieceIs
  <2>3. ss \in [1..Len(t) -> Seq(Id)]
    BY <2>1, <2>2
  <2> QED
    BY <2>1, <2>2, <2>3, IsASeq
<1>2. ShownOf(t) = r
  BY DEF ShownOf
<1> HIDE DEF ss
<1>3. r \in Seq(Id)
  BY <1>1, FlatFrom
<1>4. PICK g, h : Traces(g, h, ss, r)
  BY <1>1, FlatFrom
<1> HIDE DEF r
<1>5. ASSUME NEW p \in 1..Len(r)
      PROVE  /\ g[p] \in 1..Len(t) /\ h[p] \in 1..Len(Piece(t[g[p]]))
             /\ r[p] = Piece(t[g[p]])[h[p]] /\ r[p] \in ToSet(Piece(t[g[p]]))
  <2>1. g[p] \in 1..Len(t) /\ h[p] \in 1..Len(ss[g[p]]) /\ r[p] = ss[g[p]][h[p]]
    BY <1>1, <1>4 DEF Traces
  <2>2. ss[g[p]] = Piece(t[g[p]]) /\ Piece(t[g[p]]) \in Seq(Id)
    BY <1>1, <2>1
  <2> QED
    BY <2>1, <2>2 DEF ToSet
<1>6. Increasing(r)
  <2> SUFFICES ASSUME NEW p \in 1..Len(r), NEW q \in 1..Len(r), p < q PROVE Before(r[p], r[q])
    BY DEF Increasing
  <2>1. g[p] < g[q] \/ (g[p] = g[q] /\ h[p] < h[q])
    BY <1>4 DEF Traces
  <2>2. CASE g[p] < g[q]
    BY <1>5, <2>2 DEF InOrder
  <2>3. CASE g[p] = g[q] /\ h[p] < h[q]
    <3>1. Increasing(Piece(t[g[p]]))
      BY <1>5 DEF InOrder
    <3>2. h[p] \in 1..Len(Piece(t[g[p]])) /\ h[q] \in 1..Len(Piece(t[g[p]]))
      BY <1>5, <2>3
    <3>3. Before(Piece(t[g[p]])[h[p]], Piece(t[g[p]])[h[q]])
      BY ONLY <3>1, <3>2, <2>3 DEF Increasing
    <3> QED
      BY <1>5, <2>3, <3>3
  <2> QED
    BY <2>1, <2>2, <2>3
<1>7. ToSet(r) = IdsIn(t)
  <2>1. ToSet(r) \subseteq IdsIn(t)
    <3> SUFFICES ASSUME NEW p \in 1..Len(r) PROVE r[p] \in IdsIn(t)
      BY <1>3 DEF ToSet
    <3>1. g[p] \in DOMAIN t /\ r[p] \in ToSet(Piece(t[g[p]]))
      BY <1>5
    <3> QED
      BY ONLY <3>1 DEF IdsIn
  <2>2. IdsIn(t) \subseteq ToSet(r)
    <3> SUFFICES ASSUME NEW i \in 1..Len(t), NEW a \in ToSet(Piece(t[i])) PROVE a \in ToSet(r)
      BY DEF IdsIn
    <3>1. PICK j \in 1..Len(Piece(t[i])) : a = Piece(t[i])[j]
      BY <1>1 DEF ToSet
    <3>2. i \in 1..Len(ss) /\ j \in 1..Len(ss[i]) /\ ss[i] = Piece(t[i])
      BY <1>1
    <3>3. PICK p \in 1..Len(r) : g[p] = i /\ h[p] = j
      BY <1>4, <3>2 DEF Traces
    <3>4. r[p] = a
      BY <1>5, <3>1, <3>3
    <3> QED
      BY <1>3, <3>4 DEF ToSet
  <2> QED
    BY <2>1, <2>2
<1> QED
  BY <1>2, <1>3, <1>6, <1>7

\* Mail is kept in its order, if the conversation is in order and shows it.
LEMMA MailShown ==
  ASSUME talk \in Seq(Msg), InOrder(talk), mailed \in Seq(Id), Increasing(mailed),
         ToSet(mailed) \subseteq IdsIn(talk)
  PROVE  MailIsKept
<1>1. Shown = ShownOf(talk)
  BY DEF Shown, ShownOf, Piece
<1>2. Shown \in Seq(Id) /\ Increasing(Shown) /\ ToSet(Shown) = IdsIn(talk)
  BY <1>1, ShownIs
<1>3. /\ Among(Shown, ToSet(mailed)) \in Seq(Id) /\ Increasing(Among(Shown, ToSet(mailed)))
      /\ ToSet(Among(Shown, ToSet(mailed))) = ToSet(mailed)
  <2>1. ToSet(Among(Shown, ToSet(mailed))) = ToSet(Shown) \cap ToSet(mailed)
    BY <1>2, AmongIncreases
  <2>2. Among(Shown, ToSet(mailed)) \in Seq(Id) /\ Increasing(Among(Shown, ToSet(mailed)))
    BY <1>2, AmongIncreases
  <2> QED
    BY ONLY <1>2, <2>1, <2>2, ToSet(mailed) \subseteq IdsIn(talk)
<1>4. Among(Shown, ToSet(mailed)) = mailed
  BY <1>3, SameSequence
<1> QED
  BY <1>4 DEF MailIsKept

-----------------------------------------------------------------------------
(* What the providers take *)

Calling(m) == m.kind = "assistant" /\ m.items # <<>>

\* Message i of t has the results of the calls of the message before it.
Answers(t, i) == i \in 1..Len(t) /\ t[i].kind = "results" /\ Ids(t[i]) = Ids(t[i - 1])

\* Calls are answered by the next message, and nothing else has results; the calls of
\* the last message may still be open.
Paired(t, open) == \A i \in 1..Len(t) :
    /\ Calling(t[i]) /\ (i < Len(t) \/ ~open) => Answers(t, i + 1)
    /\ t[i].kind = "results" => i > 1 /\ Calling(t[i - 1]) /\ Answers(t, i)

\* An id stands in one place only.
LEMMA OnePlace ==
  ASSUME NEW t \in Seq(Msg), InOrder(t), NEW i \in 1..Len(t), NEW k \in 1..Len(t),
         NEW j \in 1..Len(Piece(t[i])), NEW l \in 1..Len(Piece(t[k])),
         Piece(t[i])[j] = Piece(t[k])[l]
  PROVE  i = k /\ j = l
<1>0. /\ Piece(t[i]) \in Seq(Id) /\ Piece(t[k]) \in Seq(Id)
      /\ Len(Piece(t[i])) \in Nat /\ Len(Piece(t[k])) \in Nat
  BY PieceIs
<1>1. Piece(t[i])[j] \in Id /\ Piece(t[i])[j] \in ToSet(Piece(t[i])) /\ Piece(t[k])[l] \in ToSet(Piece(t[k]))
  BY <1>0 DEF ToSet
<1>2. i = k
  <2>1. ~(i < k)
    BY <1>1, BeforeOrder DEF InOrder
  <2>2. ~(k < i)
    BY <1>1, BeforeOrder DEF InOrder
  <2> QED
    BY <2>1, <2>2
<1>3. Increasing(Piece(t[i]))
  BY DEF InOrder
<1>4. j = l
  <2>1. j \in 1..Len(Piece(t[i])) /\ l \in 1..Len(Piece(t[i])) /\ Piece(t[i])[j] = Piece(t[i])[l]
    BY <1>2
  <2>2. ~(j < l)
    BY <1>1, <1>3, <2>1, BeforeOrder DEF Increasing
  <2>3. ~(l < j)
    BY <1>1, <1>3, <2>1, BeforeOrder DEF Increasing
  <2> QED
    BY <1>0, <2>1, <2>2, <2>3
<1> QED
  BY <1>2, <1>4

\* The calls of a message and the results behind it: as many, with the same ids.
LEMMA AnsweredBy ==
  ASSUME NEW t \in Seq(Msg), NEW i \in 2..Len(t), Calling(t[i - 1]), Answers(t, i)
  PROVE  /\ Len(t[i].items) = Len(t[i - 1].items) /\ Len(t[i].items) \in Nat \ {0}
         /\ Ids(t[i]) \in Seq(Id) /\ Len(Ids(t[i])) = Len(t[i].items)
         /\ \A j \in 1..Len(t[i].items) : t[i].items[j].id = Ids(t[i])[j] /\ t[i - 1].items[j].id = Ids(t[i])[j]
<1>1. t[i] \in Msg /\ t[i - 1] \in Msg /\ t[i].kind = "results" /\ t[i - 1].kind = "assistant"
      /\ Ids(t[i]) = Ids(t[i - 1]) /\ t[i - 1].items # <<>>
  <2>1. i - 1 \in 1..Len(t) /\ i \in 1..Len(t)
    OBVIOUS
  <2> QED
    BY <2>1 DEF Calling, Answers
<1>2. /\ Ids(t[i]) \in Seq(Id) /\ Len(Ids(t[i])) = Len(t[i].items) /\ Len(t[i].items) \in Nat
      /\ \A j \in 1..Len(t[i].items) : Ids(t[i])[j] = t[i].items[j].id
  BY <1>1, IdsAre
<1>3. /\ Len(Ids(t[i - 1])) = Len(t[i - 1].items)
      /\ \A j \in 1..Len(t[i - 1].items) : Ids(t[i - 1])[j] = t[i - 1].items[j].id
  BY <1>1, IdsAre
<1>4. Len(t[i - 1].items) # 0
  <2>1. t[i - 1].items \in Seq(ACall)
    BY <1>1, MsgIs
  <2> QED
    BY <1>1, <2>1
<1> QED
  BY <1>1, <1>2, <1>3, <1>4

\* The Messages API takes a conversation whose calls are paired.
LEMMA AnthropicTakes ==
  ASSUME NEW t \in Seq(Msg), Paired(t, FALSE)
  PROVE  AnthropicAccepts(AnthropicMessages(t))
<1> DEFINE m == AnthropicMessages(t)
<1>1. /\ DOMAIN m = 1..Len(t) /\ Len(m) = Len(t) /\ Len(t) \in Nat
      /\ \A i \in 1..Len(t) : m[i].calls = CallIds(t[i]) /\ m[i].results = ResultIds(t[i])
  <2>1. DOMAIN t = 1..Len(t) /\ Len(t) \in Nat
    OBVIOUS
  <2>2. m = [i \in 1..Len(t) |-> [role |-> Role(t[i]), calls |-> CallIds(t[i]), results |-> ResultIds(t[i])]]
    BY <2>1 DEF AnthropicMessages
  <2> HIDE DEF m
  <2> QED
    BY <2>1, <2>2
<1> HIDE DEF m
<1>2. ASSUME NEW i \in 1..Len(t), m[i].calls # <<>>
      PROVE  i < Len(m) /\ ToSet(m[i + 1].results) = ToSet(m[i].calls)
  <2>1. CallIds(t[i]) # <<>>
    BY <1>1, <1>2
  <2>2. t[i].kind = "assistant" /\ CallIds(t[i]) = Ids(t[i])
    BY <2>1 DEF CallIds
  <2>3. t[i].items # <<>>
    <3>1. t[i] \in Msg
      OBVIOUS
    <3>2. Len(Ids(t[i])) = Len(t[i].items) /\ Ids(t[i]) \in Seq(Id) /\ t[i].items \in Seq(ACall)
      BY <2>2, <3>1, IdsAre, MsgIs
    <3> QED
      BY <2>1, <2>2, <3>2
  <2>4. Answers(t, i + 1)
    BY <2>2, <2>3 DEF Paired, Calling
  <2>5. i + 1 \in 1..Len(t) /\ t[i + 1].kind = "results" /\ Ids(t[i + 1]) = Ids(t[i])
    BY <2>4, <1>1 DEF Answers
  <2>6. m[i + 1].results = m[i].calls
    BY <1>1, <2>2, <2>5 DEF ResultIds
  <2> QED
    BY <1>1, <2>5, <2>6
<1>3. ASSUME NEW i \in 1..Len(t), m[i].results # <<>>
      PROVE  i > 1 /\ m[i - 1].calls # <<>>
  <2>1. t[i].kind = "results"
    BY <1>1, <1>3 DEF ResultIds
  <2>2. i > 1 /\ Calling(t[i - 1]) /\ Answers(t, i)
    BY <2>1 DEF Paired
  <2>3. i \in 2..Len(t) /\ i - 1 \in 1..Len(t)
    BY <1>1, <2>2
  <2>4. Len(Ids(t[i])) # 0 /\ Ids(t[i]) \in Seq(Id) /\ Ids(t[i]) = Ids(t[i - 1])
    BY <2>2, <2>3, AnsweredBy DEF Answers
  <2>5. m[i - 1].calls = Ids(t[i])
    BY <1>1, <2>2, <2>3, <2>4 DEF CallIds, Calling
  <2> QED
    BY <2>2, <2>4, <2>5
<1> QED
  BY <1>1, <1>2, <1>3 DEF AnthropicAccepts, m

ChatMsg == [role : {"user", "assistant", "tool"}, calls : Seq(Id), results : Seq(Id)]

\* What Chat Completions is sent for a message.
ChatOf(m) ==
    IF m.kind = "results"
    THEN [j \in DOMAIN m.items |-> [role |-> "tool", calls |-> <<>>, results |-> <<m.items[j].id>>]]
    ELSE <<[role |-> Role(m), calls |-> CallIds(m), results |-> <<>>]>>

\* Chat Completions is sent one message for each result, and one for every other message.
LEMMA ChatOfIs ==
  ASSUME NEW m \in Msg
  PROVE  /\ ChatOf(m) \in Seq(ChatMsg)
         /\ m.kind # "results" =>
              /\ Len(ChatOf(m)) = 1 /\ ChatOf(m)[1].role # "tool"
              /\ ChatOf(m)[1].calls = CallIds(m)
         /\ m.kind = "results" =>
              /\ Len(ChatOf(m)) = Len(m.items) /\ Len(m.items) \in Nat
              /\ \A j \in 1..Len(m.items) :
                   ChatOf(m)[j] = [role |-> "tool", calls |-> <<>>, results |-> <<m.items[j].id>>]
<1>1. CASE m.kind = "results"
  <2>1. /\ DOMAIN m.items = 1..Len(m.items) /\ Len(m.items) \in Nat
        /\ \A j \in 1..Len(m.items) : m.items[j].id \in Id
    BY <1>1, IdsAre, MsgIs
  <2>2. ChatOf(m) = [j \in 1..Len(m.items) |-> [role |-> "tool", calls |-> <<>>, results |-> <<m.items[j].id>>]]
    BY <1>1, <2>1 DEF ChatOf
  <2>3. \A j \in 1..Len(m.items) : [role |-> "tool", calls |-> <<>>, results |-> <<m.items[j].id>>] \in ChatMsg
    <3>1. <<>> \in Seq(Id) /\ \A id \in Id : <<id>> \in Seq(Id)
      OBVIOUS
    <3>2. \A id \in Id : [role |-> "tool", calls |-> <<>>, results |-> <<id>>] \in ChatMsg
      BY <3>1 DEF ChatMsg
    <3> QED
      BY <2>1, <3>2
  <2>4. ChatOf(m) \in [1..Len(m.items) -> ChatMsg]
    BY <2>2, <2>3
  <2>5. ChatOf(m) \in Seq(ChatMsg) /\ Len(ChatOf(m)) = Len(m.items)
    <3> DEFINE n == Len(m.items)
               r == ChatOf(m)
    <3>1. n \in Nat /\ r \in [1..n -> ChatMsg]
      BY <2>1, <2>4
    <3> HIDE DEF n, r
    <3>2. r \in Seq(ChatMsg) /\ DOMAIN r = 1..n
      BY ONLY <3>1, IsASeq
    <3>3. Len(r) = n
      BY ONLY <3>1, <3>2, LenProperties
    <3> QED
      BY <3>2, <3>3 DEF n, r
  <2>6. \A j \in 1..Len(m.items) :
          ChatOf(m)[j] = [role |-> "tool", calls |-> <<>>, results |-> <<m.items[j].id>>]
    BY <2>2
  <2> QED
    BY <1>1, <2>1, <2>5, <2>6
<1>2. CASE m.kind # "results"
  <2>1. CallIds(m) \in Seq(Id)
    BY IdsAre DEF CallIds
  <2>2. Role(m) \in {"user", "assistant"} /\ Role(m) # "tool"
    BY DEF Role, FromAssistant
  <2>3. ChatOf(m) = <<[role |-> Role(m), calls |-> CallIds(m), results |-> <<>>]>>
    BY <1>2 DEF ChatOf
  <2>4. [role |-> Role(m), calls |-> CallIds(m), results |-> <<>>] \in ChatMsg
    BY <2>1, <2>2 DEF ChatMsg
  <2> QED
    BY <1>2, <2>2, <2>3, <2>4
<1> QED
  BY <1>1, <1>2

\* The sequences that are flattened, and where they lie.
LEMMA ChatLaid ==
  ASSUME NEW t \in Seq(Msg)
  PROVE  \E ss, o :
           /\ ss \in Seq(Seq(ChatMsg)) /\ Len(ss) = Len(t)
           /\ \A i \in 1..Len(t) : ss[i] = ChatOf(t[i])
           /\ ChatMessages(t) \in Seq(ChatMsg) /\ Laid(o, ss, ChatMessages(t))
<1> DEFINE ss == [i \in DOMAIN t |-> ChatOf(t[i])]
<1>1. DOMAIN t = 1..Len(t) /\ Len(t) \in Nat
  OBVIOUS
<1>2. \A i \in 1..Len(t) : ChatOf(t[i]) \in Seq(ChatMsg)
  BY ChatOfIs
<1>3. ss \in [1..Len(t) -> Seq(ChatMsg)]
  BY <1>1, <1>2
<1>4. ss \in Seq(Seq(ChatMsg)) /\ Len(ss) = Len(t) /\ \A i \in 1..Len(t) : ss[i] = ChatOf(t[i])
  BY <1>1, <1>3, IsASeq
<1>5. ChatMessages(t) = FlattenSeq(ss)
  BY DEF ChatMessages, ChatOf
<1> HIDE DEF ss
<1>6. FlattenSeq(ss) \in Seq(ChatMsg) /\ \E o : Laid(o, ss, FlattenSeq(ss))
  BY <1>4, Flat
<1> QED
  BY <1>4, <1>5, <1>6

\* Chat Completions takes a conversation whose calls are paired.
LEMMA ChatTakes ==
  ASSUME NEW t \in Seq(Msg), Paired(t, FALSE)
  PROVE  ChatAccepts(ChatMessages(t))
<1> DEFINE m == ChatMessages(t)
<1>1. PICK ss, o :
        /\ ss \in Seq(Seq(ChatMsg)) /\ Len(ss) = Len(t)
        /\ \A i \in 1..Len(t) : ss[i] = ChatOf(t[i])
        /\ m \in Seq(ChatMsg) /\ Laid(o, ss, m)
  BY ChatLaid
<1> HIDE DEF m
<1>2. DOMAIN m = 1..Len(m) /\ Len(m) \in Nat /\ Len(t) \in Nat
  BY <1>1
<1>3. \A p \in 1..Len(m) : \E i, j : Place(o, ss, m, p, i, j)
  <2>1. ss \in Seq(Seq(ChatMsg)) /\ Laid(o, ss, m)
    BY <1>1
  <2> QED
    BY ONLY <2>1, FlatOnto
<1>4. \A i \in 1..Len(t) : \A j \in 1..Len(ChatOf(t[i])) :
        o[i - 1] + j \in 1..Len(m) /\ m[o[i - 1] + j] = ChatOf(t[i])[j]
  <2> SUFFICES ASSUME NEW i \in 1..Len(t), NEW j \in 1..Len(ChatOf(t[i]))
               PROVE  o[i - 1] + j \in 1..Len(m) /\ m[o[i - 1] + j] = ChatOf(t[i])[j]
    OBVIOUS
  <2>1. /\ ss \in Seq(Seq(ChatMsg)) /\ Laid(o, ss, m)
        /\ i \in 1..Len(ss) /\ j \in 1..Len(ss[i]) /\ ss[i] = ChatOf(t[i])
    BY <1>1
  <2>2. o[i - 1] + j \in 1..Len(m) /\ m[o[i - 1] + j] = ss[i][j]
    BY ONLY <2>1, FlatPlace
  <2> QED
    BY <2>1, <2>2
<1>5. \A i \in 1..Len(t) : o[i - 1] \in Nat /\ o[i] \in Nat /\ o[i] = o[i - 1] + Len(ChatOf(t[i]))
  <2> SUFFICES ASSUME NEW i \in 1..Len(t)
               PROVE  o[i - 1] \in Nat /\ o[i] \in Nat /\ o[i] = o[i - 1] + Len(ChatOf(t[i]))
    OBVIOUS
  <2>1. i \in 1..Len(ss) /\ i \in 0..Len(ss) /\ i - 1 \in 0..Len(ss) /\ ss[i] = ChatOf(t[i])
    BY <1>1, <1>2
  <2> QED
    BY <1>1, <2>1 DEF Laid
<1>6. ASSUME NEW p \in 1..Len(m)
      PROVE  \E i \in 1..Len(t) : \E j \in 1..Len(ChatOf(t[i])) : p = o[i - 1] + j /\ m[p] = ChatOf(t[i])[j]
  <2>1. PICK i, j : Place(o, ss, m, p, i, j)
    BY <1>3
  <2> QED
    BY <1>1, <2>1 DEF Place
<1>7. ASSUME NEW p \in 1..Len(m), m[p].calls # <<>>
      PROVE  LET n == Len(m[p].calls) IN
             /\ p + n <= Len(m)
             /\ \A j \in p+1..p+n : m[j].role = "tool"
             /\ UNION {ToSet(m[j].results) : j \in p+1..p+n} = ToSet(m[p].calls)
  <2>1. PICK i \in 1..Len(t) : \E j \in 1..Len(ChatOf(t[i])) : p = o[i - 1] + j /\ m[p] = ChatOf(t[i])[j]
    BY <1>6
  <2>2. PICK j \in 1..Len(ChatOf(t[i])) : p = o[i - 1] + j /\ m[p] = ChatOf(t[i])[j]
    BY <2>1
  <2>3. t[i] \in Msg
    OBVIOUS
  <2>4. t[i].kind # "results"
    <3> SUFFICES ASSUME t[i].kind = "results" PROVE FALSE
      OBVIOUS
    <3>1. j \in 1..Len(t[i].items) /\ m[p] = [role |-> "tool", calls |-> <<>>, results |-> <<t[i].items[j].id>>]
      BY <2>2, <2>3, ChatOfIs
    <3> QED
      BY <1>7, <3>1
  <2>5. /\ Len(ChatOf(t[i])) = 1 /\ ChatOf(t[i])[1].calls = CallIds(t[i])
    BY <2>3, <2>4, ChatOfIs
  <2>6. j = 1 /\ m[p].calls = CallIds(t[i]) /\ o[i] = p
    <3>1. j = 1
      BY <2>5
    <3>2. o[i] = o[i - 1] + 1 /\ p = o[i - 1] + 1 /\ m[p] = ChatOf(t[i])[1]
      BY <1>5, <2>2, <2>5, <3>1
    <3> QED
      BY ONLY <2>5, <3>1, <3>2
  <2>7. t[i].kind = "assistant" /\ CallIds(t[i]) = Ids(t[i])
    BY <1>7, <2>6 DEF CallIds
  <2>8. Calling(t[i])
    <3>1. Len(Ids(t[i])) = Len(t[i].items) /\ Ids(t[i]) \in Seq(Id) /\ t[i].items \in Seq(ACall)
      BY <2>7, <2>3, IdsAre, MsgIs
    <3>2. t[i].items # <<>>
      BY <1>7, <2>6, <2>7, <3>1
    <3> QED
      BY <2>7, <3>2 DEF Calling
  <2>9. Answers(t, i + 1) /\ i + 1 \in 2..Len(t) /\ i + 1 \in 1..Len(t)
    <3>1. Answers(t, i + 1)
      BY <2>8 DEF Paired
    <3> QED
      BY <3>1, <1>2 DEF Answers
  <2> DEFINE k == i + 1
             n == Len(m[p].calls)
  <2>10. /\ Len(t[k].items) = Len(t[i].items) /\ Len(t[k].items) \in Nat \ {0}
         /\ Ids(t[k]) \in Seq(Id) /\ Len(Ids(t[k])) = Len(t[k].items) /\ Ids(t[k]) = Ids(t[i])
         /\ \A l \in 1..Len(t[k].items) : t[k].items[l].id = Ids(t[k])[l]
    <3>1. k - 1 = i /\ k \in 2..Len(t)
      BY <2>9, <1>2
    <3>2. Calling(t[k - 1]) /\ Answers(t, k)
      BY <2>8, <2>9, <3>1
    <3>3. Ids(t[k]) = Ids(t[i])
      BY <3>1, <3>2 DEF Answers
    <3> HIDE DEF k
    <3>4. /\ Len(t[k].items) = Len(t[k - 1].items) /\ Len(t[k].items) \in Nat \ {0}
          /\ Ids(t[k]) \in Seq(Id) /\ Len(Ids(t[k])) = Len(t[k].items)
          /\ \A l \in 1..Len(t[k].items) : t[k].items[l].id = Ids(t[k])[l]
      BY <3>1, <3>2, AnsweredBy
    <3> QED
      BY <3>1, <3>3, <3>4
  <2>11. /\ n = Len(t[k].items) /\ n \in Nat \ {0} /\ k \in 1..Len(t) /\ t[k].kind = "results"
         /\ m[p].calls = Ids(t[k])
    BY <2>6, <2>7, <2>9, <2>10 DEF Answers
  <2>12. /\ Len(ChatOf(t[k])) = n
         /\ \A l \in 1..n : ChatOf(t[k])[l] = [role |-> "tool", calls |-> <<>>, results |-> <<Ids(t[k])[l]>>]
    <3>1. t[k] \in Msg
      BY <2>11
    <3> HIDE DEF k, n
    <3>2. /\ Len(ChatOf(t[k])) = Len(t[k].items)
          /\ \A l \in 1..Len(t[k].items) :
               ChatOf(t[k])[l] = [role |-> "tool", calls |-> <<>>, results |-> <<t[k].items[l].id>>]
      BY ONLY <2>11, <3>1, ChatOfIs
    <3>3. \A l \in 1..Len(t[k].items) : t[k].items[l].id = Ids(t[k])[l]
      BY <2>10
    <3> QED
      BY ONLY <2>11, <3>2, <3>3
  <2>13. \A l \in 1..n : p + l \in 1..Len(m) /\ m[p + l].role = "tool" /\ m[p + l].results = <<Ids(t[k])[l]>>
    <3> SUFFICES ASSUME NEW l \in 1..n
                 PROVE  p + l \in 1..Len(m) /\ m[p + l].role = "tool" /\ m[p + l].results = <<Ids(t[k])[l]>>
      OBVIOUS
    <3>1. l \in 1..Len(ChatOf(t[k])) /\ k \in 1..Len(t) /\ k - 1 = i
      BY <2>11, <2>12
    <3> HIDE DEF k, n
    <3>2. o[k - 1] + l \in 1..Len(m) /\ m[o[k - 1] + l] = ChatOf(t[k])[l]
      BY <1>4, <3>1
    <3>3. o[k - 1] = p
      BY <2>6, <3>1
    <3> QED
      <4>1. ChatOf(t[k])[l] = [role |-> "tool", calls |-> <<>>, results |-> <<Ids(t[k])[l]>>]
        BY <2>12
      <4>2. m[p + l] = ChatOf(t[k])[l] /\ p + l \in 1..Len(m)
        BY <3>2, <3>3
      <4> QED
        BY ONLY <4>1, <4>2
  <2> HIDE DEF n, k
  <2>14. p + n <= Len(m)
    BY <2>11, <2>13
  <2>15. \A q \in p+1..p+n : q - p \in 1..n /\ q = p + (q - p)
    BY <2>11
  <2>16. \A q \in p+1..p+n : m[q].role = "tool" /\ m[q].results = <<Ids(t[k])[q - p]>>
    BY <2>13, <2>15
  <2>17. UNION {ToSet(m[q].results) : q \in p+1..p+n} = ToSet(m[p].calls)
    <3>1. \A q \in p+1..p+n : ToSet(m[q].results) = {Ids(t[k])[q - p]}
      <4> SUFFICES ASSUME NEW q \in p+1..p+n PROVE ToSet(m[q].results) = {Ids(t[k])[q - p]}
        OBVIOUS
      <4>1. m[q].results = <<Ids(t[k])[q - p]>>
        BY <2>16
      <4> QED
        BY <4>1 DEF ToSet
    <3>2. DOMAIN Ids(t[k]) = 1..n /\ m[p].calls = Ids(t[k])
      BY <2>10, <2>11
    <3>3. \A l \in 1..n : p + l \in p+1..p+n /\ (p + l) - p = l
      BY <2>11
    <3>4. UNION {ToSet(m[q].results) : q \in p+1..p+n} = {Ids(t[k])[q - p] : q \in p+1..p+n}
      <4> DEFINE A(q) == ToSet(m[q].results)
                 B(q) == {Ids(t[k])[q - p]}
                 C(q) == Ids(t[k])[q - p]
      <4>1. \A q \in p+1..p+n : A(q) = B(q)
        BY <3>1
      <4>2. \A q \in p+1..p+n : B(q) = {C(q)}
        OBVIOUS
      <4> HIDE DEF A, B, C
      <4>3. UNION {A(q) : q \in p+1..p+n} = {C(q) : q \in p+1..p+n}
        BY ONLY <4>1, <4>2
      <4> QED
        BY <4>3 DEF A, C
    <3>5. {Ids(t[k])[q - p] : q \in p+1..p+n} = {Ids(t[k])[l] : l \in 1..n}
      <4>1. \A q \in p+1..p+n : Ids(t[k])[q - p] \in {Ids(t[k])[l] : l \in 1..n}
        BY <2>15
      <4>2. \A l \in 1..n : Ids(t[k])[l] \in {Ids(t[k])[q - p] : q \in p+1..p+n}
        BY <3>3
      <4> QED
        BY <4>1, <4>2
    <3> QED
      BY <3>2, <3>4, <3>5 DEF ToSet
  <2> QED
    BY <2>14, <2>16, <2>17 DEF n
<1>8. ASSUME NEW p \in 1..Len(m), m[p].role = "tool"
      PROVE  \E k \in 1..p-1 : ToSet(m[p].results) \subseteq ToSet(m[k].calls)
  <2>1. PICK i \in 1..Len(t) : \E j \in 1..Len(ChatOf(t[i])) : p = o[i - 1] + j /\ m[p] = ChatOf(t[i])[j]
    BY <1>6
  <2>2. PICK j \in 1..Len(ChatOf(t[i])) : p = o[i - 1] + j /\ m[p] = ChatOf(t[i])[j]
    BY <2>1
  <2>3. t[i] \in Msg
    OBVIOUS
  <2>4. t[i].kind = "results"
    <3> SUFFICES ASSUME t[i].kind # "results" PROVE FALSE
      OBVIOUS
    <3>1. Len(ChatOf(t[i])) = 1 /\ ChatOf(t[i])[1].role # "tool"
      BY <2>3, ChatOfIs
    <3> QED
      BY <1>8, <2>2, <3>1
  <2>5. j \in 1..Len(t[i].items) /\ m[p].results = <<t[i].items[j].id>>
    <3>1. /\ Len(ChatOf(t[i])) = Len(t[i].items)
          /\ \A l \in 1..Len(t[i].items) :
               ChatOf(t[i])[l] = [role |-> "tool", calls |-> <<>>, results |-> <<t[i].items[l].id>>]
      BY <2>3, <2>4, ChatOfIs
    <3>2. j \in 1..Len(t[i].items)
      BY <3>1
    <3>3. m[p] = [role |-> "tool", calls |-> <<>>, results |-> <<t[i].items[j].id>>]
      BY <2>2, <3>1, <3>2
    <3> QED
      BY <3>2, <3>3
  <2>6. i > 1 /\ Calling(t[i - 1]) /\ Answers(t, i)
    BY <2>4 DEF Paired
  <2>7. i \in 2..Len(t) /\ i - 1 \in 1..Len(t) /\ t[i - 1] \in Msg
    BY <2>6, <1>2
  <2>8. /\ Len(t[i].items) = Len(t[i - 1].items) /\ Len(t[i].items) \in Nat \ {0}
        /\ Ids(t[i]) \in Seq(Id) /\ Len(Ids(t[i])) = Len(t[i].items) /\ Ids(t[i]) = Ids(t[i - 1])
        /\ t[i].items[j].id = Ids(t[i])[j]
    BY <2>5, <2>6, <2>7, AnsweredBy DEF Answers
  <2>9. /\ Len(ChatOf(t[i - 1])) = 1 /\ ChatOf(t[i - 1])[1].calls = Ids(t[i])
    BY <2>6, <2>7, <2>8, ChatOfIs DEF Calling, CallIds
  <2> DEFINE l == i - 1
             k == o[l - 1] + 1
  <2>10. l \in 1..Len(t) /\ 1 \in 1..Len(ChatOf(t[l])) /\ ChatOf(t[l])[1].calls = Ids(t[i])
         /\ Len(ChatOf(t[l])) = 1
    BY <2>7, <2>9
  <2>11. i - 1 = l
    OBVIOUS
  <2> HIDE DEF l
  <2>12. k \in 1..Len(m) /\ m[k] = ChatOf(t[l])[1] /\ o[l] = k
    BY <1>4, <1>5, <2>10
  <2> HIDE DEF k
  <2>13. p = k + j /\ j \in Nat /\ 1 <= j
    BY <2>2, <2>5, <2>8, <2>11, <2>12
  <2>14. k \in 1..p-1
    BY <2>12, <2>13, <1>2
  <2>15. ToSet(m[p].results) = {Ids(t[i])[j]}
    BY <2>5, <2>8 DEF ToSet
  <2>16. Ids(t[i])[j] \in ToSet(m[k].calls)
    <3>1. m[k].calls = Ids(t[i]) /\ DOMAIN Ids(t[i]) = 1..Len(t[i].items)
      BY <2>8, <2>10, <2>12
    <3> QED
      BY <2>5, <3>1 DEF ToSet
  <2> QED
    BY <2>14, <2>15, <2>16
<1> QED
  BY <1>2, <1>7, <1>8 DEF ChatAccepts, m

WireItem == [type : {"message", "call", "output"}, id : Id \cup {<<>>}]

\* What the Responses API is sent for a message.
ItemsOf(m) ==
    IF m.kind = "results"
    THEN [j \in DOMAIN m.items |-> [type |-> "output", id |-> m.items[j].id]]
    ELSE <<[type |-> "message", id |-> <<>>]>>
           \o [j \in DOMAIN CallIds(m) |-> [type |-> "call", id |-> CallIds(m)[j]]]

\* The Responses API is sent an item for each result, and for any other message an item and
\* one for each of its calls.
LEMMA ItemsOfIs ==
  ASSUME NEW m \in Msg
  PROVE  /\ ItemsOf(m) \in Seq(WireItem) /\ CallIds(m) \in Seq(Id)
         /\ m.kind # "results" =>
              /\ Len(ItemsOf(m)) = 1 + Len(CallIds(m))
              /\ ItemsOf(m)[1].type = "message"
              /\ \A j \in 1..Len(CallIds(m)) :
                   ItemsOf(m)[1 + j] = [type |-> "call", id |-> CallIds(m)[j]]
         /\ m.kind = "results" =>
              /\ Len(ItemsOf(m)) = Len(m.items) /\ Len(m.items) \in Nat
              /\ \A j \in 1..Len(m.items) : ItemsOf(m)[j] = [type |-> "output", id |-> m.items[j].id]
<1>0. CallIds(m) \in Seq(Id)
  BY IdsAre DEF CallIds
<1>1. CASE m.kind = "results"
  <2>1. /\ DOMAIN m.items = 1..Len(m.items) /\ Len(m.items) \in Nat
        /\ \A j \in 1..Len(m.items) : m.items[j].id \in Id
    BY <1>1, IdsAre, MsgIs
  <2>2. ItemsOf(m) = [j \in 1..Len(m.items) |-> [type |-> "output", id |-> m.items[j].id]]
    BY <1>1, <2>1 DEF ItemsOf
  <2>3. \A j \in 1..Len(m.items) : [type |-> "output", id |-> m.items[j].id] \in WireItem
    <3>1. \A id \in Id : [type |-> "output", id |-> id] \in WireItem
      BY DEF WireItem
    <3> QED
      BY <2>1, <3>1
  <2>4. ItemsOf(m) \in [1..Len(m.items) -> WireItem]
    BY <2>2, <2>3
  <2>5. ItemsOf(m) \in Seq(WireItem) /\ Len(ItemsOf(m)) = Len(m.items)
    <3> DEFINE n == Len(m.items)
               r == ItemsOf(m)
    <3>1. n \in Nat /\ r \in [1..n -> WireItem]
      BY <2>1, <2>4
    <3> HIDE DEF n, r
    <3>2. r \in Seq(WireItem) /\ DOMAIN r = 1..n
      BY ONLY <3>1, IsASeq
    <3>3. Len(r) = n
      BY ONLY <3>1, <3>2, LenProperties
    <3> QED
      BY <3>2, <3>3 DEF n, r
  <2>6. \A j \in 1..Len(m.items) : ItemsOf(m)[j] = [type |-> "output", id |-> m.items[j].id]
    BY <2>2
  <2> QED
    BY <1>0, <1>1, <2>1, <2>5, <2>6
<1>2. CASE m.kind # "results"
  <2> DEFINE n == Len(CallIds(m))
             a == <<[type |-> "message", id |-> <<>>]>>
             b == [j \in DOMAIN CallIds(m) |-> [type |-> "call", id |-> CallIds(m)[j]]]
  <2>1. ItemsOf(m) = a \o b
    BY <1>2 DEF ItemsOf
  <2>2. DOMAIN CallIds(m) = 1..n /\ n \in Nat /\ \A j \in 1..n : CallIds(m)[j] \in Id
    BY <1>0
  <2>3. a \in Seq(WireItem) /\ Len(a) = 1 /\ a[1].type = "message"
    <3>1. [type |-> "message", id |-> <<>>] \in WireItem
      BY DEF WireItem
    <3> QED
      BY <3>1
  <2>4. b \in [1..n -> WireItem] /\ \A j \in 1..n : b[j] = [type |-> "call", id |-> CallIds(m)[j]]
    <3>1. \A id \in Id : [type |-> "call", id |-> id] \in WireItem
      BY DEF WireItem
    <3>2. \A j \in 1..n : [type |-> "call", id |-> CallIds(m)[j]] \in WireItem
      BY <2>2, <3>1
    <3> QED
      BY <2>2, <3>2
  <2> HIDE DEF a, b, n
  <2>5. b \in Seq(WireItem) /\ Len(b) = n
    <3>1. b \in Seq(WireItem) /\ DOMAIN b = 1..n
      BY ONLY <2>2, <2>4, IsASeq
    <3> QED
      BY ONLY <2>2, <3>1, LenProperties
  <2>6. /\ a \o b \in Seq(WireItem) /\ Len(a \o b) = 1 + n
        /\ (a \o b)[1] = a[1]
        /\ \A j \in 1..n : (a \o b)[1 + j] = b[j]
    <3>0. a \in Seq(WireItem) /\ b \in Seq(WireItem)
      BY <2>3, <2>5
    <3> HIDE DEF WireItem
    <3>1. /\ a \o b \in Seq(WireItem) /\ Len(a \o b) = Len(a) + Len(b)
          /\ \A i \in 1..Len(a) : (a \o b)[i] = a[i]
          /\ \A j \in 1..Len(b) : (a \o b)[Len(a) + j] = b[j]
      BY ONLY <3>0, ConcatAt
    <3> QED
      BY ONLY <3>1, <2>2, <2>3, <2>5
  <2>7. /\ ItemsOf(m) \in Seq(WireItem) /\ Len(ItemsOf(m)) = 1 + n
        /\ ItemsOf(m)[1].type = "message"
        /\ \A j \in 1..n : ItemsOf(m)[1 + j] = [type |-> "call", id |-> CallIds(m)[j]]
    BY ONLY <2>1, <2>3, <2>4, <2>6
  <2> QED
    BY <1>0, <1>2, <2>7 DEF n
<1> QED
  BY <1>1, <1>2

\* The sequences that are flattened, and where they lie.
LEMMA ItemsLaid ==
  ASSUME NEW t \in Seq(Msg)
  PROVE  \E ss, o :
           /\ ss \in Seq(Seq(WireItem)) /\ Len(ss) = Len(t)
           /\ \A i \in 1..Len(t) : ss[i] = ItemsOf(t[i])
           /\ Items(t) \in Seq(WireItem) /\ Laid(o, ss, Items(t))
<1> DEFINE ss == [i \in DOMAIN t |-> ItemsOf(t[i])]
<1>1. DOMAIN t = 1..Len(t) /\ Len(t) \in Nat
  OBVIOUS
<1>2. \A i \in 1..Len(t) : ItemsOf(t[i]) \in Seq(WireItem)
  BY ItemsOfIs
<1>3. ss \in [1..Len(t) -> Seq(WireItem)]
  BY <1>1, <1>2
<1>4. ss \in Seq(Seq(WireItem)) /\ Len(ss) = Len(t) /\ \A i \in 1..Len(t) : ss[i] = ItemsOf(t[i])
  BY <1>1, <1>3, IsASeq
<1>5. Items(t) = FlattenSeq(ss)
  BY DEF Items, ItemsOf
<1> HIDE DEF ss
<1>6. FlattenSeq(ss) \in Seq(WireItem) /\ \E o : Laid(o, ss, FlattenSeq(ss))
  BY <1>4, Flat
<1> QED
  BY <1>4, <1>5, <1>6

\* Place p of the items is the call j of message i.
CallAt(t, o, m, p, i, j) ==
    /\ i \in 1..Len(t) /\ t[i].kind = "assistant" /\ j \in 1..Len(t[i].items)
    /\ p = o[i - 1] + (1 + j) /\ p \in 1..Len(m)
    /\ m[p] = [type |-> "call", id |-> Piece(t[i])[j]]

\* Place p is the output for call j of the message before message i.
OutputAt(t, o, m, p, i, j) ==
    /\ i \in 2..Len(t) /\ t[i - 1].kind = "assistant" /\ j \in 1..Len(t[i - 1].items)
    /\ p = o[i - 1] + j /\ p \in 1..Len(m)
    /\ m[p] = [type |-> "output", id |-> Piece(t[i - 1])[j]]

\* Where the calls and the outputs stand, in pairs.
LEMMA ItemsStand ==
  ASSUME NEW t \in Seq(Msg), Paired(t, FALSE)
  PROVE  \E o :
    /\ \A p \in 1..Len(Items(t)) : Items(t)[p].type = "call" => \E i, j : CallAt(t, o, Items(t), p, i, j)
    /\ \A p \in 1..Len(Items(t)) : Items(t)[p].type = "output" => \E i, j : OutputAt(t, o, Items(t), p, i, j)
    /\ \A p, i, j : CallAt(t, o, Items(t), p, i, j) =>
         \E q : q > p /\ OutputAt(t, o, Items(t), q, i + 1, j)
    /\ \A p, i, j : OutputAt(t, o, Items(t), p, i, j) => \E q : CallAt(t, o, Items(t), q, i - 1, j)
<1> DEFINE m == Items(t)
<1>1. PICK ss, o :
        /\ ss \in Seq(Seq(WireItem)) /\ Len(ss) = Len(t)
        /\ \A i \in 1..Len(t) : ss[i] = ItemsOf(t[i])
        /\ m \in Seq(WireItem) /\ Laid(o, ss, m)
  BY ItemsLaid
<1> HIDE DEF m
<1>2. DOMAIN m = 1..Len(m) /\ Len(m) \in Nat /\ Len(t) \in Nat
  BY <1>1
<1>3. \A p \in 1..Len(m) : \E i, j : Place(o, ss, m, p, i, j)
  <2>1. ss \in Seq(Seq(WireItem)) /\ Laid(o, ss, m)
    BY <1>1
  <2> QED
    BY ONLY <2>1, FlatOnto
<1>4. \A i \in 1..Len(t) : \A j \in 1..Len(ItemsOf(t[i])) :
        o[i - 1] + j \in 1..Len(m) /\ m[o[i - 1] + j] = ItemsOf(t[i])[j]
  <2> SUFFICES ASSUME NEW i \in 1..Len(t), NEW j \in 1..Len(ItemsOf(t[i]))
               PROVE  o[i - 1] + j \in 1..Len(m) /\ m[o[i - 1] + j] = ItemsOf(t[i])[j]
    OBVIOUS
  <2>1. /\ ss \in Seq(Seq(WireItem)) /\ Laid(o, ss, m)
        /\ i \in 1..Len(ss) /\ j \in 1..Len(ss[i]) /\ ss[i] = ItemsOf(t[i])
    BY <1>1
  <2>2. o[i - 1] + j \in 1..Len(m) /\ m[o[i - 1] + j] = ss[i][j]
    BY ONLY <2>1, FlatPlace
  <2> QED
    BY <2>1, <2>2
<1>5. \A i \in 1..Len(t) : o[i - 1] \in Nat /\ o[i] \in Nat /\ o[i] = o[i - 1] + Len(ItemsOf(t[i]))
  <2> SUFFICES ASSUME NEW i \in 1..Len(t)
               PROVE  o[i - 1] \in Nat /\ o[i] \in Nat /\ o[i] = o[i - 1] + Len(ItemsOf(t[i]))
    OBVIOUS
  <2>1. i \in 1..Len(ss) /\ i \in 0..Len(ss) /\ i - 1 \in 0..Len(ss) /\ ss[i] = ItemsOf(t[i])
    BY <1>1, <1>2
  <2> QED
    BY <1>1, <2>1 DEF Laid
<1>6. ASSUME NEW p \in 1..Len(m)
      PROVE  \E i \in 1..Len(t) : \E j \in 1..Len(ItemsOf(t[i])) : p = o[i - 1] + j /\ m[p] = ItemsOf(t[i])[j]
  <2>1. PICK i, j : Place(o, ss, m, p, i, j)
    BY <1>3
  <2> QED
    BY <1>1, <2>1 DEF Place
<1>7. ASSUME NEW i \in 1..Len(t), t[i].kind = "assistant"
      PROVE  /\ Piece(t[i]) = Ids(t[i]) /\ CallIds(t[i]) = Ids(t[i])
             /\ Len(Ids(t[i])) = Len(t[i].items) /\ Len(t[i].items) \in Nat
             /\ Len(ItemsOf(t[i])) = 1 + Len(t[i].items)
             /\ \A j \in 1..Len(t[i].items) : ItemsOf(t[i])[1 + j] = [type |-> "call", id |-> Piece(t[i])[j]]
  <2>1. t[i] \in Msg
    OBVIOUS
  <2>2. Piece(t[i]) = Ids(t[i]) /\ CallIds(t[i]) = Ids(t[i])
    BY <1>7 DEF Piece, CallIds
  <2>3. Len(Ids(t[i])) = Len(t[i].items) /\ Len(t[i].items) \in Nat
    BY <1>7, <2>1, IdsAre
  <2>4. /\ Len(ItemsOf(t[i])) = 1 + Len(CallIds(t[i]))
        /\ \A j \in 1..Len(CallIds(t[i])) :
             ItemsOf(t[i])[1 + j] = [type |-> "call", id |-> CallIds(t[i])[j]]
    BY <1>7, <2>1, ItemsOfIs
  <2> QED
    BY ONLY <2>2, <2>3, <2>4
<1>8. ASSUME NEW i \in 2..Len(t), t[i].kind = "results"
      PROVE  /\ Calling(t[i - 1]) /\ t[i - 1].kind = "assistant" /\ i - 1 \in 1..Len(t) /\ i \in 1..Len(t)
             /\ Len(ItemsOf(t[i])) = Len(t[i - 1].items) /\ Len(t[i - 1].items) \in Nat
             /\ \A j \in 1..Len(t[i - 1].items) : ItemsOf(t[i])[j] = [type |-> "output", id |-> Piece(t[i - 1])[j]]
  <2>1. t[i] \in Msg /\ i - 1 \in 1..Len(t) /\ i \in 1..Len(t)
    OBVIOUS
  <2>2. Calling(t[i - 1]) /\ Answers(t, i) /\ t[i - 1].kind = "assistant"
    BY <1>8, <2>1 DEF Paired, Calling
  <2>3. /\ Len(t[i].items) = Len(t[i - 1].items) /\ Len(t[i].items) \in Nat
        /\ \A j \in 1..Len(t[i].items) : t[i].items[j].id = Ids(t[i])[j]
        /\ Ids(t[i]) = Piece(t[i - 1])
    <3>1. Ids(t[i]) = Ids(t[i - 1]) /\ Piece(t[i - 1]) = Ids(t[i - 1])
      BY <2>2 DEF Answers, Piece
    <3> QED
      BY <2>2, <3>1, AnsweredBy
  <2>4. /\ Len(ItemsOf(t[i])) = Len(t[i].items)
        /\ \A j \in 1..Len(t[i].items) : ItemsOf(t[i])[j] = [type |-> "output", id |-> t[i].items[j].id]
    BY <1>8, <2>1, ItemsOfIs
  <2> QED
    BY ONLY <2>1, <2>2, <2>3, <2>4
<1>9. ASSUME NEW p \in 1..Len(m), m[p].type = "call"
      PROVE  \E i, j : CallAt(t, o, m, p, i, j)
  <2>1. PICK i \in 1..Len(t) : \E j \in 1..Len(ItemsOf(t[i])) : p = o[i - 1] + j /\ m[p] = ItemsOf(t[i])[j]
    BY <1>6
  <2>2. PICK k \in 1..Len(ItemsOf(t[i])) : p = o[i - 1] + k /\ m[p] = ItemsOf(t[i])[k]
    BY <2>1
  <2>3. t[i] \in Msg
    OBVIOUS
  <2>4. t[i].kind # "results"
    <3> SUFFICES ASSUME t[i].kind = "results" PROVE FALSE
      OBVIOUS
    <3>1. m[p].type = "output"
      <4>1. /\ Len(ItemsOf(t[i])) = Len(t[i].items)
            /\ \A j \in 1..Len(t[i].items) : ItemsOf(t[i])[j] = [type |-> "output", id |-> t[i].items[j].id]
        BY <2>3, ItemsOfIs
      <4>2. ItemsOf(t[i])[k] = [type |-> "output", id |-> t[i].items[k].id]
        BY ONLY <4>1, k \in 1..Len(ItemsOf(t[i]))
      <4> QED
        BY <2>2, <4>2
    <3> QED
      BY <1>9, <3>1
  <2>5. /\ Len(ItemsOf(t[i])) = 1 + Len(CallIds(t[i])) /\ ItemsOf(t[i])[1].type = "message"
        /\ CallIds(t[i]) \in Seq(Id)
    BY <2>3, <2>4, ItemsOfIs
  <2>6. k # 1
    BY <1>9, <2>2, <2>5
  <2>7. Len(CallIds(t[i])) \in Nat /\ k - 1 \in 1..Len(CallIds(t[i])) /\ k = 1 + (k - 1)
    <3>1. Len(CallIds(t[i])) \in Nat
      BY <2>5
    <3> QED
      BY ONLY <3>1, <2>5, <2>6, k \in 1..Len(ItemsOf(t[i]))
  <2>8. t[i].kind = "assistant"
    <3> SUFFICES ASSUME t[i].kind # "assistant" PROVE FALSE
      OBVIOUS
    <3>1. Len(CallIds(t[i])) = 0
      BY DEF CallIds
    <3> QED
      BY <2>7, <3>1
  <2> DEFINE j == k - 1
  <2>9. j \in 1..Len(t[i].items) /\ k = 1 + j
    BY <1>7, <2>7, <2>8
  <2> HIDE DEF j
  <2>10. ItemsOf(t[i])[1 + j] = [type |-> "call", id |-> Piece(t[i])[j]]
    BY <1>7, <2>8, <2>9
  <2>11. CallAt(t, o, m, p, i, j)
    BY <2>2, <2>8, <2>9, <2>10 DEF CallAt
  <2> QED
    BY <2>11
<1>10. ASSUME NEW p \in 1..Len(m), m[p].type = "output"
       PROVE  \E i, j : OutputAt(t, o, m, p, i, j)
  <2>1. PICK i \in 1..Len(t) : \E j \in 1..Len(ItemsOf(t[i])) : p = o[i - 1] + j /\ m[p] = ItemsOf(t[i])[j]
    BY <1>6
  <2>2. PICK k \in 1..Len(ItemsOf(t[i])) : p = o[i - 1] + k /\ m[p] = ItemsOf(t[i])[k]
    BY <2>1
  <2>3. t[i] \in Msg
    OBVIOUS
  <2>4. t[i].kind = "results"
    <3> SUFFICES ASSUME t[i].kind # "results" PROVE FALSE
      OBVIOUS
    <3>1. /\ Len(ItemsOf(t[i])) = 1 + Len(CallIds(t[i])) /\ ItemsOf(t[i])[1].type = "message"
          /\ \A j \in 1..Len(CallIds(t[i])) : ItemsOf(t[i])[1 + j] = [type |-> "call", id |-> CallIds(t[i])[j]]
          /\ CallIds(t[i]) \in Seq(Id)
      BY <2>3, ItemsOfIs
    <3>2. CASE k = 1
      BY <1>10, <2>2, <3>1, <3>2
    <3>3. CASE k # 1
      <4>1. Len(CallIds(t[i])) \in Nat
        BY <3>1
      <4>2. k - 1 \in 1..Len(CallIds(t[i])) /\ 1 + (k - 1) = k
        BY ONLY <3>1, <3>3, <4>1, k \in 1..Len(ItemsOf(t[i]))
      <4>3. ItemsOf(t[i])[1 + (k - 1)] = [type |-> "call", id |-> CallIds(t[i])[k - 1]]
        BY <3>1, <4>2
      <4>4. m[p].type = "call"
        BY <2>2, <4>2, <4>3
      <4> QED
        BY <1>10, <4>4
    <3> QED
      BY <3>2, <3>3
  <2>5. i \in 2..Len(t)
    <3>1. i > 1
      BY <2>4 DEF Paired
    <3> QED
      BY <3>1, <1>2
  <2>6. /\ t[i - 1].kind = "assistant" /\ Len(ItemsOf(t[i])) = Len(t[i - 1].items)
        /\ \A j \in 1..Len(t[i - 1].items) : ItemsOf(t[i])[j] = [type |-> "output", id |-> Piece(t[i - 1])[j]]
    BY <1>8, <2>4, <2>5
  <2>7. OutputAt(t, o, m, p, i, k)
    BY <2>2, <2>5, <2>6 DEF OutputAt
  <2> QED
    BY <2>7
<1>11. ASSUME NEW p, NEW i, NEW j, CallAt(t, o, m, p, i, j)
       PROVE  \E q : q > p /\ OutputAt(t, o, m, q, i + 1, j)
  <2>1. i \in 1..Len(t) /\ t[i].kind = "assistant" /\ j \in 1..Len(t[i].items) /\ p = o[i - 1] + (1 + j)
    BY <1>11 DEF CallAt
  <2>2. Calling(t[i])
    <3>1. t[i].items # <<>>
      BY <2>1
    <3> QED
      BY <2>1, <3>1 DEF Calling
  <2>3. Answers(t, i + 1)
    BY <2>1, <2>2 DEF Paired
  <2>4. i + 1 \in 2..Len(t) /\ t[i + 1].kind = "results"
    BY <1>2, <2>1, <2>3 DEF Answers
  <2> DEFINE k == i + 1
             q == o[i] + j
  <2>5. k - 1 = i /\ k \in 2..Len(t) /\ t[k].kind = "results"
    BY <2>1, <2>4
  <2> HIDE DEF k
  <2>6. /\ Len(ItemsOf(t[k])) = Len(t[i].items) /\ k \in 1..Len(t)
        /\ \A l \in 1..Len(t[i].items) : ItemsOf(t[k])[l] = [type |-> "output", id |-> Piece(t[i])[l]]
    BY <1>8, <2>5
  <2>7. q \in 1..Len(m) /\ m[q] = ItemsOf(t[k])[j]
    <3>1. j \in 1..Len(ItemsOf(t[k]))
      BY <2>1, <2>6
    <3>2. o[k - 1] + j \in 1..Len(m) /\ m[o[k - 1] + j] = ItemsOf(t[k])[j]
      BY <1>4, <2>6, <3>1
    <3> QED
      BY <2>5, <3>2
  <2>8. q > p
    <3>1. o[i] = o[i - 1] + (1 + Len(t[i].items)) /\ o[i - 1] \in Nat /\ Len(t[i].items) \in Nat
      BY <1>5, <1>7, <2>1
    <3>2. j \in Nat /\ 1 <= j /\ j <= Len(t[i].items)
      BY <2>1, <3>1
    <3> QED
      BY ONLY <2>1, <3>1, <3>2
  <2> HIDE DEF q
  <2>9. q = o[k - 1] + j
    BY <2>5 DEF q
  <2>10. OutputAt(t, o, m, q, k, j)
    BY <2>1, <2>5, <2>6, <2>7, <2>9 DEF OutputAt
  <2> QED
    BY <2>8, <2>10 DEF k
<1>12. ASSUME NEW p, NEW i, NEW j, OutputAt(t, o, m, p, i, j)
       PROVE  \E q : CallAt(t, o, m, q, i - 1, j)
  <2>1. i \in 2..Len(t) /\ t[i - 1].kind = "assistant" /\ j \in 1..Len(t[i - 1].items)
    BY <1>12 DEF OutputAt
  <2> DEFINE k == i - 1
             q == o[k - 1] + (1 + j)
  <2>2. k \in 1..Len(t) /\ t[k].kind = "assistant" /\ j \in 1..Len(t[k].items)
    BY <2>1
  <2> HIDE DEF k
  <2>3. 1 + j \in 1..Len(ItemsOf(t[k])) /\ ItemsOf(t[k])[1 + j] = [type |-> "call", id |-> Piece(t[k])[j]]
    BY <1>7, <2>2
  <2>4. q \in 1..Len(m) /\ m[q] = ItemsOf(t[k])[1 + j]
    BY <1>4, <2>2, <2>3
  <2>5. CallAt(t, o, m, q, k, j)
    BY <2>2, <2>3, <2>4 DEF CallAt
  <2> QED
    BY <2>5 DEF k
<1> QED
  BY <1>9, <1>10, <1>11, <1>12 DEF m

\* The Responses API takes a conversation whose calls are paired and in order.
LEMMA ResponsesTake ==
  ASSUME NEW t \in Seq(Msg), Paired(t, FALSE), InOrder(t)
  PROVE  ResponsesAccept(Items(t))
<1> DEFINE m == Items(t)
           at(type, id) == {i \in DOMAIN m : m[i].type = type /\ m[i].id = id}
<1>1. PICK o :
    /\ \A p \in 1..Len(m) : m[p].type = "call" => \E i, j : CallAt(t, o, m, p, i, j)
    /\ \A p \in 1..Len(m) : m[p].type = "output" => \E i, j : OutputAt(t, o, m, p, i, j)
    /\ \A p, i, j : CallAt(t, o, m, p, i, j) =>
         \E q : q > p /\ OutputAt(t, o, m, q, i + 1, j)
    /\ \A p, i, j : OutputAt(t, o, m, p, i, j) => \E q : CallAt(t, o, m, q, i - 1, j)
  BY ItemsStand
<1>2. DOMAIN m = 1..Len(m)
  <2>1. m \in Seq(WireItem)
    BY ItemsLaid
  <2> QED
    BY <2>1
<1> HIDE DEF m
<1>3. ASSUME NEW i \in 1..Len(t), NEW k \in 1..Len(t), t[i].kind = "assistant", t[k].kind = "assistant",
             NEW j \in 1..Len(t[i].items), NEW l \in 1..Len(t[k].items), Piece(t[i])[j] = Piece(t[k])[l]
      PROVE  i = k /\ j = l
  <2>1. t[i] \in Msg /\ t[k] \in Msg
    OBVIOUS
  <2>2. Len(Piece(t[i])) = Len(t[i].items) /\ Len(Piece(t[k])) = Len(t[k].items)
    BY <1>3, <2>1, IdsAre DEF Piece
  <2>3. j \in 1..Len(Piece(t[i])) /\ l \in 1..Len(Piece(t[k]))
    BY <2>2
  <2> QED
    BY <1>3, <2>3, OnePlace
<1>4. ASSUME NEW p \in 1..Len(m), m[p].type = "call"
      PROVE  \E q \in DOMAIN m : q > p /\ at("output", m[p].id) = {q}
  <2>1. PICK i, j : CallAt(t, o, m, p, i, j)
    BY <1>1, <1>4
  <2>2. PICK q : q > p /\ OutputAt(t, o, m, q, i + 1, j)
    BY <1>1, <2>1
  <2>3. /\ i \in 1..Len(t) /\ t[i].kind = "assistant" /\ j \in 1..Len(t[i].items)
        /\ m[p].id = Piece(t[i])[j]
    BY <2>1 DEF CallAt
  <2>4. i \in Int /\ (i + 1) - 1 = i
    BY <2>3
  <2>5. q \in 1..Len(m) /\ m[q].type = "output" /\ m[q].id = m[p].id /\ q = o[i] + j
    BY <2>2, <2>3, <2>4 DEF OutputAt
  <2>6. ASSUME NEW x \in 1..Len(m), m[x].type = "output", m[x].id = m[p].id
        PROVE  x = q
    <3>1. PICK k, l : OutputAt(t, o, m, x, k, l)
      BY <1>1, <2>6
    <3>2. /\ k \in 2..Len(t) /\ t[k - 1].kind = "assistant" /\ l \in 1..Len(t[k - 1].items)
          /\ m[x].id = Piece(t[k - 1])[l] /\ x = o[k - 1] + l
      BY <3>1 DEF OutputAt
    <3>3. k - 1 \in 1..Len(t)
      BY <3>2
    <3>4. k - 1 = i /\ l = j
      <4> DEFINE n == k - 1
      <4>1. Piece(t[n])[l] = Piece(t[i])[j]
        BY ONLY <2>3, <2>6, <3>2
      <4>2. n \in 1..Len(t) /\ t[n].kind = "assistant" /\ l \in 1..Len(t[n].items)
        BY ONLY <3>2, <3>3
      <4> HIDE DEF n
      <4>3. i = n /\ j = l
        BY ONLY <1>3, <2>3, <4>1, <4>2
      <4> QED
        BY ONLY <4>3 DEF n
    <3> QED
      BY <2>5, <3>2, <3>4
  <2>7. at("output", m[p].id) = {q}
    BY <1>2, <2>5, <2>6
  <2> QED
    BY <1>2, <2>2, <2>5, <2>7
<1>5. ASSUME NEW p \in 1..Len(m), m[p].type = "output"
      PROVE  Cardinality(at("call", m[p].id)) = 1
  <2>1. PICK i, j : OutputAt(t, o, m, p, i, j)
    BY <1>1, <1>5
  <2>2. PICK q : CallAt(t, o, m, q, i - 1, j)
    BY <1>1, <2>1
  <2>3. /\ i \in 2..Len(t) /\ t[i - 1].kind = "assistant" /\ j \in 1..Len(t[i - 1].items)
        /\ m[p].id = Piece(t[i - 1])[j]
    BY <2>1 DEF OutputAt
  <2>4. i - 1 \in 1..Len(t)
    BY <2>3
  <2>5. q \in 1..Len(m) /\ m[q].type = "call" /\ m[q].id = m[p].id /\ q = o[(i - 1) - 1] + (1 + j)
    BY <2>2, <2>3 DEF CallAt
  <2>6. ASSUME NEW x \in 1..Len(m), m[x].type = "call", m[x].id = m[p].id
        PROVE  x = q
    <3>1. PICK k, l : CallAt(t, o, m, x, k, l)
      BY <1>1, <2>6
    <3>2. /\ k \in 1..Len(t) /\ t[k].kind = "assistant" /\ l \in 1..Len(t[k].items)
          /\ m[x].id = Piece(t[k])[l] /\ x = o[k - 1] + (1 + l)
      BY <3>1 DEF CallAt
    <3> DEFINE n == i - 1
    <3>3. /\ n \in 1..Len(t) /\ t[n].kind = "assistant" /\ j \in 1..Len(t[n].items)
          /\ Piece(t[k])[l] = Piece(t[n])[j]
      BY <2>3, <2>4, <2>6, <3>2
    <3> HIDE DEF n
    <3>4. k = n /\ l = j
      BY ONLY <1>3, <3>2, <3>3
    <3> QED
      BY <2>5, <3>2, <3>4 DEF n
  <2>7. at("call", m[p].id) = {q}
    BY <1>2, <2>5, <2>6
  <2> QED
    BY <2>7, FS_Singleton
<1> QED
  BY <1>2, <1>4, <1>5 DEF ResponsesAccept, m

\* Every provider takes it.
LEMMA AllTake ==
  ASSUME NEW t \in Seq(Msg), Paired(t, FALSE), InOrder(t)
  PROVE  Accepted(t)
  BY AnthropicTakes, ChatTakes, ResponsesTake DEF Accepted

-----------------------------------------------------------------------------
(* Compaction: where it cuts, and what stands in front of the cut *)

\* Of a finite set of numbers, the one with k of them from it on.
LEMMA KthLast ==
  ASSUME NEW n \in Nat, NEW T \in SUBSET (1..n), NEW k \in Nat \ {0}, k <= Cardinality(T)
  PROVE  \E i \in T : Cardinality({j \in T : i <= j}) = k
<1> DEFINE up(i) == {j \in T : i <= j}
           G == {i \in T : k <= Cardinality(up(i))}
<1>1. IsFiniteSet(T)
  <2>1. IsFiniteSet(1..n)
    BY FS_Interval
  <2> QED
    BY <2>1, FS_Subset
<1>2. \A i \in T : IsFiniteSet(up(i)) /\ Cardinality(up(i)) \in Nat
  <2>1. \A i \in T : IsFiniteSet(up(i))
    BY <1>1, FS_Subset
  <2> QED
    BY <2>1, FS_CardinalityType
<1>3. T \subseteq Nat
  OBVIOUS
<1>4. G # {}
  <2>1. T # {}
    BY FS_EmptySet
  <2>2. PICK m \in T : \A j \in T : m <= j
    BY <1>3, <2>1, Least
  <2>3. up(m) = T
    BY <2>2
  <2> QED
    BY <2>2, <2>3
<1>5. PICK i \in G : \A j \in G : j <= i
  <2> DEFINE D == {n - j : j \in G}
  <2>1. D \subseteq Nat /\ D # {}
    <3>1. \A j \in 1..n : n - j \in Nat
      OBVIOUS
    <3>2. G \subseteq 1..n
      OBVIOUS
    <3> HIDE DEF G
    <3> QED
      BY <1>4, <3>1, <3>2
  <2>2. PICK d \in D : \A e \in D : d <= e
    BY <2>1, Least
  <2>3. PICK i \in G : d = n - i
    BY <2>2
  <2>4. \A j \in G : n - i <= n - j
    BY <2>2, <2>3
  <2> QED
    BY <2>3, <2>4
<1>6. ASSUME Cardinality(up(i)) > k
      PROVE  FALSE
  <2> DEFINE U == up(i) \ {i}
  <2>1. i \in up(i) /\ i \in T /\ i \in Nat
    BY <1>3, <1>5
  <2>2. IsFiniteSet(U) /\ Cardinality(U) = Cardinality(up(i)) - 1
    BY <1>2, <2>1, FS_RemoveElement
  <2>3. Cardinality(U) >= k
    BY <1>2, <1>6, <2>1, <2>2
  <2>4. U # {} /\ U \subseteq Nat
    <3>1. U \subseteq Nat
      BY <1>3
    <3> HIDE DEF U
    <3>2. Cardinality({}) = 0 /\ k > 0
      BY FS_EmptySet
    <3> QED
      BY <2>3, <3>1, <3>2
  <2>5. PICK m \in U : \A j \in U : m <= j
    BY <2>4, Least
  <2>6. m \in T /\ m > i /\ m \in Nat
    BY <1>3, <2>1, <2>5
  <2>7. up(m) = U
    <3>1. \A j \in T : m <= j => j \in U
      BY <1>3, <2>1, <2>6
    <3>2. \A j \in U : j \in T /\ m <= j
      BY <2>5
    <3> HIDE DEF U
    <3> QED
      BY <3>1, <3>2
  <2>8. m \in G
    BY <2>3, <2>6, <2>7
  <2> QED
    BY <1>5, <2>1, <2>6, <2>8
<1>7. Cardinality(up(i)) = k
  BY <1>2, <1>5, <1>6
<1> QED
  BY <1>5, <1>7

\* Where compaction cuts: at a turn, or behind the last message if no turn is kept.
LEMMA PivotIs ==
  ASSUME NEW t \in Seq(Msg)
  PROVE  \/ Pivot(t) = 2
         \/ Pivot(t) \in Turns(t)
         \/ KeepLast = 0 /\ Pivot(t) = Len(t) + 1
<1>1. Len(t) \in Nat /\ Turns(t) \in SUBSET (1..Len(t))
  BY DEF Turns
<1>2. CASE KeepLast = 0
  BY <1>2 DEF Pivot
<1>3. CASE KeepLast # 0 /\ Cardinality(Turns(t)) < KeepLast
  BY <1>3 DEF Pivot
<1>4. CASE KeepLast # 0 /\ ~(Cardinality(Turns(t)) < KeepLast)
  <2>1. Cardinality(Turns(t)) \in Nat /\ KeepLast \in Nat
    <3>1. IsFiniteSet(1..Len(t))
      BY <1>1, FS_Interval
    <3>2. IsFiniteSet(Turns(t))
      BY <1>1, <3>1, FS_Subset
    <3> QED
      BY <3>2, FS_CardinalityType, ConversationAssumption
  <2> DEFINE T == Turns(t)
             n == Len(t)
  <2>2. \E i \in Turns(t) : Cardinality({j \in Turns(t) : i <= j}) = KeepLast
    <3>1. n \in Nat /\ T \in SUBSET (1..n) /\ KeepLast \in Nat \ {0} /\ KeepLast <= Cardinality(T)
      BY <1>1, <1>4, <2>1
    <3> HIDE DEF T, n
    <3>2. \E i \in T : Cardinality({j \in T : i <= j}) = KeepLast
      BY ONLY <3>1, KthLast
    <3> QED
      BY <3>2 DEF T
  <2>3. Pivot(t) = CHOOSE i \in Turns(t) : Cardinality({j \in Turns(t) : i <= j}) = KeepLast
    BY <1>4 DEF Pivot
  <2> QED
    BY <2>2, <2>3
<1> QED
  BY <1>2, <1>3, <1>4

\* A place of a concatenation is a place of one of its parts.
LEMMA Halves ==
  ASSUME NEW S, NEW a \in Seq(S), NEW b \in Seq(S), NEW i \in 1..Len(a \o b)
  PROVE  \/ i \in 1..Len(a) /\ (a \o b)[i] = a[i]
         \/ i - Len(a) \in 1..Len(b) /\ (a \o b)[i] = b[i - Len(a)] /\ i > Len(a)
<1>1. /\ Len(a \o b) = Len(a) + Len(b) /\ Len(a) \in Nat /\ Len(b) \in Nat
      /\ \A n \in 1..Len(a) : (a \o b)[n] = a[n]
      /\ \A j \in 1..Len(b) : (a \o b)[Len(a) + j] = b[j]
  BY ConcatAt
<1>2. CASE i <= Len(a)
  BY <1>1, <1>2
<1>3. CASE ~(i <= Len(a))
  <2> DEFINE j == i - Len(a)
  <2>1. j \in 1..Len(b) /\ i = Len(a) + j /\ i > Len(a)
    BY <1>1, <1>3
  <2> HIDE DEF j
  <2>2. (a \o b)[i] = b[j]
    BY <1>1, <2>1
  <2> QED
    BY <2>1, <2>2 DEF j
<1> QED
  BY <1>2, <1>3

\* What each part holds in its order, the whole holds in its order.
LEMMA JoinOrder ==
  ASSUME NEW a \in Seq(Msg), NEW b \in Seq(Msg), InOrder(a), InOrder(b),
         \A x \in IdsIn(a), y \in IdsIn(b) : Before(x, y)
  PROVE  a \o b \in Seq(Msg) /\ InOrder(a \o b) /\ IdsIn(a \o b) = IdsIn(a) \cup IdsIn(b)
<1> DEFINE c == a \o b
<1>1. /\ c \in Seq(Msg) /\ Len(c) = Len(a) + Len(b) /\ Len(a) \in Nat /\ Len(b) \in Nat
      /\ \A i \in 1..Len(a) : c[i] = a[i]
      /\ \A j \in 1..Len(b) : c[Len(a) + j] = b[j]
  BY ConcatAt
<1>2. \A i \in 1..Len(c) :
         \/ i \in 1..Len(a) /\ c[i] = a[i]
         \/ i - Len(a) \in 1..Len(b) /\ c[i] = b[i - Len(a)] /\ i > Len(a)
  BY Halves
<1>3. DOMAIN a = 1..Len(a) /\ DOMAIN b = 1..Len(b) /\ DOMAIN c = 1..Len(c)
  <2>1. c \in Seq(Msg)
    BY <1>1
  <2> HIDE DEF c
  <2> QED
    BY <2>1
<1> HIDE DEF c
<1>4. \A i \in 1..Len(a) : ToSet(Piece(a[i])) \subseteq IdsIn(a)
  BY <1>3 DEF IdsIn
<1>5. \A i \in 1..Len(b) : ToSet(Piece(b[i])) \subseteq IdsIn(b)
  BY <1>3 DEF IdsIn
<1>6. IdsIn(c) = IdsIn(a) \cup IdsIn(b)
  <2>1. \A x \in IdsIn(c) : x \in IdsIn(a) \cup IdsIn(b)
    <3> SUFFICES ASSUME NEW x \in IdsIn(c) PROVE x \in IdsIn(a) \cup IdsIn(b)
      OBVIOUS
    <3>1. PICK i \in 1..Len(c) : x \in ToSet(Piece(c[i]))
      BY <1>3 DEF IdsIn
    <3> QED
      BY <1>2, <1>4, <1>5, <3>1
  <2>2. \A x \in IdsIn(a) : x \in IdsIn(c)
    <3> SUFFICES ASSUME NEW x \in IdsIn(a) PROVE x \in IdsIn(c)
      OBVIOUS
    <3>1. PICK i \in 1..Len(a) : x \in ToSet(Piece(a[i]))
      BY <1>3 DEF IdsIn
    <3>2. i \in 1..Len(c) /\ c[i] = a[i]
      BY <1>1, <3>1
    <3> QED
      BY <1>3, <3>1, <3>2 DEF IdsIn
  <2>3. \A x \in IdsIn(b) : x \in IdsIn(c)
    <3> SUFFICES ASSUME NEW x \in IdsIn(b) PROVE x \in IdsIn(c)
      OBVIOUS
    <3>1. PICK i \in 1..Len(b) : x \in ToSet(Piece(b[i]))
      BY <1>3 DEF IdsIn
    <3> DEFINE k == Len(a) + i
    <3>2. k \in 1..Len(c) /\ c[k] = b[i]
      BY <1>1, <3>1
    <3> HIDE DEF k
    <3> QED
      BY <1>3, <3>1, <3>2 DEF IdsIn
  <2> QED
    BY <2>1, <2>2, <2>3
<1>7. InOrder(c)
  <2>1. \A i \in 1..Len(c) : Increasing(Piece(c[i]))
    BY <1>2 DEF InOrder
  <2>2. ASSUME NEW i \in 1..Len(c), NEW k \in 1..Len(c), i < k,
               NEW x \in ToSet(Piece(c[i])), NEW y \in ToSet(Piece(c[k]))
        PROVE  Before(x, y)
    <3>1. CASE i \in 1..Len(a) /\ c[i] = a[i] /\ k \in 1..Len(a) /\ c[k] = a[k]
      BY <2>2, <3>1 DEF InOrder
    <3>2. CASE i \in 1..Len(a) /\ c[i] = a[i] /\ k - Len(a) \in 1..Len(b) /\ c[k] = b[k - Len(a)]
      BY <1>4, <1>5, <2>2, <3>2
    <3>3. CASE /\ i - Len(a) \in 1..Len(b) /\ c[i] = b[i - Len(a)] /\ i > Len(a)
               /\ k - Len(a) \in 1..Len(b) /\ c[k] = b[k - Len(a)]
      <4> DEFINE m == i - Len(a)
                 n == k - Len(a)
      <4>1. m \in 1..Len(b) /\ n \in 1..Len(b) /\ m < n /\ x \in ToSet(Piece(b[m])) /\ y \in ToSet(Piece(b[n]))
        BY <1>1, <2>2, <3>3
      <4> HIDE DEF m, n
      <4> QED
        BY <4>1 DEF InOrder
    <3>4. ~(i > Len(a) /\ k \in 1..Len(a))
      BY <1>1, <2>2
    <3> QED
      BY <1>2, <3>1, <3>2, <3>3, <3>4
  <2> QED
    BY <2>1, <2>2 DEF InOrder
<1> QED
  BY <1>1, <1>6, <1>7 DEF c

\* What is held of a conversation's messages.
LEMMA IdsInside ==
  ASSUME NEW t \in Seq(Msg)
  PROVE  /\ \A x : x \in IdsIn(t) <=> \E i \in 1..Len(t) : x \in ToSet(Piece(t[i]))
         /\ IdsIn(t) \subseteq Id
<1>1. DOMAIN t = 1..Len(t)
  OBVIOUS
<1>2. \A x : x \in IdsIn(t) <=> \E i \in 1..Len(t) : x \in ToSet(Piece(t[i]))
  BY <1>1 DEF IdsIn
<1>3. \A i \in 1..Len(t) : ToSet(Piece(t[i])) \subseteq Id
  BY PieceIs DEF ToSet
<1> QED
  BY <1>2, <1>3

\* Picking messages keeps their order.
LEMMA AmongOrder ==
  ASSUME NEW t \in Seq(Msg), InOrder(t), NEW set
  PROVE  /\ Among(t, set) \in Seq(Msg) /\ InOrder(Among(t, set))
         /\ \A p \in 1..Len(Among(t, set)) :
              Among(t, set)[p] \in set /\ \E i \in 1..Len(t) : Among(t, set)[p] = t[i]
         /\ \A i \in 1..Len(t) : t[i] \in set => \E p \in 1..Len(Among(t, set)) : Among(t, set)[p] = t[i]
<1> DEFINE r == Among(t, set)
<1>1. r \in Seq(Msg)
  BY AmongIs
<1>2. PICK g : Picks(g, r, t, set)
  BY AmongIs
<1> HIDE DEF r
<1>3. \A p \in 1..Len(r) : g[p] \in 1..Len(t) /\ r[p] = t[g[p]] /\ r[p] \in set
  BY <1>2 DEF Picks
<1>4. InOrder(r)
  <2>1. \A p \in 1..Len(r) : Increasing(Piece(r[p]))
    BY <1>3 DEF InOrder
  <2>2. \A p, q \in 1..Len(r) : p < q => g[p] < g[q]
    BY <1>2 DEF Picks
  <2>3. \A p, q \in 1..Len(r) : p < q =>
           \A a \in ToSet(Piece(r[p])), b \in ToSet(Piece(r[q])) : Before(a, b)
    BY <1>3, <2>2 DEF InOrder
  <2> QED
    BY <2>1, <2>3 DEF InOrder
<1>5. \A i \in 1..Len(t) : t[i] \in set => \E p \in 1..Len(r) : r[p] = t[i]
  <2> SUFFICES ASSUME NEW i \in 1..Len(t), t[i] \in set PROVE \E p \in 1..Len(r) : r[p] = t[i]
    OBVIOUS
  <2>1. PICK p \in 1..Len(r) : g[p] = i
    BY <1>2 DEF Picks
  <2> QED
    BY <1>3, <2>1
<1> QED
  BY <1>1, <1>3, <1>4, <1>5 DEF r

\* So does a piece of the conversation.
LEMMA CutOrder ==
  ASSUME NEW t \in Seq(Msg), InOrder(t), NEW m \in Nat, NEW n \in Nat, 1 <= m, m <= n + 1, n <= Len(t)
  PROVE  /\ SubSeq(t, m, n) \in Seq(Msg) /\ Len(SubSeq(t, m, n)) = (n + 1) - m
         /\ \A i \in 1..Len(SubSeq(t, m, n)) :
              (m - 1) + i \in m..n /\ (m - 1) + i \in 1..Len(t) /\ SubSeq(t, m, n)[i] = t[(m - 1) + i]
         /\ \A k \in m..n : k - (m - 1) \in 1..Len(SubSeq(t, m, n))
                            /\ SubSeq(t, m, n)[k - (m - 1)] = t[k] /\ k \in 1..Len(t)
         /\ InOrder(SubSeq(t, m, n))
<1> DEFINE s == SubSeq(t, m, n)
           z == m - 1
<1>0. Len(t) \in Nat /\ z \in Nat /\ m = z + 1
  OBVIOUS
<1>1. s = [i \in 1..(n + 1) - m |-> t[(i + m) - 1]]
  OBVIOUS
<1>2. (n + 1) - m \in Nat /\ \A i \in 1..(n + 1) - m : (i + m) - 1 \in 1..Len(t) /\ (i + m) - 1 = z + i /\ z + i \in m..n
  OBVIOUS
<1>3. s \in [1..(n + 1) - m -> Msg]
  BY <1>1, <1>2
<1>4. s \in Seq(Msg) /\ Len(s) = (n + 1) - m
  <2> DEFINE w == (n + 1) - m
  <2>1. w \in Nat /\ s \in [1..w -> Msg]
    BY <1>2, <1>3
  <2> HIDE DEF w, s
  <2>2. s \in Seq(Msg) /\ DOMAIN s = 1..w
    BY ONLY <2>1, IsASeq
  <2>3. Len(s) = w
    BY ONLY <2>1, <2>2, LenProperties
  <2> QED
    BY <2>2, <2>3 DEF w
<1>5. \A i \in 1..Len(s) : z + i \in m..n /\ z + i \in 1..Len(t) /\ s[i] = t[z + i]
  BY <1>1, <1>2, <1>4
<1>6. \A k \in m..n : k - z \in 1..Len(s) /\ s[k - z] = t[k] /\ k \in 1..Len(t)
  <2> SUFFICES ASSUME NEW k \in m..n PROVE k - z \in 1..Len(s) /\ s[k - z] = t[k] /\ k \in 1..Len(t)
    OBVIOUS
  <2> DEFINE i == k - z
  <2>1. i \in 1..Len(s) /\ z + i = k /\ k \in 1..Len(t)
    BY <1>0, <1>4
  <2> HIDE DEF i, s
  <2>2. s[i] = t[k]
    BY <1>5, <2>1
  <2> QED
    BY <2>1, <2>2 DEF i
<1> HIDE DEF s, z
<1>7. \A i \in 1..Len(s) : Increasing(Piece(s[i]))
  BY <1>5 DEF InOrder
<1>8. ASSUME NEW i \in 1..Len(s), NEW k \in 1..Len(s), i < k,
             NEW a \in ToSet(Piece(s[i])), NEW b \in ToSet(Piece(s[k]))
      PROVE  Before(a, b)
  <2> DEFINE x == z + i
             y == z + k
  <2>1. x \in 1..Len(t) /\ y \in 1..Len(t) /\ x < y /\ s[i] = t[x] /\ s[k] = t[y]
    BY <1>0, <1>5, <1>8
  <2> HIDE DEF x, y
  <2> QED
    BY <1>8, <2>1 DEF InOrder
<1>9. InOrder(s)
  BY <1>7, <1>8 DEF InOrder
<1> QED
  BY <1>4, <1>5, <1>6, <1>9 DEF s, z

-----------------------------------------------------------------------------
\* c is the call j of message i.
CallOf(t, c, i, j) ==
    i \in 1..Len(t) /\ t[i].kind = "assistant" /\ j \in 1..Len(t[i].items) /\ c = t[i].items[j]

\* The calls of a conversation, in the order of their ids.
LEMMA CallsAre ==
  ASSUME NEW t \in Seq(Msg), InOrder(t)
  PROVE  /\ CallsOf(t) \in Seq(ACall)
         /\ \A p \in 1..Len(CallsOf(t)) : \E i, j : CallOf(t, CallsOf(t)[p], i, j)
         /\ \A p, q \in 1..Len(CallsOf(t)) : p < q => Before(CallsOf(t)[p].id, CallsOf(t)[q].id)
         /\ \A c, i, j : CallOf(t, c, i, j) => \E p \in 1..Len(CallsOf(t)) : CallsOf(t)[p] = c
<1> DEFINE ss == [i \in DOMAIN t |-> IF t[i].kind = "assistant" THEN t[i].items ELSE <<>>]
           r  == FlattenSeq(ss)
<1>1. /\ ss \in Seq(Seq(ACall)) /\ Len(ss) = Len(t) /\ Len(t) \in Nat
      /\ \A i \in 1..Len(t) : ss[i] = IF t[i].kind = "assistant" THEN t[i].items ELSE <<>>
  <2>1. DOMAIN t = 1..Len(t) /\ Len(t) \in Nat
    OBVIOUS
  <2>2. \A i \in 1..Len(t) : (IF t[i].kind = "assistant" THEN t[i].items ELSE <<>>) \in Seq(ACall)
    BY MsgIs
  <2>3. ss \in [1..Len(t) -> Seq(ACall)]
    BY <2>1, <2>2
  <2> QED
    BY <2>1, <2>3, IsASeq
<1>2. CallsOf(t) = r
  BY DEF CallsOf
<1> HIDE DEF ss
<1>3. r \in Seq(ACall)
  BY <1>1, FlatFrom
<1>4. PICK g, h : Traces(g, h, ss, r)
  BY <1>1, FlatFrom
<1> HIDE DEF r
<1>5. \A p \in 1..Len(r) : CallOf(t, r[p], g[p], h[p])
  <2> SUFFICES ASSUME NEW p \in 1..Len(r) PROVE CallOf(t, r[p], g[p], h[p])
    OBVIOUS
  <2>1. g[p] \in 1..Len(t) /\ h[p] \in 1..Len(ss[g[p]]) /\ r[p] = ss[g[p]][h[p]]
    BY <1>1, <1>4 DEF Traces
  <2>2. t[g[p]].kind = "assistant"
    <3> SUFFICES ASSUME t[g[p]].kind # "assistant" PROVE FALSE
      OBVIOUS
    <3>1. ss[g[p]] = <<>>
      BY <1>1, <2>1
    <3> QED
      BY <2>1, <3>1
  <2> QED
    BY <1>1, <2>1, <2>2 DEF CallOf
<1>6. ASSUME NEW p \in 1..Len(r), NEW q \in 1..Len(r), p < q
      PROVE  Before(r[p].id, r[q].id)
  <2>1. CallOf(t, r[p], g[p], h[p]) /\ CallOf(t, r[q], g[q], h[q])
    BY <1>5
  <2>2. /\ t[g[p]] \in Msg /\ t[g[p]].kind = "assistant" /\ t[g[q]] \in Msg /\ t[g[q]].kind = "assistant"
        /\ g[p] \in 1..Len(t) /\ g[q] \in 1..Len(t)
    BY <2>1 DEF CallOf
  <2>3. /\ Piece(t[g[p]]) \in Seq(Id) /\ h[p] \in 1..Len(Piece(t[g[p]])) /\ Piece(t[g[p]])[h[p]] = r[p].id
        /\ Piece(t[g[q]]) \in Seq(Id) /\ h[q] \in 1..Len(Piece(t[g[q]])) /\ Piece(t[g[q]])[h[q]] = r[q].id
    BY <2>1, <2>2, IdsAre DEF CallOf, Piece
  <2>4. g[p] < g[q] \/ (g[p] = g[q] /\ h[p] < h[q])
    BY <1>4, <1>6 DEF Traces
  <2>5. CASE g[p] < g[q]
    <3>1. r[p].id \in ToSet(Piece(t[g[p]])) /\ r[q].id \in ToSet(Piece(t[g[q]]))
      BY <2>3 DEF ToSet
    <3> QED
      BY <2>2, <2>5, <3>1 DEF InOrder
  <2>6. CASE g[p] = g[q] /\ h[p] < h[q]
    <3>1. Increasing(Piece(t[g[p]]))
      BY <2>2 DEF InOrder
    <3>2. Before(Piece(t[g[p]])[h[p]], Piece(t[g[p]])[h[q]])
      BY ONLY <3>1, <2>3, <2>6 DEF Increasing
    <3> QED
      BY <2>3, <2>6, <3>2
  <2> QED
    BY <2>4, <2>5, <2>6
<1>7. ASSUME NEW c, NEW i, NEW j, CallOf(t, c, i, j)
      PROVE  \E p \in 1..Len(r) : r[p] = c
  <2>1. /\ i \in 1..Len(ss) /\ j \in 1..Len(ss[i]) /\ ss[i] = t[i].items /\ c = ss[i][j]
        /\ i \in 1..Len(t) /\ t[i].kind = "assistant"
    BY <1>1, <1>7 DEF CallOf
  <2>2. PICK p \in 1..Len(r) : g[p] = i /\ h[p] = j
    BY <1>4, <2>1 DEF Traces
  <2>3. r[p] = t[g[p]].items[h[p]]
    BY <1>5 DEF CallOf
  <2> QED
    BY <2>1, <2>2, <2>3
<1> QED
  BY <1>2, <1>3, <1>5, <1>6, <1>7

\* The artifact of a call repeats its mail.
LEMMA ArtifactIs ==
  ASSUME NEW t, NEW c \in ACall
  PROVE  /\ ArtifactOf(t, c) \in Seq(Msg)
         /\ ArtifactOf(t, c) # <<>> =>
              /\ Len(ArtifactOf(t, c)) = 1
              /\ ArtifactOf(t, c)[1].kind \in {"mail", "sent"}
              /\ ArtifactOf(t, c)[1].items = <<c.id>>
<1>1. c.id \in Id
  BY DEF ACall
<1>2. <<c.id>> \in Ones
  BY <1>1 DEF Ones
<1>3. Message("mail", <<c.id>>) \in Msg /\ Message("sent", <<c.id>>) \in Msg
  BY <1>2 DEF Message, Msg
<1>4. Message("mail", <<c.id>>).kind = "mail" /\ Message("mail", <<c.id>>).items = <<c.id>>
      /\ Message("sent", <<c.id>>).kind = "sent" /\ Message("sent", <<c.id>>).items = <<c.id>>
  BY DEF Message
<1>5. \/ ArtifactOf(t, c) = <<>>
      \/ ArtifactOf(t, c) = <<Message("mail", <<c.id>>)>>
      \/ ArtifactOf(t, c) = <<Message("sent", <<c.id>>)>>
  BY DEF ArtifactOf
<1> DEFINE x == Message("mail", <<c.id>>)
           y == Message("sent", <<c.id>>)
           a == ArtifactOf(t, c)
           s == <<c.id>>
<1>6. /\ x \in Msg /\ y \in Msg /\ x.kind = "mail" /\ y.kind = "sent" /\ x.items = s /\ y.items = s
      /\ a = <<>> \/ a = <<x>> \/ a = <<y>>
  BY <1>3, <1>4, <1>5
<1> HIDE DEF x, y, a, s, Msg
<1>7. /\ <<>> \in Seq(Msg)
      /\ \A e \in Msg : <<e>> \in Seq(Msg) /\ Len(<<e>>) = 1 /\ <<e>>[1] = e
  OBVIOUS
<1>8. a \in Seq(Msg) /\ (a # <<>> => Len(a) = 1 /\ a[1].kind \in {"mail", "sent"} /\ a[1].items = s)
  <2>1. CASE a = <<>>
    BY ONLY <1>7, <2>1
  <2>2. CASE a = <<x>>
    BY ONLY <1>6, <1>7, <2>2
  <2>3. CASE a = <<y>>
    BY ONLY <1>6, <1>7, <2>3
  <2> QED
    BY ONLY <1>6, <2>1, <2>2, <2>3
<1> QED
  BY <1>8 DEF a, s

\* Message m repeats the mail of id.
Repeats(m, id) == m.kind \in {"mail", "sent"} /\ m.items = <<id>>

\* What compaction makes of the calls it elides.
LEMMA SyntheticIs ==
  ASSUME NEW t \in Seq(Msg), InOrder(t)
  PROVE  /\ Synthetic(t) \in Seq(Msg) /\ InOrder(Synthetic(t))
         /\ IdsIn(Synthetic(t)) \subseteq IdsIn(t)
         /\ \A p \in 1..Len(Synthetic(t)) : Synthetic(t)[p].kind \in {"mail", "sent"}
         /\ \A c, i, j : CallOf(t, c, i, j) /\ ArtifactOf(t, c) # <<>> =>
              \E p \in 1..Len(Synthetic(t)) : Repeats(Synthetic(t)[p], c.id)
<1> DEFINE cs == CallsOf(t)
           ss == [i \in DOMAIN cs |-> ArtifactOf(t, cs[i])]
           r  == FlattenSeq(ss)
<1>1. /\ cs \in Seq(ACall)
      /\ \A p \in 1..Len(cs) : \E i, j : CallOf(t, cs[p], i, j)
      /\ \A p, q \in 1..Len(cs) : p < q => Before(cs[p].id, cs[q].id)
      /\ \A c, i, j : CallOf(t, c, i, j) => \E p \in 1..Len(cs) : cs[p] = c
  BY CallsAre
<1>2. Synthetic(t) = r
  BY DEF Synthetic
<1> HIDE DEF cs
<1>3. /\ ss \in Seq(Seq(Msg)) /\ Len(ss) = Len(cs) /\ Len(cs) \in Nat
      /\ \A p \in 1..Len(cs) : ss[p] = ArtifactOf(t, cs[p])
  <2>1. DOMAIN cs = 1..Len(cs) /\ Len(cs) \in Nat
    BY <1>1
  <2>2. \A p \in 1..Len(cs) : ArtifactOf(t, cs[p]) \in Seq(Msg)
    BY <1>1, ArtifactIs
  <2>3. ss \in [1..Len(cs) -> Seq(Msg)]
    BY <2>1, <2>2
  <2> QED
    BY <2>1, <2>3, IsASeq
<1> HIDE DEF ss
<1>4. r \in Seq(Msg)
  BY <1>3, FlatFrom
<1>5. PICK g, h : Traces(g, h, ss, r)
  BY <1>3, FlatFrom
<1> HIDE DEF r
<1>6. ASSUME NEW p \in 1..Len(r)
      PROVE  g[p] \in 1..Len(cs) /\ h[p] = 1 /\ Repeats(r[p], cs[g[p]].id)
  <2>1. g[p] \in 1..Len(cs) /\ h[p] \in 1..Len(ss[g[p]]) /\ r[p] = ss[g[p]][h[p]]
    BY <1>3, <1>5 DEF Traces
  <2>2. cs[g[p]] \in ACall /\ ss[g[p]] = ArtifactOf(t, cs[g[p]])
    BY <1>1, <1>3, <2>1
  <2>3. ss[g[p]] # <<>>
    BY <2>1
  <2>4. Len(ss[g[p]]) = 1 /\ ss[g[p]][1].kind \in {"mail", "sent"} /\ ss[g[p]][1].items = <<cs[g[p]].id>>
    BY <2>2, <2>3, ArtifactIs
  <2>5. h[p] = 1
    BY <2>1, <2>4
  <2> QED
    BY <2>1, <2>4, <2>5 DEF Repeats
<1>7. \A p \in 1..Len(r) : Piece(r[p]) = <<cs[g[p]].id>> /\ ToSet(Piece(r[p])) = {cs[g[p]].id}
                           /\ Increasing(Piece(r[p]))
  <2> SUFFICES ASSUME NEW p \in 1..Len(r)
               PROVE  Piece(r[p]) = <<cs[g[p]].id>> /\ ToSet(Piece(r[p])) = {cs[g[p]].id}
                      /\ Increasing(Piece(r[p]))
    OBVIOUS
  <2> DEFINE id == cs[g[p]].id
  <2>1. Piece(r[p]) = <<id>>
    BY <1>6 DEF Repeats, Piece
  <2> HIDE DEF id
  <2>2. ToSet(<<id>>) = {id}
    BY DEF ToSet
  <2>3. Increasing(<<id>>)
    BY DEF Increasing
  <2> QED
    BY <2>1, <2>2, <2>3 DEF id
<1>8. InOrder(r)
  <2>1. ASSUME NEW p \in 1..Len(r), NEW q \in 1..Len(r), p < q
        PROVE  Before(cs[g[p]].id, cs[g[q]].id)
    <3>1. g[p] < g[q] \/ (g[p] = g[q] /\ h[p] < h[q])
      BY <1>5, <2>1 DEF Traces
    <3>2. h[p] = 1 /\ h[q] = 1 /\ g[p] \in 1..Len(cs) /\ g[q] \in 1..Len(cs)
      BY <1>6
    <3>3. g[p] < g[q]
      BY <3>1, <3>2
    <3> QED
      BY <1>1, <3>2, <3>3
  <2>2. ASSUME NEW p \in 1..Len(r), NEW q \in 1..Len(r), p < q,
               NEW x \in ToSet(Piece(r[p])), NEW y \in ToSet(Piece(r[q]))
        PROVE  Before(x, y)
    <3>1. x = cs[g[p]].id /\ y = cs[g[q]].id
      BY ONLY <1>7, <2>2
    <3> QED
      BY ONLY <2>1, <2>2, <3>1
  <2> QED
    BY ONLY <1>7, <2>2 DEF InOrder
<1>9. IdsIn(r) \subseteq IdsIn(t)
  <2> SUFFICES ASSUME NEW x \in IdsIn(r) PROVE x \in IdsIn(t)
    OBVIOUS
  <2>1. PICK p \in 1..Len(r) : x \in ToSet(Piece(r[p]))
    BY <1>4, IdsInside
  <2>2. x = cs[g[p]].id /\ g[p] \in 1..Len(cs)
    BY <1>6, <1>7, <2>1
  <2>3. PICK i, j : CallOf(t, cs[g[p]], i, j)
    BY <1>1, <2>2
  <2>4. i \in 1..Len(t) /\ t[i] \in Msg /\ t[i].kind = "assistant" /\ j \in 1..Len(t[i].items) /\ x = t[i].items[j].id
    BY <2>2, <2>3 DEF CallOf
  <2>5. Ids(t[i]) \in Seq(Id) /\ Len(Ids(t[i])) = Len(t[i].items) /\ Ids(t[i])[j] = x
    BY <2>4, IdsAre
  <2>6. x \in ToSet(Piece(t[i]))
    BY <2>4, <2>5 DEF Piece, ToSet
  <2> QED
    BY <2>4, <2>6, IdsInside
<1>10. ASSUME NEW c, NEW i, NEW j, CallOf(t, c, i, j), ArtifactOf(t, c) # <<>>
       PROVE  \E p \in 1..Len(r) : Repeats(r[p], c.id)
  <2>1. PICK p \in 1..Len(cs) : cs[p] = c
    BY <1>1, <1>10
  <2>2. p \in 1..Len(ss) /\ Len(ss[p]) = 1
    BY <1>1, <1>3, <1>10, <2>1, ArtifactIs
  <2>3. 1 \in 1..Len(ss[p])
    BY <2>2
  <2>4. PICK q \in 1..Len(r) : g[q] = p /\ h[q] = 1
    BY <1>5, <2>2, <2>3 DEF Traces
  <2> QED
    BY <1>6, <2>1, <2>4
<1> QED
  BY <1>2, <1>4, <1>6, <1>8, <1>9, <1>10 DEF Repeats

\* The goal is first, and all artifacts stand right behind it.
InFront(t) ==
    /\ 1 \in 1..Len(t) /\ t[1].kind = "goal"
    /\ \A i \in 1..Len(t) : IsArtifact(t[i]) => \A k \in 2..i : IsArtifact(t[k])

\* A member of a sequence is somewhere in it.
LEMMA Members ==
  ASSUME NEW S, NEW a \in Seq(S)
  PROVE  /\ ToSet(a) \subseteq S
         /\ \A x : x \in ToSet(a) <=> \E i \in 1..Len(a) : a[i] = x
  BY DEF ToSet

\* A concatenation has the elements of both parts.
LEMMA JoinSet ==
  ASSUME NEW S, NEW a \in Seq(S), NEW b \in Seq(S)
  PROVE  ToSet(a \o b) = ToSet(a) \cup ToSet(b)
<1> DEFINE c == a \o b
<1>1. /\ c \in Seq(S) /\ Len(c) = Len(a) + Len(b) /\ Len(a) \in Nat /\ Len(b) \in Nat
      /\ \A i \in 1..Len(a) : c[i] = a[i]
      /\ \A j \in 1..Len(b) : c[Len(a) + j] = b[j]
  BY ConcatAt
<1>2. \A i \in 1..Len(c) :
         \/ i \in 1..Len(a) /\ c[i] = a[i]
         \/ i - Len(a) \in 1..Len(b) /\ c[i] = b[i - Len(a)] /\ i > Len(a)
  BY Halves
<1> HIDE DEF c
<1>3. \A x : x \in ToSet(a) => x \in ToSet(c)
  <2> SUFFICES ASSUME NEW i \in 1..Len(a) PROVE a[i] \in ToSet(c)
    BY Members
  <2>1. i \in 1..Len(c) /\ c[i] = a[i]
    BY <1>1
  <2> QED
    BY <1>1, <2>1, Members
<1>4. \A x : x \in ToSet(b) => x \in ToSet(c)
  <2> SUFFICES ASSUME NEW i \in 1..Len(b) PROVE b[i] \in ToSet(c)
    BY Members
  <2> DEFINE k == Len(a) + i
  <2>1. k \in 1..Len(c) /\ c[k] = b[i]
    BY <1>1
  <2> HIDE DEF k
  <2> QED
    BY <1>1, <2>1, Members
<1>5. \A x : x \in ToSet(c) => x \in ToSet(a) \cup ToSet(b)
  <2> SUFFICES ASSUME NEW i \in 1..Len(c) PROVE c[i] \in ToSet(a) \cup ToSet(b)
    BY <1>1, Members
  <2> QED
    BY <1>2, Members
<1> QED
  BY <1>3, <1>4, <1>5 DEF c

\* Picking messages picks those of the set.
LEMMA AmongSet ==
  ASSUME NEW t \in Seq(Msg), InOrder(t), NEW set
  PROVE  /\ Among(t, set) \in Seq(Msg) /\ InOrder(Among(t, set))
         /\ ToSet(Among(t, set)) = ToSet(t) \cap set
<1> DEFINE r == Among(t, set)
<1>1. /\ r \in Seq(Msg) /\ InOrder(r)
      /\ \A p \in 1..Len(r) : r[p] \in set /\ \E i \in 1..Len(t) : r[p] = t[i]
      /\ \A i \in 1..Len(t) : t[i] \in set => \E p \in 1..Len(r) : r[p] = t[i]
  BY AmongOrder
<1> HIDE DEF r
<1>2. \A x \in ToSet(r) : x \in ToSet(t) /\ x \in set
  <2> SUFFICES ASSUME NEW x \in ToSet(r) PROVE x \in ToSet(t) /\ x \in set
    OBVIOUS
  <2>1. PICK p \in 1..Len(r) : r[p] = x
    BY <1>1, Members
  <2>2. PICK i \in 1..Len(t) : x = t[i]
    BY <1>1, <2>1
  <2>3. x \in ToSet(t)
    BY <2>2, Members
  <2> QED
    BY <1>1, <2>1, <2>3
<1>3. \A x \in ToSet(t) : x \in set => x \in ToSet(r)
  <2> SUFFICES ASSUME NEW x \in ToSet(t), x \in set PROVE x \in ToSet(r)
    OBVIOUS
  <2>1. PICK i \in 1..Len(t) : t[i] = x
    BY Members
  <2>2. PICK p \in 1..Len(r) : r[p] = x
    BY <1>1, <2>1
  <2> QED
    BY <1>1, <2>2, Members
<1> QED
  BY <1>1, <1>2, <1>3 DEF r

\* The same facts about ids, by members.
LEMMA IdsOfMembers ==
  ASSUME NEW t \in Seq(Msg)
  PROVE  \A x : x \in IdsIn(t) <=> \E m \in ToSet(t) : x \in ToSet(Piece(m))
  BY IdsInside, Members

\* A message without ids.
LEMMA OneOrder ==
  ASSUME NEW m \in Msg, Piece(m) = <<>>
  PROVE  /\ <<m>> \in Seq(Msg) /\ Len(<<m>>) = 1 /\ <<m>>[1] = m /\ ToSet(<<m>>) = {m}
         /\ InOrder(<<m>>) /\ IdsIn(<<m>>) = {}
<1> DEFINE s == <<m>>
<1>1. s \in Seq(Msg) /\ Len(s) = 1 /\ s[1] = m
  OBVIOUS
<1> HIDE DEF s
<1>2. ToSet(s) = {m}
  BY <1>1, Members
<1>3. ToSet(<<>>) = {} /\ Increasing(<<>>)
  BY DEF ToSet, Increasing
<1>4. IdsIn(s) = {}
  BY <1>1, <1>2, <1>3, IdsOfMembers
<1>5. InOrder(s)
  BY <1>1, <1>3 DEF InOrder
<1> QED
  BY <1>1, <1>2, <1>4, <1>5 DEF s

\* No messages are in order.
LEMMA NoneOrder == <<>> \in Seq(Msg) /\ InOrder(<<>>) /\ ToSet(<<>>) = {} /\ IdsIn(<<>>) = {}
  BY DEF InOrder, ToSet, IdsIn

\* Artifacts behind what stands in front.
LEMMA FrontGrows ==
  ASSUME NEW a \in Seq(Msg), NEW b \in Seq(Msg), 1 \in 1..Len(a), \A i \in 2..Len(a) : IsArtifact(a[i]),
         \A m \in ToSet(b) : IsArtifact(m)
  PROVE  /\ a \o b \in Seq(Msg) /\ 1 \in 1..Len(a \o b) /\ (a \o b)[1] = a[1]
         /\ \A i \in 2..Len(a \o b) : IsArtifact((a \o b)[i])
<1> DEFINE c == a \o b
<1>1. /\ c \in Seq(Msg) /\ Len(c) = Len(a) + Len(b) /\ Len(a) \in Nat /\ Len(b) \in Nat
      /\ \A i \in 1..Len(a) : c[i] = a[i]
  BY ConcatAt
<1>2. \A i \in 1..Len(c) :
         \/ i \in 1..Len(a) /\ c[i] = a[i]
         \/ i - Len(a) \in 1..Len(b) /\ c[i] = b[i - Len(a)] /\ i > Len(a)
  BY Halves
<1> HIDE DEF c
<1>3. \A j \in 1..Len(b) : IsArtifact(b[j])
  BY Members
<1>4. ASSUME NEW i \in 2..Len(c)
      PROVE  IsArtifact(c[i])
  <2>1. i \in 1..Len(c) /\ (i \in 1..Len(a) => i \in 2..Len(a))
    OBVIOUS
  <2> QED
    BY <1>2, <1>3, <2>1
<1> QED
  BY <1>1, <1>4 DEF c

\* An answer stands right behind its call.
LEMMA AnswerIsNext ==
  ASSUME NEW t \in Seq(Msg), InOrder(t), Paired(t, FALSE), NEW c, NEW i, NEW j, CallOf(t, c, i, j),
         Succeeded(t, c.id)
  PROVE  /\ i + 1 \in 1..Len(t) /\ t[i + 1].kind = "results"
         /\ \E r \in ToSet(t[i + 1].items) : r.id = c.id /\ r.ok
<1>1. DOMAIN t = 1..Len(t)
  OBVIOUS
<1>2. PICK k \in 1..Len(t) : t[k].kind = "results" /\ \E r \in ToSet(t[k].items) : r.id = c.id /\ r.ok
  BY <1>1 DEF Succeeded
<1>3. PICK r \in ToSet(t[k].items) : r.id = c.id /\ r.ok
  BY <1>2
<1> DEFINE n == k - 1
<1>4. n \in 1..Len(t) /\ k = n + 1 /\ Calling(t[n]) /\ Ids(t[k]) = Ids(t[n]) /\ t[n].kind = "assistant"
  BY <1>2 DEF Paired, Answers, Calling
<1> HIDE DEF n
<1>5. t[k] \in Msg /\ t[n] \in Msg
  BY <1>2, <1>4
<1>6. PICK l \in 1..Len(t[k].items) : r = t[k].items[l]
  <2>1. t[k].items \in Seq(AResult)
    BY <1>2, <1>5, MsgIs
  <2> QED
    BY <1>3, <2>1, Members
<1>7. Ids(t[k]) \in Seq(Id) /\ l \in 1..Len(Ids(t[k])) /\ Ids(t[k])[l] = c.id
  BY <1>2, <1>3, <1>5, <1>6, IdsAre
<1>8. l \in 1..Len(Piece(t[n])) /\ Piece(t[n])[l] = c.id
  BY <1>4, <1>7 DEF Piece
<1>9. i \in 1..Len(t) /\ t[i] \in Msg /\ t[i].kind = "assistant" /\ j \in 1..Len(t[i].items) /\ c = t[i].items[j]
  BY DEF CallOf
<1>10. j \in 1..Len(Piece(t[i])) /\ Piece(t[i])[j] = c.id
  BY <1>9, IdsAre DEF Piece
<1>11. i = n
  BY <1>4, <1>8, <1>9, <1>10, OnePlace
<1> QED
  BY <1>2, <1>4, <1>11

\* The parts of a compacted conversation, cut at place p.
Elided(t, p)   == SubSeq(t, 2, p - 1)
Own(t, p)      == {msg \in ToSet(Elided(t, p)) : IsArtifact(msg)}
Carried(t, p)  == Among(Elided(t, p), Own(t, p))
Fresh(t, p)    == Among(Elided(t, p), ToSet(Elided(t, p)) \ Own(t, p))
FrontOf(t, p, e) == <<t[1]>> \o Carried(t, p) \o Synthetic(Fresh(t, p)) \o e
Cut(t, p)      == p \in 3..Len(t) + 1 /\ (p \in Turns(t) \/ (KeepLast = 0 /\ p = Len(t) + 1))
WellFormed(t)       == t \in Seq(Msg) /\ InFront(t) /\ InOrder(t) /\ Paired(t, FALSE)
Seam           == {<<>>, <<Message("summary", <<>>)>>}

\* compact_messages leaves the conversation as it is, or cuts it where a turn starts: goal,
\* artifacts carried on, artifacts of the elided calls, the seam, the tail.
LEMMA CompactIs ==
  ASSUME NEW t \in Seq(Msg)
  PROVE  \/ Compact(t) = t
         \/ \E p : \E e \in Seam : Cut(t, p) /\ Compact(t) = FrontOf(t, p, e) \o SubSeq(t, p, Len(t))
<1> DEFINE p == Pivot(t)
           e == IF HasTrace(Fresh(t, p)) \/ Carried(t, p) = <<>> THEN <<Message("summary", <<>>)>> ELSE <<>>
<1>1. CASE Len(t) < 3 \/ p <= 2
  BY <1>1 DEF Compact
<1>2. CASE ~(Len(t) < 3 \/ p <= 2)
  <2>1. Compact(t) = FrontOf(t, p, e) \o SubSeq(t, p, Len(t))
    BY <1>2 DEF Compact, FrontOf, Carried, Fresh, Own, Elided
  <2>2. e \in Seam
    BY DEF Seam
  <2>3. Cut(t, p)
    <3>1. Len(t) \in Nat /\ Turns(t) \subseteq 1..Len(t)
      BY DEF Turns
    <3>2. p \in Turns(t) \/ (KeepLast = 0 /\ p = Len(t) + 1)
      BY <1>2, PivotIs
    <3> HIDE DEF p
    <3> QED
      BY <1>2, <3>1, <3>2 DEF Cut
  <2> QED
    BY <2>1, <2>2, <2>3
<1> QED
  BY <1>1, <1>2

\* What is elided stands behind the goal.
LEMMA ElidedIs ==
  ASSUME NEW t, WellFormed(t), NEW p, Cut(t, p)
  PROVE  /\ t \in Seq(Msg) /\ Len(t) \in Nat /\ p \in Nat /\ p - 1 <= Len(t) /\ p >= 3
         /\ Elided(t, p) \in Seq(Msg) /\ InOrder(Elided(t, p)) /\ Len(Elided(t, p)) = p - 2
         /\ \A i \in 1..Len(Elided(t, p)) :
              1 + i \in 2..p - 1 /\ 1 + i \in 1..Len(t) /\ Elided(t, p)[i] = t[1 + i]
         /\ \A k \in 2..p - 1 : k - 1 \in 1..Len(Elided(t, p)) /\ Elided(t, p)[k - 1] = t[k] /\ k \in 1..Len(t)
         /\ IdsIn(Elided(t, p)) \subseteq IdsIn(t)
<1> DEFINE n == p - 1
           el == SubSeq(t, 2, n)
<1>1. t \in Seq(Msg) /\ InOrder(t) /\ Len(t) \in Nat
  BY DEF WellFormed
<1>2. p \in Nat /\ p >= 3 /\ n \in Nat /\ n <= Len(t) /\ 2 <= n + 1
  BY <1>1 DEF Cut
<1>3. Elided(t, p) = el
  BY DEF Elided
<1> HIDE DEF n
<1>4. /\ el \in Seq(Msg) /\ Len(el) = (n + 1) - 2
      /\ \A i \in 1..Len(el) : (2 - 1) + i \in 2..n /\ (2 - 1) + i \in 1..Len(t) /\ el[i] = t[(2 - 1) + i]
      /\ \A k \in 2..n : k - (2 - 1) \in 1..Len(el) /\ el[k - (2 - 1)] = t[k] /\ k \in 1..Len(t)
      /\ InOrder(el)
  BY <1>1, <1>2, CutOrder
<1>5. 2 - 1 = 1 /\ (n + 1) - 2 = p - 2
  BY <1>2 DEF n
<1> HIDE DEF el
<1>6. /\ \A i \in 1..Len(el) : 1 + i \in 2..n /\ 1 + i \in 1..Len(t) /\ el[i] = t[1 + i]
      /\ \A k \in 2..n : k - 1 \in 1..Len(el) /\ el[k - 1] = t[k] /\ k \in 1..Len(t)
      /\ Len(el) = p - 2
  BY <1>4, <1>5
<1>7. IdsIn(el) \subseteq IdsIn(t)
  <2> SUFFICES ASSUME NEW x \in IdsIn(el) PROVE x \in IdsIn(t)
    OBVIOUS
  <2>1. PICK i \in 1..Len(el) : x \in ToSet(Piece(el[i]))
    BY <1>4, IdsInside
  <2> DEFINE k == 1 + i
  <2>2. k \in 1..Len(t) /\ x \in ToSet(Piece(t[k]))
    BY <1>6, <2>1
  <2> HIDE DEF k
  <2> QED
    BY <1>1, <2>2, IdsInside
<1> QED
  BY <1>1, <1>2, <1>3, <1>4, <1>6, <1>7 DEF n

\* Older artifacts are carried in front of the rest, with the older ids.
LEMMA PartsAre ==
  ASSUME NEW t, WellFormed(t), NEW p, Cut(t, p)
  PROVE  /\ Carried(t, p) \in Seq(Msg) /\ InOrder(Carried(t, p))
         /\ ToSet(Carried(t, p)) = {m \in ToSet(Elided(t, p)) : IsArtifact(m)}
         /\ Fresh(t, p) \in Seq(Msg) /\ InOrder(Fresh(t, p))
         /\ ToSet(Fresh(t, p)) = {m \in ToSet(Elided(t, p)) : ~IsArtifact(m)}
         /\ IdsIn(Carried(t, p)) \subseteq IdsIn(Elided(t, p))
         /\ IdsIn(Fresh(t, p)) \subseteq IdsIn(Elided(t, p))
         /\ \A x \in IdsIn(Carried(t, p)), y \in IdsIn(Fresh(t, p)) : Before(x, y)
<1> DEFINE el == Elided(t, p)
           c  == Carried(t, p)
           f  == Fresh(t, p)
<1>1. /\ t \in Seq(Msg) /\ Len(t) \in Nat /\ p \in Nat
      /\ el \in Seq(Msg) /\ InOrder(el)
      /\ \A i \in 1..Len(el) : 1 + i \in 2..p - 1 /\ 1 + i \in 1..Len(t) /\ el[i] = t[1 + i]
  BY ElidedIs
<1>2. /\ c \in Seq(Msg) /\ InOrder(c) /\ ToSet(c) = ToSet(el) \cap Own(t, p)
      /\ f \in Seq(Msg) /\ InOrder(f) /\ ToSet(f) = ToSet(el) \cap (ToSet(el) \ Own(t, p))
  <2> HIDE DEF el
  <2>1. c = Among(el, Own(t, p)) /\ f = Among(el, ToSet(el) \ Own(t, p))
    BY DEF el, Carried, Fresh
  <2> QED
    BY <1>1, <2>1, AmongSet
<1>3. /\ ToSet(c) = {m \in ToSet(el) : IsArtifact(m)}
      /\ ToSet(f) = {m \in ToSet(el) : ~IsArtifact(m)}
  BY <1>2 DEF Own
<1> HIDE DEF el, c, f
<1>4. /\ \A x \in IdsIn(c) : \E m \in ToSet(el) : IsArtifact(m) /\ x \in ToSet(Piece(m))
      /\ \A x \in IdsIn(f) : \E m \in ToSet(el) : ~IsArtifact(m) /\ x \in ToSet(Piece(m))
  <2>1. \A x \in IdsIn(c) : \E m \in ToSet(c) : x \in ToSet(Piece(m))
    BY <1>2, IdsOfMembers
  <2>2. \A x \in IdsIn(f) : \E m \in ToSet(f) : x \in ToSet(Piece(m))
    BY <1>2, IdsOfMembers
  <2> QED
    BY <1>3, <2>1, <2>2
<1>5. IdsIn(c) \subseteq IdsIn(el) /\ IdsIn(f) \subseteq IdsIn(el)
  BY <1>1, <1>4, IdsOfMembers
<1>6. ASSUME NEW x \in IdsIn(c), NEW y \in IdsIn(f)
      PROVE  Before(x, y)
  <2>1. PICK m \in ToSet(el) : IsArtifact(m) /\ x \in ToSet(Piece(m))
    BY <1>4
  <2>2. PICK n \in ToSet(el) : ~IsArtifact(n) /\ y \in ToSet(Piece(n))
    BY <1>4
  <2>3. PICK i \in 1..Len(el) : el[i] = m
    BY <1>1, Members
  <2>4. PICK k \in 1..Len(el) : el[k] = n
    BY <1>1, Members
  <2> DEFINE a == 1 + i
             b == 1 + k
  <2>5. a \in 1..Len(t) /\ b \in 1..Len(t) /\ t[a] = m /\ t[b] = n /\ b >= 2
    BY <1>1, <2>3, <2>4
  <2> HIDE DEF a, b
  <2>6. ~(b <= a)
    <3> SUFFICES ASSUME b <= a PROVE FALSE
      OBVIOUS
    <3>1. b \in 2..a
      BY <2>5
    <3>2. IsArtifact(t[b])
      BY <2>1, <2>5, <3>1 DEF WellFormed, InFront
    <3> QED
      BY <2>2, <2>5, <3>2
  <2>7. i < k
    BY <2>6 DEF a, b
  <2> QED
    BY <1>1, <2>1, <2>2, <2>3, <2>4, <2>7 DEF InOrder
<1> QED
  BY <1>2, <1>3, <1>5, <1>6 DEF el, c, f

\* The goal, what is carried, what is new, and the seam.
LEMMA FrontIs ==
  ASSUME NEW t, WellFormed(t), NEW p, Cut(t, p), NEW e \in Seam
  PROVE  /\ FrontOf(t, p, e) \in Seq(Msg) /\ 1 \in 1..Len(FrontOf(t, p, e)) /\ FrontOf(t, p, e)[1] = t[1]
         /\ \A i \in 2..Len(FrontOf(t, p, e)) : IsArtifact(FrontOf(t, p, e)[i])
         /\ InOrder(FrontOf(t, p, e)) /\ IdsIn(FrontOf(t, p, e)) \subseteq IdsIn(Elided(t, p))
         /\ ToSet(Carried(t, p)) \subseteq ToSet(FrontOf(t, p, e))
         /\ ToSet(Synthetic(Fresh(t, p))) \subseteq ToSet(FrontOf(t, p, e))
<1> DEFINE c == Carried(t, p)
           f == Fresh(t, p)
           s == Synthetic(f)
           h == <<t[1]>>
           hc == h \o c
           hs == hc \o s
           r == hs \o e
<1>1. /\ c \in Seq(Msg) /\ InOrder(c) /\ f \in Seq(Msg) /\ InOrder(f)
      /\ IdsIn(c) \subseteq IdsIn(Elided(t, p)) /\ IdsIn(f) \subseteq IdsIn(Elided(t, p))
      /\ \A x \in IdsIn(c), y \in IdsIn(f) : Before(x, y)
      /\ \A m \in ToSet(c) : IsArtifact(m)
  BY PartsAre
<1>2. FrontOf(t, p, e) = r
  BY DEF FrontOf
<1> HIDE DEF c, f
<1>3. /\ s \in Seq(Msg) /\ InOrder(s) /\ IdsIn(s) \subseteq IdsIn(f)
      /\ \A i \in 1..Len(s) : s[i].kind \in {"mail", "sent"}
  BY <1>1, SyntheticIs
<1> HIDE DEF s
<1>4. \A m \in ToSet(s) : IsArtifact(m)
  <2>1. \A m \in ToSet(s) : m.kind \in {"mail", "sent"}
    BY <1>3, Members
  <2> QED
    BY <2>1 DEF IsArtifact, Artifacts
<1>5. /\ h \in Seq(Msg) /\ InOrder(h) /\ IdsIn(h) = {} /\ Len(h) = 1 /\ h[1] = t[1]
  <2>1. t \in Seq(Msg) /\ 1 \in 1..Len(t) /\ t[1].kind = "goal"
    BY DEF WellFormed, InFront
  <2>2. t[1] \in Msg /\ Piece(t[1]) = <<>>
    BY <2>1 DEF Piece
  <2> QED
    BY <2>2, OneOrder
<1>6. e \in Seq(Msg) /\ InOrder(e) /\ IdsIn(e) = {} /\ \A m \in ToSet(e) : IsArtifact(m)
  <2> DEFINE u == Message("summary", <<>>)
  <2>1. u \in Msg /\ Piece(u) = <<>> /\ IsArtifact(u)
    BY DEF Message, Msg, Piece, IsArtifact, Artifacts
  <2>2. e = <<>> \/ e = <<u>>
    BY DEF Seam
  <2> HIDE DEF u
  <2>3. CASE e = <<>>
    BY <2>3, NoneOrder
  <2>4. CASE e = <<u>>
    <3>1. <<u>> \in Seq(Msg) /\ InOrder(<<u>>) /\ IdsIn(<<u>>) = {} /\ ToSet(<<u>>) = {u}
      BY <2>1, OneOrder
    <3> QED
      BY <2>1, <2>4, <3>1
  <2> QED
    BY <2>2, <2>3, <2>4
<1>7. h[1] = t[1] /\ 1 \in 1..Len(h) /\ \A i \in 2..Len(h) : IsArtifact(h[i])
  BY <1>5
<1> HIDE DEF h
<1>8. hc \in Seq(Msg) /\ InOrder(hc) /\ IdsIn(hc) = IdsIn(h) \cup IdsIn(c)
  BY <1>1, <1>5, JoinOrder
<1>9. 1 \in 1..Len(hc) /\ hc[1] = h[1] /\ \A i \in 2..Len(hc) : IsArtifact(hc[i])
  BY <1>1, <1>5, <1>7, FrontGrows
<1>10. ToSet(hc) = ToSet(h) \cup ToSet(c)
  BY <1>1, <1>5, JoinSet
<1> HIDE DEF hc
<1>11. hs \in Seq(Msg) /\ InOrder(hs) /\ IdsIn(hs) = IdsIn(hc) \cup IdsIn(s)
  <2>1. \A x \in IdsIn(hc), y \in IdsIn(s) : Before(x, y)
    BY <1>1, <1>3, <1>5, <1>8
  <2> QED
    BY <1>3, <1>8, <2>1, JoinOrder
<1>12. 1 \in 1..Len(hs) /\ hs[1] = hc[1] /\ \A i \in 2..Len(hs) : IsArtifact(hs[i])
  BY <1>3, <1>4, <1>8, <1>9, FrontGrows
<1>13. ToSet(hs) = ToSet(hc) \cup ToSet(s)
  BY <1>3, <1>8, JoinSet
<1> HIDE DEF hs
<1>14. r \in Seq(Msg) /\ InOrder(r) /\ IdsIn(r) = IdsIn(hs) \cup IdsIn(e)
  BY <1>6, <1>11, JoinOrder
<1>15. 1 \in 1..Len(r) /\ r[1] = hs[1] /\ \A i \in 2..Len(r) : IsArtifact(r[i])
  BY <1>6, <1>11, <1>12, FrontGrows
<1>16. ToSet(r) = ToSet(hs) \cup ToSet(e)
  BY <1>6, <1>11, JoinSet
<1> HIDE DEF r
<1>17. IdsIn(r) \subseteq IdsIn(Elided(t, p))
  BY <1>1, <1>3, <1>5, <1>6, <1>8, <1>11, <1>14
<1>18. r[1] = t[1]
  BY <1>7, <1>9, <1>12, <1>15
<1>19. ToSet(c) \subseteq ToSet(r) /\ ToSet(s) \subseteq ToSet(r)
  BY <1>10, <1>13, <1>16
<1> QED
  BY <1>2, <1>14, <1>15, <1>17, <1>18, <1>19 DEF c, f, s

-----------------------------------------------------------------------------
(* Compaction: what it keeps *)

\* Where the messages of the tail stand after the cut.
Moved(c, t, f, p, d) ==
    /\ f \in Nat \ {0} /\ d \in Int /\ Len(c) \in Nat /\ Len(t) \in Nat
    /\ \A i \in 1..Len(c) : i > f => i + d \in p..Len(t) /\ c[i] = t[i + d]
    /\ \A x \in p..Len(t) : x - d \in 1..Len(c) /\ x - d > f /\ c[x - d] = t[x]
    /\ \A i \in 1..Len(c) : i <= f => i = 1 \/ IsArtifact(c[i])
    /\ 1 \in 1..Len(c) /\ c[1] = t[1]

\* Compaction moves the tail to the front as it is; before it stand the goal and artifacts.
LEMMA CompactMoves ==
  ASSUME NEW t, WellFormed(t), NEW p, Cut(t, p), NEW e \in Seam,
         NEW c, c = FrontOf(t, p, e) \o SubSeq(t, p, Len(t))
  PROVE  /\ c \in Seq(Msg) /\ InOrder(c) /\ IdsIn(c) \subseteq IdsIn(t)
         /\ \E f, d : Moved(c, t, f, p, d)
         /\ ToSet(FrontOf(t, p, e)) \subseteq ToSet(c)
<1> DEFINE fr == FrontOf(t, p, e)
           n  == Len(t)
           tl == SubSeq(t, p, n)
           el == Elided(t, p)
<1>1. /\ t \in Seq(Msg) /\ n \in Nat /\ p \in Nat /\ p - 1 <= n /\ p >= 3 /\ InOrder(t)
      /\ el \in Seq(Msg) /\ IdsIn(el) \subseteq IdsIn(t)
      /\ \A i \in 1..Len(el) : 1 + i \in 2..p - 1 /\ 1 + i \in 1..n /\ el[i] = t[1 + i]
  <2>1. InOrder(t)
    BY DEF WellFormed
  <2> QED
    BY <2>1, ElidedIs
<1>2. /\ fr \in Seq(Msg) /\ 1 \in 1..Len(fr) /\ fr[1] = t[1]
      /\ \A i \in 2..Len(fr) : IsArtifact(fr[i])
      /\ InOrder(fr) /\ IdsIn(fr) \subseteq IdsIn(el)
  BY FrontIs
<1>3. /\ tl \in Seq(Msg) /\ Len(tl) = (n + 1) - p /\ InOrder(tl)
      /\ \A i \in 1..Len(tl) : (p - 1) + i \in p..n /\ (p - 1) + i \in 1..n /\ tl[i] = t[(p - 1) + i]
      /\ \A k \in p..n : k - (p - 1) \in 1..Len(tl) /\ tl[k - (p - 1)] = t[k]
  <2>1. n \in Nat /\ p \in Nat /\ 1 <= p /\ p <= n + 1 /\ n <= Len(t)
    BY <1>1
  <2> QED
    BY <1>1, <2>1, CutOrder
<1>4. c = fr \o tl
  OBVIOUS
<1> HIDE DEF fr, tl, el, n
<1>5. \A x \in IdsIn(tl) : \E k \in p..n : k \in 1..n /\ x \in ToSet(Piece(t[k]))
  <2> SUFFICES ASSUME NEW x \in IdsIn(tl) PROVE \E k \in p..n : k \in 1..n /\ x \in ToSet(Piece(t[k]))
    OBVIOUS
  <2>1. PICK i \in 1..Len(tl) : x \in ToSet(Piece(tl[i]))
    BY <1>3, IdsInside
  <2> QED
    BY <1>3, <2>1
<1>6. ASSUME NEW x \in IdsIn(fr), NEW y \in IdsIn(tl)
      PROVE  Before(x, y)
  <2>1. x \in IdsIn(el)
    BY <1>2
  <2>2. PICK i \in 1..Len(el) : x \in ToSet(Piece(el[i]))
    BY <1>1, <2>1, IdsInside
  <2>3. PICK k \in p..n : k \in 1..n /\ y \in ToSet(Piece(t[k]))
    BY <1>5
  <2> DEFINE a == 1 + i
  <2>4. a \in 1..n /\ a < k /\ x \in ToSet(Piece(t[a]))
    BY <1>1, <2>2, <2>3
  <2> HIDE DEF a
  <2> QED
    BY <1>1, <2>3, <2>4 DEF InOrder, n
<1>7. c \in Seq(Msg) /\ InOrder(c) /\ IdsIn(c) = IdsIn(fr) \cup IdsIn(tl)
  BY <1>2, <1>3, <1>4, <1>6, JoinOrder
<1>8. IdsIn(tl) \subseteq IdsIn(t)
  BY <1>1, <1>5, IdsInside DEF n
<1>9. /\ Len(c) = Len(fr) + Len(tl) /\ Len(fr) \in Nat /\ Len(tl) \in Nat
      /\ \A i \in 1..Len(fr) : c[i] = fr[i]
      /\ \A j \in 1..Len(tl) : c[Len(fr) + j] = tl[j]
  <2>1. fr \in Seq(Msg) /\ tl \in Seq(Msg)
    BY <1>2, <1>3
  <2>2. /\ Len(fr \o tl) = Len(fr) + Len(tl) /\ Len(fr) \in Nat /\ Len(tl) \in Nat
        /\ \A i \in 1..Len(fr) : (fr \o tl)[i] = fr[i]
        /\ \A j \in 1..Len(tl) : (fr \o tl)[Len(fr) + j] = tl[j]
    BY ONLY <2>1, ConcatAt
  <2> QED
    BY <1>4, <2>2
<1> DEFINE f == Len(fr)
           d == (p - 1) - f
<1>10. f \in Nat \ {0} /\ d \in Int /\ Len(c) \in Nat /\ 1 \in 1..Len(c)
  BY <1>1, <1>2, <1>9
<1>11. ASSUME NEW i \in 1..Len(c), i > f
       PROVE  i + d \in p..n /\ c[i] = t[i + d]
  <2> DEFINE j == i - f
  <2>1. j \in 1..Len(tl) /\ i = f + j /\ (p - 1) + j = i + d
    BY <1>1, <1>9, <1>10, <1>11
  <2> HIDE DEF j, d, f
  <2>2. c[i] = tl[j] /\ tl[j] = t[(p - 1) + j] /\ (p - 1) + j \in p..n
    BY <1>3, <1>9, <2>1 DEF f
  <2> QED
    BY <2>1, <2>2
<1>12. ASSUME NEW x \in p..n
       PROVE  x - d \in 1..Len(c) /\ x - d > f /\ c[x - d] = t[x]
  <2> DEFINE j == x - (p - 1)
  <2>1. j \in 1..Len(tl) /\ tl[j] = t[x]
    BY <1>3
  <2>2. x - d = f + j /\ f + j \in 1..Len(c) /\ f + j > f
    BY <1>1, <1>9, <1>10, <2>1
  <2> HIDE DEF j, d
  <2>3. c[f + j] = tl[j]
    BY <1>9, <2>1
  <2> QED
    BY <2>1, <2>2, <2>3
<1>13. \A i \in 1..Len(c) : i <= f => i = 1 \/ IsArtifact(c[i])
  <2> SUFFICES ASSUME NEW i \in 1..Len(c), i <= f, i # 1 PROVE IsArtifact(c[i])
    OBVIOUS
  <2>1. i \in 1..Len(fr) /\ i \in 2..Len(fr)
    BY <1>9
  <2> QED
    BY <1>2, <1>9, <2>1
<1>14. c[1] = t[1]
  BY <1>2, <1>9
<1> HIDE DEF f, d
<1>15. Moved(c, t, f, p, d)
  BY <1>1, <1>10, <1>11, <1>12, <1>13, <1>14 DEF Moved, n
<1>16. ToSet(fr) \subseteq ToSet(c)
  BY <1>2, <1>3, <1>4, JoinSet
<1> QED
  BY <1>1, <1>2, <1>7, <1>8, <1>15, <1>16 DEF fr

\* Artifacts, and the goal, make no calls and hold no results.
LEMMA ArtifactsRest ==
  ASSUME NEW m
  PROVE  /\ IsArtifact(m) => m.kind \notin {"assistant", "results", "goal"}
         /\ m.kind \in {"mail", "sent"} => IsArtifact(m)
         /\ m.kind \in {"assistant", "results"} => ~IsArtifact(m)
         /\ FromAssistant(m) => m.kind # "results"
  BY DEF IsArtifact, Artifacts, FromAssistant

\* Compaction keeps the conversation sound, for every provider.
LEMMA CompactHolds ==
  ASSUME NEW t, WellFormed(t)
  PROVE  WellFormed(Compact(t)) /\ IdsIn(Compact(t)) \subseteq IdsIn(t)
<1> DEFINE c == Compact(t)
<1>1. t \in Seq(Msg) /\ InFront(t) /\ InOrder(t) /\ Paired(t, FALSE) /\ Len(t) \in Nat
  <2>1. t \in Seq(Msg) /\ InFront(t) /\ InOrder(t) /\ Paired(t, FALSE)
    BY DEF WellFormed
  <2>2. Len(t) \in Nat
    BY ONLY <2>1, LenProperties
  <2> QED
    BY <2>1, <2>2
<1> HIDE DEF c
<1> SUFFICES ASSUME NEW p, NEW e \in Seam, Cut(t, p), c = FrontOf(t, p, e) \o SubSeq(t, p, Len(t))
             PROVE  WellFormed(c) /\ IdsIn(c) \subseteq IdsIn(t)
  BY <1>1, CompactIs DEF c
<1>2. /\ c \in Seq(Msg) /\ InOrder(c) /\ IdsIn(c) \subseteq IdsIn(t)
      /\ \E f, d : Moved(c, t, f, p, d)
  BY CompactMoves
<1>3. PICK f, d : Moved(c, t, f, p, d)
  BY <1>2
<1>4. /\ f \in Nat \ {0} /\ d \in Int /\ Len(c) \in Nat
      /\ \A i \in 1..Len(c) : i > f => i + d \in p..Len(t) /\ c[i] = t[i + d]
      /\ \A x \in p..Len(t) : x - d \in 1..Len(c) /\ x - d > f /\ c[x - d] = t[x]
      /\ \A i \in 1..Len(c) : i <= f => i = 1 \/ IsArtifact(c[i])
      /\ 1 \in 1..Len(c) /\ c[1] = t[1]
  BY <1>3 DEF Moved
<1>5. p \in Nat /\ p >= 3 /\ (p \in Turns(t) \/ p = Len(t) + 1)
  BY <1>1 DEF Cut
<1>6. t[1].kind = "goal" /\ c[1].kind = "goal"
  BY <1>1, <1>4 DEF InFront
<1>7. InFront(c)
  <2> SUFFICES ASSUME NEW i \in 1..Len(c), IsArtifact(c[i]), NEW k \in 2..i
               PROVE  IsArtifact(c[k])
    BY <1>4, <1>6 DEF InFront
  <2>0. Len(c) \in Nat /\ f \in Nat
    BY <1>4
  <2>1. k \in 1..Len(c) /\ k # 1 /\ k \in Nat /\ i \in Nat /\ k <= i
    BY ONLY <2>0, i \in 1..Len(c), k \in 2..i
  <2>2. CASE k <= f
    BY <1>4, <2>1, <2>2
  <2>3. CASE ~(k <= f)
    <3> DEFINE x == i + d
               y == k + d
    <3>1. i > f /\ k > f
      BY <1>4, <2>1, <2>3
    <3>2. x \in p..Len(t) /\ y \in p..Len(t) /\ c[i] = t[x] /\ c[k] = t[y]
      BY <1>4, <2>1, <3>1
    <3>3. x \in 1..Len(t) /\ y \in 2..x
      BY <1>1, <1>4, <1>5, <2>1, <3>2
    <3> HIDE DEF x, y
    <3> QED
      BY <1>1, <3>2, <3>3 DEF InFront
  <2> QED
    BY <2>2, <2>3
<1>8. ASSUME NEW i \in 1..Len(c), c[i].kind \in {"assistant", "results"}
      PROVE  i > f /\ i + d \in p..Len(t) /\ i + d \in 1..Len(t) /\ c[i] = t[i + d]
  <2>1. ~IsArtifact(c[i]) /\ i # 1
    BY <1>6, <1>8, ArtifactsRest
  <2>2. i > f
    <3>1. ~(i <= f)
      BY <1>4, <2>1
    <3>2. i \in Int /\ f \in Int
      BY <1>4
    <3> QED
      BY ONLY <3>1, <3>2
  <2>3. i + d \in p..Len(t) /\ c[i] = t[i + d]
    BY <1>4, <2>2
  <2>4. i + d \in 1..Len(t)
    BY <1>1, <1>5, <2>3
  <2> QED
    BY <2>2, <2>3, <2>4
<1>9. ASSUME NEW i \in 1..Len(c), Calling(c[i])
      PROVE  Answers(c, i + 1)
  <2> DEFINE x == i + d
             y == x + 1
  <2>1. x \in p..Len(t) /\ x \in 1..Len(t) /\ c[i] = t[x]
    BY <1>8, <1>9 DEF Calling
  <2>2. y - 1 = x /\ y \in Int
    BY <1>4, <2>1
  <2>3. Answers(t, y)
    <3> HIDE DEF x
    <3> QED
      BY <1>1, <1>9, <2>1 DEF Paired
  <2>4. y \in 1..Len(t) /\ t[y].kind = "results" /\ Ids(t[y]) = Ids(t[x])
    BY <2>2, <2>3 DEF Answers
  <2>5. y \in p..Len(t) /\ y - d = i + 1 /\ (i + 1) - 1 = i
    BY <1>1, <1>4, <1>5, <2>1, <2>4
  <2> HIDE DEF x, y
  <2>6. y - d \in 1..Len(c) /\ c[y - d] = t[y]
    BY <1>4, <2>5
  <2> QED
    BY <2>1, <2>4, <2>5, <2>6 DEF Answers
<1>10. ASSUME NEW i \in 1..Len(c), c[i].kind = "results"
       PROVE  i > 1 /\ Calling(c[i - 1]) /\ Answers(c, i)
  <2> DEFINE x == i + d
             y == x - 1
  <2>1. x \in p..Len(t) /\ x \in 1..Len(t) /\ c[i] = t[x] /\ i > f /\ i > 1
    <3>1. i > f /\ x \in p..Len(t) /\ x \in 1..Len(t) /\ c[i] = t[x]
      BY <1>8, <1>10
    <3> QED
      BY <1>4, <3>1
  <2>2. x # p
    <3> SUFFICES ASSUME x = p PROVE FALSE
      OBVIOUS
    <3>1. p \in Turns(t)
      BY <1>1, <1>5, <2>1
    <3>2. FromAssistant(t[p])
      BY <3>1 DEF Turns
    <3> HIDE DEF x
    <3> QED
      BY <1>10, <2>1, <3>2, ArtifactsRest
  <2>3. y \in p..Len(t) /\ y - d = i - 1 /\ x - 1 = y
    BY <1>1, <1>4, <1>5, <2>1, <2>2
  <2> HIDE DEF x, y
  <2>4. Calling(t[y]) /\ Ids(t[x]) = Ids(t[y])
    BY <1>1, <1>10, <2>1, <2>3 DEF Paired, Answers
  <2>5. c[i - 1] = t[y]
    BY <1>4, <2>3
  <2> QED
    BY <1>10, <2>1, <2>4, <2>5 DEF Answers
<1>11. Paired(c, FALSE)
  BY <1>9, <1>10 DEF Paired
<1> QED
  BY <1>2, <1>7, <1>11 DEF WellFormed

\* Call j of message i is one whose mail compaction repeats.
Owed(t, c, i, j) == CallOf(t, c, i, j) /\ ArtifactOf(t, c) # <<>>

\* The conversation shows the mail of id, now and when it is compacted.
Kept(t, id) ==
    \/ \E m \in ToSet(t) : Repeats(m, id)
    \/ \E c, i, j : Owed(t, c, i, j) /\ c.id = id

\* The conversation tells the outcome of id.
TellsOf(t, id) == \E m \in ToSet(t) : m.kind = "results" /\ \E r \in ToSet(m.items) : r.id = id

\* A call succeeded if some message of results says so.
LEMMA SucceededIs ==
  ASSUME NEW t \in Seq(Msg), NEW id
  PROVE  Succeeded(t, id) <=>
           \E m \in ToSet(t) : m.kind = "results" /\ \E r \in ToSet(m.items) : r.id = id /\ r.ok
<1>1. DOMAIN t = 1..Len(t)
  OBVIOUS
<1>2. ASSUME Succeeded(t, id)
      PROVE  \E m \in ToSet(t) : m.kind = "results" /\ \E r \in ToSet(m.items) : r.id = id /\ r.ok
  <2>1. PICK i \in 1..Len(t) : t[i].kind = "results" /\ \E r \in ToSet(t[i].items) : r.id = id /\ r.ok
    BY <1>1, <1>2 DEF Succeeded
  <2>2. t[i] \in ToSet(t)
    BY Members
  <2> QED
    BY <2>1, <2>2
<1>3. ASSUME NEW m \in ToSet(t), m.kind = "results", \E r \in ToSet(m.items) : r.id = id /\ r.ok
      PROVE  Succeeded(t, id)
  <2>1. PICK i \in 1..Len(t) : t[i] = m
    BY Members
  <2> QED
    BY <1>1, <1>3, <2>1 DEF Succeeded
<1> QED
  BY <1>2, <1>3

\* An artifact stays one while the success of its call is still told.
LEMMA ArtifactStays ==
  ASSUME NEW t, NEW u, NEW c, ArtifactOf(t, c) # <<>>, Succeeded(t, c.id) => Succeeded(u, c.id)
  PROVE  ArtifactOf(u, c) # <<>>
  BY DEF ArtifactOf

\* A conversation that grows keeps what it shows.
LEMMA KeptGrows ==
  ASSUME NEW t \in Seq(Msg), NEW u \in Seq(Msg), NEW id, Kept(t, id),
         \A i \in 1..Len(t) : t[i].kind # "results" => i \in 1..Len(u) /\ u[i] = t[i],
         \A x : Succeeded(t, x) => Succeeded(u, x)
  PROVE  Kept(u, id)
<1>1. CASE \E m \in ToSet(t) : Repeats(m, id)
  <2>1. PICK m \in ToSet(t) : Repeats(m, id)
    BY <1>1
  <2>2. PICK i \in 1..Len(t) : t[i] = m
    BY Members
  <2>3. m.kind # "results"
    BY <2>1 DEF Repeats
  <2>4. m \in ToSet(u)
    BY <2>2, <2>3, Members
  <2> QED
    BY <2>1, <2>4 DEF Kept
<1>2. CASE \E c, i, j : Owed(t, c, i, j) /\ c.id = id
  <2>1. PICK c, i, j : Owed(t, c, i, j) /\ c.id = id
    BY <1>2
  <2>2. CallOf(u, c, i, j)
    BY <2>1 DEF Owed, CallOf
  <2>3. ArtifactOf(u, c) # <<>>
    BY <2>1, ArtifactStays DEF Owed
  <2>4. Owed(u, c, i, j)
    BY <2>2, <2>3 DEF Owed
  <2> QED
    BY <2>1, <2>4 DEF Kept
<1> QED
  BY <1>1, <1>2 DEF Kept

\* What is kept is shown.
LEMMA KeptIsShown ==
  ASSUME NEW t \in Seq(Msg), NEW id, Kept(t, id)
  PROVE  id \in IdsIn(t)
<1>1. CASE \E m \in ToSet(t) : Repeats(m, id)
  <2>1. PICK m \in ToSet(t) : Repeats(m, id)
    BY <1>1
  <2>2. Piece(m) = <<id>>
    BY <2>1 DEF Repeats, Piece
  <2>3. id \in ToSet(<<id>>)
    BY DEF ToSet
  <2> QED
    BY <2>2, <2>3, IdsOfMembers
<1>2. CASE \E c, i, j : Owed(t, c, i, j) /\ c.id = id
  <2>1. PICK c, i, j : Owed(t, c, i, j) /\ c.id = id
    BY <1>2
  <2>2. i \in 1..Len(t) /\ t[i] \in Msg /\ t[i].kind = "assistant" /\ j \in 1..Len(t[i].items) /\ id = t[i].items[j].id
    BY <2>1 DEF Owed, CallOf
  <2>3. Ids(t[i]) \in Seq(Id) /\ Len(Ids(t[i])) = Len(t[i].items) /\ Ids(t[i])[j] = id
    BY <2>2, IdsAre
  <2>4. id \in ToSet(Piece(t[i]))
    BY <2>2, <2>3 DEF Piece, ToSet
  <2> QED
    BY <2>2, <2>4, IdsInside
<1> QED
  BY <1>1, <1>2 DEF Kept

\* What stands behind the cut stays.
LEMMA BehindCut ==
  ASSUME NEW t, WellFormed(t), NEW p, Cut(t, p), NEW c, NEW f, NEW d, Moved(c, t, f, p, d)
  PROVE  \A k \in 1..Len(t) : k <= p - 1 \/ \E a \in 1..Len(c) : c[a] = t[k]
<1> SUFFICES ASSUME NEW k \in 1..Len(t), ~(k <= p - 1) PROVE \E a \in 1..Len(c) : c[a] = t[k]
  OBVIOUS
<1>1. p \in Nat /\ Len(t) \in Nat
  BY ElidedIs
<1>2. k \in p..Len(t)
  BY <1>1
<1> QED
  BY <1>2 DEF Moved

\* Mail is kept by compaction: as an artifact, or by the call that it does not reach.
LEMMA CompactKeeps ==
  ASSUME NEW t, WellFormed(t), NEW id, Kept(t, id)
  PROVE  Kept(Compact(t), id)
<1> DEFINE c == Compact(t)
<1>1. t \in Seq(Msg) /\ InFront(t) /\ InOrder(t) /\ Paired(t, FALSE)
  BY DEF WellFormed
<1> HIDE DEF c
<1> SUFFICES ASSUME NEW p, NEW e \in Seam, Cut(t, p), c = FrontOf(t, p, e) \o SubSeq(t, p, Len(t))
             PROVE  Kept(c, id)
  BY <1>1, CompactIs DEF c
<1>2. /\ c \in Seq(Msg) /\ ToSet(FrontOf(t, p, e)) \subseteq ToSet(c)
      /\ \E f, d : Moved(c, t, f, p, d)
  BY CompactMoves
<1>3. PICK f, d : Moved(c, t, f, p, d)
  BY <1>2
<1>4. \A k \in 1..Len(t) : k <= p - 1 \/ \E a \in 1..Len(c) : c[a] = t[k]
  BY ONLY WellFormed(t), Cut(t, p), <1>3, BehindCut
<1>5. /\ p \in Nat /\ Len(t) \in Nat /\ p >= 3
      /\ Elided(t, p) \in Seq(Msg)
      /\ \A k \in 2..p - 1 : k - 1 \in 1..Len(Elided(t, p)) /\ Elided(t, p)[k - 1] = t[k] /\ k \in 1..Len(t)
  BY ElidedIs
<1>6. \A k \in 2..p - 1 : t[k] \in ToSet(Elided(t, p))
  BY <1>5, Members
<1>7. \A k \in 1..Len(t) : ~(k <= p - 1) => t[k] \in ToSet(c)
  <2> SUFFICES ASSUME NEW k \in 1..Len(t), ~(k <= p - 1) PROVE t[k] \in ToSet(c)
    OBVIOUS
  <2>1. PICK i \in 1..Len(c) : c[i] = t[k]
    BY <1>4
  <2>2. c \in Seq(Msg)
    BY <1>2
  <2>3. c[i] \in ToSet(c)
    BY ONLY <2>2, i \in 1..Len(c), Members
  <2> QED
    BY <2>1, <2>3
<1>8. /\ ToSet(Carried(t, p)) = {m \in ToSet(Elided(t, p)) : IsArtifact(m)}
      /\ Fresh(t, p) \in Seq(Msg) /\ InOrder(Fresh(t, p))
      /\ ToSet(Fresh(t, p)) = {m \in ToSet(Elided(t, p)) : ~IsArtifact(m)}
  BY PartsAre
<1>9. ToSet(Carried(t, p)) \subseteq ToSet(c) /\ ToSet(Synthetic(Fresh(t, p))) \subseteq ToSet(c)
  BY <1>2, FrontIs
<1>10. \A k \in 1..Len(t) : k <= p - 1 => k = 1 \/ k \in 2..p - 1
  BY <1>5
<1>11. t[1].kind = "goal"
  BY <1>1 DEF InFront
<1>12. CASE \E m \in ToSet(t) : Repeats(m, id)
  <2>1. PICK m \in ToSet(t) : Repeats(m, id)
    BY <1>12
  <2>2. PICK k \in 1..Len(t) : t[k] = m
    BY <1>1, Members
  <2>3. m \in ToSet(c)
    <3>1. CASE ~(k <= p - 1)
      BY <1>7, <2>2, <3>1
    <3>2. CASE k <= p - 1
      <4>1. IsArtifact(m) /\ k # 1
        BY <1>11, <2>1, <2>2, ArtifactsRest DEF Repeats
      <4>2. m \in ToSet(Elided(t, p))
        BY <1>6, <1>10, <2>2, <3>2, <4>1
      <4> QED
        BY <1>8, <1>9, <4>1, <4>2
    <3> QED
      BY <3>1, <3>2
  <2> QED
    BY <2>1, <2>3 DEF Kept
<1>13. CASE \E b, i, j : Owed(t, b, i, j) /\ b.id = id
  <2>1. PICK b, i, j : Owed(t, b, i, j) /\ b.id = id
    BY <1>13
  <2>2. /\ CallOf(t, b, i, j) /\ ArtifactOf(t, b) # <<>>
        /\ i \in 1..Len(t) /\ t[i].kind = "assistant" /\ j \in 1..Len(t[i].items) /\ b = t[i].items[j]
    BY <2>1 DEF Owed, CallOf
  <2> DEFINE n == i + 1
  <2>3. ASSUME Succeeded(t, b.id)
        PROVE  n \in 1..Len(t) /\ t[n].kind = "results" /\ \E r \in ToSet(t[n].items) : r.id = b.id /\ r.ok
    BY <1>1, <2>2, <2>3, AnswerIsNext
  <2>4. n \in Int /\ n > i /\ (i < p - 1 => n <= p - 1)
    BY <1>5, <2>2
  <2> HIDE DEF n
  <2>5. CASE ~(i <= p - 1)
    <3>1. PICK a \in 1..Len(c) : c[a] = t[i]
      BY <1>4, <2>2, <2>5
    <3>2. CallOf(c, b, a, j)
      BY <2>2, <3>1 DEF CallOf
    <3>3. ASSUME Succeeded(t, b.id)
          PROVE  Succeeded(c, b.id)
      <4>1. t[n] \in ToSet(c)
        <5>1. n \in 1..Len(t) /\ ~(n <= p - 1)
          BY <1>5, <2>2, <2>3, <2>4, <2>5, <3>3
        <5> QED
          BY <1>7, <5>1
      <4> QED
        BY <1>2, <2>3, <3>3, <4>1, SucceededIs
    <3>4. Owed(c, b, a, j)
      BY <2>2, <3>2, <3>3, ArtifactStays DEF Owed
    <3> QED
      BY <2>1, <3>4 DEF Kept
  <2>6. CASE i <= p - 1
    <3>1. i # 1 /\ ~IsArtifact(t[i])
      BY <1>11, <2>2, ArtifactsRest
    <3>2. t[i] \in ToSet(Fresh(t, p))
      BY <1>6, <1>8, <1>10, <2>2, <2>6, <3>1
    <3>3. PICK a \in 1..Len(Fresh(t, p)) : Fresh(t, p)[a] = t[i]
      BY <1>8, <3>2, Members
    <3>4. CallOf(Fresh(t, p), b, a, j)
      BY <2>2, <3>3 DEF CallOf
    <3>5. ASSUME Succeeded(t, b.id)
          PROVE  Succeeded(Fresh(t, p), b.id)
      <4>1. n \in 1..Len(t) /\ t[n].kind = "results" /\ \E r \in ToSet(t[n].items) : r.id = b.id /\ r.ok
        BY <2>3, <3>5
      <4>2. n # p
        <5> SUFFICES ASSUME n = p PROVE FALSE
          OBVIOUS
        <5>1. p \in Turns(t)
          BY <1>5, <4>1 DEF Cut
        <5>2. FromAssistant(t[p])
          BY <5>1 DEF Turns
        <5> QED
          BY <4>1, <5>2, ArtifactsRest
      <4>3. n \in 2..p - 1
        BY <1>5, <2>2, <2>4, <2>6, <3>1, <4>2 DEF n
      <4>4. t[n] \in ToSet(Fresh(t, p))
        BY <1>6, <1>8, <4>1, <4>3, ArtifactsRest
      <4> QED
        BY <1>8, <4>1, <4>4, SucceededIs
    <3>6. ArtifactOf(Fresh(t, p), b) # <<>>
      BY <2>2, <3>5, ArtifactStays
    <3>7. PICK q \in 1..Len(Synthetic(Fresh(t, p))) : Repeats(Synthetic(Fresh(t, p))[q], b.id)
      BY <1>8, <3>4, <3>6, SyntheticIs
    <3>8. Synthetic(Fresh(t, p)) \in Seq(Msg)
      BY <1>8, SyntheticIs
    <3>9. Synthetic(Fresh(t, p))[q] \in ToSet(c)
      BY <1>9, <3>7, <3>8, Members
    <3> QED
      BY <2>1, <3>7, <3>9 DEF Kept
  <2> QED
    BY <2>5, <2>6
<1> QED
  BY <1>12, <1>13 DEF Kept

\* What stands behind the last turn, compaction does not reach, unless it keeps no turn.
LEMMA CompactTells ==
  ASSUME NEW t, WellFormed(t), KeepLast # 0, NEW i \in 1..Len(t), \A k \in Turns(t) : k < i
  PROVE  t[i] \in ToSet(Compact(t))
<1> DEFINE c == Compact(t)
<1>1. t \in Seq(Msg)
  BY DEF WellFormed
<1>2. CASE c = t
  BY <1>1, <1>2, Members
<1>3. CASE c # t
  <2>1. PICK p : \E e \in Seam : Cut(t, p) /\ c = FrontOf(t, p, e) \o SubSeq(t, p, Len(t))
    BY <1>1, <1>3, CompactIs
  <2>2. PICK e \in Seam : Cut(t, p) /\ c = FrontOf(t, p, e) \o SubSeq(t, p, Len(t))
    BY <2>1
  <2> HIDE DEF c
  <2>3. c \in Seq(Msg) /\ \E f, d : Moved(c, t, f, p, d)
    BY <2>2, CompactMoves
  <2>4. PICK f, d : Moved(c, t, f, p, d)
    BY <2>3
  <2>5. p \in Nat /\ p < i
    BY <2>2 DEF Cut
  <2>6. ~(i <= p - 1)
    BY <2>5
  <2>7. Cut(t, p)
    BY <2>2
  <2>8. \A k \in 1..Len(t) : k <= p - 1 \/ \E a \in 1..Len(c) : c[a] = t[k]
    BY ONLY WellFormed(t), <2>7, <2>4, BehindCut
  <2>9. PICK a \in 1..Len(c) : c[a] = t[i]
    BY <2>6, <2>8
  <2> QED
    BY <2>3, <2>9, Members DEF c
<1> QED
  BY <1>2, <1>3

-----------------------------------------------------------------------------
(* A conversation grows by one message at a time *)

\* A message more: what was there stays in its place.
LEMMA Appended ==
  ASSUME NEW t \in Seq(Msg), NEW m \in Msg, NEW u, u = Append(t, m)
  PROVE  /\ u \in Seq(Msg) /\ Len(u) = Len(t) + 1 /\ Len(t) \in Nat
         /\ \A i \in 1..Len(t) : i \in 1..Len(u) /\ u[i] = t[i]
         /\ u[Len(t) + 1] = m
         /\ \A i \in 1..Len(u) : (i \in 1..Len(t) /\ u[i] = t[i]) \/ (i = Len(t) + 1 /\ u[i] = m)
         /\ ToSet(u) = ToSet(t) \cup {m}
<1>1. /\ u \in Seq(Msg) /\ Len(u) = Len(t) + 1 /\ Len(t) \in Nat
      /\ \A i \in 1..Len(t) : i \in 1..Len(u) /\ u[i] = t[i]
      /\ u[Len(t) + 1] = m
  OBVIOUS
<1> HIDE DEF Msg
<1>2. \A i \in 1..Len(u) : (i \in 1..Len(t) /\ u[i] = t[i]) \/ (i = Len(t) + 1 /\ u[i] = m)
  BY ONLY <1>1
<1>3. \A x \in ToSet(u) : x \in ToSet(t) \cup {m}
  <2> SUFFICES ASSUME NEW x \in ToSet(u) PROVE x \in ToSet(t) \cup {m}
    OBVIOUS
  <2>1. PICK i \in 1..Len(u) : u[i] = x
    BY ONLY <1>1, x \in ToSet(u), Members
  <2>2. CASE i \in 1..Len(t) /\ u[i] = t[i]
    BY <2>1, <2>2, Members
  <2> QED
    BY <1>2, <2>1, <2>2
<1>4. \A x \in ToSet(t) \cup {m} : x \in ToSet(u)
  <2>1. m \in ToSet(u)
    <3> DEFINE n == Len(t) + 1
    <3>1. n \in 1..Len(u) /\ u[n] = m
      BY <1>1
    <3> HIDE DEF n
    <3> QED
      BY <1>1, <3>1, Members
  <2>2. ASSUME NEW x \in ToSet(t)
        PROVE  x \in ToSet(u)
    <3>1. PICK i \in 1..Len(t) : t[i] = x
      BY Members
    <3>2. i \in 1..Len(u) /\ u[i] = x
      BY <1>1, <3>1
    <3> QED
      BY <1>1, <3>2, Members
  <2> QED
    BY <2>1, <2>2
<1> QED
  BY <1>1, <1>2, <1>3, <1>4

\* The order of a conversation that grows.
LEMMA GrowsInOrder ==
  ASSUME NEW t \in Seq(Msg), InOrder(t), InFront(t), NEW m \in Msg, ~IsArtifact(m), Increasing(Piece(m)),
         \A a \in IdsIn(t), b \in ToSet(Piece(m)) : Before(a, b), NEW u, u = Append(t, m)
  PROVE  InOrder(u) /\ InFront(u) /\ IdsIn(u) = IdsIn(t) \cup ToSet(Piece(m))
<1>1. /\ u \in Seq(Msg) /\ Len(u) = Len(t) + 1 /\ Len(t) \in Nat
      /\ \A i \in 1..Len(t) : i \in 1..Len(u) /\ u[i] = t[i]
      /\ u[Len(t) + 1] = m
      /\ \A i \in 1..Len(u) : (i \in 1..Len(t) /\ u[i] = t[i]) \/ (i = Len(t) + 1 /\ u[i] = m)
      /\ ToSet(u) = ToSet(t) \cup {m}
  <2>1. /\ u \in Seq(Msg) /\ Len(u) = Len(t) + 1 /\ Len(t) \in Nat
        /\ \A i \in 1..Len(t) : i \in 1..Len(u) /\ u[i] = t[i]
    BY Appended
  <2>2. u[Len(t) + 1] = m
    BY Appended
  <2>3. \A i \in 1..Len(u) : (i \in 1..Len(t) /\ u[i] = t[i]) \/ (i = Len(t) + 1 /\ u[i] = m)
    BY Appended
  <2>4. ToSet(u) = ToSet(t) \cup {m}
    BY Appended
  <2> QED
    BY ONLY <2>1, <2>2, <2>3, <2>4
<1>2. IdsIn(u) = IdsIn(t) \cup ToSet(Piece(m))
  <2>1. \A x \in IdsIn(u) : x \in IdsIn(t) \cup ToSet(Piece(m))
    BY <1>1, IdsOfMembers
  <2>2. \A x \in IdsIn(t) : x \in IdsIn(u)
    BY <1>1, IdsOfMembers
  <2>3. \A x \in ToSet(Piece(m)) : x \in IdsIn(u)
    BY <1>1, IdsOfMembers
  <2> QED
    BY <2>1, <2>2, <2>3
<1>3. \A i \in 1..Len(u) : Increasing(Piece(u[i]))
  BY <1>1 DEF InOrder
<1>4. ASSUME NEW i \in 1..Len(u), NEW k \in 1..Len(u), i < k,
             NEW a \in ToSet(Piece(u[i])), NEW b \in ToSet(Piece(u[k]))
      PROVE  Before(a, b)
  <2>1. i \in 1..Len(t) /\ u[i] = t[i]
    BY <1>1, <1>4
  <2>2. CASE k \in 1..Len(t) /\ u[k] = t[k]
    BY <1>4, <2>1, <2>2 DEF InOrder
  <2>3. CASE u[k] = m
    <3>1. a \in IdsIn(t)
      BY <2>1, IdsInside
    <3> QED
      BY <2>3, <3>1
  <2> QED
    BY <1>1, <2>2, <2>3
<1>5. InFront(u)
  <2>1. 1 \in 1..Len(u) /\ u[1].kind = "goal"
    BY <1>1 DEF InFront
  <2>2. ASSUME NEW i \in 1..Len(u), IsArtifact(u[i]), NEW k \in 2..i
        PROVE  IsArtifact(u[k])
    <3>1. i \in 1..Len(t) /\ u[i] = t[i]
      BY <1>1, <2>2
    <3>2. k \in 1..Len(t)
      BY <1>1, <3>1
    <3> QED
      BY <1>1, <2>2, <3>1, <3>2 DEF InFront
  <2> QED
    BY <2>1, <2>2 DEF InFront
<1> QED
  BY <1>2, <1>3, <1>4, <1>5 DEF InOrder

\* What was answered stays answered.
LEMMA StillAnswers ==
  ASSUME NEW t \in Seq(Msg), NEW u \in Seq(Msg), \A i \in 1..Len(t) : i \in 1..Len(u) /\ u[i] = t[i],
         NEW i, i > 1, Answers(t, i)
  PROVE  Answers(u, i) /\ i \in 1..Len(t)
<1> DEFINE n == i - 1
<1>1. i \in 1..Len(t) /\ t[i].kind = "results" /\ Ids(t[i]) = Ids(t[n])
  BY DEF Answers
<1>2. n \in 1..Len(t)
  BY <1>1
<1> HIDE DEF n
<1>3. u[i] = t[i] /\ u[n] = t[n] /\ i \in 1..Len(u)
  BY <1>1, <1>2
<1> QED
  BY <1>1, <1>3 DEF Answers, n

\* The message behind an answered conversation may call; then it is open.
LEMMA GrowsPaired ==
  ASSUME NEW t \in Seq(Msg), Paired(t, FALSE), NEW m \in Msg, m.kind # "results", NEW u, u = Append(t, m)
  PROVE  Paired(u, TRUE) /\ (~Calling(m) => Paired(u, FALSE))
<1>1. /\ u \in Seq(Msg) /\ Len(u) = Len(t) + 1 /\ Len(t) \in Nat
      /\ \A i \in 1..Len(t) : i \in 1..Len(u) /\ u[i] = t[i]
      /\ \A i \in 1..Len(u) : (i \in 1..Len(t) /\ u[i] = t[i]) \/ (i = Len(t) + 1 /\ u[i] = m)
  BY Appended
<1>2. ASSUME NEW i \in 1..Len(t), Calling(u[i])
      PROVE  Answers(u, i + 1)
  <2> DEFINE k == i + 1
  <2>1. Calling(t[i])
    BY <1>1, <1>2
  <2>2. Answers(t, k) /\ k > 1
    BY <2>1 DEF Paired
  <2> HIDE DEF k
  <2>3. Answers(u, k)
    BY <1>1, <2>2, StillAnswers
  <2> QED
    BY <2>3 DEF k
<1>3. ASSUME NEW i \in 1..Len(u), u[i].kind = "results"
      PROVE  i > 1 /\ Calling(u[i - 1]) /\ Answers(u, i)
  <2> DEFINE n == i - 1
  <2>1. i \in 1..Len(t) /\ u[i] = t[i]
    BY <1>1, <1>3
  <2>2. i > 1 /\ Calling(t[n]) /\ Answers(t, i)
    BY <1>3, <2>1 DEF Paired
  <2>3. n \in 1..Len(t)
    BY <1>1, <2>1, <2>2
  <2> HIDE DEF n
  <2>4. Calling(u[n])
    BY <1>1, <2>2, <2>3
  <2>5. Answers(u, i)
    BY <1>1, <2>2, StillAnswers
  <2> QED
    BY <2>2, <2>4, <2>5 DEF n
<1>4. \A i \in 1..Len(u) : i < Len(u) => i \in 1..Len(t)
  BY <1>1
<1>5. Paired(u, TRUE)
  BY <1>2, <1>3, <1>4 DEF Paired
<1>6. ASSUME ~Calling(m)
      PROVE  Paired(u, FALSE)
  <2>1. \A i \in 1..Len(u) : Calling(u[i]) => i \in 1..Len(t)
    BY <1>1, <1>6
  <2> QED
    BY <1>2, <1>3, <2>1 DEF Paired
<1> QED
  BY <1>5, <1>6

\* The results close it again.
LEMMA Closes ==
  ASSUME NEW t \in Seq(Msg), Paired(t, TRUE), NEW m \in Msg, m.kind = "results",
         Len(t) > 0, Calling(t[Len(t)]), Ids(m) = Ids(t[Len(t)]), NEW u, u = Append(t, m)
  PROVE  Paired(u, FALSE)
<1> DEFINE n == Len(t)
           z == n + 1
<1>1. /\ u \in Seq(Msg) /\ Len(u) = z /\ n \in Nat /\ u[z] = m
      /\ \A i \in 1..n : i \in 1..Len(u) /\ u[i] = t[i]
      /\ \A i \in 1..Len(u) : (i \in 1..n /\ u[i] = t[i]) \/ (i = z /\ u[i] = m)
  BY Appended
<1>2. n \in 1..n /\ u[n] = t[n] /\ z \in 1..Len(u) /\ z > 1 /\ z - 1 = n /\ z \in Nat
  BY <1>1
<1>3. Answers(u, z)
  <2> HIDE DEF n, z
  <2> QED
    BY <1>1, <1>2 DEF Answers, n
<1>4. ~Calling(m)
  BY DEF Calling
<1>5. ASSUME NEW i \in 1..Len(u), Calling(u[i])
      PROVE  Answers(u, i + 1)
  <2>1. i \in 1..n /\ u[i] = t[i]
    BY <1>1, <1>4, <1>5
  <2>2. CASE i = n
    BY <1>3, <2>2
  <2>3. CASE i # n
    <3> DEFINE k == i + 1
    <3>1. Calling(t[i]) /\ i < Len(t)
      BY <1>1, <1>5, <2>1, <2>3
    <3>2. Answers(t, k) /\ k > 1
      BY <2>1, <3>1 DEF Paired
    <3> HIDE DEF k, n, z
    <3>3. Answers(u, k)
      BY <1>1, <3>2, StillAnswers DEF n
    <3> QED
      BY <3>3 DEF k
  <2> QED
    BY <2>2, <2>3
<1>6. ASSUME NEW i \in 1..Len(u), u[i].kind = "results"
      PROVE  i > 1 /\ Calling(u[i - 1]) /\ Answers(u, i)
  <2>1. CASE i = z
    <3>1. Calling(u[n])
      BY <1>2
    <3> HIDE DEF n, z
    <3> QED
      BY <1>2, <1>3, <2>1, <3>1
  <2>2. CASE i \in 1..n /\ u[i] = t[i]
    <3> DEFINE y == i - 1
    <3>1. i > 1 /\ Calling(t[y]) /\ Answers(t, i)
      BY <1>6, <2>2 DEF Paired
    <3>2. y \in 1..n
      BY <1>1, <2>2, <3>1
    <3> HIDE DEF y, n, z
    <3>3. Calling(u[y])
      BY <1>1, <3>1, <3>2
    <3>4. Answers(u, i)
      BY <1>1, <3>1, StillAnswers DEF n
    <3> QED
      BY <3>1, <3>3, <3>4 DEF y
  <2> QED
    BY <1>1, <2>1, <2>2
<1> QED
  BY <1>5, <1>6 DEF Paired

\* The outcome of id is told behind the last turn.
Late(t, id) == \E i \in 1..Len(t) :
    /\ \A k \in Turns(t) : k < i
    /\ t[i].kind = "results" /\ \E r \in ToSet(t[i].items) : r.id = id

\* u is sound, shows nothing new, and keeps the mail of t.
After(t, u) == WellFormed(u) /\ IdsIn(u) \subseteq IdsIn(t) /\ \A id : Kept(t, id) => Kept(u, id)

\* Moreover it has all messages of t.
Grown(t, u) == After(t, u) /\ ToSet(t) \subseteq ToSet(u)

\* What one step keeps and the next keeps, both keep.
LEMMA AfterThen ==
  ASSUME NEW t, NEW u, NEW v
  PROVE  /\ WellFormed(t) => Grown(t, t)
         /\ After(t, u) /\ After(u, v) => After(t, v)
         /\ Grown(t, u) /\ Grown(u, v) => Grown(t, v)
         /\ Grown(t, u) => \A id : TellsOf(t, id) => TellsOf(u, id)
  BY DEF After, Grown, TellsOf

Quiet == {Message("notice", <<>>), Message("nudge", <<>>), Message("assistant", <<>>)}

\* Notices, nudges and words without calls have no ids.
LEMMA QuietIs ==
  ASSUME NEW m \in Quiet
  PROVE  /\ m \in Msg /\ Piece(m) = <<>> /\ ~IsArtifact(m) /\ ~Calling(m) /\ m.kind # "results"
         /\ m.kind \in {"notice", "nudge", "assistant"}
<1>1. m.kind \in {"notice", "nudge", "assistant"} /\ m.items = <<>> /\ m = [kind |-> m.kind, items |-> <<>>]
  BY DEF Quiet, Message
<1>2. m \in Msg
  <2>1. CASE m.kind = "assistant"
    <3>1. <<>> \in Seq(ACall)
      OBVIOUS
    <3> QED
      BY <1>1, <2>1, <3>1 DEF Msg
  <2>2. CASE m.kind \in {"notice", "nudge"}
    BY <1>1, <2>2 DEF Msg
  <2> QED
    BY <1>1, <2>1, <2>2
<1>3. Ids(m) = <<>> \/ m.kind # "assistant"
  <2>1. m.kind = "assistant" => Len(Ids(m)) = 0 /\ Ids(m) \in Seq(Id)
    BY <1>1, <1>2, IdsAre
  <2> QED
    BY <2>1
<1> QED
  BY <1>1, <1>2, <1>3 DEF Piece, IsArtifact, Artifacts, Calling

\* What does not call only grows the conversation.
LEMMA QuietGrows ==
  ASSUME NEW t, WellFormed(t), NEW m \in Quiet, NEW u, u = Append(t, m)
  PROVE  /\ Grown(t, u)
         /\ m.kind # "assistant" => \A id : Late(t, id) => Late(u, id)
<1>1. t \in Seq(Msg) /\ InFront(t) /\ InOrder(t) /\ Paired(t, FALSE)
  BY DEF WellFormed
<1>2. m \in Msg /\ Piece(m) = <<>> /\ ~IsArtifact(m) /\ ~Calling(m) /\ m.kind # "results"
      /\ m.kind \in {"notice", "nudge", "assistant"}
  BY QuietIs
<1>3. ToSet(<<>>) = {} /\ Increasing(<<>>)
  BY DEF ToSet, Increasing
<1>4. InOrder(u) /\ InFront(u) /\ IdsIn(u) = IdsIn(t)
  <2>1. InOrder(u) /\ InFront(u) /\ IdsIn(u) = IdsIn(t) \cup ToSet(Piece(m))
    BY <1>1, <1>2, <1>3, GrowsInOrder
  <2> QED
    BY <1>2, <1>3, <2>1
<1>5. Paired(u, FALSE)
  BY <1>1, <1>2, GrowsPaired
<1>6. u \in Seq(Msg) /\ ToSet(u) = ToSet(t) \cup {m}
  BY <1>1, <1>2, Appended
<1>7. /\ \A i \in 1..Len(t) : i \in 1..Len(u) /\ u[i] = t[i]
      /\ \A i \in 1..Len(u) : (i \in 1..Len(t) /\ u[i] = t[i]) \/ (i = Len(t) + 1 /\ u[i] = m)
  BY <1>1, <1>2, Appended
<1>8. \A x : Succeeded(t, x) => Succeeded(u, x)
  BY <1>1, <1>6, SucceededIs
<1>9. \A id : Kept(t, id) => Kept(u, id)
  BY <1>1, <1>6, <1>7, <1>8, KeptGrows
<1>10. Grown(t, u)
  BY <1>4, <1>5, <1>6, <1>9 DEF Grown, After, WellFormed
<1>11. ASSUME m.kind # "assistant", NEW id, Late(t, id)
       PROVE  Late(u, id)
  <2>1. PICK i \in 1..Len(t) :
           /\ \A k \in Turns(t) : k < i
           /\ t[i].kind = "results" /\ \E r \in ToSet(t[i].items) : r.id = id
    BY <1>11 DEF Late
  <2>2. ~FromAssistant(m)
    BY <1>2, <1>11 DEF FromAssistant
  <2>3. DOMAIN t = 1..Len(t) /\ DOMAIN u = 1..Len(u)
    BY <1>1, <1>6
  <2>4. \A k \in Turns(u) : k \in Turns(t)
    BY <1>7, <2>2, <2>3 DEF Turns
  <2> QED
    BY <1>7, <2>1, <2>4 DEF Late
<1> QED
  BY <1>10, <1>11

\* The notice of urgent mail leaves the conversation sound.
LEMMA NoticeGrows ==
  ASSUME NEW t, WellFormed(t)
  PROVE  Grown(t, Notice(t))
<1>1. CASE mail = "none"
  BY <1>1, AfterThen DEF Notice
<1>2. CASE mail # "none"
  <2>1. Message("notice", <<>>) \in Quiet
    BY DEF Quiet
  <2> QED
    BY <1>2, <2>1, QuietGrows DEF Notice
<1> QED
  BY <1>1, <1>2

\* So does a nudge, which does not bury the last results either.
LEMMA NudgeGrows ==
  ASSUME NEW t, WellFormed(t)
  PROVE  /\ Grown(t, Append(t, Message("nudge", <<>>)))
         /\ \A id : Late(t, id) => Late(Append(t, Message("nudge", <<>>)), id)
<1>1. Message("nudge", <<>>) \in Quiet /\ Message("nudge", <<>>).kind # "assistant"
  BY DEF Quiet, Message
<1> QED
  BY <1>1, QuietGrows

\* So does what the model says without calling a tool.
LEMMA SayGrows ==
  ASSUME NEW t, WellFormed(t), NEW says
  PROVE  Grown(t, Say(t, says, <<>>))
<1>1. CASE says
  <2>1. Message("assistant", <<>>) \in Quiet
    BY DEF Quiet
  <2> QED
    BY <1>1, <2>1, QuietGrows DEF Say
<1>2. CASE ~says
  BY <1>2, AfterThen DEF Say
<1> QED
  BY <1>1, <1>2

\* Compaction leaves the conversation sound, keeps its mail, and tells the model what the
\* last turn did.
LEMMA CompactAfter ==
  ASSUME NEW t, WellFormed(t)
  PROVE  /\ After(t, Compact(t))
         /\ KeepLast # 0 => \A id : Late(t, id) => TellsOf(Compact(t), id)
<1>1. After(t, Compact(t))
  BY CompactHolds, CompactKeeps DEF After
<1>2. ASSUME KeepLast # 0, NEW id, Late(t, id)
      PROVE  TellsOf(Compact(t), id)
  <2>1. PICK i \in 1..Len(t) :
           /\ \A k \in Turns(t) : k < i
           /\ t[i].kind = "results" /\ \E r \in ToSet(t[i].items) : r.id = id
    BY <1>2 DEF Late
  <2>2. t[i] \in ToSet(Compact(t))
    BY <1>2, <2>1, CompactTells
  <2> QED
    BY <2>1, <2>2 DEF TellsOf
<1> QED
  BY <1>1, <1>2

-----------------------------------------------------------------------------
(* What holds of the conversation at every step *)

\* Calls wait for their results; the conversation with the results that are there.
Pending == pc = "tools" /\ reply.calls # <<>>
Sofar   == IF pc = "tools" THEN Answered ELSE talk

\* The conversation is well formed but for the calls that wait, and these are the reply's.
Talks    == talk \in Seq(Msg) /\ InFront(talk) /\ InOrder(talk) /\ Paired(talk, Pending)
Drafted  == Pending => talk[Len(talk)] = Message("assistant", reply.calls)

\* The calls are numbered by turn, and the results come in their order.
Numbered == pc = "tools" => \A j \in 1..Len(reply.calls) : reply.calls[j].id = <<turn, j>>
Matched  ==
    /\ reply.calls \in Seq(ACall) /\ results \in Seq(AResult) /\ Len(results) <= Len(reply.calls)
    /\ pc = "tools" => \A j \in 1..Len(results) : results[j].id = reply.calls[j].id

\* Nothing is from a later turn; of this turn, only what has its result was run.
Aged ==
    /\ turn \in Nat /\ mailed \in Seq(Id) /\ ran \in Seq(Id)
    /\ \A id \in IdsIn(talk) \cup ToSet(ran) \cup ToSet(mailed) :
         id[1] <= turn /\ (pc = "model" => id[1] < turn)
Recent ==
    pc = "tools" => \A id \in ToSet(mailed) \cup ToSet(ran) : id[1] = turn => id[2] \in 1..Len(results)

\* Each mail is shown, or a call that compaction will turn into an artifact holds it.
MailHeld == Increasing(mailed) /\ \A id \in ToSet(mailed) : Kept(Sofar, id)

CInv == Talks /\ Drafted /\ Numbered /\ Matched /\ Aged /\ Recent /\ MailHeld

\* While no call waits for its result, the conversation is sound.
LEMMA IdleIsWell ==
  ASSUME CInv, ~Pending
  PROVE  WellFormed(talk)
<1>1. Pending = FALSE
  BY DEF Pending
<1> QED
  BY <1>1 DEF CInv, Talks, WellFormed

\* The message that brings the results.
LEMMA ResultsAre ==
  ASSUME CInv
  PROVE  /\ Message("results", results) \in Msg
         /\ Piece(Message("results", results)) = <<>>
         /\ Message("results", results).kind = "results"
         /\ Message("results", results).items = results
<1>1. results \in Seq(AResult)
  BY DEF CInv, Matched
<1> QED
  BY <1>1 DEF Message, Msg, Piece

\* The results show no mail.
LEMMA AnsweredGrows ==
  ASSUME CInv
  PROVE  /\ Answered \in Seq(Msg) /\ InFront(Answered) /\ InOrder(Answered)
         /\ IdsIn(Answered) = IdsIn(talk)
         /\ IdsIn(Sofar) = IdsIn(talk) /\ Sofar \in Seq(Msg)
<1>1. talk \in Seq(Msg) /\ InFront(talk) /\ InOrder(talk)
  BY DEF CInv, Talks
<1>2. CASE results = <<>>
  BY <1>1, <1>2 DEF Answered, Sofar
<1>3. CASE results # <<>>
  <2> DEFINE m == Message("results", results)
  <2>1. Answered = Append(talk, m)
    BY <1>3 DEF Answered
  <2>2. m \in Msg /\ Piece(m) = <<>> /\ ~IsArtifact(m)
    BY ResultsAre, ArtifactsRest
  <2>3. ToSet(<<>>) = {} /\ Increasing(<<>>)
    BY DEF ToSet, Increasing
  <2> HIDE DEF m
  <2>4. InOrder(Answered) /\ InFront(Answered) /\ IdsIn(Answered) = IdsIn(talk) \cup ToSet(Piece(m))
    BY <1>1, <2>1, <2>2, <2>3, GrowsInOrder
  <2>5. Answered \in Seq(Msg)
    BY <1>1, <2>1, <2>2, Appended
  <2>6. IdsIn(Answered) = IdsIn(talk)
    BY <2>2, <2>3, <2>4
  <2> QED
    BY <1>1, <2>4, <2>5, <2>6 DEF Sofar
<1> QED
  BY <1>2, <1>3

\* When all calls have run, the answered conversation is sound, and tells what they did.
LEMMA AnsweredIsWell ==
  ASSUME CInv, Dispatched
  PROVE  /\ WellFormed(Answered) /\ Sofar = Answered
         /\ \A id \in ToSet(ran) : id[1] = turn => Late(Answered, id)
<1>1. /\ talk \in Seq(Msg) /\ InFront(talk) /\ InOrder(talk) /\ Paired(talk, Pending)
      /\ reply.calls \in Seq(ACall) /\ results \in Seq(AResult) /\ Len(results) = Len(reply.calls)
      /\ \A j \in 1..Len(results) : results[j].id = reply.calls[j].id
      /\ pc = "tools"
  BY DEF CInv, Talks, Matched, Dispatched
<1>2. Sofar = Answered
  BY <1>1 DEF Sofar
<1>3. Answered \in Seq(Msg) /\ InFront(Answered) /\ InOrder(Answered)
  BY AnsweredGrows
<1>4. \A id \in ToSet(ran) : id \in Id /\ (id[1] = turn => id[2] \in 1..Len(results))
  <2>1. ran \in Seq(Id)
    BY DEF CInv, Aged
  <2>2. ToSet(ran) \subseteq Id
    BY <2>1, Members
  <2> QED
    BY <1>1, <2>2 DEF CInv, Recent
<1>5. CASE results = <<>>
  <2>1. Len(reply.calls) = 0
    BY <1>1, <1>5
  <2>2. ~Pending
    BY <1>1, <2>1 DEF Pending
  <2>3. Answered = talk
    BY <1>5 DEF Answered
  <2>4. \A id \in ToSet(ran) : id[1] # turn
    BY <1>4, <1>5
  <2> QED
    BY <1>2, <2>2, <2>3, <2>4, IdleIsWell
<1>6. CASE results # <<>>
  <2> DEFINE m == Message("results", results)
             n == Len(talk)
             a == talk[n]
  <2>1. Answered = Append(talk, m)
    BY <1>6 DEF Answered
  <2>2. m \in Msg /\ m.kind = "results" /\ m.items = results
    BY ResultsAre
  <2>3. reply.calls # <<>> /\ Pending
    BY <1>1, <1>6 DEF Pending
  <2>4. a = Message("assistant", reply.calls) /\ n > 0 /\ n \in Nat
    BY <1>1, <2>3 DEF CInv, Drafted, InFront
  <2>5. a.kind = "assistant" /\ a.items = reply.calls /\ Calling(a) /\ a \in Msg
    <3>1. a.kind = "assistant" /\ a.items = reply.calls
      BY <2>4 DEF Message
    <3>2. a \in Msg
      BY <1>1, <2>4
    <3> QED
      BY <2>3, <3>1, <3>2 DEF Calling
  <2> HIDE DEF m, a, n
  <2>6. Ids(m) = Ids(a)
    <3>1. /\ Ids(m) \in Seq(Id) /\ Len(Ids(m)) = Len(results)
          /\ \A j \in 1..Len(results) : Ids(m)[j] = results[j].id
      BY <2>2, IdsAre
    <3>2. /\ Ids(a) \in Seq(Id) /\ Len(Ids(a)) = Len(reply.calls)
          /\ \A j \in 1..Len(reply.calls) : Ids(a)[j] = reply.calls[j].id
      BY <2>5, IdsAre
    <3>3. Len(Ids(m)) = Len(Ids(a)) /\ \A j \in 1..Len(Ids(m)) : Ids(m)[j] = Ids(a)[j]
      BY <1>1, <3>1, <3>2
    <3> QED
      BY ONLY <3>1, <3>2, <3>3, SeqEqual
  <2>7. Paired(talk, TRUE)
    BY <1>1, <2>3 DEF Pending
  <2>8. Paired(Answered, FALSE)
    BY <1>1, <2>1, <2>2, <2>4, <2>5, <2>6, <2>7, Closes DEF a, n
  <2>9. WellFormed(Answered)
    BY <1>3, <2>8 DEF WellFormed
  <2>10. ASSUME NEW id \in ToSet(ran), id[1] = turn
         PROVE  Late(Answered, id)
    <3> DEFINE z == n + 1
    <3>1. z \in 1..Len(Answered) /\ Answered[z] = m
      BY <1>1, <2>1, <2>2, <2>4, Appended DEF n
    <3>2. \A k \in 1..Len(Answered) : k = z \/ k < z
      BY <1>1, <2>1, <2>2, <2>4, Appended DEF n
    <3>3. ~FromAssistant(m)
      BY <2>2 DEF FromAssistant
    <3>4. DOMAIN Answered = 1..Len(Answered)
      BY <1>3
    <3> HIDE DEF z
    <3>5. \A k \in Turns(Answered) : k < z
      BY <3>1, <3>2, <3>3, <3>4 DEF Turns
    <3>6. PICK j \in 1..Len(results) : id = <<turn, j>>
      <4>1. id \in Id /\ id[2] \in 1..Len(results)
        BY <1>4, <2>10
      <4>2. id = <<id[1], id[2]>>
        BY <4>1 DEF Id
      <4> QED
        BY <2>10, <4>1, <4>2
    <3>7. results[j].id = id
      <4>1. j \in 1..Len(reply.calls)
        BY <1>1
      <4> QED
        BY <1>1, <3>6, <4>1 DEF CInv, Numbered
    <3>8. results[j] \in ToSet(m.items)
      BY <1>1, <2>2, Members
    <3> QED
      BY <2>2, <3>1, <3>5, <3>7, <3>8 DEF Late
  <2> QED
    BY <1>2, <2>9, <2>10
<1> QED
  BY <1>5, <1>6

-----------------------------------------------------------------------------
(* The steps of the loop *)

\* A step that ends the turn, or starts one, with a conversation that keeps what was there.
LEMMA Settles ==
  ASSUME CInv, pc' # "tools", After(Sofar, talk'), mailed' = mailed, ran' = ran,
         turn' \in {turn, turn + 1}, pc' = "model" => turn' = turn + 1, Matched'
  PROVE  CInv'
<1>1. WellFormed(talk') /\ IdsIn(talk') \subseteq IdsIn(Sofar) /\ \A id : Kept(Sofar, id) => Kept(talk', id)
  BY DEF After
<1>2. IdsIn(Sofar) = IdsIn(talk)
  BY AnsweredGrows
<1>3. Pending' = FALSE /\ Sofar' = talk'
  BY DEF Pending, Sofar
<1>4. Talks'
  BY <1>1, <1>3 DEF Talks, WellFormed
<1>5. Drafted' /\ Numbered' /\ Recent'
  BY <1>3 DEF Drafted, Numbered, Recent
<1>6. Aged'
  <2>1. /\ turn \in Nat /\ mailed \in Seq(Id) /\ ran \in Seq(Id)
        /\ \A id \in IdsIn(talk) \cup ToSet(ran) \cup ToSet(mailed) : id[1] <= turn
    BY DEF CInv, Aged
  <2>2. \A id \in IdsIn(talk) \cup ToSet(ran) \cup ToSet(mailed) : id \in Id
    <3>1. ToSet(ran) \subseteq Id /\ ToSet(mailed) \subseteq Id
      BY <2>1, Members
    <3>2. talk \in Seq(Msg)
      BY DEF CInv, Talks
    <3>3. IdsIn(talk) \subseteq Id
      BY <3>2, IdsInside
    <3> QED
      BY <3>1, <3>3
  <2>3. \A id \in Id : id[1] \in Nat
    BY DEF Id
  <2>4. turn' \in Nat /\ turn <= turn' /\ (pc' = "model" => turn < turn')
    BY <2>1
  <2>5. ASSUME NEW id \in IdsIn(talk') \cup ToSet(ran') \cup ToSet(mailed')
        PROVE  id[1] <= turn' /\ (pc' = "model" => id[1] < turn')
    <3>1. id \in IdsIn(talk) \cup ToSet(ran) \cup ToSet(mailed)
      BY <1>1, <1>2, <2>5
    <3>2. id[1] <= turn /\ id[1] \in Nat
      BY <2>1, <2>2, <2>3, <3>1
    <3> QED
      BY <2>1, <2>4, <3>2
  <2> QED
    BY <2>1, <2>4, <2>5 DEF Aged
<1>7. MailHeld'
  <2>1. Increasing(mailed) /\ \A id \in ToSet(mailed) : Kept(Sofar, id)
    BY DEF CInv, MailHeld
  <2> QED
    BY <1>1, <1>3, <2>1 DEF MailHeld
<1> QED
  BY <1>4, <1>5, <1>6, <1>7 DEF CInv

\* The calls of a reply, as they are told apart.
LEMMA CallsOfReply ==
  ASSUME NEW r, r.calls \in Seq([tool : STRING, args : STRING]), turn \in Nat
  PROVE  /\ Calls(r) \in Seq(ACall) /\ Len(Calls(r)) = Len(r.calls)
         /\ \A j \in 1..Len(Calls(r)) : Calls(r)[j].id = <<turn, j>>
<1> DEFINE n == Len(r.calls)
           c == Calls(r)
<1>1. n \in Nat /\ DOMAIN r.calls = 1..n
  OBVIOUS
<1>2. c = [i \in 1..n |-> [id |-> <<turn, i>>, tool |-> r.calls[i].tool, args |-> r.calls[i].args]]
  BY <1>1 DEF Calls
<1>3. \A i \in 1..n : r.calls[i].tool \in STRING /\ r.calls[i].args \in STRING
  <2>1. \A i \in 1..n : r.calls[i] \in [tool : STRING, args : STRING]
    BY ElementOfSeq
  <2>2. \A x \in [tool : STRING, args : STRING] : x.tool \in STRING /\ x.args \in STRING
    OBVIOUS
  <2> QED
    BY ONLY <2>1, <2>2
<1>4. \A i \in 1..n : <<turn, i>> \in Id
  BY <1>1 DEF Id
<1> HIDE DEF n, c
<1>5. c \in [1..n -> ACall]
  BY <1>2, <1>3, <1>4 DEF ACall
<1>6. c \in Seq(ACall) /\ DOMAIN c = 1..n
  BY ONLY <1>1, <1>5, IsASeq
<1>7. Len(c) = n
  BY ONLY <1>1, <1>6, LenProperties
<1>8. \A j \in 1..n : c[j].id = <<turn, j>>
  BY <1>2
<1> QED
  BY <1>6, <1>7, <1>8 DEF n, c

\* A message with calls, whose ids are newer than all others.
LEMMA Drafts ==
  ASSUME CInv, pc = "model", NEW cs \in Seq(ACall), \A j \in 1..Len(cs) : cs[j].id = <<turn, j>>,
         NEW m, m = Message("assistant", cs)
  PROVE  /\ m \in Msg /\ m.kind = "assistant" /\ m.items = cs /\ Increasing(Piece(m)) /\ Len(cs) \in Nat
         /\ \A b \in ToSet(Piece(m)) : b \in Id /\ b[1] = turn
         /\ \A a \in IdsIn(talk), b \in ToSet(Piece(m)) : Before(a, b)
<1>1. m \in Msg /\ m.kind = "assistant" /\ m.items = cs
  BY DEF Message, Msg
<1>2. /\ Piece(m) \in Seq(Id) /\ Len(Piece(m)) = Len(cs) /\ Len(cs) \in Nat
      /\ \A j \in 1..Len(cs) : Piece(m)[j] = <<turn, j>>
  BY <1>1, IdsAre DEF Piece
<1>3. turn \in Nat
  BY DEF CInv, Aged
<1>4. Increasing(Piece(m))
  BY <1>2, <1>3 DEF Increasing, Before
<1>5. \A b \in ToSet(Piece(m)) : b \in Id /\ b[1] = turn
  <2> SUFFICES ASSUME NEW b \in ToSet(Piece(m)) PROVE b \in Id /\ b[1] = turn
    OBVIOUS
  <2>0. PICK j \in 1..Len(Piece(m)) : Piece(m)[j] = b
    BY ONLY <1>2, b \in ToSet(Piece(m)), Members
  <2>1. j \in 1..Len(cs) /\ b = <<turn, j>>
    BY <1>2, <2>0
  <2> QED
    BY <1>2, <1>3, <2>1 DEF Id
<1>6. \A a \in IdsIn(talk), b \in ToSet(Piece(m)) : Before(a, b)
  BY <1>5 DEF CInv, Aged, Before
<1> QED
  BY <1>1, <1>2, <1>4, <1>5, <1>6

\* A reply whose tools are run next.
LEMMA Called ==
  ASSUME CInv, pc = "model", pc' = "tools", NEW r, r.calls \in Seq([tool : STRING, args : STRING]),
         reply'.calls = Calls(r), results' = <<>>, NEW says, talk' = Say(talk, says, Calls(r)),
         turn' = turn, mailed' = mailed, ran' = ran
  PROVE  CInv'
<1> DEFINE cs == Calls(r)
           m  == Message("assistant", cs)
<1>1. /\ turn \in Nat /\ mailed \in Seq(Id) /\ ran \in Seq(Id)
      /\ \A id \in IdsIn(talk) \cup ToSet(ran) \cup ToSet(mailed) : id[1] < turn
  BY DEF CInv, Aged
<1>2. cs \in Seq(ACall) /\ \A j \in 1..Len(cs) : cs[j].id = <<turn, j>>
  BY <1>1, CallsOfReply
<1> HIDE DEF cs
<1>3. WellFormed(talk) /\ Sofar = talk
  <2>1. ~Pending /\ Sofar = talk
    BY DEF Pending, Sofar
  <2> QED
    BY <2>1, IdleIsWell
<1>4. talk \in Seq(Msg) /\ InFront(talk) /\ InOrder(talk) /\ Paired(talk, FALSE)
  BY <1>3 DEF WellFormed
<1>5. Sofar' = talk'
  BY DEF Sofar, Answered
<1>6. /\ \A id \in ToSet(mailed) : id \in Id /\ Kept(talk, id)
      /\ \A id \in ToSet(ran) : id \in Id
      /\ Increasing(mailed)
  <2>1. ToSet(mailed) \subseteq Id /\ ToSet(ran) \subseteq Id
    BY <1>1, Members
  <2> QED
    BY <1>3, <2>1 DEF CInv, MailHeld
<1>7. Matched'
  <2>1. <<>> \in Seq(AResult) /\ Len(<<>>) = 0 /\ Len(cs) \in Nat
    BY <1>2
  <2>2. reply'.calls = cs
    BY DEF cs
  <2> QED
    BY <1>2, <2>1, <2>2 DEF Matched
<1>8. Numbered'
  <2>1. reply'.calls = cs
    BY DEF cs
  <2> QED
    BY <1>2, <2>1 DEF Numbered
<1>9. \A id \in ToSet(mailed) \cup ToSet(ran) : id[1] # turn
  <2>1. \A id \in Id : id[1] \in Nat
    BY DEF Id
  <2> QED
    BY <1>1, <1>6, <2>1
<1>10. Recent'
  BY <1>9 DEF Recent
<1>11. SUFFICES /\ InFront(talk') /\ InOrder(talk') /\ talk' \in Seq(Msg)
                /\ Paired(talk', Pending') /\ Drafted'
                /\ \A id \in IdsIn(talk') : id[1] <= turn
                /\ \A id : Kept(talk, id) => Kept(talk', id)
  <2>1. Talks'
    BY <1>11 DEF Talks
  <2>2. MailHeld'
    BY <1>5, <1>6, <1>11 DEF MailHeld
  <2>3. \A id \in ToSet(ran) \cup ToSet(mailed) : id[1] <= turn
    <3>1. \A id \in Id : id[1] \in Nat
      BY DEF Id
    <3> QED
      BY <1>1, <1>6, <3>1
  <2>4. Aged'
    BY <1>1, <1>11, <2>3 DEF Aged
  <2> QED
    BY <1>7, <1>8, <1>10, <1>11, <2>1, <2>2, <2>4 DEF CInv
<1>12. \A id \in IdsIn(talk) : id[1] <= turn
  BY <1>1 DEF CInv, Aged
<1>13. CASE cs = <<>>
  <2>1. Grown(talk, talk')
    BY <1>3, <1>13, SayGrows DEF cs
  <2>2. WellFormed(talk') /\ IdsIn(talk') \subseteq IdsIn(talk) /\ \A id : Kept(talk, id) => Kept(talk', id)
    BY <2>1 DEF Grown, After
  <2>3. Pending' = FALSE
    BY <1>13 DEF Pending, cs
  <2> QED
    BY <1>12, <2>2, <2>3 DEF WellFormed, Drafted
<1>14. CASE cs # <<>>
  <2>1. talk' = Append(talk, m)
    BY <1>14 DEF Say, cs
  <2>2. /\ m \in Msg /\ m.kind = "assistant" /\ m.items = cs /\ Increasing(Piece(m))
        /\ \A b \in ToSet(Piece(m)) : b \in Id /\ b[1] = turn
        /\ \A a \in IdsIn(talk), b \in ToSet(Piece(m)) : Before(a, b)
    BY <1>2, Drafts
  <2>3. Pending' = TRUE /\ reply'.calls = cs
    BY <1>14 DEF Pending, cs
  <2>4. m = Message("assistant", reply'.calls)
    BY <2>3
  <2> HIDE DEF m
  <2>5. ~IsArtifact(m)
    BY <2>2, ArtifactsRest
  <2>6. InOrder(talk') /\ InFront(talk') /\ IdsIn(talk') = IdsIn(talk) \cup ToSet(Piece(m))
    BY <1>4, <2>1, <2>2, <2>5, GrowsInOrder
  <2>7. Paired(talk', TRUE)
    BY <1>4, <2>1, <2>2, GrowsPaired
  <2>8. /\ talk' \in Seq(Msg) /\ talk'[Len(talk) + 1] = m /\ Len(talk') = Len(talk) + 1
        /\ \A i \in 1..Len(talk) : i \in 1..Len(talk') /\ talk'[i] = talk[i]
    BY <1>4, <2>1, <2>2, Appended
  <2>9. ToSet(talk') = ToSet(talk) \cup {m}
    BY <1>4, <2>1, <2>2, Appended
  <2>10. \A x : Succeeded(talk, x) => Succeeded(talk', x)
    BY <1>4, <2>8, <2>9, SucceededIs
  <2>11. \A id : Kept(talk, id) => Kept(talk', id)
    BY <1>4, <2>8, <2>10, KeptGrows
  <2>12. Drafted'
    BY <2>4, <2>8 DEF Drafted
  <2>13. \A id \in IdsIn(talk') : id[1] <= turn
    BY <1>1, <1>12, <2>2, <2>6
  <2>14. Paired(talk', Pending')
    BY <2>3, <2>7
  <2> QED
    BY <2>6, <2>8, <2>11, <2>12, <2>13, <2>14
<1> QED
  BY <1>13, <1>14

\* One element more.
LEMMA SetAppend ==
  ASSUME NEW S, NEW a \in Seq(S), NEW x \in S
  PROVE  /\ Append(a, x) \in Seq(S) /\ Len(Append(a, x)) = Len(a) + 1 /\ Len(a) \in Nat
         /\ \A i \in 1..Len(a) : Append(a, x)[i] = a[i]
         /\ Append(a, x)[Len(a) + 1] = x
         /\ ToSet(Append(a, x)) = ToSet(a) \cup {x}
<1> DEFINE b == Append(a, x)
           n == Len(a) + 1
<1>1. /\ b \in Seq(S) /\ Len(b) = n /\ Len(a) \in Nat /\ n \in 1..n
      /\ \A i \in 1..Len(a) : i \in 1..n /\ b[i] = a[i]
      /\ b[n] = x
  OBVIOUS
<1>2. \A i \in 1..n : i = n \/ i \in 1..Len(a)
  OBVIOUS
<1> HIDE DEF b, n
<1>3. x \in ToSet(b)
  BY <1>1, Members
<1>4. ASSUME NEW y \in ToSet(a)
      PROVE  y \in ToSet(b)
  <2>1. PICK i \in 1..Len(a) : a[i] = y
    BY Members
  <2>2. i \in 1..Len(b) /\ b[i] = y
    BY <1>1, <2>1
  <2> QED
    BY <1>1, <2>2, Members
<1>5. ASSUME NEW y \in ToSet(b)
      PROVE  y \in ToSet(a) \cup {x}
  <2>1. PICK i \in 1..Len(b) : b[i] = y
    BY <1>1, Members
  <2>2. CASE i \in 1..Len(a)
    <3>1. a[i] = y
      BY <1>1, <2>1, <2>2
    <3> QED
      BY <2>2, <3>1, Members
  <2> QED
    BY <1>1, <1>2, <2>1, <2>2
<1> QED
  BY <1>1, <1>3, <1>4, <1>5 DEF b, n

\* An increasing sequence goes on with a newer id.
LEMMA IncreasesBy ==
  ASSUME NEW s \in Seq(Id), Increasing(s), NEW x \in Id, \A a \in ToSet(s) : Before(a, x)
  PROVE  Increasing(Append(s, x))
<1> DEFINE b == Append(s, x)
           n == Len(s) + 1
<1>1. /\ b \in Seq(Id) /\ Len(b) = n /\ Len(s) \in Nat
      /\ \A i \in 1..Len(s) : b[i] = s[i]
      /\ b[n] = x
  BY SetAppend
<1>2. \A i \in 1..Len(s) : s[i] \in ToSet(s)
  BY Members
<1>3. ASSUME NEW p \in 1..Len(b), NEW q \in 1..Len(b), p < q
      PROVE  Before(b[p], b[q])
  <2>1. p \in 1..Len(s) /\ (q \in 1..Len(s) \/ q = n)
    BY <1>1, <1>3
  <2> HIDE DEF b, n
  <2>2. CASE q \in 1..Len(s)
    BY <1>1, <1>3, <2>1, <2>2 DEF Increasing
  <2>3. CASE q = n
    BY <1>1, <1>2, <2>1, <2>3
  <2> QED
    BY <2>1, <2>2, <2>3
<1> QED
  BY <1>3 DEF Increasing

\* A call that was run: the outcome is noted, and the mail it brought or sent is kept.
LEMMA DispatchKeeps ==
  ASSUME CInv, DispatchTool
  PROVE  CInv'
<1> DEFINE j    == Len(results) + 1
           call == reply.calls[j]
           n    == Len(talk)
<1>1. PICK ok \in Outcomes(call) :
        /\ results' = Append(results, [id |-> call.id, ok |-> ok])
        /\ mailed' = IF ok /\ call.tool \in PreservedIn \cup PreservedOut
                     THEN Append(mailed, call.id) ELSE mailed
  BY DEF DispatchTool
<1>2. /\ ran' = IF Refused(call) THEN ran ELSE Append(ran, call.id)
      /\ pc = "tools" /\ pc' = pc /\ turn' = turn /\ talk' = talk /\ reply' = reply
      /\ Len(results) < Len(reply.calls)
  BY DEF DispatchTool
<1>3. ok \in BOOLEAN /\ (ok => ~Refused(call))
  BY DEF Outcomes
<1>4. /\ talk \in Seq(Msg) /\ InFront(talk) /\ turn \in Nat /\ mailed \in Seq(Id) /\ ran \in Seq(Id)
      /\ reply.calls \in Seq(ACall) /\ results \in Seq(AResult)
      /\ \A i \in 1..Len(reply.calls) : reply.calls[i].id = <<turn, i>>
      /\ \A i \in 1..Len(results) : results[i].id = reply.calls[i].id
      /\ \A id \in IdsIn(talk) \cup ToSet(ran) \cup ToSet(mailed) : id[1] <= turn
      /\ \A id \in ToSet(mailed) \cup ToSet(ran) : id[1] = turn => id[2] \in 1..Len(results)
      /\ Increasing(mailed) /\ \A id \in ToSet(mailed) : Kept(Sofar, id)
  BY <1>2 DEF CInv, Talks, Numbered, Matched, Aged, Recent, MailHeld
<1>5. j \in 1..Len(reply.calls) /\ Len(results) \in Nat /\ j \in Nat
  <2>1. Len(results) \in Nat /\ Len(reply.calls) \in Nat
    BY <1>4
  <2> QED
    BY <1>2, <2>1
<1>6. call \in ACall /\ call.id \in Id /\ call.id = <<turn, j>> /\ call.id[1] = turn /\ call.id[2] = j
  <2>1. call \in ACall /\ call.id = <<turn, j>>
    BY <1>4, <1>5
  <2> HIDE DEF call, j
  <2>2. call.id \in Id
    BY <2>1 DEF ACall
  <2> QED
    BY <2>1, <2>2
<1> DEFINE rec == [id |-> call.id, ok |-> ok]
<1>7. rec \in AResult /\ rec.id = call.id /\ rec.ok = ok
  BY <1>3, <1>6 DEF AResult
<1>8. /\ results' = Append(results, rec) /\ results' \in Seq(AResult) /\ Len(results') = j
      /\ \A i \in 1..Len(results) : results'[i] = results[i]
      /\ results'[j] = rec
      /\ ToSet(results') = ToSet(results) \cup {rec}
  <2>1. results' = Append(results, rec)
    BY <1>1
  <2> HIDE DEF rec
  <2> QED
    BY <1>4, <1>7, <2>1, SetAppend
<1>9. \A i \in 1..j : i = j \/ i \in 1..Len(results)
  BY <1>5
<1> HIDE DEF call, rec, j
<1>10. Matched'
  <2>1. \A i \in 1..Len(results') : results'[i].id = reply.calls[i].id
    BY <1>4, <1>7, <1>8, <1>9 DEF call
  <2>2. Len(results') <= Len(reply.calls)
    BY <1>4, <1>5, <1>8
  <2> QED
    BY <1>2, <1>4, <1>8, <2>1, <2>2 DEF Matched
<1>11. Talks' /\ Drafted' /\ Numbered'
  BY <1>2 DEF CInv, Talks, Drafted, Numbered, Pending
<1>12. /\ mailed' \in Seq(Id) /\ \A id \in ToSet(mailed') : id \in ToSet(mailed) \/ id = call.id
       /\ ran' \in Seq(Id) /\ \A id \in ToSet(ran') : id \in ToSet(ran) \/ id = call.id
  <2>1. /\ Append(mailed, call.id) \in Seq(Id) /\ ToSet(Append(mailed, call.id)) = ToSet(mailed) \cup {call.id}
        /\ Append(ran, call.id) \in Seq(Id) /\ ToSet(Append(ran, call.id)) = ToSet(ran) \cup {call.id}
    <3>1. mailed \in Seq(Id) /\ ran \in Seq(Id) /\ call.id \in Id
      BY <1>4, <1>6
    <3>2. Append(mailed, call.id) \in Seq(Id) /\ ToSet(Append(mailed, call.id)) = ToSet(mailed) \cup {call.id}
      BY ONLY <3>1, SetAppend
    <3>3. Append(ran, call.id) \in Seq(Id) /\ ToSet(Append(ran, call.id)) = ToSet(ran) \cup {call.id}
      BY ONLY <3>1, SetAppend
    <3> QED
      BY <3>2, <3>3
  <2> QED
    BY <1>1, <1>2, <1>4, <2>1
<1>13. Aged'
  <2>1. \A id \in IdsIn(talk) \cup ToSet(ran') \cup ToSet(mailed') : id[1] <= turn
    BY <1>4, <1>6, <1>12
  <2>2. pc' # "model"
    BY <1>2
  <2> QED
    BY <1>2, <1>4, <1>12, <2>1, <2>2 DEF Aged
<1>14. Recent'
  <2>1. \A id \in ToSet(mailed') \cup ToSet(ran') : id[1] = turn => id[2] \in 1..j
    <3>1. \A i \in 1..Len(results) : i \in 1..j
      BY <1>5 DEF j
    <3>2. j \in 1..j
      BY <1>5
    <3> QED
      BY <1>4, <1>6, <1>12, <3>1, <3>2
  <2> QED
    BY <1>2, <1>8, <2>1 DEF Recent
<1>15. Increasing(mailed')
  <2>1. ASSUME NEW a \in ToSet(mailed)
        PROVE  Before(a, call.id)
    <3>1. a \in Id /\ a[1] <= turn /\ (a[1] = turn => a[2] \in 1..Len(results))
      BY <1>4, Members
    <3>2. a[1] \in Nat /\ a[2] \in Nat
      BY <3>1 DEF Id
    <3>3. a[1] = turn => a[2] < j
      BY <1>5, <3>1 DEF j
    <3> QED
      BY <1>4, <1>6, <3>1, <3>2, <3>3 DEF Before
  <2>2. Increasing(Append(mailed, call.id))
    BY <1>4, <1>6, <2>1, IncreasesBy
  <2> QED
    BY <1>1, <1>4, <2>2
<1> DEFINE m == Message("results", results')
           u == Append(talk, m)
<1>16. m \in Msg /\ m.kind = "results" /\ m.items = results'
  BY <1>8 DEF Message, Msg
<1>17. Sofar' = u
  <2>1. results' # <<>>
    BY <1>5, <1>8
  <2> QED
    BY <1>2, <2>1 DEF Sofar, Answered
<1> HIDE DEF m, n
<1>18. /\ u \in Seq(Msg) /\ Len(u) = n + 1 /\ n \in Nat
       /\ \A i \in 1..n : i \in 1..Len(u) /\ u[i] = talk[i]
       /\ u[n + 1] = m
  BY <1>4, <1>16, Appended DEF n
<1>19. ToSet(u) = ToSet(talk) \cup {m}
  BY <1>4, <1>16, Appended
<1> HIDE DEF u
\* what was so far is still so
<1>20. /\ Sofar \in Seq(Msg)
       /\ \A i \in 1..Len(Sofar) : Sofar[i].kind # "results" => i \in 1..Len(u) /\ u[i] = Sofar[i]
       /\ \A x : Succeeded(Sofar, x) => Succeeded(u, x)
  <2>1. CASE results = <<>>
    <3>1. Sofar = talk
      BY <1>2, <2>1 DEF Sofar, Answered
    <3>2. \A x : Succeeded(talk, x) => Succeeded(u, x)
      BY <1>4, <1>18, <1>19, SucceededIs
    <3> QED
      BY <1>4, <1>18, <3>1, <3>2 DEF n
  <2>2. CASE results # <<>>
    <3> DEFINE o == Message("results", results)
               w == Append(talk, o)
    <3>1. Sofar = w
      BY <1>2, <2>2 DEF Sofar, Answered
    <3>2. o \in Msg /\ o.kind = "results" /\ o.items = results
      BY ResultsAre
    <3> HIDE DEF o
    <3>3. /\ w \in Seq(Msg)
          /\ \A i \in 1..Len(w) : (i \in 1..n /\ w[i] = talk[i]) \/ (i = n + 1 /\ w[i] = o)
      BY <1>4, <3>2, Appended DEF n
    <3>4. ToSet(w) = ToSet(talk) \cup {o}
      BY <1>4, <3>2, Appended
    <3> HIDE DEF w
    <3>5. \A i \in 1..Len(w) : w[i].kind # "results" => i \in 1..Len(u) /\ u[i] = w[i]
      BY <1>18, <3>2, <3>3
    <3>6. ASSUME NEW x, Succeeded(w, x)
          PROVE  Succeeded(u, x)
      <4>1. PICK y \in ToSet(w) : y.kind = "results" /\ \E r \in ToSet(y.items) : r.id = x /\ r.ok
        BY <3>3, <3>6, SucceededIs
      <4>2. CASE y \in ToSet(talk)
        BY <1>18, <1>19, <4>1, <4>2, SucceededIs
      <4>3. CASE y = o
        <5>1. \E r \in ToSet(m.items) : r.id = x /\ r.ok
          BY <1>8, <1>16, <3>2, <4>1, <4>3
        <5>2. m \in ToSet(u)
          BY <1>19
        <5> QED
          BY <1>16, <1>18, <5>1, <5>2, SucceededIs
      <4> QED
        BY <3>4, <4>1, <4>2, <4>3
    <3> QED
      BY <3>1, <3>3, <3>5, <3>6
  <2> QED
    BY <2>1, <2>2
<1>21. \A id : Kept(Sofar, id) => Kept(u, id)
  BY <1>18, <1>20, KeptGrows
<1>22. ASSUME ok, call.tool \in PreservedIn \cup PreservedOut
       PROVE  Kept(u, call.id)
  <2>1. call.args # "raw"
    BY <1>3, <1>22 DEF Refused
  <2>2. Succeeded(u, call.id)
    <3>1. rec \in ToSet(m.items)
      BY <1>8, <1>16
    <3>2. \E r \in ToSet(m.items) : r.id = call.id /\ r.ok
      BY <1>7, <1>22, <3>1
    <3>3. m \in ToSet(u)
      BY <1>19
    <3> QED
      BY <1>16, <1>18, <3>2, <3>3, SucceededIs
  <2>3. ArtifactOf(u, call) # <<>>
    BY <1>22, <2>1, <2>2 DEF ArtifactOf
  <2>4. CallOf(u, call, n, j)
    <3>1. Pending
      <4>1. reply.calls # <<>>
        BY <1>5
      <4> QED
        BY <1>2, <4>1 DEF Pending
    <3>2. talk[n] = Message("assistant", reply.calls) /\ n \in 1..n
      BY <1>4, <1>18, <3>1 DEF CInv, Drafted, InFront, n
    <3>3. u[n].kind = "assistant" /\ u[n].items = reply.calls /\ n \in 1..Len(u)
      BY <1>18, <3>2 DEF Message
    <3> QED
      BY <1>5, <3>3 DEF CallOf, call
  <2>5. Owed(u, call, n, j)
    BY <2>3, <2>4 DEF Owed
  <2> QED
    BY <2>5 DEF Kept
<1>23. MailHeld'
  <2>1. ASSUME NEW id \in ToSet(mailed')
        PROVE  Kept(u, id)
    <3>1. CASE id \in ToSet(mailed)
      BY <1>4, <1>21, <3>1
    <3>2. CASE id \notin ToSet(mailed)
      <4>1. id = call.id
        BY <1>12, <3>2
      <4>2. ok /\ call.tool \in PreservedIn \cup PreservedOut
        BY <1>1, <3>2
      <4> QED
        BY <1>22, <4>1, <4>2
    <3> QED
      BY <3>1, <3>2
  <2> QED
    BY <1>15, <1>17, <2>1 DEF MailHeld
<1> QED
  BY <1>10, <1>11, <1>13, <1>14, <1>23 DEF CInv

talkVars == <<pc, turn, talk, reply, results, ran, mailed>>

\* The outcomes of the last turn are told.
OutcomesTold ==
    /\ pc = "boundary" => \A id \in ToSet(ran) : id[1] = turn => TellsOf(talk, id)
    /\ pc = "model" => \A id \in ToSet(ran) : id[1] = turn - 1 => TellsOf(talk, id)

\* What does not touch the conversation does not disturb it.
LEMMA Unmoved ==
  ASSUME UNCHANGED talkVars
  PROVE  /\ CInv => CInv'
         /\ OutcomesTold => OutcomesTold'
         /\ Matched /\ pc' # "tools" => Matched'
  BY DEF talkVars, CInv, Talks, Drafted, Numbered, Matched, Aged, Recent, MailHeld, Sofar, Answered,
     Pending, OutcomesTold

\* A wakeup starts with its goal alone.
LEMMA CInit == Init => CInv /\ OutcomesTold
<1> SUFFICES ASSUME Init PROVE CInv /\ OutcomesTold
  OBVIOUS
<1> DEFINE m == Message("goal", <<>>)
<1>1. /\ pc = "boundary" /\ turn = 0 /\ talk = <<m>> /\ reply = NoReply /\ results = <<>>
      /\ ran = <<>> /\ mailed = <<>>
  BY DEF Init
<1>2. m \in Msg /\ Piece(m) = <<>> /\ m.kind = "goal"
  BY DEF Message, Msg, Piece
<1> HIDE DEF m
<1>3. /\ talk \in Seq(Msg) /\ Len(talk) = 1 /\ talk[1] = m /\ InOrder(talk) /\ IdsIn(talk) = {}
  BY <1>1, <1>2, OneOrder
<1>4. reply.calls = <<>>
  BY <1>1 DEF NoReply
<1>5. ToSet(<<>>) = {} /\ Increasing(<<>>)
  BY DEF ToSet, Increasing
<1>6. ~Pending
  BY <1>1 DEF Pending
<1>7. InFront(talk)
  BY <1>2, <1>3, ArtifactsRest DEF InFront
<1>8. Paired(talk, Pending)
  BY <1>2, <1>3 DEF Paired, Calling
<1>9. Matched
  BY <1>1, <1>4 DEF Matched
<1>10. <<>> \in Seq(Id)
  OBVIOUS
<1> QED
  BY <1>1, <1>3, <1>5, <1>6, <1>7, <1>8, <1>9, <1>10
     DEF CInv, Talks, Drafted, Numbered, Aged, Recent, MailHeld, OutcomesTold

\* Matched while no call waits.
LEMMA NothingWaits ==
  ASSUME CInv, pc' # "tools", reply' = reply, results' = results
  PROVE  Matched'
  BY DEF CInv, Matched

\* The loop is left for its close or its end.
LEMMA Leaving ==
  ASSUME NEW stopped, NEW hitMax, NEW final, NEW did, NEW count, Leave(stopped, hitMax, final, did, count)
  PROVE  pc' \in {"closing", "over"}
  BY DEF Leave

\* Between turns the conversation is sound.
LEMMA RestIsWell ==
  ASSUME CInv, pc # "tools"
  PROVE  WellFormed(talk) /\ Sofar = talk
<1>1. ~Pending /\ Sofar = talk
  BY DEF Pending, Sofar
<1> QED
  BY <1>1, IdleIsWell

\* The nudges that follow the results.
Fed ==
    LET nudge(b, conversation) ==
            IF b THEN Append(conversation, Message("nudge", <<>>)) ELSE conversation
    IN  nudge(Overlooked, nudge(TooOften, Answered))

\* The nudges behind the results leave the conversation sound, and do not bury the results.
LEMMA FedGrows ==
  ASSUME CInv, Dispatched
  PROVE  /\ Grown(Answered, Fed) /\ WellFormed(Fed)
         /\ \A id : Late(Answered, id) => Late(Fed, id)
<1> DEFINE n == Message("nudge", <<>>)
           a == Answered
           b == IF TooOften THEN Append(a, n) ELSE a
           c == IF Overlooked THEN Append(b, n) ELSE b
<1>1. WellFormed(a)
  BY AnsweredIsWell
<1>2. Fed = c
  BY DEF Fed
<1> HIDE DEF n, a
<1>3. /\ Grown(a, a) /\ Grown(a, Append(a, n)) /\ \A id : Late(a, id) => Late(Append(a, n), id)
  BY <1>1, AfterThen, NudgeGrows DEF n
<1>4. Grown(a, b) /\ \A id : Late(a, id) => Late(b, id)
  BY <1>3
<1>5. WellFormed(b)
  BY <1>4 DEF Grown, After
<1> HIDE DEF b
<1>6. /\ Grown(b, b) /\ Grown(b, Append(b, n)) /\ \A id : Late(b, id) => Late(Append(b, n), id)
  BY <1>5, AfterThen, NudgeGrows DEF n
<1>7. Grown(b, c) /\ \A id : Late(b, id) => Late(c, id)
  BY <1>6
<1> HIDE DEF c
<1>8. Grown(a, c)
  BY <1>4, <1>7, AfterThen
<1>9. WellFormed(c)
  BY <1>7 DEF Grown, After
<1> QED
  BY <1>2, <1>4, <1>7, <1>8, <1>9 DEF a

\* What is told behind the last turn is told.
LEMMA LateIsTold ==
  ASSUME NEW t \in Seq(Msg), NEW id, Late(t, id)
  PROVE  TellsOf(t, id)
<1>1. PICK i \in 1..Len(t) : t[i].kind = "results" /\ \E r \in ToSet(t[i].items) : r.id = id
  BY DEF Late
<1>2. t[i] \in ToSet(t)
  BY Members
<1> QED
  BY <1>1, <1>2 DEF TellsOf

\* What the last word leaves of the conversation.
LEMMA LastWordIs ==
  ASSUME CInv, LastWord
  PROVE  /\ pc = "model" /\ pc' \in {"boundary", "closing", "over"} /\ Grown(talk, talk')
         /\ reply'.calls = <<>> /\ results' = <<>>
         /\ turn' = turn /\ mailed' = mailed /\ ran' = ran
<1>1. pc = "model" /\ turn' = turn /\ mailed' = mailed /\ ran' = ran
  BY DEF LastWord, history
<1>2. WellFormed(talk)
  BY <1>1, RestIsWell
<1>3. PICK r \in Replies :
        /\ r.calls = <<>> /\ Take(r, FALSE)
        /\ \/ pc' = "boundary" /\ talk' = Notice(Say(talk, r.says, <<>>))
           \/ pc' = "boundary" /\ talk' = Append(Say(talk, r.says, <<>>), Message("nudge", <<>>))
           \/ Leave(stop, FALSE, r.stop, acted, nudges) /\ talk' = talk
  BY DEF LastWord
<1>4. reply'.calls = <<>> /\ results' = <<>>
  BY <1>3, Taken, NoCalls
<1>5. Grown(talk, Say(talk, r.says, <<>>))
  BY <1>2, SayGrows
<1>6. WellFormed(Say(talk, r.says, <<>>))
  BY <1>5 DEF Grown, After
<1>7. CASE pc' = "boundary" /\ talk' = Notice(Say(talk, r.says, <<>>))
  BY <1>1, <1>4, <1>5, <1>6, <1>7, NoticeGrows, AfterThen
<1>8. CASE pc' = "boundary" /\ talk' = Append(Say(talk, r.says, <<>>), Message("nudge", <<>>))
  BY <1>1, <1>4, <1>5, <1>6, <1>8, NudgeGrows, AfterThen
<1>9. CASE Leave(stop, FALSE, r.stop, acted, nudges) /\ talk' = talk
  <2>1. pc' \in {"closing", "over"}
    BY <1>9, Leaving
  <2> QED
    BY <1>1, <1>2, <1>4, <1>9, <2>1, AfterThen
<1> QED
  BY <1>3, <1>7, <1>8, <1>9

\* A part of a reply, or all of it.
LEMMA PartIs ==
  ASSUME NEW r \in Replies, NEW n \in 0..Len(r.calls), NEW said, NEW why,
         NEW part, part = [r EXCEPT !.calls = SubSeq(@, 1, n), !.says = said, !.stop = why]
  PROVE  /\ r.calls \in Seq([tool : STRING, args : STRING])
         /\ part.calls \in Seq([tool : STRING, args : STRING])
<1>1. r \in [calls : Seq([tool : STRING, args : STRING]), says : BOOLEAN, stop : Stops, full : BOOLEAN]
  BY AgentLoopAssumption
<1>2. r.calls \in Seq([tool : STRING, args : STRING])
  BY <1>1
<1>3. part.calls = SubSeq(r.calls, 1, n)
  BY <1>1
<1> DEFINE S == [tool : STRING, args : STRING]
           c == r.calls
<1>4. \A i \in 1..Len(c) : c[i] \in S
  BY <1>2, ElementOfSeq
<1>5. n \in Int /\ \A i \in 1..n : i \in 1..Len(c)
  BY <1>2
<1> HIDE DEF S, c
<1>6. SubSeq(c, 1, n) \in Seq(S)
  BY ONLY <1>4, <1>5, SubSeqProperties
<1> QED
  BY <1>2, <1>3, <1>6 DEF S, c

-----------------------------------------------------------------------------
(* The conversation is sound *)

\* Every step of the loop keeps the conversation sound: the assistant's message opens calls,
\* the tools answer them one by one, the results close them; notices, nudges and compaction
\* come only between.
LEMMA CInvStep == CInv /\ [Next]_vars => CInv'
<1> SUFFICES ASSUME CInv, [Next]_vars PROVE CInv'
  OBVIOUS
<1> USE DEF loopVars, history
<1>0. turn \in Nat
  BY DEF CInv, Aged
<1>1. CASE UNCHANGED vars
  BY <1>1, Unmoved DEF vars, talkVars
<1>2. CASE MailComes \/ CancelAsked \/ StopAsked
  <2>1. UNCHANGED talkVars
    BY <1>2 DEF MailComes, CancelAsked, StopAsked, talkVars
  <2> QED
    BY <2>1, Unmoved
<1>3. CASE Fallback \/ Exhausted \/ StopTurn \/ Raise
  <2>1. /\ pc # "tools" /\ pc' \in {"closing", "over"} /\ talk' = talk /\ turn' \in {turn, turn + 1}
        /\ mailed' = mailed /\ ran' = ran /\ reply' = reply /\ results' = results
    BY <1>3, Leaving DEF Fallback, Exhausted, StopTurn, Raise
  <2>2. WellFormed(talk) /\ Sofar = talk
    BY <2>1, RestIsWell
  <2>3. After(Sofar, talk')
    BY <2>1, <2>2, AfterThen DEF Grown
  <2>4. Matched'
    BY <2>1, NothingWaits
  <2> QED
    BY <2>1, <2>3, <2>4, Settles
<1>4. CASE StartTurn
  <2>1. /\ pc # "tools" /\ pc' = "model" /\ talk' = Notice(talk) /\ turn' = turn + 1
        /\ mailed' = mailed /\ ran' = ran /\ reply' = reply /\ results' = results
    BY <1>4 DEF StartTurn
  <2>2. WellFormed(talk) /\ Sofar = talk
    BY <2>1, RestIsWell
  <2>3. After(Sofar, talk')
    BY <2>1, <2>2, NoticeGrows DEF Grown
  <2>4. Matched'
    BY <2>1, NothingWaits
  <2> QED
    BY <2>1, <2>3, <2>4, Settles
<1>5. CASE Reply
  <2>1. PICK r \in Replies : Take(r, FALSE) /\ talk' = Say(talk, r.says, Calls(r))
    BY <1>5 DEF Reply
  <2>2. /\ pc = "model" /\ pc' = "tools" /\ turn' = turn /\ mailed' = mailed /\ ran' = ran
    BY <1>5 DEF Reply
  <2>3. reply'.calls = Calls(r) /\ results' = <<>>
    BY <2>1, Taken
  <2>4. r.calls \in Seq([tool : STRING, args : STRING])
    BY AgentLoopAssumption
  <2> QED
    BY <2>1, <2>2, <2>3, <2>4, Called
<1>6. CASE LastWord
  <2>1. /\ pc = "model" /\ pc' \in {"boundary", "closing", "over"} /\ Grown(talk, talk')
        /\ reply'.calls = <<>> /\ results' = <<>>
        /\ turn' = turn /\ mailed' = mailed /\ ran' = ran
    BY <1>6, LastWordIs
  <2>2. Sofar = talk
    BY <2>1 DEF Sofar
  <2>3. After(Sofar, talk')
    BY <2>1, <2>2 DEF Grown
  <2>4. Matched'
    BY <2>1 DEF Matched
  <2> QED
    BY <2>1, <2>3, <2>4, Settles
<1>7. CASE Interrupt
  <2>1. PICK r \in Replies : \E n \in 0..Len(r.calls) : \E said \in {FALSE, r.says} :
          \E why \in {"none"} \cup (IF n = Len(r.calls) THEN {r.stop} ELSE {}) :
             LET part == [r EXCEPT !.calls = SubSeq(@, 1, n), !.says = said, !.stop = why]
             IN  Take(part, TRUE) /\ talk' = Say(talk, said, Calls(part))
    BY <1>7 DEF Interrupt
  <2>2. PICK n, said, why : n \in 0..Len(r.calls) /\
             LET part == [r EXCEPT !.calls = SubSeq(@, 1, n), !.says = said, !.stop = why]
             IN  Take(part, TRUE) /\ talk' = Say(talk, said, Calls(part))
    BY <2>1
  <2> DEFINE part == [r EXCEPT !.calls = SubSeq(@, 1, n), !.says = said, !.stop = why]
  <2>3. Take(part, TRUE) /\ talk' = Say(talk, said, Calls(part))
    BY <2>2
  <2>4. part.calls \in Seq([tool : STRING, args : STRING])
    BY <2>2, PartIs
  <2> HIDE DEF part
  <2>5. reply'.calls = Calls(part) /\ results' = <<>>
    BY <2>3, Taken
  <2>6. /\ pc = "model" /\ pc' = "tools" /\ turn' = turn /\ mailed' = mailed /\ ran' = ran
    BY <1>7 DEF Interrupt
  <2> QED
    BY <2>3, <2>4, <2>5, <2>6, Called
<1>8. CASE DispatchTool
  BY <1>8, DispatchKeeps
<1>9. CASE Drained
  <2>1. /\ Dispatched /\ pc' = "boundary" /\ talk' = Notice(Answered) /\ turn' = turn
        /\ mailed' = mailed /\ ran' = ran /\ reply' = reply /\ results' = results
    BY <1>9 DEF Drained
  <2>2. WellFormed(Answered) /\ Sofar = Answered
    BY <2>1, AnsweredIsWell
  <2>3. After(Sofar, talk')
    BY <2>1, <2>2, NoticeGrows DEF Grown
  <2>4. Matched'
    BY <2>1, NothingWaits
  <2> QED
    BY <2>1, <2>3, <2>4, Settles
<1>10. CASE DeadLoop \/ Thrashed
  <2>1. /\ Dispatched /\ pc' \in {"closing", "over"} /\ talk' = Answered /\ turn' = turn
        /\ mailed' = mailed /\ ran' = ran /\ reply' = reply /\ results' = results
    BY <1>10, Leaving DEF DeadLoop, Thrashed
  <2>2. WellFormed(Answered) /\ Sofar = Answered
    BY <2>1, AnsweredIsWell
  <2>3. After(Sofar, talk')
    BY <2>1, <2>2, AfterThen DEF Grown
  <2>4. Matched'
    BY <2>1, NothingWaits
  <2> QED
    BY <2>1, <2>3, <2>4, Settles
<1>11. CASE Continue
  <2>1. /\ Dispatched /\ pc' = "boundary" /\ talk' \in {Fed, Compact(Fed)} /\ turn' = turn
        /\ mailed' = mailed /\ ran' = ran /\ reply' = reply /\ results' = results
    BY <1>11 DEF Continue, Fed
  <2>2. WellFormed(Answered) /\ Sofar = Answered
    BY <2>1, AnsweredIsWell
  <2>3. Grown(Answered, Fed) /\ WellFormed(Fed)
    BY <2>1, FedGrows
  <2>4. After(Fed, Compact(Fed))
    BY <2>3, CompactAfter
  <2>5. After(Sofar, talk')
    BY <2>1, <2>2, <2>3, <2>4, AfterThen DEF Grown
  <2>6. Matched'
    BY <2>1, NothingWaits
  <2> QED
    BY <2>1, <2>5, <2>6, Settles
<1> QED
  BY <1>1, <1>2, <1>3, <1>4, <1>5, <1>6, <1>7, <1>8, <1>9, <1>10, <1>11 DEF Next

\* What the model is told next: a turn adds its results, and compaction cuts in front of them.
LEMMA ToldStep == KeepLast # 0 /\ CInv /\ OutcomesTold /\ [Next]_vars => OutcomesTold'
<1> SUFFICES ASSUME KeepLast # 0, CInv, OutcomesTold, [Next]_vars PROVE OutcomesTold'
  OBVIOUS
<1> USE DEF loopVars, history
<1>0. /\ turn \in Nat /\ \A id \in ToSet(ran) : id \in Id /\ id[1] \in Nat /\ id[1] <= turn
      /\ pc = "model" => \A id \in ToSet(ran) : id[1] < turn
  <2>1. ran \in Seq(Id) /\ turn \in Nat
    BY DEF CInv, Aged
  <2>2. ToSet(ran) \subseteq Id
    BY <2>1, Members
  <2>3. \A id \in Id : id[1] \in Nat
    BY DEF Id
  <2> QED
    BY <2>1, <2>2, <2>3 DEF CInv, Aged
<1>1. CASE UNCHANGED vars
  BY <1>1, Unmoved DEF vars, talkVars
<1>2. CASE MailComes \/ CancelAsked \/ StopAsked
  <2>1. UNCHANGED talkVars
    BY <1>2 DEF MailComes, CancelAsked, StopAsked, talkVars
  <2> QED
    BY <2>1, Unmoved
<1>3. CASE pc' \notin {"boundary", "model"}
  BY <1>3 DEF OutcomesTold
<1>4. CASE Fallback \/ Exhausted \/ StopTurn \/ Raise \/ Reply \/ Interrupt \/ DispatchTool \/ DeadLoop \/ Thrashed
  <2>1. pc' \notin {"boundary", "model"}
    BY <1>4, Leaving DEF Fallback, Exhausted, StopTurn, Raise, Reply, Interrupt, DispatchTool, DeadLoop, Thrashed
  <2> QED
    BY <1>3, <2>1
<1>5. CASE StartTurn
  <2>1. /\ pc = "boundary" /\ pc' = "model" /\ talk' = Notice(talk) /\ turn' = turn + 1 /\ ran' = ran
    BY <1>5 DEF StartTurn
  <2>2. WellFormed(talk)
    BY <2>1, RestIsWell
  <2>3. Grown(talk, talk')
    BY <2>1, <2>2, NoticeGrows
  <2>4. \A id : TellsOf(talk, id) => TellsOf(talk', id)
    BY <2>3, AfterThen
  <2>5. turn' - 1 = turn
    BY <1>0, <2>1
  <2> QED
    BY <2>1, <2>4, <2>5 DEF OutcomesTold
<1>6. CASE LastWord
  <2>1. pc = "model" /\ pc' # "model" /\ turn' = turn /\ ran' = ran
    BY <1>6, LastWordIs
  <2>2. \A id \in ToSet(ran) : id[1] # turn
    BY <1>0, <2>1
  <2> QED
    BY <2>1, <2>2 DEF OutcomesTold
<1>7. CASE Drained \/ Continue
  <2>1. /\ Dispatched /\ pc' = "boundary" /\ talk' \in {Notice(Answered), Fed, Compact(Fed)}
        /\ turn' = turn /\ ran' = ran
    BY <1>7 DEF Drained, Continue, Fed
  <2>2. WellFormed(Answered) /\ \A id \in ToSet(ran) : id[1] = turn => Late(Answered, id)
    BY <2>1, AnsweredIsWell
  <2>3. WellFormed(Fed) /\ \A id : Late(Answered, id) => Late(Fed, id)
    BY <2>1, FedGrows
  <2>4. Answered \in Seq(Msg) /\ Fed \in Seq(Msg)
    BY <2>2, <2>3 DEF WellFormed
  <2>5. \A id : TellsOf(Answered, id) => TellsOf(Notice(Answered), id)
    BY <2>2, NoticeGrows, AfterThen
  <2>6. \A id : Late(Fed, id) => TellsOf(Fed, id) /\ TellsOf(Compact(Fed), id)
    BY <2>3, <2>4, CompactAfter, LateIsTold
  <2>7. \A id : Late(Answered, id) => TellsOf(Answered, id)
    BY <2>4, LateIsTold
  <2>8. \A id \in ToSet(ran) : id[1] = turn => TellsOf(talk', id)
    BY <2>1, <2>2, <2>3, <2>5, <2>6, <2>7
  <2> QED
    BY <2>1, <2>8 DEF OutcomesTold
<1> QED
  BY <1>1, <1>2, <1>4, <1>5, <1>6, <1>7 DEF Next

\* So the conversation is sound throughout a wakeup.
LEMMA TalkInvariant == Spec => []CInv
<1>1. Init => CInv
  BY CInit
<1> QED
  BY <1>1, CInvStep, PTL DEF Spec

\* Every request that is sent to a model is one that its provider takes.
LEMMA Callable == CInv => CallsHaveResults
<1> SUFFICES ASSUME CInv, pc = "model" PROVE Accepted(talk)
  BY DEF CallsHaveResults
<1>1. WellFormed(talk)
  BY RestIsWell
<1> QED
  BY <1>1, AllTake DEF WellFormed

\* Mail that is held so far is in the next request, once and in its order.
LEMMA MailStays == CInv => MailIsKept
<1> SUFFICES ASSUME CInv, pc = "model" PROVE MailIsKept
  BY DEF MailIsKept
<1>1. WellFormed(talk) /\ Sofar = talk
  BY RestIsWell
<1>2. mailed \in Seq(Id) /\ Increasing(mailed) /\ \A id \in ToSet(mailed) : Kept(talk, id)
  BY <1>1 DEF CInv, Aged, MailHeld
<1>3. talk \in Seq(Msg) /\ InOrder(talk)
  BY <1>1 DEF WellFormed
<1>4. ToSet(mailed) \subseteq IdsIn(talk)
  BY <1>2, <1>3, KeptIsShown
<1> QED
  BY <1>2, <1>3, <1>4, MailShown

\* What is told of the last turn reaches the model.
LEMMA OutcomesStay == CInv /\ OutcomesTold => OutcomesReachModel
<1> SUFFICES ASSUME CInv, OutcomesTold, pc = "model", NEW id \in ToSet(ran), id[1] = turn - 1
             PROVE \E i \in DOMAIN talk :
                     talk[i].kind = "results" /\ \E r \in ToSet(talk[i].items) : r.id = id
  BY DEF OutcomesReachModel
<1>1. TellsOf(talk, id)
  BY DEF OutcomesTold
<1>2. PICK m \in ToSet(talk) : m.kind = "results" /\ \E r \in ToSet(m.items) : r.id = id
  BY <1>1 DEF TellsOf
<1>3. talk \in Seq(Msg)
  BY DEF CInv, Talks
<1>4. PICK i \in 1..Len(talk) : talk[i] = m
  BY <1>3, Members
<1> QED
  BY <1>2, <1>3, <1>4

\* Every request is one that its provider takes, for each of the three adapters: calls are
\* answered right behind their message, by one result each, and results stand nowhere else,
\* through interrupts, notices, nudges and any number of compactions.
THEOREM CallsAreAnswered == Spec => []CallsHaveResults
  BY TalkInvariant, Callable, PTL

\* A mail that was read in full or sent is in every later request of the wakeup, once and in
\* its order: as the call that brought it or, once compact_messages elided the call, as an
\* artifact.
THEOREM MailSurvives == Spec => []MailIsKept
  BY TalkInvariant, MailStays, PTL

\* With both, the model is told in its next turn what each tool did: find_pivot keeps the last
\* turn whenever it keeps any. run() keeps three (compact_keep_last_k) and no caller asks for
\* less; at none, the results of the turn that filled the context would be elided unread.
THEOREM ConversationIsSound ==
  ASSUME KeepLast > 0
  PROVE  Spec => []ConversationSound
<1>0. KeepLast # 0
  BY ConversationAssumption
<1>1. Init => CInv /\ OutcomesTold
  BY CInit
<1>2. CInv /\ OutcomesTold /\ [Next]_vars => (CInv /\ OutcomesTold)'
  BY <1>0, CInvStep, ToldStep
<1>3. CInv /\ OutcomesTold => ConversationSound
  BY Callable, MailStays, OutcomesStay DEF ConversationSound
<1> QED
  BY <1>1, <1>2, <1>3, PTL DEF Spec

-----------------------------------------------------------------------------
(* The budgets of the wakeup *)

\* The shape of a turn's reply, and the budgets of the wakeup.
ReplyShape == DOMAIN reply = {"calls", "says", "stop", "full", "cut"}
Budgets ==
    /\ turn \in 0..MaxTurns /\ nudges \in 0..MaxNudges
    /\ compactions \in 0..MaxCompactions /\ came \in 0..MaxEvents
Flags ==
    /\ mail \in {"none", "high", "blocker"}
    /\ cancel \in BOOLEAN /\ called \in BOOLEAN /\ acted \in BOOLEAN /\ tried \in BOOLEAN
Parties == askers \subseteq Asker /\ told \subseteq Asker
Rest == ReplyShape /\ Budgets /\ Flags /\ Parties

\* The invariants hold when the wakeup starts.
LEMMA RestInit == Init => Rest
<1> SUFFICES ASSUME Init PROVE Rest
  OBVIOUS
<1>1. MaxTurns \in Nat /\ MaxNudges \in Nat /\ MaxCompactions \in Nat /\ MaxEvents \in Nat
  BY AgentLoopAssumption
<1>2. ReplyShape
  BY DEF Init, ReplyShape, NoReply
<1>3. Budgets
  BY <1>1 DEF Init, Budgets
<1> QED
  BY <1>2, <1>3 DEF Init, Rest, Flags, Parties

\* A turn uses up one of the turns, a nudge one of the nudges, a compaction one of the compactions.
LEMMA RestStep == Rest /\ [Next]_vars => Rest'
<1> SUFFICES ASSUME Rest, [Next]_vars PROVE Rest'
  OBVIOUS
<1> USE DEF loopVars, history
<1>0. Self \in Asker /\ {MaxTurns, MaxNudges, MaxCompactions, MaxEvents} \subseteq Nat
  BY AgentLoopAssumption
<1>1. ReplyShape'
  <2>1. \A r, cut : Take(r, cut) => ReplyShape'
    BY DEF Take, ReplyShape
  <2>2. CASE UNCHANGED reply
    BY <2>2 DEF Rest, ReplyShape
  <2>3. CASE Reply \/ LastWord
    BY <2>1, <2>3 DEF Reply, LastWord
  <2>4. CASE Interrupt
    BY <2>1, <2>4 DEF Interrupt
  <2> QED
    BY <2>2, <2>3, <2>4 DEF Next, vars, Fallback, Exhausted, StopTurn, StartTurn, Raise, DispatchTool, Drained,
       DeadLoop, Thrashed, Continue, MailComes, CancelAsked, StopAsked
<1>2. Budgets'
  <2>1. CASE UNCHANGED vars
    BY <2>1 DEF Rest, Budgets, vars
  <2>2. CASE Fallback \/ Exhausted \/ StopTurn \/ StartTurn
    <3>1. turn' = turn \/ (turn < MaxTurns /\ turn' = turn + 1)
      BY <2>2 DEF Fallback, Exhausted, StopTurn, StartTurn
    <3>2. UNCHANGED <<nudges, compactions, came>>
      BY <2>2 DEF Fallback, Exhausted, StopTurn, StartTurn
    <3> QED
      BY <1>0, <3>1, <3>2 DEF Rest, Budgets
  <2>3. CASE Reply \/ Interrupt \/ Raise \/ DispatchTool \/ Drained \/ DeadLoop
    BY <1>0, <2>3 DEF Rest, Budgets, Reply, Interrupt, Raise, DispatchTool, Drained, DeadLoop
  <2>4. CASE LastWord \/ Thrashed \/ Continue
    <3>1. nudges' \in {nudges, MaxNudges} \/ (nudges < MaxNudges /\ nudges' = nudges + 1)
      BY <2>4 DEF LastWord, Thrashed, Continue, Overlooked
    <3>2. \/ compactions' = compactions
          \/ compactions # MaxCompactions /\ compactions' = compactions + 1
      BY <2>4 DEF LastWord, Thrashed, Continue
    <3>3. UNCHANGED <<turn, came>>
      BY <2>4 DEF LastWord, Thrashed, Continue
    <3> QED
      BY <1>0, <3>1, <3>2, <3>3 DEF Rest, Budgets
  <2>5. CASE MailComes \/ CancelAsked \/ StopAsked
    BY <1>0, <2>5 DEF Rest, Budgets, MailComes, CancelAsked, StopAsked, Comes
  <2> QED
    BY <2>1, <2>2, <2>3, <2>4, <2>5 DEF Next
<1>3. Flags'
  <2>1. \A r, cut : Take(r, cut) => called' \in BOOLEAN
    BY DEF Take
  <2>2. called' \in BOOLEAN
    <3>1. CASE Reply \/ LastWord
      BY <2>1, <3>1 DEF Reply, LastWord
    <3>2. CASE Interrupt
      BY <2>1, <3>2 DEF Interrupt
    <3>3. CASE UNCHANGED called
      BY <3>3 DEF Rest, Flags
    <3> QED
      BY <3>1, <3>2, <3>3 DEF Next, vars, Fallback, Exhausted, StopTurn, StartTurn, Raise, DispatchTool, Drained,
         DeadLoop, Thrashed, Continue, MailComes, CancelAsked, StopAsked
  <2>3. acted' \in BOOLEAN /\ tried' \in BOOLEAN
    <3>1. CASE DispatchTool
      BY <3>1 DEF DispatchTool
    <3>2. CASE UNCHANGED tried /\ acted' \in {acted, FALSE}
      BY <3>2 DEF Rest, Flags
    <3> QED
      BY <3>1, <3>2 DEF Next, vars, Fallback, Exhausted, StopTurn, StartTurn, Reply, LastWord, Interrupt, Raise,
         Drained, DeadLoop, Thrashed, Continue, MailComes, CancelAsked, StopAsked
  <2>4. cancel' \in BOOLEAN
    <3>1. cancel' \in {cancel, TRUE}
      BY DEF Next, vars, Fallback, Exhausted, StopTurn, StartTurn, Reply, LastWord, Interrupt, Raise,
         DispatchTool, Drained, DeadLoop, Thrashed, Continue, MailComes, CancelAsked, StopAsked
    <3> QED
      BY <3>1 DEF Rest, Flags
  <2>5. mail' \in {"none", "high", "blocker"}
    <3>1. mail' \in {mail, "none", "high", "blocker"}
      BY DEF Next, vars, Fallback, Exhausted, StopTurn, StartTurn, Reply, LastWord, Interrupt, Raise,
         DispatchTool, Drained, DeadLoop, Thrashed, Continue, MailComes, CancelAsked, StopAsked
    <3> QED
      BY <3>1 DEF Rest, Flags
  <2> QED
    BY <2>2, <2>3, <2>4, <2>5 DEF Flags
<1>4. Parties'
  <2>1. CASE Fallback
    BY <2>1 DEF Fallback, Rest, Parties
  <2>2. CASE DispatchTool
    BY <2>2 DEF DispatchTool, Senders, Rest, Parties
  <2>3. CASE UNCHANGED <<askers, told>>
    BY <2>3 DEF Rest, Parties
  <2> QED
    BY <2>1, <2>2, <2>3 DEF Next, vars, Exhausted, StopTurn, StartTurn, Reply, LastWord, Interrupt, Raise,
       Drained, DeadLoop, Thrashed, Continue, MailComes, CancelAsked, StopAsked
<1> QED
  BY <1>1, <1>2, <1>3, <1>4 DEF Rest

\* Together with what the end of the loop and the conversation keep, this is TypeOK.
LEMMA TypesFollow == IInv /\ CInv /\ Rest => TypeOK
<1> SUFFICES ASSUME IInv, CInv, Rest PROVE TypeOK
  OBVIOUS
<1>1. \A i \in DOMAIN talk : talk[i].kind \in Kinds
  <2>1. talk \in Seq(Msg)
    BY DEF CInv, Talks
  <2>2. \A i \in DOMAIN talk : talk[i] \in Msg
    BY ONLY <2>1
  <2> QED
    BY <2>2, MsgIs
<1>2. Len(results) <= Len(reply.calls)
  BY DEF CInv, Matched
<1>3. DOMAIN reply = DOMAIN NoReply
  BY DEF Rest, ReplyShape, NoReply
<1>4. {cancel, called, acted, tried} \subseteq BOOLEAN
  BY DEF Rest, Flags
<1>5. pc \in {"boundary", "model", "tools", "closing", "over"} /\ stop \in {"none", "cancelled", "needs_continuation"}
      /\ status \in {"running", "raised", "cancelled", "needs_continuation", "silent_close", "completed"}
  BY DEF IInv, Types, StopKind, EndState
<1> QED
  BY <1>1, <1>2, <1>3, <1>4, <1>5 DEF TypeOK, Rest, Flags, Budgets, Parties

\* The loop's state has its types, and stays within its budgets: max_turns, the nudges, the
\* compactions; and it never has more results than calls.
THEOREM LoopTypes == Spec => []TypeOK
<1>1. Init => IInv /\ CInv /\ Rest
  BY IInvInit, CInit, RestInit
<1>2. IInv /\ CInv /\ Rest /\ [Next]_vars => (IInv /\ CInv /\ Rest)'
  BY IInvStep, CInvStep, RestStep
<1> QED
  BY <1>1, <1>2, TypesFollow, PTL DEF Spec

=============================================================================
