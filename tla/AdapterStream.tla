--------------------------- MODULE AdapterStream ---------------------------
(***************************************************************************)
(* One streamed answer of a provider and what the adapter makes of it      *)
(* (adapter/anthropic.py, openai.py, openai_responses.py). The provider    *)
(* makes blocks of text, thinking and tool calls, in fragments; the        *)
(* adapter buffers fragments and emits the stream events of                *)
(* llm_adapter.py. A fragment is counted, not kept: a call whose arguments *)
(* the output budget cut does not parse, unless no fragment of them came.  *)
(***************************************************************************)
EXTENDS Naturals, Sequences, FiniteSets

CONSTANTS MaxBlocks, MaxFragments       \* bounds on an answer

Protocols == {"anthropic", "chat", "responses"}
BlockKinds == {"text", "thinking", "call"}

\* How a provider says that its answer ends, and what it means: "other" is a word that
\* the adapter does not know (in response.incomplete it is content_filter), and
\* "untold" no word at all, because the stream stops before it
Reasons(protocol) ==
    CASE protocol = "anthropic" ->
           {"end_turn", "tool_use", "max_tokens", "stop_sequence", "refusal",
            "pause_turn", "model_context_window_exceeded", "other", "untold"}
      [] protocol = "chat" ->
           {"stop", "length", "tool_calls", "content_filter", "other", "untold"}
      [] protocol = "responses" ->
           {"completed", "max_output_tokens", "content_filter", "failed", "untold"}

Truncations == {"max_tokens", "model_context_window_exceeded", "length", "max_output_tokens"}
Failures    == {"refusal", "content_filter", "failed"}
Unsaid      == {"other", "untold"}

VARIABLES
    protocol,
    made,           \* the blocks so far
    reason,         \* why the answer ended, "none" before it does
    over,           \* the stream is over: "no", "ended" or "broken"
    buffers,        \* tool_buffers and thinking_buffers, by the block's number
    finish,         \* stop_reason or last_finish, as the adapter keeps it
    input,          \* whether the prompt's tokens are known
    out             \* the events emitted so far

vars == <<protocol, made, reason, over, buffers, finish, input, out>>

Event(type, of)     == [type |-> type, of |-> of]
Complete(k, parsed) == [type |-> "call", of |-> k, parsed |-> parsed]
Usage(known)        == [type |-> "usage", known |-> known]
TurnComplete(stop)  == [type |-> "turn", stop |-> stop]

Blocks == [kind : BlockKinds, fragments : 0..MaxFragments,
           named : BOOLEAN, open : BOOLEAN, whole : BOOLEAN]

Events == [type : {"start", "delta", "thinking"}, of : Nat]
            \cup [type : {"call"}, of : Nat, parsed : BOOLEAN]
            \cup [type : {"usage"}, known : BOOLEAN]
            \cup [type : {"turn"}, stop : {"end_turn", "tool_use", "max_tokens", "error"}]

TypeOK ==
    /\ protocol \in Protocols /\ reason \in Reasons(protocol) \cup {"none"}
    /\ made \in Seq(Blocks) /\ Len(made) <= MaxBlocks
    /\ DOMAIN buffers \subseteq DOMAIN made /\ \A k \in DOMAIN buffers : buffers[k] \in Nat
    /\ over \in {"no", "ended", "broken"} /\ input \in BOOLEAN
    /\ out \in Seq(Events)
    \* Anthropic's blocks are in the buffers only while they are open
    /\ protocol = "anthropic" => \A k \in DOMAIN buffers : made[k].open

Init ==
    /\ protocol \in Protocols
    /\ made = <<>> /\ reason = "none" /\ over = "no"
    /\ buffers = [k \in {} |-> 0] /\ finish = "none" /\ input = FALSE /\ out = <<>>

-----------------------------------------------------------------------------

Emit(events) == out' = out \o events
Live == over = "no" /\ reason = "none"

\* What an adapter can parse that read n fragments of a call: all of a whole one, of
\* one that was cut nothing, which stands for {}
Parses(k, n, whole) == n = 0 \/ (whole /\ n = made[k].fragments)

Without(k) == [j \in DOMAIN buffers \ {k} |-> buffers[j]]

\* (slip) a stop reason that came with the newer models is not known
MStopOf(raw) ==
    CASE raw \in {"max_tokens", "length", "max_output_tokens"} -> "max_tokens"
      [] raw \in {"refusal", "content_filter", "failed"} -> "error"
      [] raw \in {"tool_use", "tool_calls"} -> "tool_use"
      [] OTHER -> "end_turn"

\* _STOP_REASON_MAP, _FINISH_REASON_MAP
StopOf(raw) ==
    CASE raw \in Truncations -> "max_tokens"
      [] raw \in Failures -> "error"
      [] raw \in {"tool_use", "tool_calls"} -> "tool_use"
      [] OTHER -> "end_turn"

\* A block begins. Anthropic sends one block after the other. Chat Completions
\* may send the arguments of a call before its name
Begin ==
    /\ Live /\ Len(made) < MaxBlocks
    /\ protocol = "anthropic" => \A k \in DOMAIN made : ~made[k].open
    /\ \E kind \in BlockKinds, named \in BOOLEAN :
         LET k == Len(made) + 1 IN
         /\ named \/ (kind = "call" /\ protocol = "chat")
         /\ made' = Append(made, [kind |-> kind, fragments |-> 0, named |-> named,
                                  open |-> TRUE, whole |-> FALSE])
         /\ buffers' = IF kind = "text" THEN buffers
                       ELSE [j \in DOMAIN buffers \cup {k} |-> IF j = k THEN 0 ELSE buffers[j]]
         /\ Emit(IF kind = "call" /\ named THEN <<Event("start", k)>> ELSE <<>>)
    \* message_start came before the first block
    /\ input' = (input \/ protocol = "anthropic")
    /\ UNCHANGED <<protocol, reason, over, finish>>

\* The name of a call, later than its first fragment
Name ==
    /\ Live
    /\ \E k \in DOMAIN made :
         /\ made[k].kind = "call" /\ made[k].open /\ ~made[k].named
         /\ made' = [made EXCEPT ![k].named = TRUE]
         /\ Emit(<<Event("start", k)>>)
    /\ UNCHANGED <<protocol, reason, over, buffers, finish, input>>

Fragment ==
    /\ Live
    /\ \E k \in DOMAIN made :
         /\ made[k].open /\ made[k].fragments < MaxFragments
         /\ made' = [made EXCEPT ![k].fragments = @ + 1]
         /\ buffers' = IF made[k].kind = "text" THEN buffers
                       ELSE [buffers EXCEPT ![k] = @ + 1]
         /\ Emit(<<Event("delta", k)>>)
    /\ UNCHANGED <<protocol, reason, over, finish, input>>

\* (slip) a call that was handed out stays in the buffers
MTaken(k) == buffers

\* The buffer is popped with the event that completes its block
Taken(k) == Without(k)

\* content_block_stop: the buffer, whatever it holds, is what there is of the block
AnthropicStop(k, whole) ==
    IF made[k].kind = "text" THEN <<>>
    ELSE <<IF made[k].kind = "call" THEN Complete(k, Parses(k, buffers[k], whole))
           ELSE Event("thinking", k)>>

\* function_call_arguments.done, which repeats the arguments as a whole
ResponsesStop(k) == IF made[k].kind = "call" THEN <<Complete(k, TRUE)>> ELSE <<>>

\* A block is whole: Anthropic says so, Responses says it of calls, Chat
\* Completions does not
Stop ==
    /\ Live
    /\ \E k \in DOMAIN made :
         /\ made[k].open /\ made[k].named
         /\ made' = [made EXCEPT ![k].open = FALSE, ![k].whole = TRUE]
         /\ \/ /\ protocol = "anthropic"
               /\ Emit(AnthropicStop(k, TRUE)) /\ buffers' = Taken(k) /\ UNCHANGED finish
            \/ /\ protocol = "chat" /\ UNCHANGED <<out, buffers, finish>>
            \/ /\ protocol = "responses"
               /\ Emit(ResponsesStop(k))
               /\ buffers' = IF made[k].kind = "call" THEN Taken(k) ELSE buffers
               /\ finish' = IF made[k].kind = "call" THEN "tool_use" ELSE finish
    /\ UNCHANGED <<protocol, reason, over, input>>

-----------------------------------------------------------------------------

\* The block that the end of the answer cuts: the one that the provider was at
Cut == {k \in DOMAIN made : made[k].open}

Ended(raw) ==
    /\ Live
    /\ raw \in Reasons(protocol)
    /\ Cut # {} => raw \in Truncations \cup Failures \cup Unsaid /\ Cut = {Len(made)}
    /\ reason' = raw
    /\ made' = [k \in DOMAIN made |-> [made[k] EXCEPT !.open = FALSE]]
    /\ UNCHANGED <<protocol, over>>

\* message_delta, with a stop reason or without. The block that is cut was stopped like
\* any other before it, and the usage has the prompt's tokens from message_start. A
\* finish that is "untold" is one that was not set
AnthropicEnd(raw) ==
    /\ protocol = "anthropic" /\ Ended(raw)
    /\ Emit((IF Cut = {} THEN <<>> ELSE AnthropicStop(Len(made), FALSE)) \o <<Usage(input)>>)
    /\ buffers' = [k \in DOMAIN buffers \ Cut |-> buffers[k]]
    /\ finish' = raw /\ UNCHANGED input

\* The last event that comes of the answer is one of a block
AnthropicHush ==
    /\ protocol = "anthropic" /\ Ended("untold")
    /\ buffers' = [k \in DOMAIN buffers \ Cut |-> buffers[k]]
    /\ finish' = "untold" /\ UNCHANGED <<input, out>>

\* The last chunk of the answer, and the one with the usage, if they come
ChatEnd(raw) ==
    /\ protocol = "chat" /\ Ended(raw)
    /\ finish' = raw /\ UNCHANGED <<buffers, out>>
    /\ input' \in IF raw = "untold" THEN BOOLEAN ELSE {TRUE}

\* response.completed, response.incomplete, response.failed, or none of them
ResponsesEnd(raw) ==
    /\ protocol = "responses" /\ Ended(raw)
    /\ finish' = IF raw \notin {"completed", "untold"} THEN StopOf(raw)
                 ELSE IF finish = "none" THEN "end_turn" ELSE finish
    /\ input' = (raw = "completed")
    /\ UNCHANGED <<buffers, out>>

End ==
    \/ AnthropicHush
    \/ \E raw \in Reasons(protocol) : AnthropicEnd(raw) \/ ChatEnd(raw) \/ ResponsesEnd(raw)

\* The stream ends
Closes ==
    /\ over = "no" /\ reason # "none" /\ over' = "ended"
    /\ UNCHANGED <<protocol, made, reason, buffers, finish, input>>

\* message_stop
AnthropicClose == protocol = "anthropic" /\ Closes /\ Emit(<<TurnComplete(StopOf(finish))>>)

\* The stream ends without it: the generator has nothing more to say
AnthropicFades ==
    protocol = "anthropic" /\ reason = "untold" /\ Closes /\ UNCHANGED out

\* The calls in the buffers in the order in which they began; those without a name
\* are left out
Flushes ==
    LET calls  == {k \in DOMAIN buffers : made[k].kind = "call" /\ made[k].named}
        orders == {o \in [1..Cardinality(calls) -> calls] :
                      /\ \A k \in calls : \E i \in DOMAIN o : o[i] = k
                      /\ \A i, j \in DOMAIN o : i < j => o[i] < o[j]}
    IN  {[i \in DOMAIN o |-> Complete(o[i], Parses(o[i], buffers[o[i]], made[o[i]].whole))] :
            o \in orders}

Thought ==
    IF \E k \in DOMAIN buffers : made[k].kind = "thinking" /\ buffers[k] > 0
    THEN <<Event("thinking", 0)>> ELSE <<>>

ChatClose ==
    /\ protocol = "chat" /\ Closes
    /\ \E flushed \in Flushes :
         Emit(flushed \o (Thought \o (IF input THEN <<Usage(TRUE)>> ELSE <<>>))
                \o <<TurnComplete(StopOf(finish))>>)

ResponsesClose ==
    /\ protocol = "responses" /\ Closes
    /\ Emit(Thought \o (IF input THEN <<Usage(TRUE)>> ELSE <<>>)
              \o <<TurnComplete(IF finish = "none" THEN "end_turn" ELSE finish)>>)

Close == AnthropicClose \/ AnthropicFades \/ ChatClose \/ ResponsesClose

\* The connection breaks: the adapter's generator raises where it stands
Break ==
    /\ over = "no" /\ over' = "broken"
    /\ UNCHANGED <<protocol, made, reason, buffers, finish, input, out>>

Next == Begin \/ Name \/ Fragment \/ Stop \/ End \/ Close \/ Break

Spec == Init /\ [][Next]_vars

-----------------------------------------------------------------------------
(* Properties *)

Emitted   == {i \in DOMAIN out : out[i].type = "call"}
Handed    == {out[i].of : i \in Emitted}
IsCall(k) == made[k].kind = "call" /\ made[k].named

\* Wherever the loop stops reading: a call is handed out at most once, with its
\* arguments if and only if they are all of its arguments, or none had come.
CallsAreWhole ==
    /\ \A i, j \in Emitted : out[i].of = out[j].of => i = j
    /\ \A i \in Emitted :
         LET k == out[i].of
         IN  k \in DOMAIN made /\ IsCall(k) /\ (out[i].parsed <=> made[k].whole \/ made[k].fragments = 0)

\* The end of an answer is told once, last and as what the provider said it was: as
\* cut, or as failed, if and only if it said so, and every whole call was handed out
\* before. An answer of which the end was not said passes for a finished one
\* (_STOP_REASON_MAP, last_finish or "stop"), or has no end at all.
EndIsTold ==
    LET ends == {i \in DOMAIN out : out[i].type = "turn"} IN
    /\ ends \subseteq {Len(out)}
    /\ over = "ended" => ends # {} \/ (protocol = "anthropic" /\ reason = "untold")
    /\ \A i \in ends :
         /\ out[i].stop = "max_tokens" <=> reason \in Truncations
         /\ out[i].stop = "error" <=> reason \in Failures
         /\ {k \in DOMAIN made : IsCall(k) /\ made[k].whole} \subseteq Handed

\* A call that was cut before its first fragment passes for one without
\* arguments. It is the last call of an answer, and the answer is told to be cut, at
\* which the loop refuses the last call, unless nobody said that it was.
CutIsLast ==
    over = "ended" =>
        \A i \in Emitted :
            out[i].parsed /\ ~made[out[i].of].whole
                => /\ \A j \in Emitted : j <= i
                   /\ reason \in Unsaid \/ out[Len(out)].stop \in {"max_tokens", "error"}

\* What the loop gets of an answer can be acted upon.
AnswerIsSound == CallsAreWhole /\ CutIsLast /\ EndIsTold

=============================================================================
