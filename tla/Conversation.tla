---------------------------- MODULE Conversation ----------------------------
(***************************************************************************)
(* The messages of one wakeup as the model is sent them, and auto-compact, *)
(* which rewrites them when the context fills up (runtime/compact.py). A   *)
(* message is its kind and its items: the tool calls of the assistant, the *)
(* results of these calls, or the call whose mail an artifact repeats.     *)
(* Texts and thinking blocks are left out.                                 *)
(*                                                                         *)
(* An operator M<Name> marked "slip" is <Name> with a likely mistake in    *)
(* it. Nothing uses it: it documents what the properties guard against.    *)
(***************************************************************************)
EXTENDS Naturals, Sequences, FiniteSets, SequencesExt

CONSTANTS
    Tool,           \* the tools of the persona
    KeepLast        \* compact_keep_last_k

ASSUME ConversationAssumption == KeepLast \in Nat /\ Tool \subseteq STRING

\* _TOOL_POLICY: what becomes of a call when it is elided
PreservedIn  == {"mailbox_get_message"}
PreservedOut == {"mailbox_send"}
Dropped      == {"mailbox_read", "mark_read", "list_agents", "list_personas",
                 "list_models", "list_tasks", "list_scheduled_mail",
                 "query_task_status", "report_progress"}

Artifacts == {"mail", "sent", "summary"}
Kinds     == {"goal", "assistant", "results", "notice", "nudge"} \cup Artifacts

Message(kind, items) == [kind |-> kind, items |-> items]
FromAssistant(msg)   == msg.kind \in {"assistant", "sent"}
IsArtifact(msg)      == msg.kind \in Artifacts

\* An assistant message without text and calls is not appended
Say(talk, says, calls) ==
    IF says \/ calls # <<>> THEN Append(talk, Message("assistant", calls)) ELSE talk

-----------------------------------------------------------------------------

Turns(talk) == {i \in DOMAIN talk : FromAssistant(talk[i])}

\* (slip) counts messages of any kind
MPivot(talk) == IF Len(talk) >= KeepLast THEN Len(talk) - KeepLast + 1 ELSE 2

\* find_pivot: where the last KeepLast turns start; 2 is right behind the goal
Pivot(talk) ==
    IF KeepLast = 0 THEN Len(talk) + 1
    ELSE IF Cardinality(Turns(talk)) < KeepLast THEN 2
    ELSE CHOOSE i \in Turns(talk) : Cardinality({j \in Turns(talk) : i <= j}) = KeepLast

CallsOf(talk) ==
    FlattenSeq([i \in DOMAIN talk |->
        IF talk[i].kind = "assistant" THEN talk[i].items ELSE <<>>])

\* results_by_id
Succeeded(talk, id) ==
    \E i \in DOMAIN talk : /\ talk[i].kind = "results"
                           /\ \E r \in ToSet(talk[i].items) : r.id = id /\ r.ok

\* _synth_mail_in, _synth_mail_out: the second looks at the arguments only
ArtifactOf(talk, call) ==
    IF call.tool \in PreservedIn /\ Succeeded(talk, call.id)
        THEN <<Message("mail", <<call.id>>)>>
    ELSE IF call.tool \in PreservedOut /\ call.args # "raw"
        THEN <<Message("sent", <<call.id>>)>>
    ELSE <<>>

\* The lines of the work trace
Traced(talk, call) ==
    IF call.tool \in PreservedIn THEN ~Succeeded(talk, call.id)
    ELSE call.tool \notin PreservedOut \cup Dropped

\* _extract_synthetic_history
Synthetic(talk) ==
    LET calls == CallsOf(talk)
    IN  FlattenSeq([i \in DOMAIN calls |-> ArtifactOf(talk, calls[i])])

HasTrace(talk) == \E call \in ToSet(CallsOf(talk)) : Traced(talk, call)

\* What a sequence holds of a set, in its order
Among(seq, set) ==
    FlattenSeq([i \in DOMAIN seq |-> IF seq[i] \in set THEN <<seq[i]>> ELSE <<>>])

\* compact_messages. The summary is the model's, or the raw trace if it fails
Compact(talk) ==
    LET pivot   == Pivot(talk)
        elided  == SubSeq(talk, 2, pivot - 1)
        own     == {msg \in ToSet(elided) : IsArtifact(msg)}
        carried == Among(elided, own)
        fresh   == Among(elided, ToSet(elided) \ own)
        seam    == IF HasTrace(fresh) \/ carried = <<>>
                   THEN <<Message("summary", <<>>)>> ELSE <<>>
    IN  IF Len(talk) < 3 \/ pivot <= 2 THEN talk
        ELSE <<talk[1]>> \o carried \o Synthetic(fresh) \o seam
                 \o SubSeq(talk, pivot, Len(talk))

=============================================================================
