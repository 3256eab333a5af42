-------------------------------- MODULE Wire --------------------------------
(***************************************************************************)
(* The conversation as each provider's adapter sends it, and what the      *)
(* providers demand of it. Texts are left out; attachments are replaced or *)
(* refused before this point (ModelRegistry, Convertible).                 *)
(***************************************************************************)
EXTENDS Conversation

Role(msg) == IF FromAssistant(msg) THEN "assistant" ELSE "user"
Ids(msg)  == [i \in DOMAIN msg.items |-> msg.items[i].id]
CallIds(msg)   == IF msg.kind = "assistant" THEN Ids(msg) ELSE <<>>
ResultIds(msg) == IF msg.kind = "results" THEN Ids(msg) ELSE <<>>

\* Anthropic: message for message; the results of tools are blocks of a user's message
AnthropicMessages(talk) ==
    [i \in DOMAIN talk |-> [role    |-> Role(talk[i]),
                            calls   |-> CallIds(talk[i]),
                            results |-> ResultIds(talk[i])]]

\* Chat Completions: calls are a field of the assistant's message, each result is
\* a message of its own
ChatMessages(talk) ==
    FlattenSeq([i \in DOMAIN talk |->
        IF talk[i].kind = "results"
        THEN [j \in DOMAIN talk[i].items |->
                [role |-> "tool", calls |-> <<>>, results |-> <<talk[i].items[j].id>>]]
        ELSE <<[role |-> Role(talk[i]), calls |-> CallIds(talk[i]), results |-> <<>>]>>])

\* Responses: messages, calls and outputs are items on one level
Items(talk) ==
    FlattenSeq([i \in DOMAIN talk |->
        IF talk[i].kind = "results"
        THEN [j \in DOMAIN talk[i].items |-> [type |-> "output", id |-> talk[i].items[j].id]]
        ELSE <<[type |-> "message", id |-> <<>>]>>
               \o [j \in DOMAIN CallIds(talk[i]) |->
                     [type |-> "call", id |-> CallIds(talk[i])[j]]]])

\* A message with calls is answered by the next, and by nothing else
AnthropicAccepts(messages) ==
    \A i \in DOMAIN messages :
        /\ messages[i].calls # <<>> =>
             i < Len(messages) /\ ToSet(messages[i+1].results) = ToSet(messages[i].calls)
        /\ messages[i].results # <<>> => i > 1 /\ messages[i-1].calls # <<>>

\* The messages of the tools follow the calls they answer without a gap
ChatAccepts(messages) ==
    \A i \in DOMAIN messages :
        /\ messages[i].calls # <<>> =>
             LET n == Len(messages[i].calls) IN
             /\ i + n <= Len(messages)
             /\ \A j \in i+1..i+n : messages[j].role = "tool"
             /\ UNION {ToSet(messages[j].results) : j \in i+1..i+n} = ToSet(messages[i].calls)
        /\ messages[i].role = "tool" =>
             \E k \in 1..i-1 : ToSet(messages[i].results) \subseteq ToSet(messages[k].calls)

\* Every call has one output behind it, every output a call
ResponsesAccept(items) ==
    LET at(type, id) == {i \in DOMAIN items : items[i].type = type /\ items[i].id = id} IN
    \A i \in DOMAIN items :
        /\ items[i].type = "call" =>
             \E j \in DOMAIN items : j > i /\ at("output", items[i].id) = {j}
        /\ items[i].type = "output" => Cardinality(at("call", items[i].id)) = 1

Accepted(talk) ==
    /\ AnthropicAccepts(AnthropicMessages(talk))
    /\ ChatAccepts(ChatMessages(talk))
    /\ ResponsesAccept(Items(talk))

=============================================================================
