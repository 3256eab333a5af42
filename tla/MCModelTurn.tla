---------------------------- MODULE MCModelTurn ----------------------------
EXTENDS ModelTurn

Entry(id, provider, auth, caps, tier) ==
    [id |-> id, provider |-> provider, auth |-> auth, caps |-> caps, tier |-> tier,
     enabled |-> TRUE, window |-> NoWindow]

\* A model with a key, one behind a proxy with headers of its own, one whose
\* headers are empty, one without a key, one that lacks a capability
MCUser ==
    << Entry(1, "openai", "blank", {"tools"}, "flagship"),
       Entry(2, "anthropic", "key", {"tools", "vision"}, "workhorse"),
       Entry(3, "openai", "headers", {"tools", "vision"}, "flagship"),
       Entry(4, "openai", "nokey", {"tools"}, "flagship"),
       Entry(5, "anthropic", "key", {}, "cheap") >>

MCShipped == << [Entry(3, "openai", "key", {"tools"}, "flagship") EXCEPT !.window = 9] >>

Wish(prefer) == [tier |-> "flagship", requires |-> {"tools"}, prefer |-> prefer]
MCWants   == [w \in Wakeup |-> IF w = "w1" THEN Wish(<<>>) ELSE Wish(<<3, 7>>)]
MCCarries == [w \in Wakeup |-> IF w = "w1" THEN {"image"} ELSE {"image", "document"}]

=============================================================================
