--------------------------- MODULE MCOwnerChannel ---------------------------
\* OwnerChannel for TLC: what is written, and what goes wrong, per scenario.
EXTENDS OwnerChannel

Writes(agents, dashboard, said, kinds) ==
    [agents |-> agents, dashboard |-> dashboard, chat |-> said, kinds |-> kinds]

MCBound == {Writes(2, 0, 0, {"crash", "post", "forget"}),
            Writes(1, 1, 0, {"crash", "prune"}),
            Writes(0, 0, 1, {"worker"}),
            Writes(1, 0, 1, {"redelivery", "download"}),
            Writes(2, 0, 1, {}),
            Writes(1, 0, 1, {"crash", "redelivery"}),
            Writes(1, 0, 1, {"crash", "prune"})}

\* One mail, maintenance and a new start, and nothing else.
Retained == {Writes(1, 0, 0, {"crash", "prune"})}
=============================================================================
