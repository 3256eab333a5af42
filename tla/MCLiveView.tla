------------------------------ MODULE MCLiveView ------------------------------
(* The home page with the top bar, and the timeline asked for without it. *)
EXTENDS Pages, TLC

CONSTANTS home, timeline

MCWants == (home :> {"stats", "agent_status", "health"}) @@ (timeline :> {"activity"})
MCWakeup == CHOOSE w \in Wakeup : TRUE
MCBound ==
    {[changes |-> 2, bytes |-> 0, visits |-> 2, wakeups |-> {}, pages |-> Page, raises |-> {}],
     [changes |-> 2, bytes |-> 0, visits |-> 1, wakeups |-> {}, pages |-> {timeline}, raises |-> {"render"}],
     [changes |-> 0, bytes |-> 4, visits |-> 1, wakeups |-> {MCWakeup}, pages |-> {timeline}, raises |-> {"read"}],
     [changes |-> 0, bytes |-> 0, visits |-> 2, wakeups |-> {MCWakeup}, pages |-> Page, raises |-> {}],
     [changes |-> 0, bytes |-> 2, visits |-> 1, wakeups |-> {MCWakeup}, pages |-> Page, raises |-> {"list", "render"}],
     [changes |-> 0, bytes |-> 0, visits |-> 1, wakeups |-> Wakeup, pages |-> {timeline}, raises |-> {"list"}]}

\* One change of a table, and nothing raises.
OneChange == {[changes |-> 1, bytes |-> 0, visits |-> 1, wakeups |-> {}, pages |-> {timeline}, raises |-> {}]}
===============================================================================
