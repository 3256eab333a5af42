------------------------------ MODULE MCWorkspace ------------------------------
\* Workspace for TLC: wakeups 1 and 2 start within the same minute.
EXTENDS Workspace

CONSTANTS git, plain, other

MCWakeup  == 1..3
MCShortId == [w \in 0..3 |-> IF w = 2 THEN 1 ELSE w]

Runs(n, tasks, old, strays, models, kinds, m) ==
    [wakeups |-> n, tasks |-> tasks, old |-> old, stray |-> strays, models |-> models, kinds |-> kinds, faults |-> m]

\* Attempts at one task, without notes; wakeups of two tasks, and their notes, with kills or
\* with failing files; notes written by a worker beside its successor.
MCBound == {Runs(3, {git}, FALSE, FALSE, {}, {"kill", "stall", "hang"}, 2),
            Runs(3, {plain}, FALSE, FALSE, {}, {"kill", "stall"}, 2),
            Runs(3, {plain, other}, TRUE, TRUE, {"cheap"}, {"kill"}, 2),
            Runs(3, {plain, other}, TRUE, TRUE, {"cheap"}, {"io"}, 1),
            Runs(3, {plain, other}, FALSE, TRUE, {"cheap"}, {"io"}, 1),
            Runs(2, {plain}, FALSE, TRUE, {"cheap"}, {"kill", "stall", "io"}, 2),
            Runs(2, {git}, TRUE, TRUE, {"cheap"}, {"kill", "stall", "hang", "io"}, 2)}

\* Wakeups of two tasks that find a stray file, and one file operation that fails.
Failing == {b \in MCBound : b.old /\ b.kinds = {"io"}}
=============================================================================
