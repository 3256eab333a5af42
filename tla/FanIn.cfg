\* Two legs, one of them restarted once; any one fault. A resolved group is
\* done: the system may stop.
SPECIFICATION Spec
CONSTANTS
    Leg = {1, 2}
    Quorum = 2
    Transient = {1}
    MaxTry = 2
    QuarantineAfter = 2
    NoLeg = 0
    NoRow = NoRow
    FaultKinds = {"worker", "serve", "poison", "flip", "archive", "operator", "canceller"}
    MaxFaults = 1
INVARIANTS TypeOK CoordinatorIsTold
PROPERTIES SentIsNotDowngraded IsBarrier
CHECK_DEADLOCK FALSE
