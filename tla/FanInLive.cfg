\* Two legs without restarts; any one fault out of three. No deadline has to pass.
SPECIFICATION FairSpec
CONSTANTS
    Leg = {1, 2}
    Quorum = 2
    Transient = {}
    MaxTry = 1
    QuarantineAfter = 2
    NoLeg = 0
    NoRow = NoRow
    FaultKinds = {"serve", "poison", "operator"}
    MaxFaults = 1
PROPERTY GroupMovesOn
CHECK_DEADLOCK FALSE
