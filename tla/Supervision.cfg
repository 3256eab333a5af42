\* One ephemeral agent of any restart policy, two dispatched tasks, one crash of serve.
SPECIFICATION FairSpec
CONSTANTS
    Policy = {"permanent", "transient", "temporary"}
    MaxRestarts = 1
    MaxSeconds = 1
    MaxTotal = 1
    MaxDispatch = 2
    MaxCancels = 1
    MaxTask = 4
    MaxTime = 2
    MaxCrashes = 1
INVARIANTS TypeOK RestartsAreBounded
PROPERTIES ToldMeansOver Reclaimed
CHECK_DEADLOCK FALSE
