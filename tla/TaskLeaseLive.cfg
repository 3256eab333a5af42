\* Two faults: serve is stopped or killed, or a worker stalls. One persona is missing,
\* one task cannot be spawned.
SPECIFICATION FairSpec
CONSTANTS
    Task = {1, 2, 3}
    Agent = {"a", "b"}
    Worker = {1, 2, 3, 4, 5}
    NoWorker = 0
    NoTask = 0
    AgentOf <- MCSingletonFirst
    Singleton = {"a"}
    Muted = {}
    Quiet = {}
    Broken = {2}
    GitTask = {}
    Unspawnable = {3}
    MaxConcurrent = 1
    RecoveryMax = 0
    FaultKinds = {"serve", "stop", "stall", "unwind"}
    MaxFaults = 2
INVARIANTS ProcessesAreCounted
PROPERTIES Progress
