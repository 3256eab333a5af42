\* A task of a singleton and a git task; any two faults.
SPECIFICATION Spec
CONSTANTS
    Task = {1, 2}
    Agent = {"a", "b"}
    Worker = {1, 2, 3}
    NoWorker = 0
    NoTask = 0
    AgentOf <- MCSingletonFirst
    Singleton = {"a"}
    Muted = {}
    Quiet = {1}
    Broken = {}
    GitTask = {2}
    Unspawnable = {}
    MaxConcurrent = 2
    RecoveryMax = 1
    FaultKinds = {"worker", "serve", "stop", "stall", "unwind"}
    MaxFaults = 2
INVARIANTS TypeOK NothingStranded NoticeHolds Exclusive
PROPERTIES Fencing Lifecycle
