SPECIFICATION Spec
CONSTANTS
    git = git
    plain = plain
    other = other
    Task = {git, plain, other}
    GitTask = {git}
    Wakeup <- MCWakeup
    None = 0
    Hand = hand
    Stray = stray
    ShortId <- MCShortId
    MaxEntries = 1
    Bound <- MCBound
INVARIANTS TypeOK SandboxIsSound NotebookIsSound
CHECK_DEADLOCK FALSE
