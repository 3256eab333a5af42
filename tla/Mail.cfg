\* A loop and a one-shot mail whose delivery raises; another mail; one fault.
SPECIFICATION FairSpec
CONSTANTS
    Sched = {"loop", "shot"}
    NoSched = "nobody"
    Recurring = {"loop"}
    RowUrgency <- MCUrgency
    MaxOccurrences <- MCBudget
    MaxNoProgress <- MCGate
    Poison = {"shot"}
    SchedLimit = 1
    MailQuarantineAfter = 2
    WakePage = 9
    WatchPage = 9
    MaxTasks = 2
    Urgency = {"normal", "high"}
    Bound <- MCBound
    MaxFaults = 1
INVARIANTS TypeOK OccurrencesHold MailIsSeen
PROPERTIES NothingBeginsAnew 
