\* Turns that gather, act, overflow or are cut; urgent mail, a cancel, a stop, a failure.
SPECIFICATION Spec
CONSTANTS
    Tool = {"mailbox_read", "mailbox_get_message", "mailbox_send", "shell_exec"}
    KeepLast = 1
    Replies <- MCReplies
    Asker = {"owner", "self"}
    Self = "self"
    MaxTurns = 4
    MaxNudges = 1
    MaxCompactions = 2
    RepeatThreshold = 2
    Events = {"mail", "cancel", "stop", "failure"}
    MaxEvents = 1
INVARIANTS TypeOK ConversationSound HonestEnd
CHECK_DEADLOCK FALSE
