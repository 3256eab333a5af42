\* Answers of up to three blocks of up to one fragment, in each of the protocols.
SPECIFICATION AnswerSpec
CONSTANTS
    MaxBlocks = 3
    MaxFragments = 1
INVARIANTS AnswerTypes AnswerIsSound
CHECK_DEADLOCK FALSE
