CONSTANTS
    Users = {a, b}
    Conversations = {g}
    Founders = {a, b}
    Slots = {s1, s2}
    MaxMessages = 2
    MaxMarks = 2
    MaxChurn = 0
SPECIFICATION FairSpec
PROPERTIES
    UnreadNeverGrowsFromReading
CHECK_DEADLOCK FALSE
