CONSTANTS
    Users = {a, b}
    Conversations = {g}
    Founders = {a, b}
    Slots = {s1, s2}
    MaxMessages = 2
    MaxMarks = 3
    MaxChurn = 2
SPECIFICATION FairSpec
PROPERTIES
    MarksOnlyAdvance
    ReadingSettles
CHECK_DEADLOCK FALSE
