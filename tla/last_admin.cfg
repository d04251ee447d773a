CONSTANTS
    Users = {a, b}
    Fields <- NameOnly
    Values = {v}
    MaxParticipants = 2
    Slots = {s1, s2}
    Ops = {"remove", "promote"}
    MaxCalls = 3
    MaxFailures = 0
    Links = {l}
    MaxUses = {1}
    MaxInvites = 1
    Channel = "private"
SPECIFICATION OverlapsSpec
INVARIANT AtLeastOneAdmin
CHECK_DEADLOCK FALSE
