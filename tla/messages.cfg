CONSTANTS
    alice = alice
    bob = bob
    g = g
    h = h
    Users = {alice, bob}
    Conversations = {g, h}
    Founders <- AliceInG
    Bodies = {x}
    NoBody = NoBody
    Slots = {r1, r2}
    Ops = {"send", "forward", "edit", "delete", "react", "unreact"}
    MentionSets <- FewMentions
    MaxMessages = 2
    MaxRequests = 3
    MaxChurn = 1
    MaxFailures = 1
SPECIFICATION OverlapsSpec
INVARIANTS
    SeqIsTheOrder
    RepliesStayInside
    ActivityIsLastVisible
    MentionsWereParticipants
    LiveMessagesHaveBodies
    ShownTextIsStored
    TombstonesStayEmpty
PROPERTY LogSpec
SYMMETRY SlotSymmetry
CHECK_DEADLOCK FALSE
