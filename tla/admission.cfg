CONSTANTS
    Users = {a, b, c}
    Fields <- NameAndVisibility
    Values = {v, w}
    MaxParticipants = 2
    Slots = {s1, s2}
    Ops = {"add", "remove", "promote", "demote", "update"}
    MaxCalls = 3
    MaxFailures = 1
    Links = {l}
    MaxUses = {1}
    MaxInvites = 1
    Channel = "open"
SPECIFICATION OverlapsSpec
INVARIANTS
    AdminUnlessCrossed
    LimitUnlessCrossed
    ViewsAgreeUnlessCrossed
    OneDecisionUnlessCrossed
    LinkHonoured
    NobodySlipsIn
PROPERTIES
    FieldsUnlessCrossed
    UsesUnlessDoubled
    OnlyDemotionDemotes
SYMMETRY Symmetry
CHECK_DEADLOCK FALSE
