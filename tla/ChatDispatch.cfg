SPECIFICATION Spec
CONSTANTS
    m1 = m1
    m2 = m2
    d1 = d1
    d2 = d2
    None = None
    Own = Own
    Messages = {m1, m2}
    Drafts = {d1}
    Origins = {}
    Texts <- Talk
    AgentTools = {"image", "review"}
    MaxCalls = 2
    Decisions = {"image", "review", "collect"}
    Failures = TRUE
    Limits = TRUE
SYMMETRY Symmetry
VIEW Essential
CHECK_DEADLOCK FALSE
INVARIANTS
    NoSecondPicture
    CompletedMeansDone
    LeftAlone
