SPECIFICATION ClosingSpec
CONSTANTS
    r1 = r1
    r2 = r2
    Runs = {r1, r2}
    Plans <- MixedPlans
    AgentTitles = {"note"}
    AgentKinds = {"deliver"}
    MaxTasks = 3
    MaxDeps = 2
SYMMETRY Symmetry
CHECK_DEADLOCK FALSE
INVARIANTS
    TypeOK
    NoCircle
    TwiceOnlyUnseen
    ReadyBlockersClosed
    HandedOnIsClosed
PROPERTIES
    ClosedStaysClosed
