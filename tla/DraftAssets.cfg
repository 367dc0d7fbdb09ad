SPECIFICATION DASpec
CONSTANTS
    d1 = d1
    d2 = d2
    None = None
    Deliveries = {d1}
    Kinds = {"deliver", "retry", "prepare", "select", "create", "review"}
    MaxPics = 3
    Sources = {2}
    Places = {0, 1, 2}
    Limit = 1
    MinInline = 1
    MaxInline = 2
    MaxEdits = 3
    MaxStarts = 2
    MaxFaults = 1
CHECK_DEADLOCK FALSE
INVARIANTS
    DeliveredAsRecorded
    UploadsAreOfTheChoice
    SoundChoice
