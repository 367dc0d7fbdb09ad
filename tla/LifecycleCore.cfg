SPECIFICATION CoreSpec
CONSTANTS
    d1 = d1
    d2 = d2
    s1 = s1
    s2 = s2
    c1 = c1
    c2 = c2
    k1 = k1
    k2 = k2
    Drafts = {d1, d2}
    Sources = {s1}
    SourceOf <- OneSource
    HashOf <- OneHash
    Github = {s1}
    Covers = {c1}
    Keys = {k1}
    MaxVersion = 2
    MaxMedia = 2
SYMMETRY DraftSymmetry
CHECK_DEADLOCK FALSE
INVARIANTS
    TypeOK
    ApprovedContent
    OnlyApprovedLeaves
    OneLiveDraftPerContent
    DeliveredSourceIsIntroduced
PROPERTIES
    ClosedIsFinal
    ImplementsContract
