\* Two requests at a time on two candidates.
SPECIFICATION Spec
CONSTANTS
    Candidates = {c1, c2}
    Workers = {w1, w2}
    Subjects = {s1, s2, s3}
    Entities = {e1, e2}
    Labels = {l1}
    EntityId <- MCEntityId
    Label <- MCLabel
    StoredLabel <- MCStoredLabel
    Payload <- Shared
    Edits <- NoEdits
    Malformed = {}
    Keys = {k1}
    OwnerChoices = {"reject"}
    ReviewChoices = {"accept"}
    NoCandidate = NoCandidate
    NoKey = NoKey
    NoLabel = NoLabel
    MaxGenerations = 2
    Crashes = {}
    c1 = c1
    c2 = c2
    s1 = s1
    s2 = s2
    s3 = s3
    e1 = e1
    e2 = e2
    l1 = l1
SYMMETRY SharedSymmetry
INVARIANTS
    GenerationsAccounted
    PublishedOnce
    CanonIsConsistent
    ProjectionFollowsState
PROPERTIES
    ReceiptsFinal
    UndoRestores
    RefinesAcceptedMemory
