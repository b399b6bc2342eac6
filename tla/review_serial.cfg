\* One request at a time, which may be cut off.
SPECIFICATION Spec
CONSTANTS
    Candidates = {c1, c2}
    Workers = {w1}
    Subjects = {s1, s2, s3}
    Entities = {e1, e2}
    Labels = {l1}
    EntityId <- MCEntityId
    Label <- MCLabel
    StoredLabel <- MCStoredLabel
    Payload <- Overlapping
    Edits <- AnyEdit
    Malformed = {}
    Keys = {k1}
    OwnerChoices = {"approve_for_commit", "reject", "quarantine"}
    ReviewChoices = {"accept", "edit_accept", "reject", "quarantine"}
    NoCandidate = NoCandidate
    NoKey = NoKey
    NoLabel = NoLabel
    MaxGenerations = 3
    Crashes <- Anywhere
    c1 = c1
    c2 = c2
    s1 = s1
    s2 = s2
    s3 = s3
    e1 = e1
    e2 = e2
    l1 = l1
INVARIANTS
    TypeOK
    CommitsAuthorised
    AcceptedWasValidated
    PublishedOnce
PROPERTIES
    UndoRestores
