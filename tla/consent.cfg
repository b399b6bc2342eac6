\* Two requests at a time in the flows of an owner and of a stranger.
\* The instance stops when its identifiers are spent.
SPECIFICATION Spec
CONSTANTS
    Workers = {w1, w2}
    People = {owner, stranger}
    Allowed = {owner}
    Operations = {"authorize", "review"}
    Subjects = {c1, c2}
    Ids = {i1, i2, i3}
    NoOne = NoOne
    NoSubject = NoSubject
    NoId = NoId
    i1 = i1
    i2 = i2
    i3 = i3
    StaleReads = {i1}
SYMMETRY Symmetry
INVARIANTS
    TypeOK
    PerformedInOrder
    DoneOnce
CHECK_DEADLOCK FALSE
