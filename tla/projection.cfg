\* Overlapping repair passes, rebuilds, rollbacks and deletions; every call may
\* throw and every request may be cut off.
SPECIFICATION Spec
CONSTANTS
    Assertions = {a1, a2}
    Workers = {w1, w2}
    Receipts = {x1}
    Administrators = {w1, w2}
    Scopes <- MCScopes
    Wide <- MCWide
    Reviewed = {a2}
    Judged <- MCJudged
    Contended = {a1}
    Retained = FALSE
    Poison = {}
    Limit = 1
    NoReceipt = NoReceipt
    Crashes = TRUE
    a1 = a1
    a2 = a2
INVARIANTS
    TypeOK
    CompleteIsIndexed
    ReceiptMeansErased
    IndexFollowsMemory
SYMMETRY Symmetry
