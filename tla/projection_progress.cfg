\* Repair passes of one row each, one assertion that is refused for ever.
\* It stops when every assertion of the instance has been indexed or withdrawn.
SPECIFICATION FairSpec
CONSTANTS
    Assertions = {a1, a2}
    Workers = {w1, w2}
    Receipts = {}
    Administrators = {}
    Scopes <- MCScopes
    Wide <- MCWide
    Reviewed = {a2}
    Judged <- MCJudged
    Contended = {a1}
    Retained = FALSE
    Poison = {a2}
    Limit = 1
    NoReceipt = NoReceipt
    Crashes = TRUE
    a1 = a1
    a2 = a2
PROPERTIES
    AcceptedGetsIndexed
CHECK_DEADLOCK FALSE
