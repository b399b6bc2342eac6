\* One request at a time.
SPECIFICATION Spec
CONSTANTS
    Assertions = {a1, a2}
    Workers = {w1}
    Receipts = {x1}
    Administrators = {w1}
    Scopes <- MCScopes
    Wide <- MCWide
    Reviewed = {a2}
    Judged <- MCJudged
    Contended = {a1}
    Retained = FALSE
    Poison = {}
    Limit = 1
    NoReceipt = NoReceipt
    Crashes = FALSE
    a1 = a1
    a2 = a2
PROPERTIES
    DeletionRemovesRows
