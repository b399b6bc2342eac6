\* Two requests at a time on two grants for one project, and the tokens.
SPECIFICATION Spec
CONSTANTS
    Workers = {w1, w2}
    Assistants = {s1}
    Projects = {p1, canon}
    Grants = {g1, g2}
    AssistantOf <- MCAssistantOf
    ProjectOf <- MCProjectOf
    Canon = canon
    Terms <- MCTerms
    MaxTime = 3
    CodeTTL = 0
    TokenTTL = 1
    Latency = 1
    SaidTimes = {1}
    Never = Never
    NoGrant = NoGrant
    NoAssistant = NoAssistant
    g1 = g1
    g2 = g2
    s1 = s1
    p1 = p1
    canon = canon
SYMMETRY Symmetry
INVARIANTS
    TypeOK
    FirstClosingCounts
    AccessEndsInTime
