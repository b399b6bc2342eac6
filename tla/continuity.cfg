\* Resolution, rehydration and completion while runways come and go.
SPECIFICATION Spec
CONSTANTS
    Tenants = {t1}
    Identities = {i1}
    Projects = {p1, g1}
    Scopes = {d1, s1}
    Global = g1
    Default = d1
    Credentials = {c1, c2}
    TenantOf <- MCTenantOf
    ProjectsOf <- MCProjectsOf
    IdentitiesOf <- MCIdentitiesOf
    Specialists = {c1}
    Runways = {r1, r2}
    CreatorOf <- MCCreatorOf
    Invocations = {v1}
    Receipts = {x1}
    Workers = {w1, w2}
    NoRunway = NoRunway
    NoInvocation = NoInvocation
    NoReceipt = NoReceipt
    NoCredential = NoCredential
    Requested <- Lookups
    Proposed <- Sources
    OutcomesSent = {"changed"}
    Completers = {w2}
    GlobalFallback = TRUE
    Backfilled = {r2}
    Damageable = {r1}
    t1 = t1
    i1 = i1
    p1 = p1
    d1 = d1
    s1 = s1
    c1 = c1
    c2 = c2
    r1 = r1
    r2 = r2
INVARIANTS
    TypeOK
    AdmittedContextBelongs
    ChangedHasCandidate
PROPERTIES
    CurrentIsHead
    InvocationKeepsOwner
