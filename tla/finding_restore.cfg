\* One request at a time, nothing fails: the older of two runways is
\* invalidated before the newer one.
SPECIFICATION Spec
CONSTANTS
    Runways = {r1, r2}
    Workers = {w1}
    Attempts = {a1, a2}
    NoRunway = NoRunway
    NoAttempt = NoAttempt
    ValidationOutcomes = {"passed"}
    ArtifactRequired = FALSE
    IndexRequired = FALSE
    FailingCalls = {}
    Crashes = FALSE
SYMMETRY Symmetry
PROPERTIES
    RestoredIsEligible
