\* Unrestricted clients, crashes and failing calls.
SPECIFICATION Spec
CONSTANTS
    Runways = {r1, r2}
    Workers = {w1, w2}
    Attempts = {a1, a2}
    NoRunway = NoRunway
    NoAttempt = NoAttempt
    ValidationOutcomes = {"passed", "quarantined"}
    ArtifactRequired = TRUE
    IndexRequired = TRUE
    FailingCalls = {"publish_seal", "publish_artifact", "publish_index", "publish_indexed", "publish_cas", "publish_record"}
    Crashes = TRUE
SYMMETRY Symmetry
INVARIANTS
    TypeOK
    HistoryIsChain
    LineageSound
    AttemptOutcomes
    HeadSound
PROPERTIES
    HeadMovesAlongLineage
    QualityGates
    InvalidatedIsFinal
    RefinesHeadRegister
