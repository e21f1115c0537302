SPECIFICATION PartsSpec
CONSTANTS
    t1 = t1
    t2 = t2
    h1 = h1
    h2 = h2
    a1 = a1
    v1 = v1
    Tasks = {t1, t2}
    Hashes = {h1, h2}
    Required = {a1}
    Validators = {v1}
    AbortKinds = {"admission_denied", "cancelled", "budget_denied"}
    CommitRecords <- MCCommitRecords
    Evidence <- MCEvidence
CONSTRAINT Bounded
SYMMETRY Interchangeable
INVARIANTS TypeOK ChainIntact TerminalEarned EvidenceRules RequestsIdempotent
PROPERTY OnlyDrawnEdges
CHECK_DEADLOCK FALSE
