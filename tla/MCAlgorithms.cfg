SPECIFICATION Spec
INVARIANTS PassesAgree ChunkingIrrelevant DeliveryJudged BlameEarned FailureMatrix ReplayExact
CHECK_DEADLOCK FALSE
