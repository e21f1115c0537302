SPECIFICATION Spec
INVARIANTS NoFalseAlarm PassedIsBacked
CHECK_DEADLOCK FALSE
