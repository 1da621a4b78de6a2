SPECIFICATION ApprovalSpec
CONSTANT Events <- RequestedTwice
INVARIANTS
    ApprovalType
    LatestDecision
    AgreeIfAskedOnce
CHECK_DEADLOCK FALSE
