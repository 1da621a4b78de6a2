SPECIFICATION Spec
CONSTANTS
    Replicas = {a, b}
    node = node
    attempt = attempt
    Rows <- MCRows
    Body <- BadRowBody
    Entities <- MCEntities
    NoEntity = NoEntity
    NoReplica = NoReplica
    Batch = 3
    MaxFaults = 0
    MaxStoreFails = 1
INVARIANT NothingLost
CHECK_DEADLOCK FALSE
