SPECIFICATION Spec
CONSTANTS
    Replicas = {a, b}
    node = node
    attempt = attempt
    Rows <- MCRows
    Body <- LiveRowBody
    Entities <- MCEntities
    NoEntity = NoEntity
    NoReplica = NoReplica
    Batch = 2
    MaxFaults = 2
    MaxStoreFails = 0
SYMMETRY Symmetry
INVARIANTS
    NothingLost
    EntityOrder
CHECK_DEADLOCK FALSE
