SPECIFICATION FairSpec
CONSTANTS
    Replicas = {a, b}
    node = node
    attempt = attempt
    Rows <- MCRows
    Body <- BadRowBody
    Entities <- MCEntities
    NoEntity = NoEntity
    NoReplica = NoReplica
    Batch = 2
    MaxFaults = 1
    MaxStoreFails = 1
INVARIANTS
    TypeOK
    UnversionedKept
PROPERTIES
    ImplementsTaskLog
    Drained
CHECK_DEADLOCK FALSE
