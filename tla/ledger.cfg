SPECIFICATION FairSpec
CONSTANTS
    Keys = {k1}
    Hashes = {message, pause}
    Answers = {accepted, result}
    ClosedRefuses = {message}
    Nobody = Nobody
    NoHash = NoHash
    NoAnswer = NoAnswer
    Requests = {r1, r2, r3}
INVARIANTS
    TypeOK
    LeaseExclusive
    OneMeaning
    NoFalseSuccess
    ReplayIsStored
PROPERTIES
    ImplementsOnce
    EventuallySettled
CHECK_DEADLOCK FALSE
