SPECIFICATION FairSpec
CONSTANTS
    MaxSeq = 3
    Buffer = 1
    MaxLive = 1
    MaxAgain = 1
    MaxFaults = 2
INVARIANTS
    TypeOK
    InOrderOnce
PROPERTY Delivered
