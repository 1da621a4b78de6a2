SPECIFICATION Spec
CONSTANT MaxClock = 6
INVARIANTS
    TypeOK
    NoFalseRunning
    Converged
PROPERTY TerminalForever
CHECK_DEADLOCK FALSE
