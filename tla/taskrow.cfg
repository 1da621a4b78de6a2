SPECIFICATION Spec
CONSTANTS
    None = None
    Approvals = {a1}
    Statuses = {"RUNNING", "CANCELLED"}
    NodeEvents <- MCNodeEvents
    MaxEvents = 3
    MaxSkips = 1
    MaxRepairs = 2
INVARIANTS
    Converged
    NodeLatest
PROPERTY NodeFactsKept
CHECK_DEADLOCK FALSE
