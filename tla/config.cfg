SPECIFICATION MCSpec
CONSTANTS
    None = None
    Absent = Absent
    c1 = c1
    c2 = c2
    c3 = c3
    MaxSteps = 3
    MaxAttempts = 3
    Ids <- MCIds
    Definitions <- MCDefinitions
    Inputs <- MCInputs
    Commands = {c1, c2, c3}
    Requests <- MCRequests
    Presets = {"default", "custom"}
    Scopes = {"none", "workspace"}
    MaxCalls = 2
    MaxSaves = 2
INVARIANTS
    PermissionsKept
    AnswerHolds
    RepeatAnswered
    SOPRunnable
    RegisteredHolds
CHECK_DEADLOCK FALSE
