SPECIFICATION Spec
CONSTANTS
    Callers = {a, b}
    Names <- MCNames
    Skills <- MCSkills
    Connectors <- MCConnectors
    Forms <- MCForms
    HandSpecs <- MCHandSpecs
    Agents <- MCAgents
    Personas <- MCPersonas
    MaxPrompt = 4
    Reserve = 1
    MaxFiles = 9
    MaxRefs = 2
    MaxIds = 2
    MaxVersion = 2
    MaxHand = 1
    MaxMembers = 2
INVARIANTS
    AnswersHold
    EditKeeps
    TeamsRunnable
    FormRoundTrip
    ImportFits
    ImportedOnceAlone
CHECK_DEADLOCK FALSE
