CONSTANTS
    d1 = d1
    d2 = d2
    r1 = r1
    Docs <- MCDocs
    Poison <- MCPoison
    Purged <- MCPurged
    Runs <- MCRuns
    BatchSize = 2
    MaxEdits = 2
    MaxFaults = 1
    MaxPurges = 1
SPECIFICATION Spec
INVARIANT MarksAreSound
INVARIANT IndexMissesNothing
PROPERTY MarksAreWorkedOff
CHECK_DEADLOCK FALSE
