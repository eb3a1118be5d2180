CONSTANTS
    edit = edit
    removal = removal
    Edits <- MCEdits
    Grants = {}
    Removals <- MCRemovals
    MaxTriggers = 2
    MaxLoads = 2
    MaxFaults = 2
SPECIFICATION Spec
INVARIANT TypeOK
INVARIANT ListIsHonest
PROPERTY ListConverges
PROPERTY RejectedListIsGone
CHECK_DEADLOCK FALSE
