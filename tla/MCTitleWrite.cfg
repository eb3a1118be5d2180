CONSTANTS
    alice = alice
    bob = bob
    t1 = t1
    t2 = t2
    none = none
    Clients <- MCClients
    Creator = alice
    Titles <- MCTitles
    Untitled = none
    MaxEdits = 3
    MaxFaults = 1
    MaxLists = 1
SPECIFICATION Spec
INVARIANT EditsAreSound
INVARIANT ResendSeesConflicts
INVARIANT TypedOrder
PROPERTY NoBlindOverwrite
SYMMETRY Symmetric
CHECK_DEADLOCK FALSE
