CONSTANTS
    u1 = u1
    u2 = u2
    u3 = u3
    r1 = r1
    w1 = w1
    w2 = w2
    Updates <- MCTwoUpdates
    Recoverers <- MCRecoverers
    Writers <- MCWriters
    Threshold = 1
    UserDoc = TRUE
    MaxPurges = 1
SPECIFICATION Spec
INVARIANT TypeOK
INVARIANT NothingLost
INVARIANT NothingUndone
INVARIANT LedgerKeepsUp
INVARIANT WorkspaceTakesAll
PROPERTY ImplementsDocBody
CHECK_DEADLOCK FALSE
SYMMETRY Symmetric
