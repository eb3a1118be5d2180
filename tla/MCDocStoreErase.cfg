CONSTANTS
    u1 = u1
    u2 = u2
    u3 = u3
    r1 = r1
    w1 = w1
    w2 = w2
    Updates <- MCUpdates
    Recoverers <- MCRecoverers
    Writers <- MCNobody
    Threshold = 2
    UserDoc = TRUE
    MaxPurges = 1
SPECIFICATION Spec
INVARIANT ErasedStaysErased
CHECK_DEADLOCK FALSE
SYMMETRY Symmetric
