CONSTANTS
    alice = alice
    bob = bob
    t1 = t1
    t2 = t2
    Clients <- MCClients
    Tags <- MCTags
    Attempts = 2
    MaxEdits = 3
    MaxFaults = 1
    MaxLists = 1
SPECIFICATION Spec
INVARIANT TypeOK
INVARIANT TagsAreTheOperations
INVARIANT KeptUntilAnswered
INVARIANT WordsInOrder
SYMMETRY Symmetric
CHECK_DEADLOCK FALSE
