CONSTANTS
    p1 = p1
    e1 = e1
    o1 = o1
    f1 = f1
    x1 = x1
    x2 = x2
    PageUpdates <- MCPage
    RootUpdates <- MCRoot
    FolderUpdates <- MCFolders
    Entries <- MCEntries
    Upserters <- MCUpserters
    Kept <- MCKept
    Threshold = 1
    MaxCleanings = 1
    MaxRequests = 3
SPECIFICATION Spec
SYMMETRY MCSymmetry
INVARIANT EntriesAreSound
INVARIANT PostedIsEntered
PROPERTY CleaningIsExact
PROPERTY PostingKeepsFolders
CHECK_DEADLOCK FALSE
