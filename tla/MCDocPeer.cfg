CONSTANTS
    here = here
    there = there
    Mine <- MCMine
    Theirs <- MCTheirs
    MaxEvents = 2
SPECIFICATION PeerSpec
INVARIANT NotesAreSound

PROPERTY EditsReachServer
PROPERTY CatchesUp
CHECK_DEADLOCK FALSE
