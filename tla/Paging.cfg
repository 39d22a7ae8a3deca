\* Every walk over a table of up to three rows with two writes by others; a walk that is over stops.
SPECIFICATION FairSpec
CONSTANTS
    Ids = {1, 2, 3}
    MaxKey = 3
    Rank <- MCRank
    Starred = {1}
    Jobs <- EveryJob
    MaxU32 = 7
    MaxWrites = 2
CHECK_DEADLOCK FALSE
INVARIANTS
    OffsetSweeps
    PageTellsTheTruth
PROPERTIES
    WalkEnds
    CursorIsASweep
