\* cursor_paginate over any unique column: the model layer puts the primary key into the cursor, the select layer answers with no cursor.
SPECIFICATION Spec
CONSTANTS
    Ids = {1, 2, 3}
    MaxKey = 3
    Rank <- MCRank
    Starred = {1}
    Jobs <- EveryJob
    MaxU32 = 7
    MaxWrites = 0
CHECK_DEADLOCK FALSE
INVARIANTS
    EveryCursorComplete
