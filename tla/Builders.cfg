\* a caller of the query builders, three calls
SPECIFICATION SpecBridge
CONSTANTS
    Names <- MCNames
    Values <- MCValues
    Trees <- MCTrees
    Queries <- MCQueries
    Conds <- MCConds
    Inners <- MCInners
    Exprs <- MCExprs
    Joins <- MCJoins
    Havings <- MCHavings
    SubQueries <- MCSubQueries
    SubSelects <- MCSubSelects
    Pairs <- MCPairs
    Sets <- MCSets
    Scopes <- MCScopes
    SoftColumn = "del"
    Table <- MCTable
    Related <- MCRelated
    MaxDepth = 3
    MaxWidth = 2
    MaxCalls = 3
    MaxParts = 300
INVARIANTS
    PlaceholdersBound
    RowsAsAsked
    ScopesHold
    BridgeKeepsRows
    CountAgrees
CHECK_DEADLOCK FALSE
