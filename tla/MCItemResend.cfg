CONSTANTS
    None = None
    Missing = Missing
    k1 = k1
    k2 = k2
    Key = {k1}
    Field = {"pk", "n", "s"}
    KeyField = {"pk"}
    AttrName <- MCAttrName
    Val = {1}
    Conds <- MCConds
    Names <- MCNames
    Values <- MCValues
    Updates <- MCUpdates
    PutItems <- MCPutItems
    TxActions <- MCTxActions
    MaxActions = 2
    MaxAttempts = 2
    Calls = {"put", "update"}

SPECIFICATION Spec

INVARIANTS
    WriteConditionFailedMeansNotApplied
