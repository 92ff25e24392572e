CONSTANTS
    None = None
    Missing = Missing
    k1 = k1
    k2 = k2
    Key <- MCKey
    Field = {"pk", "n", "s"}
    KeyField = {"pk"}
    AttrName <- MCAttrName
    Val = {1}
    Conds <- MCConds
    Names <- MCNames
    Values <- MCValues
    Updates <- MCUpdates
    PutItems <- MCPutItems
    TxActions <- MCTxActions
    MaxActions = 2
    MaxAttempts = 2
    Calls = {"get", "put", "delete", "update", "transact_write"}

SPECIFICATION Spec

INVARIANTS
    TypeOK
    TxConditionFailedMeansNotApplied

PROPERTY
    SuccessMeansIntended
