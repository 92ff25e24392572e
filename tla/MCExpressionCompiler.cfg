CONSTANTS
    None = None
    str = str
    pair = pair
    Field <- MCField
    Unknown = "zz"
    KeyField = {"pk"}
    Encrypted = {"e"}
    SetField = {"s"}
    Structured = {}
    AttrName <- MCAttrName
    VersionField = "n"
    Value <- MCValue
    Number = {1}
    Index <- MCIndex
    CondOp = {"=", "attribute_exists", "BETWEEN", "IN", "LIKE"}
    CondValue <- MCCondValue
    Pair = pair
    PairItems <- MCPairItems
    MaxUpdates = 2
    MaxConditions = 1

SPECIFICATION ExprSpec

\* execute is the builder's last call, and a read call the caller's only one.
CHECK_DEADLOCK FALSE

INVARIANTS
    TypeOK
    PlaceholdersBound
    GuardsHold
    QTypeOK
    QueryMeansCaller
    ValidCallSent
