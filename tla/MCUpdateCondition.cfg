CONSTANTS
    None = None
    str = str
    pair = pair
    Field <- MCField
    Unknown = "zz"
    KeyField = {"pk"}
    Encrypted = {"e"}
    SetField = {"s"}
    Structured = {}
    AttrName <- MCAttrName
    VersionField = "n"
    Value <- MCValue
    Number = {1}
    Index <- MCIndex
    CondOp = {"=", "attribute_exists"}
    CondValue = {None, 1}
    Pair = pair
    PairItems <- MCPairItems
    MaxUpdates = 1
    MaxConditions = 3

SPECIFICATION Spec

\* execute is the builder's last call.
CHECK_DEADLOCK FALSE

INVARIANT
    ConditionMeansChain
