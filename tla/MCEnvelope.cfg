CONSTANTS
    a1 = a1
    a2 = a2
    n1 = n1
    n2 = n2
    bytes1 = bytes1
    None = None
    NoDefault = NoDefault
    Garbage = Garbage
    Attr <- MCAttr
    Nonce <- MCNonce
    Value <- MCValue
    MaxEncrypt = 2

SPECIFICATION EnvCodecSpec

\* The envelope's writes are bounded, its reads and tampering go on; the
\* codec's declaration, put and get end.
CHECK_DEADLOCK FALSE

INVARIANTS
    TypeOK
    DecryptMeansWritten
    NoKeyNonceReuse
    ModelMeetsSpec
    GetReturnsPut
