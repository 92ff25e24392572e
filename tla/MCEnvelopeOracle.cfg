CONSTANTS
    a1 = a1
    a2 = a2
    n1 = n1
    n2 = n2
    bytes1 = bytes1
    None = None
    NoDefault = NoDefault
    Garbage = Garbage
    Attr <- MCAttr
    Nonce <- MCNonce
    Value <- MCValue
    MaxEncrypt = 2

SPECIFICATION EnvCodecSpec
CHECK_DEADLOCK FALSE

\* Decryption failures of different causes raise different errors.
INVARIANT OneGenericError
