\* A model with an encrypted set field (theorydb_field(set=True,
\* encrypted=True)); one put of it and one get.
CONSTANTS
    None = None
    NoDefault = NoDefault
    Decls <- MCEncryptedSet

SPECIFICATION Spec

\* A declaration, a put and a get; the run ends after the get.
CHECK_DEADLOCK FALSE

\* A get of the object just put returns it.
INVARIANT ItemReadable
