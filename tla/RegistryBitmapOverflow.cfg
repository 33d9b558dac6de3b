\* Table Oid 9 lies past the eight bits the one-byte bitmap covers, as an Oid
\* at or above 2^25 lies past the 4 MiB bitmap of the code.
CONSTANTS
    KeySize = 2
    ByteBase = 4
    Tables = {1, 9}
    Estimator = {e1, e2, e3, e4}
    NULL = NULL
    Unset = Unset
    RegistryCapacity = 2
    GrowBy = 2
    BitmapBytes = 1
    MaxOnExits = 2
SPECIFICATION Spec
INVARIANTS BitmapWithinAllocation
