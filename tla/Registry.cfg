\* Two-byte Oids over a four-valued byte (Oids 0..15), an eight-bit bitmap
\* that covers the three tables used, a directory of capacity two that grows
\* by two, four estimator pointers, and two registry lifetimes.
CONSTANTS
    KeySize = 2
    ByteBase = 4
    Tables = {1, 4, 6}
    Estimator = {e1, e2, e3, e4}
    NULL = NULL
    Unset = Unset
    RegistryCapacity = 2
    GrowBy = 2
    BitmapBytes = 1
    MaxOnExits = 2
SPECIFICATION Spec
INVARIANTS TypeOK BitmapMatchesDirectory LookupReturnsRegistered NoFreedEstimatorRegistered LookupWithinCapacity
