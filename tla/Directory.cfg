\* Two-byte keys over a two-valued byte (four keys), an initial capacity of
\* two so that the growth path runs, and two payloads.
CONSTANTS
    KeySize = 2
    Bytes = {0, 1}
    Payload = {p1, p2}
    NULL = NULL
    Unset = Unset
    InitialCapacity = 2
    GrowBy = 2
SPECIFICATION Spec
INVARIANTS TypeOK SortedKeys
PROPERTIES RefinesKeyValueMap
SYMMETRY PayloadSymmetry
