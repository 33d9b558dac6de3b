CONSTANTS
    P = 2
    MaxLocal = 2
    LocalMem = 3
    MaxN = 5
    Values = {0, 1, 2}
INIT Init
NEXT Next
INVARIANTS
    TypeOK
    SumMatchesReference
    MinMatchesReference
CHECK_DEADLOCK FALSE
