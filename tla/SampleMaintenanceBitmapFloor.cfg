CONSTANTS
    N = 3
    ByteBits = 2
    Row = {r1, r2}
    NoRow = NoRow
    Options = {"CAR"}
    Period = 2
    Modulus = 8
    MaxCount = 4
    MaxWrap = 2
    FloydSets <- FloydOutcomes
SPECIFICATION Spec
INVARIANT DeletedRowLeavesSample
