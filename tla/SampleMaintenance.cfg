CONSTANTS
    N = 4
    ByteBits = 2
    Row = {r1, r2}
    NoRow = NoRow
    Options = {"CAR", "PRR", "TKR", "PKR"}
    Period = 2
    Modulus = 8
    MaxCount = 4
    MaxWrap = 2
    FloydSets <- FloydOutcomes
SPECIFICATION Spec
INVARIANTS TypeOK HitSlotsRefilled DeletedRowLeavesSample FloydUniform
PROPERTY SampleWritesLiveRows
