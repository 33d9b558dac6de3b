\* Two dimensionalities, one static kernel of each kind, two contexts.
CONSTANTS
    Dims = {1, 2}
    Representation = "PLAIN_BW"
    StaticKernels = {"init_zero", "computePartialGradient"}
    DimensionalKernels = {"computePartialGradient"}
    TableSize = 2
    Hash <- MCHash
    MaxContexts = 2
    NULL = NULL
SPECIFICATION Spec
INVARIANT TypeOK
INVARIANT FetchedKernelMatchesRequest
INVARIANT CompiledOncePerContext
INVARIANT ProgramsReleasedOnce
