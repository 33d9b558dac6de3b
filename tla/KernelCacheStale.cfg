\* The same instance, checking the kernels the statics hand out.
CONSTANTS
    Dims = {1, 2}
    Representation = "PLAIN_BW"
    StaticKernels = {"init_zero", "computePartialGradient"}
    DimensionalKernels = {"computePartialGradient"}
    TableSize = 2
    Hash <- MCHash
    MaxContexts = 2
    NULL = NULL
SPECIFICATION Spec
INVARIANT CachedKernelMatchesUse
