\* Every entry point but GUC changes, with PRR on every feedback.
CONSTANTS
    MaxEvents = 6
    MinibatchSize = 2
    SamplePeriod = 1
    MaintenancePolicy = "PRR"
    Operations <- SessionOperations
SPECIFICATION Spec
INVARIANT DataDependenciesOrdered
