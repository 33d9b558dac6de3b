\* SET kde_enable_adaptive_bandwidth between an estimate and its feedback.
CONSTANTS
    MaxEvents = 6
    MinibatchSize = 2
    SamplePeriod = 3
    MaintenancePolicy = "NONE"
    Operations <- GucOperations
SPECIFICATION Spec
INVARIANT SeedBeforeUpdate
