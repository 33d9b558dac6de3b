\* Queries, bandwidth maintenance, model persistence and
\* SET kde_enable_adaptive_bandwidth in one session.
CONSTANTS
    MaxEvents = 6
    MinibatchSize = 2
    SamplePeriod = 3
    MaintenancePolicy = "PRR"
    Operations <- AllOperations
SPECIFICATION Spec
INVARIANT TypeOK
INVARIANT KdeReadsSettledBandwidth
INVARIANT PendingBandwidthWriteTracked
INVARIANT BandwidthInv
