SPECIFICATION FairSpec
CONSTANTS
    PoolSize = 3
    MaxGiven = 3
INVARIANTS TypeOK BalancedUpToOverlaps QuietAfterRun
PROPERTY StopEndsRun
