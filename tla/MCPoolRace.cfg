SPECIFICATION Spec
CONSTANTS
    PoolSize = 3
    MaxGiven = 3
INVARIANT Balanced
