SPECIFICATION RewardFairSpec
CONSTANTS
    NWorkers = 3
    MaxGroups = 4
    MaxBatches = 3
    MaxFaults = 2
CHECK_DEADLOCK FALSE
INVARIANT
    RewardsOfThisBatch
PROPERTY
    CollectsUnlessLateFailure
