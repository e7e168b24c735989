SPECIFICATION FairSpec
CONSTANTS
    Setting <- MCSetting
    MaxFailures = 1
INVARIANTS
    TypeOK
    BoundedStaleness
    SyncHoldsOffGeneration
    AdapterStillLoaded
PROPERTIES
    PrefetchedAhead
    TrainingEnds
