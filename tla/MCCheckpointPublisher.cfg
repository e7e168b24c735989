SPECIFICATION FairSpec
CONSTANT MaxJobs = 4
INVARIANTS
    Inv
PROPERTIES
    PublishesInOrder
    FailureSticks
    Settles
