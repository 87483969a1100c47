CONSTANTS
    MaxEvent = 2
    SameAggregate = 2
    Drainer = {worker, caller}
    Batch = 2
    MaxAttempts = 1
SPECIFICATION FairSpec
INVARIANTS
    DisorderIsExplained
PROPERTIES
    ImplementsFeed
    EventuallyPublished
