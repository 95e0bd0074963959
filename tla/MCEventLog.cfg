\* Events recorded by concurrent calls; identifiers in no order of recording.
SPECIFICATION FairLogSpec
CONSTANTS
    Ids = {1, 2, 3}
    Batch = 2
    MaxAge = 1
    MaxCount = 2
    MaxTime = 3
INVARIANT StreamOrdered
PROPERTY AheadIsDelivered
