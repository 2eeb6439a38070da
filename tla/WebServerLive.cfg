\* A request that updates subscriptions, and the warm-up.
SPECIFICATION FairSpec
CONSTANTS
    Pages = {}
    Enqueues = {}
    Syncs = {sync}
    Warm = warm
    MaxRequests = 1
    MaxQueued = 0
    QueueCap = 2
    Nobody = Nobody
PROPERTIES
    ServerEnds
