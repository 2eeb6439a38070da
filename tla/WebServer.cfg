\* One request of any of the three kinds, at most two downloads, the warm-up.
SPECIFICATION Spec
CONSTANTS
    Pages = {page}
    Enqueues = {enq}
    Syncs = {sync}
    Warm = warm
    MaxRequests = 1
    MaxQueued = 2
    QueueCap = 1
    Nobody = Nobody
INVARIANTS
    AcceptedIsServed
    Consistent
