\* Two requests for an item or a collection of two; a channel and a history
\* of two, so that both overflow.
SPECIFICATION FairSpec
CONSTANTS
    a = a
    b = b
    coll = coll
    Free = Free
    Requests = {r1, r2}
    Wants <- MCWants
    Answers <- MCAnswers
    MaxCalls = 4
    QueueCap = 2
    MaxHistory = 2
    MaxJobs = 4
INVARIANTS
    OneActivePerItem
    QueuedHasTicket
    ResolveFits
PROPERTIES
    StartsInOrder
    LifecycleKept
    QueuedEnds
