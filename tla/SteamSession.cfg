\* Three calls: one that waits for ever, one with a timeout, one of a
\* browser; a channel of two.
SPECIFICATION FairSpec
CONSTANTS
    Callers = {plain, timed, browser}
    Timed = {timed, browser}
    Cancellable = {browser}
    QueueCap = 2
    Nobody = Nobody
INVARIANTS
    DrainedClean
    PanicHasNoJob
PROPERTIES
    KeepsContract
    CallsEnd
