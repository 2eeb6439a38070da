\* Three files, one without a SHA-1; two workers and two attempts.
SPECIFICATION FairSpec
CONSTANTS
    N = 3
    HasSHA = {1, 2}
    Retries = 2
    Jobs = 2
    MaxArg = 12
    Block = 3
INVARIANTS
    Consistent
    OutcomeMatchesDisk
    HelpersFit
PROPERTIES
    RunEnds
