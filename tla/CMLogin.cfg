\* A login of two attempts, then a call of two attempts that may log in
\* again; two connections; job ids are used again after two.
SPECIFICATION ListSpec
CONSTANTS
    LoginAttempts = 2
    Relogins = 1
    UMRetries = 2
    JobCycle = 2
    MaxConns = 2
    MaxCalls = 1
    Dns = 0
    Addrs = {0, 1, 2}
    Answers <- FewAnswers
INVARIANTS
    Consistent
    BeatsWhileLoggedOn
    RightAnswer
    NewServerEachTry
    WireFits
    FirstConnectionSafe
PROPERTIES
    EverythingEnds
