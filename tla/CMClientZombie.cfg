\* A connection lost while its logon response is being taken (client.go 178).
SPECIFICATION Spec
CONSTANTS
    LoginAttempts = 2
    Relogins = 1
    UMRetries = 2
    JobCycle = 3
    MaxConns = 2
    MaxCalls = 1
INVARIANTS
    LoggedOnMeansConnected
