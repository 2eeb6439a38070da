\* All three kinds of proxy; headers of at most 4 bytes stand for 8192.  Two
\* goroutines write payloads at the limits of the three length forms.
SPECIFICATION LinkSpec
CONSTANTS
    Protos = {"socks5", "socks4", "http"}
    MaxHeader = 4
    HeaderSizes = {0, 3, 4}
    BoundSizes = {4, 6}
    OK = OK
    Bad = Bad
    NoAuth = NoAuth
    UserPass = UserPass
    Writers = {caller, heartbeat}
    Lengths = {125, 126, 200, 65535, 65536}
    MaxFrames = 2
INVARIANTS
    LinkConsistent
    DialSafe
    WholeFrames
PROPERTIES
    HangUpEndsDial
