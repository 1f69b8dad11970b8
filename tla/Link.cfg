SPECIFICATION FairSpec
CONSTANTS
    NoServer = NoServer
    Unresolved = Unresolved
    Servers = {a, b}
    First = a
    Sizes = {0, 2, 3}
    MAXBUF = 2
    Timeouts = 1
    Failures = 1
    MaxPackets = 2
    MaxWakes = 1
    MaxChanges = 2
PROPERTIES WholePackets ReconnectIsTrue PlayerReturns
