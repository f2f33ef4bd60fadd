SPECIFICATION FairSpec
CONSTANTS
    Event = {e1, e2}
    Worker = {w1, w2}
    NoEvent = NoEvent
    NoWorker = NoWorker
    MaxAttempts = 2
    Lease = 3
    HandlerTimeout = 1
    Overhead = 1
    BaseBackoff = 1
    MaxBackoff = 2
    MaxFaults = 1
    MaxClaims = 5
PROPERTIES Settles
