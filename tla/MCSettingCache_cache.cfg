SPECIFICATION FairSpec
CONSTANTS
    Instance = {i1, i2}
    NoInstance = NoInstance
    Request = {q1}
    TTL = 2
    MaxRevision = 2
PROPERTY Converges
