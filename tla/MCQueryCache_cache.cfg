SPECIFICATION FairSpec
CONSTANTS
    p = p
    q = q
    posts = posts
    Query = {p, q}
    Area = {posts}
    AreaOf <- AreaOfBoth
    v1 = v1
    v2 = v2
    View = {v1, v2}
    Paths <- PathsOfBoth
    None = None
    MaxEntries = 1
    Retries = 1
    MaxRevision = 1
INVARIANTS ReadYourWrites LoadingIsBacked NobodyWaitsInVain
PROPERTIES NeverBackwards LoadsEnd
