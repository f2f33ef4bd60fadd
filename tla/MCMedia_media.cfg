SPECIFICATION FairSpec
CONSTANTS
    a1 = a1
    a2 = a2
    u = u
    p1 = p1
    Asset = {a1, a2}
    User = {u}
    OwnerOf <- OneOwner
    Post = {p1}
    AuthorOf <- OneAuthor
    Instance = {i1, i2}
    None = None
    Quota = 1
    Batch = 1
INVARIANTS QuotaHolds LinksAreStored VictimsAreExclusive
PROPERTIES OrphansGo
