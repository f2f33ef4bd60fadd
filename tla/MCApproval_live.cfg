SPECIFICATION FairSpec
CONSTANTS
    User = {ann, bob}
    Manager = {}
    Post = {p1}
    Original = {}
    Session = {s1, s2}
    NoUser = NoUser
    NoPost = NoPost
    NoOriginal = NoOriginal
    NoSession = NoSession
PROPERTY RequestsEnd
