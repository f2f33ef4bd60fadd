SPECIFICATION Spec
CONSTANTS
    User = {ann, bob}
    Manager = {bob}
    Post = {p1}
    Original = {o1}
    Session = {s1, s2}
    NoUser = NoUser
    NoPost = NoPost
    NoOriginal = NoOriginal
    NoSession = NoSession
SYMMETRY Symmetry
INVARIANTS DecisionMatchesPost PublishedWasApproved
