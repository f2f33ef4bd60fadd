SPECIFICATION Spec
CONSTANTS
    MaxPost = 2  MaxScore = 1  Limit = 1  Lifetime = 2  Retained = 1  MaxClock = 2  MaxChanges = 1
    ann = ann  me = me  Author = {ann, me}  Viewer = me  AuthorOf <- Authors  ForFollowers = {1}
    c1 = c1  Topic = {c1}  Beginning <- Beginnings
    p1 = p1  p2 = p2  Pref = {p1, p2}  Ranking <- Rankings
    t1 = t1  Tab = {t1}
    r1 = r1  r2 = r2  Request = {r1, r2}
    s1 = s1  s2 = s2  s3 = s3  Id = {s1, s2, s3}
    None = None
SYMMETRY FeedSymmetry
INVARIANTS SnapshotsBounded NothingSkipped ShownOnce
PROPERTIES NeverGoesBack
