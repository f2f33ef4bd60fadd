SPECIFICATION Spec
CONSTANTS
    ann = ann
    kim = kim
    b1 = b1
    User = {ann, kim}
    Local = {ann}
    Tab = {t1, t2}
    Browser = {b1}
    Jar <- OneJar
    Token = {k1}
    None = None
    MaxRevocations = 1
SYMMETRY TabSymmetry
INVARIANTS RevocationEndsSessions OneSilentAttempt
PROPERTIES SignOutSticks
