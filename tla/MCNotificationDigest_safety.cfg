SPECIFICATION Spec
CONSTANTS
    Note = {n1, n2}
    Session = {s1}
    Worker = {w1, w2}
    Nobody = Nobody
    DailyTime = {1}
    Hour = 1
    Day = 2
    MaxTime = 2
    MaxFaults = 0
SYMMETRY Symmetry
INVARIANTS CountedOnce NoReplay
PROPERTIES NothingLost SignatureIsCurrent
