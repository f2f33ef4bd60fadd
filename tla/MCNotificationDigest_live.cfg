SPECIFICATION FairSpec
CONSTANTS
    Note = {n1}
    Session = {s1}
    Worker = {w1, w2}
    Nobody = Nobody
    DailyTime = {0}
    Hour = 1
    Day = 1
    MaxTime = 1
    MaxFaults = 1
PROPERTY DueIsHandled
