SPECIFICATION FairSpec
CONSTANTS
    Note = {n1, n2}
    Approval = {n1}
    Emailed = {n2}
    Instance = {i1}
    Nothing = Nothing
    Unknown = Unknown
    Capacity = 1
    MaxFaults = 1
INVARIANTS NothingDropped DecidedIsNotPushed MailOncePerLapse
PROPERTIES PushedOnce SummaryFollows
CHECK_DEADLOCK FALSE
