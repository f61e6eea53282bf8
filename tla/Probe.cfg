SPECIFICATION Spec
CONSTANTS
    Mine = n1
    Other = n2
    NoNode = none
    Row = {0, 1}
    QueueSize = 2
    MaxSent = 2
    MaxPosts = 3
CHECK_DEADLOCK FALSE
INVARIANTS CountsWithinSent LastProbeAnswered RowsFollowMembers
