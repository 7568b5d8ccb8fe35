SPECIFICATION FairSpec
CONSTANTS
    n1 = n1
    n2 = n2
    t1 = t1
    Nid = {n1, n2}
    Thread = {t1}
    Start = {0, 1}
    End <- MCEnd
    MaxNow = 1
    Keep <- MCKeep
    NoThread = NoThread
    Unset = Unset
INVARIANT NotificationsInv
PROPERTIES
    DeletedStaysDeleted
    PollEnds
