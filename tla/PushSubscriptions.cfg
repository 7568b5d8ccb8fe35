SPECIFICATION SubsSpec
CONSTANTS
    a1 = a1
    a2 = a2
    x1 = x1
    x2 = x2
    s1 = s1
    s2 = s2
    Auth = {a1, a2}
    Topic = {x1, x2}
    Sender = {s1, s2}
    MaxSubs = 1
    MaxObj = 3
    NoAuth = NoAuth
    NoTopic = NoTopic
INVARIANTS
    SubsInv
    WithinLimit
    SentOnlyToSubscribers
