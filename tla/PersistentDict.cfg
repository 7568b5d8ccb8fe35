SPECIFICATION FairSpec
CONSTANTS
    Thread = {t1, t2}
    Key = {k1, k2}
    Value = {v1}
    NoThread = NoThread
    Absent = Absent
    NoFile = NoFile
    MaxNest = 2
INVARIANT DictInv
PROPERTIES
    KeepsPromise
    LockReleased
