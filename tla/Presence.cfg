SPECIFICATION Spec
CONSTANTS
    Count = {0, 3, 10}
    NonEmpty = {2, 5}
    Many = {3, 10}
    MaxDay = 1
    NoDay <- MCNoDay
    Keep <- MCKeep
INVARIANT PresenceInv
PROPERTIES
    OncePerDay
    LevelIsCurrent
