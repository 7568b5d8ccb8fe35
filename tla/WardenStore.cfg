SPECIFICATION WardenSpec
CONSTANTS
    anna = anna
    Anna = Anna
    bert = bert
    phone = phone
    laptop = laptop
    Name <- MCName
    Lower <- MCLower
    Device <- MCDevice
    DeviceSets <- MCDeviceSets
    Thread = {t1}
    MaxWardens = 2
    MaxFailed = 1
    Nobody = Nobody
INVARIANTS
    StoredStaysStored
    DeletedStaysDeleted
    WardenInv
PROPERTY
    OnSiteIsJustified
