SPECIFICATION FairSpec
CONSTANTS
    Thread = {t1, t2, t3}
    Weather = {sun}
    NoWeather = NoWeather
    Never <- MCNever
    TTL = 2
    MaxNow = 3
INVARIANT CacheInv
PROPERTIES
    AnswersAreRecent
    NoHammering
    EveryCallReturns
