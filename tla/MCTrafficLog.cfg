SPECIFICATION FairSpec
CONSTANTS
    car = car
    phone = phone
    a1 = a1
    a2 = a2
    NoIP = NoIP
    NoMAC = NoMAC
    NoName = NoName
    Nothing = Nothing
    Ticker = Ticker
    Devices <- TwoDevices
    IPs <- TwoIPs
    Names <- TwoNames
    Zones <- SomeZones
    Denied = {}
    Patterns <- OneName
    Tails <- BothTails
    Journalled <- OnlyKernel
    Lines <- SomeLines
    Hosts <- CarAtA1
    Before <- SomeBefore
    PageSizes = {0, 1, 2}
    CacheSize = 1
    MaxEvents = 2
INVARIANT TypeOK
INVARIANT RepeatsExcused
INVARIANT NewestLease
INVARIANT Recognised
INVARIANT PagesCover
PROPERTY DeliversJournal
PROPERTY CachesConverge
PROPERTY CaughtUp
