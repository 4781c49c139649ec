SPECIFICATION Spec
CONSTANTS
    t1 = t1
    t2 = t2
    z1 = z1
    z2 = z2
    Threads <- MCThreads
    Zones <- MCZones
    Unset = Unset
    Unread = Unread
    Failed = Failed
    Free = Free
INVARIANTS
    NamedZoneIsUsed
    ZoneHandedBack
PROPERTIES
    LocalDisturbedOnlyByHolder
    MutexReleased
