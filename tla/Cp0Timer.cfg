CONSTANTS
    CountBits = 3
    TlbEntries = 48
    WiredValues = {0, 5, 47, 48, 63}
SPECIFICATION Spec
INVARIANT TypeOK
INVARIANT RandomInRange
INVARIANT TimerFiresAtCompare
INVARIANT TimerFiresWithinPeriod
