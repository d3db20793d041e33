CONSTANTS
    NWords <- MCNWords
    UserAddrs <- MCUserAddrs
    Programs <- MCPrograms
    ResetVector = 7
    RefillVector = 4
    GeneralVector = 5
    BootRefillVector = 10
    BootGeneralVector = 11
SPECIFICATION FairSpec
INVARIANT TypeOK
PROPERTIES IsaRefinement WaitEndsOnInterrupt
