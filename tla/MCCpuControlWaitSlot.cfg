CONSTANTS
    NWords <- MCNWords
    UserAddrs <- MCUserAddrs
    Programs <- MCProgramsWaitInSlot
    ResetVector = 7
    RefillVector = 4
    GeneralVector = 5
    BootRefillVector = 10
    BootGeneralVector = 11
SPECIFICATION Spec
PROPERTY IsaRefinement
