CONSTANTS
    KsegBase = 3
    KsegSize = 1
    PAs = {0, 1, 2}
    PageMap <- MCPageMap
    Vals = {0, 1}
    Placements <- MCPlacements
SPECIFICATION Spec

PROPERTY TlbFaultReported
