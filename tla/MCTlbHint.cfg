CONSTANTS
    TlbEntries = 2
    VPNs <- MCVPNs
    ASIDs = {0, 1}
    PFNs = {0, 1}
    Spans = {1, 4}
    WriteValues <- MCWriteValues
    IndexValues = {0, 1, 2}
    WiredValues = {0, 1}
SPECIFICATION Spec
INVARIANT HintIrrelevant
