CONSTANTS
    Lines = {0, 2, 7}
    CpuNos = {0, 1}
    StatusWrites <- MCStatusWrites
SPECIFICATION Spec
INVARIANTS TypeOK NoDeliverableRequestLeft
  
