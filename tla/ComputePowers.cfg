CONSTANTS
    Degree = 8
    LowDegree = 3
    Threads = 2
    Throwing = {8}
    Requests <- MCRequests
    MaxConfigs = 2
    mod = 11
SPECIFICATION Spec
INVARIANTS
    QueryPlanSound
    OneWorkerPerNode
    ComputedInOrder
    FormsSafe
    EvalRight
PROPERTIES
    ApplyReturns
