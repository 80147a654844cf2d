SPECIFICATION Spec
CONSTANTS
    Hosts <- MCHosts
    Tasks <- MCTasks
    Threshold = 2
    ResetSeconds = 2
    OtherCounts = {0, 1}
INVARIANT SingleProbe
