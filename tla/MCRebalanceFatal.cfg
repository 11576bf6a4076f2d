SPECIFICATION Spec
CONSTANTS
    Plan <- RebalanceStages
    Contract <- RebalanceContract
    MaxMishaps = 1
INVARIANT FatalStops
CHECK_DEADLOCK FALSE
