SPECIFICATION Spec
CONSTANTS
    controller = controller
    c1 = c1
    o1 = o1
    o2 = o2
    o3 = o3
    none = none
    Obs = {o1}
    MaxRuns = 1
    Procs <- BothProcs
    None = none
    Controller = controller
    Threshold = 4
    Reservation = 2
    MaxObservations = 1
    OverrunActions = {"abort"}
    CoarseMtimes = FALSE
    MaxBytes = 3
    DockerFaults = FALSE
    OsFaults = TRUE
INVARIANTS
    FailedLeavesNothingLive
