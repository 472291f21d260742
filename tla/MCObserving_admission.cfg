SPECIFICATION Spec
CONSTANTS
    controller = controller
    c1 = c1
    o1 = o1
    o2 = o2
    o3 = o3
    none = none
    Obs = {o1, o2, o3}
    MaxRuns = 1
    Procs <- BothProcs
    None = none
    Controller = controller
    Threshold = 5
    Reservation = 2
    MaxObservations = 3
    OverrunActions = {"abort", "warn"}
    CoarseMtimes = TRUE
    MaxBytes = 3
    DockerFaults = FALSE
    OsFaults = FALSE
SYMMETRY ObsSymmetry
INVARIANTS
    TypeOK
    BytesWithinThreshold
    LiveIsCharged
    OneObservationAtATime
    WritersAreObserved
    ChargeCoversDisk
    LogicalWithinThreshold
