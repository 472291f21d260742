SPECIFICATION FairSpec
CONSTANTS
    controller = controller
    c1 = c1
    o1 = o1
    o2 = o2
    none = none
    Obs = {o1}
    MaxRuns = 1
    Procs <- BothProcs
    None = none
    Controller = controller
    DockerFaults = TRUE
    MaxProcessingAttempts = 2
    MaxParallel = 1
    Threshold = 1
    Reservation = 1
    MaxObservations = 1
    OverrunActions = {"abort"}
    MaxBytes = 2
    OsFaults = TRUE
    CoarseMtimes = FALSE
PROPERTIES
    AdmittedReachesOperator
    ImplementsProcessing
    ImplementsObserving
