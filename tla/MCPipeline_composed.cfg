SPECIFICATION Spec
CONSTANTS
    controller = controller
    c1 = c1
    o1 = o1
    o2 = o2
    none = none
    Obs = {o1, o2}
    MaxRuns = 1
    Procs <- BothProcs
    None = none
    Controller = controller
    DockerFaults = FALSE
    MaxProcessingAttempts = 1
    MaxParallel = 1
    Threshold = 1
    Reservation = 1
    MaxObservations = 2
    OverrunActions = {"abort"}
    MaxBytes = 1
    OsFaults = FALSE
    CoarseMtimes = FALSE
SYMMETRY ObsSymmetry
PROPERTIES
    ImplementsProcessing
    ImplementsObserving
    BytesGoOnlyByOperator
INVARIANT
    InputIsComplete
