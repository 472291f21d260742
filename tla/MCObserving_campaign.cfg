SPECIFICATION FairSpec
CONSTANTS
    controller = controller
    c1 = c1
    o1 = o1
    o2 = o2
    o3 = o3
    none = none
    Obs = {o1, o2}
    MaxRuns = 1
    Procs <- BothProcs
    None = none
    Controller = controller
    Threshold = 1
    Reservation = 1
    MaxObservations = 2
    OverrunActions = {"abort"}
    CoarseMtimes = FALSE
    MaxBytes = 2
    DockerFaults = TRUE
    OsFaults = TRUE
PROPERTIES
    ObservingEnds
    CampaignCompletes
    NothingDestroyed
INVARIANT
    LogicalWithinThreshold
