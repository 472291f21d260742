SPECIFICATION Spec
CONSTANTS
    controller = controller
    c1 = c1
    c2 = c2
    o1 = o1
    o2 = o2
    none = none
    Obs = {o1}
    MaxRuns = 2
    Procs <- OneCommand
    None = none
    Controller = controller
    MaxProcessingAttempts = 2
    MaxParallel = 1
    LegacyObs = {}
    Losable = {}
    DockerFaults = FALSE
PROPERTY
    SupersededProductsRetained
