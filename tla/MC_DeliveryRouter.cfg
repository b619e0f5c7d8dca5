SPECIFICATION Spec
CONSTANTS
    t1 = t1
    t2 = t2
    Task = {t1, t2}
    NumSinks = 3
    Runner = {r1, r2}
    Main = main
    SinkTarget <- Sinks
    PayloadRoute <- Routes
    MaxCrashes = 1
    MaxFailures = 2
    Fault = {"store", "double"}
SYMMETRY Symmetry
CHECK_DEADLOCK FALSE
INVARIANTS
    AtMostOnce
    ZombieOnlyByCrash
    Served
    ProgressStaysOnRoute
