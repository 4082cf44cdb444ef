SPECIFICATION Spec
CONSTANTS
    Threads = {"s", "t"}
    MayFail = {"env", "rules"}
    Discipline = "quiet"
INVARIANT LoadedMeansReady
