SPECIFICATION Spec
CONSTANTS
    Threads = {"s", "t"}
    MayFail = {"commit"}
    Discipline = "quiet"
INVARIANT NothingLeaks
