SPECIFICATION Spec
CONSTANTS
    Threads = {"s", "t"}
    MayFail = {}
    Discipline = "disabled"
INVARIANT RulesOutliveReaders
