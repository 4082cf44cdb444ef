SPECIFICATION Spec
CONSTANTS
    Threads = {"s", "t", "u"}
    MayFail <- ReportedCalls
    Discipline = "quiet"
INVARIANTS NothingLeaks CodeBehindCallout LoadedMeansReady RulesOutliveReaders
