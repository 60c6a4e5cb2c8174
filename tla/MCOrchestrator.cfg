SPECIFICATION Spec
CONSTANTS
    N = 4
    MaxApproved = 2
    CustomReports <- MCCustomReports
INVARIANTS
    RunnerTypeOK
    RanAfterAncestors
    NothingRunsAfterFailure
    SkipsAreJustified
    ReportIsTruthful
    CompletedRunIsWhole
    EveryEndIsExplained
    RetriesAreBounded
    DefaultReportsValidate
    MemoryMatchesReport
PROPERTIES
    SettledIsFinal
    RunReturns
