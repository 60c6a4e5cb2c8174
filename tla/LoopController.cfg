SPECIFICATION Spec
CONSTANTS
    MaxIterations = 4
    FailureThreshold = 3
    StepThreshold = 2
    ErrorTypes = {"runtime_error", "policy_violation", "invalid_plan"}
    MaxSteps = 2
    MaxRuns = 2
INVARIANTS
    ProgressMatchesPlan
    DecisionsAreFollowed
    NothingCountedTwice
    EndIsExplained
