SPECIFICATION Spec
CONSTANTS
    MaxIterations = 4
    FailureThreshold = 3
    StepThreshold = 2
    ErrorTypes = {"runtime_error"}
    MaxSteps = 2
    MaxRuns = 2
INVARIANT RetryIsDeprioritized
