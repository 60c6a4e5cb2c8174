SPECIFICATION OrchestrationSpec
CONSTANTS
    N = 2
    MaxAttempts = 2
    Threshold = 70
    Limit = 10
    Priors <- MCPriors
INVARIANTS
    CopiesAreBounded
    ReturnedRunIsOnRecord
    
    ResultAgreesWithMemory
