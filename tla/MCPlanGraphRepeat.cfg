SPECIFICATION Spec
CONSTANTS
    N = 3
    MaxMentions = 2
    Dependencies <- MCDependencies
INVARIANT CycleErrorMeansCycle
