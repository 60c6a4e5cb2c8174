SPECIFICATION Spec
CONSTANTS
    N = 4
    MaxMentions = 2
    Dependencies <- MCDependencies
INVARIANTS
    PlanIsLevelled
    SearchFindsCycles
    CycleErrorIsRight
PROPERTY PlanningEnds
