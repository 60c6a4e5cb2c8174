SPECIFICATION Spec
CONSTANTS
    Engines = {e1, e2}
    e1 = e1
    e2 = e2
    Services = {m1, m2}
    m1 = m1
    m2 = m2
    s1 = s1
    unsafe = unsafe
    Observed <- MCObserved
    UnsafeSteps = {unsafe}
    CooldownCycles = 3
    Bounds <- MCBounds
SYMMETRY EngineSymmetry
INVARIANT CooldownLastsCycles
