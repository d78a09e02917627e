CONSTANTS
    minInterval = 4
    maxInterval = 8
    startInterval = 6
    INTERVAL_STEP_S = 2
    UIntMax = 15
    Setters = {s1, s2}
    SetValues = {1, 6, 12}
    MaxSets = 2
SPECIFICATION Spec
INVARIANTS WithinOneSecond OneStepApart
PROPERTY CollectorRunsForever
