SPECIFICATION Spec
CONSTANTS
    Config = {"a", "b"}
    Outcomes = {"end", "trap"}
    MaxRuns = 2
INVARIANT FedExact
PROPERTY EventuallyTold
CHECK_DEADLOCK FALSE
