SPECIFICATION Spec
CONSTANTS
    Runners = {"g1", "g2"}
    Rows = {w1}
    Schemas = {"prod", "stage"}
    Deployments <- MCDeployments
    MonthDelta = 1
    MonthLength = 1
    MaxTime = 1
    MaxFails = 2
INVARIANTS TypeOK RowsAreKept
PROPERTIES MonthIsServed
CHECK_DEADLOCK FALSE
