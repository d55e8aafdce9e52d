SPECIFICATION Spec
CONSTANTS
    Configs <- MCConfigs
    MaxAge = 2
    MaxTime = 5
    MaxVersion = 2
    MaxLosses = 1
INVARIANTS TypeOK AsksWhereItIs ShownIsRecent
PROPERTIES PageRecovers
CHECK_DEADLOCK FALSE
