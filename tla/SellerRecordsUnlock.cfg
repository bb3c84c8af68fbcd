SPECIFICATION RecordsSpec
CONSTANTS
    Buys = {}
    MaxRecordCmds = 1
    MaxRecordFaults = 0
INVARIANT UnlockSurvivesSyncs
CHECK_DEADLOCK FALSE
