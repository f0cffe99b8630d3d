SPECIFICATION Spec
CONSTANTS
    NumEvents = 4
    PageSize = 2
INVARIANT StoredCrashesRecovered
CHECK_DEADLOCK FALSE
