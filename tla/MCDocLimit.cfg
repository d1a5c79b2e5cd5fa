CONSTANTS
    Tasks = {t1, t2}
    Daily = 2
    Rate = 1
    ProjectRate = 1
    Lifetime = 1
    DayLength = 2
    MaxSecond = 3
SPECIFICATION Spec
INVARIANTS
    WithinLimits
CHECK_DEADLOCK FALSE
