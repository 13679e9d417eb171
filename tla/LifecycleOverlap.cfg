\* A write goes on while its unit is reloaded.
SPECIFICATION Spec
CONSTANTS
    e1 = e1
    t1 = t1
    Entries = {e1}
    Calls = {t1}
    MaxCoordinators = 2
    MaxOptions = 1
INVARIANTS
    NoOverlap
CHECK_DEADLOCK FALSE
