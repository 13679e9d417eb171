\* A transport error on a poll.
SPECIFICATION Spec
CONSTANTS
    poll = poll
    write = write
    Writers = {write}
    Raws = {}
    Values = {on, off}
    None = None
    Reporting = TRUE
    MaxFailures = 1
    MaxChanges = 1
INVARIANTS
    NoRoutineReports
