\* A poll, a writer and a raw command share the unit, until nothing changes.
SPECIFICATION FairSpec
CONSTANTS
    poll = poll
    write = write
    raw = raw
    Writers = {write}
    Raws = {raw}
    Values = {on, off}
    None = None
    Reporting = TRUE
    MaxFailures = 1
    MaxChanges = 2
INVARIANTS
    TypeOK
    RefreshPlanned
    ConnectedIsConfirmed
PROPERTIES
    NeverGoesBack
    Corrected
