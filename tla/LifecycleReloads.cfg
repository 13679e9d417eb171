\* Two entries, two forms, and two devices of which one has a name that fits.
SPECIFICATION FlowSpec
CONSTANTS
    e1 = e1
    e2 = e2
    t1 = t1
    u1 = u1
    u2 = u2
    k1 = k1
    k2 = k2
    Entries = {e1, e2}
    Calls = {t1}
    Units = {u1, u2}
    Named = {u1}
    Flows = {k1, k2}
    MaxCoordinators = 2
    MaxOptions = 1
    MaxSetUps = 2
    MaxChanges = 1
SYMMETRY Symmetry
INVARIANTS
    TypeOK
    FlowTypeOK
    LoadedIsStored
    PolledBeforeUse
    HeardIsUsed
    OnePrompt
    ReporterAsAsked
PROPERTIES
    EntriesKept
CHECK_DEADLOCK FALSE
