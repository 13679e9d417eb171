\* Two tasks report at the same time, answers get lost, and the entry is reloaded.
SPECIFICATION Spec
CONSTANTS
    c1 = c1
    c2 = c2
    f1 = f1
    f2 = f2
    Calls = {c1, c2}
    Fingerprints = {f1, f2}
    Cap = 2
    Cooldown = 2
    Window = 2
    Latency = 1
    MaxLost = 1
    Horizon = 2
    MaxReloads = 1
    MaxIssues = 4
SYMMETRY Symmetry
INVARIANTS
    TypeOK
    
    IssuesBounded
    DedupUnlessOverlapped
