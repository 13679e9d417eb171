\* Two tasks report the same error.
SPECIFICATION Spec
CONSTANTS
    c1 = c1
    c2 = c2
    f1 = f1
    Calls = {c1, c2}
    Fingerprints = {f1}
    Cap = 2
    Cooldown = 2
    Window = 2
    Latency = 1
    MaxLost = 0
    Horizon = 2
    MaxReloads = 0
    MaxIssues = 2
SYMMETRY Symmetry
INVARIANTS
    DedupWithinCooldown
