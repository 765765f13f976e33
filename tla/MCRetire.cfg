\* One frame set under review, archived twice, cancelled, swept by two.
CONSTANTS
    FrameSets = {f1}
    Models = {}
    Artifacts = {1, 2}
    Payload <- Payloads
    Runs = {}
    Archives = {k1, k2}
    Cancels = {x1, x2}
    Sweeps = {s1, s2}
    Mortal = {}
    Slow = {s1, s2}
    Limit = 1
    None = None
    Faults = {"purge_errors"}
SPECIFICATION Spec
SYMMETRY RetentionSymmetry
INVARIANTS NeededPayloadKept DeletedOnce ClosedMeansGone CancelRestores
