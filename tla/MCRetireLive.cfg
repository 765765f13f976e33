\* A frame set of more payloads than one sweep deletes, a model and an
\* evaluation of the two; no failure but one sweep that may die at any step.
CONSTANTS
    FrameSets = {f1}
    Models = {m1}
    Artifacts = {1, 2, 3}
    Payload <- Payloads
    Runs = {e1}
    Archives = {k1}
    Cancels = {x1}
    Sweeps = {s1, s2}
    Mortal = {s1}
    Slow = {}
    Limit = 1
    None = None
    Faults = {}
SPECIFICATION LiveSpec
PROPERTY DueIsReclaimed
