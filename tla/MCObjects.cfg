\* Two attempts, a frame image and a policy under two clerks; one sweep.
CONSTANTS
    Policies = {p1}
    Definitions = {d1, d2}
    Clerks = {c1, c2}
    Attempts = {a1, a2}
    Uploads = {u1}
    Sweeps = {s1}
    None = None
    Faults = {}
SPECIFICATION RegistrationSpec
SYMMETRY RegistrationSymmetry
INVARIANTS RegisteredHasBytes LiveUploadKept AnsweredDefinitionStands
PROPERTY PolicyOnlyForward
CHECK_DEADLOCK FALSE
