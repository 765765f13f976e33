\* One sampling job, two leases, two artifacts, two calls in flight.
CONSTANTS
    Jobs = {1}
    Claims = {c1, c2}
    Requests = {r1}
    Runners = {n1}
    None = None
    JobType <- AllSampling
    MaxAttempts = 2
    AttemptLimit = 2
    LeaseSeconds = {1}
    MaxClock = 0
    Faults = {"batch_rejected", "batch_ambiguous"}
    Artifacts = {a1, a2}
    Calls = {p1, p2}
    Repeats = {}
SPECIFICATION PipelineSpec
SYMMETRY PipelineSymmetry
INVARIANTS EvidenceKept FrameSetIsOutcome NoStrayManifest
PROPERTIES PipelineKeepsContract
CHECK_DEADLOCK FALSE
