\* Liveness without platform failures: runners may vanish, nobody else does.
CONSTANTS
    Jobs = {1}
    Claims = {c1, c2, c3}
    Requests = {r1}
    Runners = {n1}
    None = None
    JobType <- AllSampling
    MaxAttempts = 2
    AttemptLimit = 2
    LeaseSeconds = {1}
    MaxClock = 0
    Faults = {}
SPECIFICATION FairSpec
PROPERTIES JobSettles CancellationTerminates
CHECK_DEADLOCK FALSE
