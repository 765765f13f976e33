\* A sampling and an evaluation job, two claims, two calls in flight; INSERTs
\* and batches may fail, and a claim's Worker may die.
CONSTANTS
    Jobs = {1, 2}
    Claims = {c1, c2}
    Requests = {r1, r2}
    Runners = {n1}
    None = None
    JobType <- Mixed
    MaxAttempts = 2
    AttemptLimit = 2
    LeaseSeconds = {1}
    MaxClock = 1
    Faults = {"insert_rejected", "batch_rejected", "crash"}
SPECIFICATION Spec
SYMMETRY CallSymmetry
INVARIANTS TypeOK ExclusiveLease FreshAttemptNumber AttemptsCounted ReportDurable
PROPERTIES CancellationWins NoEarlyTakeover KeepsContract
CHECK_DEADLOCK FALSE
