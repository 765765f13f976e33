\* A sampling job of two sources and an evaluation, two leases.
CONSTANTS
    j1 = j1
    j2 = j2
    Jobs = {j1, j2}
    JobType <- Types
    Tokens = {t1, t2}
    SourceCount <- Counts
    PerSource = 3
    FrameLimit = 3
    None = None
    Faults = {"call_fails", "answer_lost", "crash"}
SPECIFICATION FairRunnerSpec
INVARIANTS BudgetSuffices TurnsTaken
PROPERTY AbandonedRunsOut
