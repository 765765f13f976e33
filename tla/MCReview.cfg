\* One campaign, one frame, two calls at a time, one renewed token per person.
CONSTANTS
    Campaigns = {c1}
    Frames = {f1}
    Contents <- FrameContents
    Blank <- NoObjects
    Agree <- RealAgree
    Overlap <- Near
    Valid <- UniqueIds
    Drafts <- ReviewDrafts
    MaxTokens <- Renewed
    Unsettled = {"reviewer-b", "adjudicator"}
    Calls = {k1, k2}
    Bound = {"adjudicator"}
    None = None
    Faults = {"batch_fails", "batch_ambiguous"}
SPECIFICATION Spec
SYMMETRY ReviewSymmetry
INVARIANTS ComparisonIsFinal ResultStored DisagreementIsReal
PROPERTY WritesAreCurrent
CHECK_DEADLOCK FALSE
