\* One model, two releases of it, and the runs that are their evidence.
CONSTANTS
    g1 = g1
    m1 = m1
    r1 = r1
    r2 = r2
    e1 = e1
    e2 = e2
    Versions = {g1, g2}
    Validations = {v1}
    Template <- OneTemplate
    Content <- Corpora
    Settled = {g1, g2}
    Calls = {c1}
    Models = {m1}
    Releases = {r1, r2}
    Runs = {e1, e2, e3, e4}
    Approved = {}
    Pins <- OneModel
    Asks <- RunInputs
    Deciders = {d1, d2}
    None = None
    Faults = {"batch_rejected"}
SPECIFICATION Spec
SYMMETRY DeciderSymmetry
INVARIANT ActiveModelApproved
PROPERTIES ReleaseSuccession DecidedOnEvidence
CHECK_DEADLOCK FALSE
