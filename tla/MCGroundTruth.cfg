\* Three versions of one template, two approved already; two calls.
CONSTANTS
    Versions = {g1, g2, g3}
    Validations = {v1, v2}
    Template <- OneTemplate
    Content <- Corpora
    Settled = {g2, g3}
    Calls = {c1, c2}
    None = None
    Faults = {"batch_rejected", "batch_ambiguous", "evidence_lost"}
SPECIFICATION TruthSpec
SYMMETRY TruthSymmetry
INVARIANTS ApprovedOnReport SupersessionEnds
CHECK_DEADLOCK FALSE
