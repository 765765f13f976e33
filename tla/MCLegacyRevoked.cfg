\* A creation, a revocation and one call of the reviewer it is about.
CONSTANTS
    Frames = {f1}
    Answers = {x}
    Agreed <- Same
    Calls = {c1, c2, c3}
    None = None
SPECIFICATION LegacySpec
INVARIANT RevocationStands
CHECK_DEADLOCK FALSE
