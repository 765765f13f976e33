\* Two newcomers, one link, the administrator token; two calls that may
\* both be updates.
CONSTANTS
    People = {o, p}
    Established = {}
    Tokens = {t1}
    Sessions = {s1, s2}
    any = any
    change = change
    Calls = {any, change}
    Does <- WhoDoes
    RoleSets <- RequestedRoles
    Ageing = {t1, s1, s2}
    Legacy = TRUE
    None = None
    Faults = {"mail_fails"}
SPECIFICATION Spec
SYMMETRY IdentitySymmetry
INVARIANTS LinkUsedOnce DisabledHasNoSession VerifiedByMail DutiesSeparated
PROPERTY OwnerLostOnlyToOverlap
