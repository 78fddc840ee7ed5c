SPECIFICATION Spec
CONSTANTS
    None = None
    Calls = {c1, c2}
    Users = {alice}
    Admin = admin
    Passwords = {p1, p2}
    Codes = {k0, k1, k2}
    SeedCode = k0
    Uuids = {t1, t2}
    RequireReferral = TRUE
    AllowsSandbox = TRUE
    MaxUsage = 2
SYMMETRY Symmetry
INVARIANTS TypeOK UsesWereIssued
PROPERTIES ActiveIsFinal OnlyRestoreChangesPassword MailedLinkStands
CHECK_DEADLOCK FALSE
