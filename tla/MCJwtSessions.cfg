SPECIFICATION Spec
CONSTANTS
    None = None
    Calls = {c1, c2}
    Users = {alice}
    Secrets = {s1, s2}
    Ids = {i1, i2, i3}
    AccessExpiresIn = 2
    RefreshExpiresIn = 3
    Require2FA = FALSE
    MaxTime = 2
SYMMETRY Symmetry
INVARIANT TypeOK
PROPERTIES LoggedOutUntilSignin SupersededIsFinal SecondFactorKept
CHECK_DEADLOCK FALSE
