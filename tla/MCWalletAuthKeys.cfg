SPECIFICATION Spec
CONSTANTS
    Requests = {r1, r2}
    Wallets = {w1, w2}
    Keys = {k1, k2, k3}
    Codes = {c1}
    Tokens = {t1}
    None = None
    MAX_KEYS_PER_WALLET = 1
    MAX_SESSIONS_PER_KEY = 1
    CHALLENGE_EXPIRY = 1
    SESSION_EXPIRY = 1
    KEY_EXPIRY = 1
    KeyLifetimes = {0, 1}
    MaxTime = 2
SYMMETRY Symmetry
INVARIANTS SessionKeyConsistent ActiveKeysBounded
PROPERTIES RevocationIsFinal SpentChallengeIsFinal
