SPECIFICATION SeededSpec
CONSTANTS
    Requests = {r1, r2}
    Wallets = {w1}
    Keys = {k1}
    Codes = {}
    Tokens = {t1, t2}
    None = None
    MAX_KEYS_PER_WALLET = 1
    MAX_SESSIONS_PER_KEY = 1
    CHALLENGE_EXPIRY = 1
    SESSION_EXPIRY = 1
    KEY_EXPIRY = 1
    KeyLifetimes = {0, 1}
    MaxTime = 0
SYMMETRY Symmetry
PROPERTIES RevokeKeysEndsSessions
