SPECIFICATION SentLiveSpec
CONSTANTS
    alice = alice
    ALICE = ALICE
    bob = bob
    None = None
    Requests = {r1, r2}
    Addresses = {alice, bob}
    normalizeAddress <- LowerCase
    Txs = {t1}
    Gifts = {g1}
    GiftRecallableAfter = 1
    MaxTime = 2
PROPERTIES BatchSettles
