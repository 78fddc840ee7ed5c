SPECIFICATION Spec
CONSTANTS
    alice = alice
    bob = bob
    BOB = BOB
    bobby = bobby
    bobbySpace = bobbySpace
    carol = carol
    None = None
    Requests = {r1, r2}
    Addresses = {alice, bob, BOB, carol}
    normalizeAddress <- LowerCase
    Names = {bobby, bobbySpace, other}
    Categories = {friends}
    sanitizeString <- Trimmed
    Ids = {i1, i2, i3}
SYMMETRY Symmetry
INVARIANTS TypeOK EntriesBounded
PROPERTIES TakenIsFinal
CHECK_DEADLOCK FALSE
