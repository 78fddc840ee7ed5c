SPECIFICATION AliceSpec
CONSTANTS
    alice = alice
    bob = bob
    BOB = BOB
    carol = carol
    None = None
    Zero = Zero
    Calls = {c1, c2}
    Addresses = {alice, bob, BOB, carol}
    normalizeAddress <- LowerCase
    Names = {n1}
    Amounts = {a1}
    Slots = {s1, s2}
    GroupIds = {g1}
    PaymentIds = {p1}
    RequestIds = {i1, i2, i3}
SYMMETRY Symmetry
INVARIANTS TypeOK DuplicatesBounded AskedTogether
PROPERTIES GroupSpec
CHECK_DEADLOCK FALSE
