SPECIFICATION AnswersSpec
CONSTANTS
    alice = alice
    bob = bob
    BOB = BOB
    carol = carol
    None = None
    Zero = Zero
    Calls = {c1, c2, c3}
    Addresses = {alice, bob, carol, dave}
    normalizeAddress <- LowerCase
    Names = {n1}
    Amounts = {a1}
    Slots = {s1, s2, s3}
    GroupIds = {g1}
    PaymentIds = {p1}
    RequestIds = {i1, i2, i3}
INVARIANTS CompletedIsPaid AcceptedInProgress
PROPERTIES AnswerIsFinal AcceptedCompletes
CHECK_DEADLOCK FALSE
