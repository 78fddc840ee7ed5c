SPECIFICATION LiveSpec
CONSTANTS
    Requests = {r1, r2}
    DurationRuns = {d1}
    CleanupRuns = {c1}
    Sessions = {s1}
    Users = {u1, u2}
    None = None
    MaxAge = 0
    MaxTime = 1
    MaxEvents = 2
INVARIANTS TypeOK CountersBounded
PROPERTIES SettledDuration OwnerIsFinal OldSessionsEnd
