CONSTANTS
    NoRecord = NoRecord
    Users = {u1}
    Requests = {1, 2}
    Posts = {p1}
    SignTtl = 2
    Limits = {1}
    GrantTicks = 1
    MaxAnswers = 2
    Plans <- OverLimitSend
SPECIFICATION Spec
INVARIANTS
    SpentWithinLimit
