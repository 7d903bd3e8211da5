CONSTANTS
    Users = {a, b}
    NoRecord = none
    Identities = {d, e}
    EmailsOf <- MCEmailsOf
    Chats = {x, y}
    Calls = {c1, c2}
    Setups = {s}
    MaxCalls = 3
    MaxFaults = 1
    a = a
    b = b
    d = d
    e = e
SPECIFICATION Spec
SYMMETRY MCSymmetry
CHECK_DEADLOCK FALSE
INVARIANTS TypeOK LoneLoginsSucceed SignedInTogether
PROPERTY ApprovalKeepsChat
